----------------------------- MODULE BusProofs ------------------------------
(***************************************************************************)
(* The bus over any events, functions and subscriptions, to any depth of   *)
(* emissions inside emissions: who hears an event is who subscribed, and   *)
(* everyone who was to hear it does, once.                                 *)
(***************************************************************************)
EXTENDS Bus, SequenceTheorems, TLAPS

\* Each Set holds a function once.
HandlersOK ==
    /\ handlers \in [Event -> Seq(Handler)]
    /\ \A e \in Event : IsInjective(handlers[e])

\* A call of on() is in force, ended, or yet to come; what another one cut had
\* been made.
SubsOK ==
    /\ DOMAIN sub = Subscription
    /\ \A s \in Subscription :
          \/ sub[s] = Unused
          \/ \E e \in Event, h \in Handler, b \in BOOLEAN :
                sub[s] = [event |-> e, handler |-> h, subscribed |-> b]
    /\ \A s \in Subscription : s \in deaf => sub[s] # Unused

\* Called or still to call, a dispatch has everyone it owes, once.
Frame ==
    {f \in [event : Event \cup {None}, todo : Seq(Handler), called : Seq(Handler),
            inside : BOOLEAN, owed : SUBSET Handler] :
        IsInjective(f.called \o f.todo) /\ ToSet(f.called \o f.todo) = f.owed}

StackOK ==
    /\ stack \in Seq(Frame)
    /\ done = NoDispatch \/ (done \in Frame /\ done.todo = <<>>)

BInv == HandlersOK /\ SubsOK /\ StackOK /\ HeardIffSubscribed

-----------------------------------------------------------------------------
(* Sequences *)

LEMMA ToSetIs ==
    ASSUME NEW S, NEW p \in Seq(S)
    PROVE  /\ Len(p) \in Nat /\ DOMAIN p = 1 .. Len(p)
           /\ \A i \in 1 .. Len(p) : p[i] \in S
           /\ \A x : x \in ToSet(p) <=> \E i \in 1 .. Len(p) : p[i] = x
           /\ ToSet(p) \subseteq S
<1>1. /\ Len(p) \in Nat /\ DOMAIN p = 1 .. Len(p) /\ \A i \in 1 .. Len(p) : p[i] \in S
  BY LenProperties, ElementOfSeq
<1>2. QED
  BY <1>1 DEF ToSet

\* Taking a function out of a Set leaves the others, in their order.
LEMMA RemovedFacts ==
    ASSUME NEW p \in Seq(Handler), IsInjective(p), NEW h
    PROVE  /\ RemoveFirst(p, h) \in Seq(Handler) /\ IsInjective(RemoveFirst(p, h))
           /\ ToSet(RemoveFirst(p, h)) = ToSet(p) \ {h}
<1>1. /\ Len(p) \in Nat /\ DOMAIN p = 1 .. Len(p) /\ \A i \in 1 .. Len(p) : p[i] \in Handler
      /\ \A x : x \in ToSet(p) <=> \E i \in 1 .. Len(p) : p[i] = x
  BY ToSetIs
<1>2. CASE ~\E i \in 1 .. Len(p) : p[i] = h
  <2>1. RemoveFirst(p, h) = p
    BY <1>2 DEF RemoveFirst
  <2>2. QED
    BY <1>1, <1>2, <2>1
<1>3. CASE \E i \in 1 .. Len(p) : p[i] = h
  <2>1. PICK k \in 1 .. Len(p) : p[k] = h
    BY <1>3
  <2>2. {i \in 1 .. Len(p) : p[i] = h} = {k}
    BY <1>1, <2>1 DEF IsInjective
  <2>3. Min({k}) = k
    BY <2>1 DEF Min
  <2>4. SelectInSeq(p, LAMBDA v : v = h) = k
    BY <2>2, <2>3 DEF SelectInSeq
  <2>5. RemoveFirst(p, h) = RemoveAt(p, k)
    BY <1>3, <2>4 DEF RemoveFirst
  <2>6. PICK n \in Nat : n = Len(p) /\ n >= 1
    <3>1. Len(p) \in Nat /\ Len(p) >= 1
      BY <1>1, <2>1
    <3>2. QED
      BY <3>1
  <2>7. PICK a, b : a = SubSeq(p, 1, k - 1) /\ b = SubSeq(p, k + 1, n)
    OBVIOUS
  <2>8. /\ a \in Seq(Handler) /\ Len(a) = k - 1 /\ \A i \in 1 .. k - 1 : a[i] = p[i]
    <3>1. k - 1 \in Int /\ \A i \in 1 .. k - 1 : p[i] \in Handler
      BY <1>1, <2>1
    <3>2. QED
      BY <2>1, <2>7, <3>1, SubSeqProperties
  <2>9. b \in Seq(Handler) /\ Len(b) = n - k /\ \A i \in 1 .. n - k : b[i] = p[k + i]
    <3>1. k + 1 \in Int /\ n \in Int /\ \A i \in k + 1 .. n : p[i] \in Handler
      BY <1>1, <2>1, <2>6
    <3>2. /\ b \in Seq(Handler) /\ Len(b) = IF k + 1 <= n THEN n - (k + 1) + 1 ELSE 0
          /\ \A i \in 1 .. n - (k + 1) + 1 : b[i] = p[(k + 1) + i - 1]
      BY <2>7, <3>1, SubSeqProperties
    <3>3. Len(b) = n - k
      BY <2>1, <2>6, <3>2
    <3>4. ASSUME NEW i \in 1 .. n - k PROVE b[i] = p[k + i]
      <4>1. i \in 1 .. n - (k + 1) + 1 /\ (k + 1) + i - 1 = k + i
        BY <2>1, <2>6
      <4>2. QED
        BY <3>2, <4>1
    <3>5. QED
      BY <3>2, <3>3, <3>4
  <2>10. PICK q : q = RemoveFirst(p, h) /\ q = a \o b
    BY <2>5, <2>6, <2>7 DEF RemoveAt
  <2>11. /\ q \in Seq(Handler) /\ Len(q) = n - 1
         /\ \A i \in 1 .. n - 1 : q[i] = IF i < k THEN p[i] ELSE p[i + 1]
    <3>1. /\ q \in Seq(Handler) /\ Len(q) = Len(a) + Len(b)
          /\ \A i \in 1 .. Len(a) + Len(b) :
                q[i] = IF i <= Len(a) THEN a[i] ELSE b[i - Len(a)]
      <4>1. a \in Seq(Handler) /\ b \in Seq(Handler) /\ q = a \o b
        BY <2>8, <2>9, <2>10
      <4>2. QED
        BY <4>1, ConcatProperties
    <3>2. ASSUME NEW i \in 1 .. n - 1
          PROVE  q[i] = IF i < k THEN p[i] ELSE p[i + 1]
      <4>1. i \in 1 .. Len(a) + Len(b)
        BY <2>1, <2>6, <2>8, <2>9
      <4>2. CASE i < k
        <5>1. i <= Len(a) /\ i \in 1 .. k - 1
          BY <2>1, <2>8, <4>2
        <5>2. QED
          BY <2>8, <3>1, <4>1, <4>2, <5>1
      <4>3. CASE ~(i < k)
        <5>1. ~(i <= Len(a)) /\ i - Len(a) \in 1 .. n - k /\ k + (i - Len(a)) = i + 1
          BY <2>1, <2>6, <2>8, <4>3
        <5>2. q[i] = b[i - Len(a)] /\ b[i - Len(a)] = p[k + (i - Len(a))]
          BY <2>9, <3>1, <4>1, <5>1
        <5>3. QED
          BY <4>3, <5>1, <5>2
      <4>4. QED
        BY <4>2, <4>3
    <3>3. QED
      BY <2>1, <2>6, <2>8, <2>9, <3>1, <3>2
  <2>12. /\ DOMAIN q = 1 .. n - 1
         /\ \A x : x \in ToSet(q) <=> \E i \in 1 .. n - 1 : q[i] = x
    BY <2>11, ToSetIs
  <2>13. \A i \in 1 .. n - 1 : \E j \in 1 .. n :
            q[i] = p[j] /\ j # k /\ j = IF i < k THEN i ELSE i + 1
    <3>1. TAKE i \in 1 .. n - 1
    <3>2. PICK j \in 1 .. n : j = IF i < k THEN i ELSE i + 1
      BY <2>1, <2>6
    <3>3. j # k /\ q[i] = p[j]
      BY <2>1, <2>6, <2>11, <3>2
    <3>4. QED
      BY <3>2, <3>3
  <2>14. IsInjective(q)
    <3>1. ASSUME NEW i \in 1 .. n - 1, NEW j \in 1 .. n - 1, q[i] = q[j] PROVE i = j
      <4>1. PICK i2 \in 1 .. n : q[i] = p[i2] /\ i2 = IF i < k THEN i ELSE i + 1
        BY <2>13
      <4>2. PICK j2 \in 1 .. n : q[j] = p[j2] /\ j2 = IF j < k THEN j ELSE j + 1
        BY <2>13
      <4>3. i2 = j2
        BY ZenonT(30), <1>1, <2>6, <3>1, <4>1, <4>2 DEF IsInjective
      <4>4. QED
        BY <2>1, <2>6, <4>1, <4>2, <4>3
    <3>2. QED
      BY <2>12, <3>1 DEF IsInjective
  <2>15. ToSet(q) = ToSet(p) \ {h}
    <3>1. ASSUME NEW x \in ToSet(q) PROVE x \in ToSet(p) \ {h}
      <4>1. PICK j \in 1 .. n : x = p[j] /\ j # k
        BY <2>12, <2>13, <3>1
      <4>2. QED
        BY <1>1, <2>1, <2>6, <4>1 DEF IsInjective
    <3>2. ASSUME NEW x \in ToSet(p), x # h PROVE x \in ToSet(q)
      <4>1. PICK j \in 1 .. n : x = p[j] /\ j # k
        BY <1>1, <2>1, <2>6, <3>2
      <4>2. PICK i \in 1 .. n - 1 : j = IF i < k THEN i ELSE i + 1
        <5>1. CASE j < k
          <6>1. j \in 1 .. n - 1
            BY <2>1, <2>6, <5>1
          <6>2. QED
            BY <5>1, <6>1
        <5>2. CASE ~(j < k)
          <6>1. j - 1 \in 1 .. n - 1 /\ ~(j - 1 < k) /\ (j - 1) + 1 = j
            BY <2>1, <2>6, <4>1, <5>2
          <6>2. QED
            BY <6>1
        <5>3. QED
          BY <5>1, <5>2
      <4>3. q[i] = x
        BY <2>11, <4>1, <4>2
      <4>4. QED
        BY <2>12, <4>3
    <3>3. QED
      BY <3>1, <3>2
  <2>16. QED
    BY <2>10, <2>11, <2>14, <2>15
<1>4. QED
  BY <1>2, <1>3

\* Adding one that is not there.
LEMMA AppendedFacts ==
    ASSUME NEW p \in Seq(Handler), IsInjective(p), NEW h \in Handler, h \notin ToSet(p)
    PROVE  /\ Append(p, h) \in Seq(Handler) /\ IsInjective(Append(p, h))
           /\ ToSet(Append(p, h)) = ToSet(p) \cup {h}
<1>1. PICK q : q = Append(p, h)
  OBVIOUS
<1>0. PICK n \in Nat : n = Len(p)
  BY ToSetIs
<1>2. /\ q \in Seq(Handler) /\ Len(q) = n + 1 /\ q[n + 1] = h
      /\ \A i \in 1 .. n : q[i] = p[i]
  BY <1>0, <1>1, AppendProperties
<1>3. /\ DOMAIN p = 1 .. n /\ DOMAIN q = 1 .. n + 1
      /\ \A x : x \in ToSet(p) <=> \E i \in 1 .. n : p[i] = x
      /\ \A x : x \in ToSet(q) <=> \E i \in 1 .. n + 1 : q[i] = x
  <2>1. DOMAIN p = 1 .. n /\ \A x : x \in ToSet(p) <=> \E i \in 1 .. n : p[i] = x
    BY <1>0, ToSetIs
  <2>2. /\ DOMAIN q = 1 .. n + 1
        /\ \A x : x \in ToSet(q) <=> \E i \in 1 .. n + 1 : q[i] = x
    BY <1>2, ToSetIs
  <2>3. QED
    BY <2>1, <2>2
<1>4. \A i \in 1 .. n + 1 : i \in 1 .. n \/ i = n + 1
  OBVIOUS
<1>5. \A i \in 1 .. n : i \in 1 .. n + 1
  OBVIOUS
<1>6. n + 1 \in 1 .. n + 1
  OBVIOUS
<1>7. IsInjective(q)
  BY <1>2, <1>3, <1>4 DEF IsInjective
<1>8. ToSet(q) = ToSet(p) \cup {h}
  BY <1>2, <1>3, <1>4, <1>5, <1>6
<1>9. QED
  BY <1>1, <1>2, <1>7, <1>8

\* To move the next function from those to call to those called changes
\* neither their order nor who they are.
LEMMA MovingOn ==
    ASSUME NEW c \in Seq(Handler), NEW t \in Seq(Handler), t # <<>>
    PROVE  /\ Append(c, Head(t)) \in Seq(Handler) /\ Tail(t) \in Seq(Handler)
           /\ Append(c, Head(t)) \o Tail(t) = c \o t
<1>1. Head(t) \in Handler /\ Tail(t) \in Seq(Handler)
  BY HeadTailProperties
<1>2. Append(c, Head(t)) = c \o <<Head(t)>> /\ Append(c, Head(t)) \in Seq(Handler)
  BY <1>1, AppendIsConcat, AppendProperties
<1>3. <<Head(t)>> \in Seq(Handler)
  BY <1>1
<1>4. (c \o <<Head(t)>>) \o Tail(t) = c \o (<<Head(t)>> \o Tail(t))
  BY <1>1, <1>3, ConcatAssociative
<1>5. <<Head(t)>> \o Tail(t) = t
  <2>1. PICK u : u = <<Head(t)>> /\ u \in Seq(Handler) /\ Len(u) = 1 /\ u[1] = Head(t)
    <3>1. Len(<<Head(t)>>) = 1 /\ <<Head(t)>>[1] = Head(t)
      OBVIOUS
    <3>2. QED
      BY <1>3, <3>1
  <2>2. PICK v : v = Tail(t) /\ v \in Seq(Handler) /\ Len(v) = Len(t) - 1
                 /\ \A i \in 1 .. Len(v) : v[i] = t[i + 1]
    BY <1>1, HeadTailProperties
  <2>3. PICK n \in Nat : n = Len(t)
    BY LenProperties
  <2>4. n >= 1 /\ t[1] = Head(t)
    BY <2>3, EmptySeq
  <2>5. /\ u \o v \in Seq(Handler) /\ Len(u \o v) = Len(u) + Len(v)
        /\ \A i \in 1 .. Len(u) + Len(v) :
              (u \o v)[i] = IF i <= Len(u) THEN u[i] ELSE v[i - Len(u)]
    BY <2>1, <2>2, ConcatProperties
  <2>6. Len(u) + Len(v) = n
    BY <2>1, <2>2, <2>3
  <2>7. ASSUME NEW i \in 1 .. n PROVE (u \o v)[i] = t[i]
    <3>1. CASE i = 1
      BY <2>1, <2>4, <2>5, <2>6, <3>1
    <3>2. CASE i # 1
      <4>1. i - 1 \in 1 .. Len(v) /\ ~(i <= Len(u)) /\ (i - 1) + 1 = i /\ i - Len(u) = i - 1
        BY <2>1, <2>2, <2>3, <3>2
      <4>2. (u \o v)[i] = v[i - 1] /\ v[i - 1] = t[(i - 1) + 1]
        BY <2>2, <2>5, <2>6, <4>1
      <4>3. QED
        BY <4>1, <4>2
    <3>3. QED
      BY <3>1, <3>2
  <2>8. u \o v = t
    <3>1. Len(u \o v) = Len(t) /\ \A i \in 1 .. Len(u \o v) : (u \o v)[i] = t[i]
      BY <2>3, <2>5, <2>6, <2>7
    <3>2. QED
      BY <2>5, <3>1, SeqEqual
  <2>9. QED
    BY <2>1, <2>2, <2>8
<1>6. QED
  BY <1>1, <1>2, <1>4, <1>5

-----------------------------------------------------------------------------
(* What a state of the bus comes to *)

LEMMA HearingIs ==
    ASSUME NEW e, NEW x
    PROVE  x \in Hearing(e)
           <=> \E t \in Subscription :
                  /\ sub[t].subscribed /\ t \notin deaf
                  /\ sub[t].event = e /\ sub[t].handler = x
BY DEF Hearing, Live

\* The topmost dispatch, and what putting another in its place gives.
LEMMA TopIs ==
    ASSUME StackOK, stack # <<>>
    PROVE  /\ Top \in Frame
           /\ \A f \in Frame : [stack EXCEPT ![Len(stack)] = f] \in Seq(Frame)
<1>1. PICK p : p = stack /\ p \in Seq(Frame) /\ p # <<>>
  BY DEF StackOK
<1>2. Len(p) \in 1 .. Len(p)
  BY <1>1, EmptySeq, LenProperties
<1>3. p[Len(p)] \in Frame
  BY <1>1, <1>2, ElementOfSeq
<1>4. ASSUME NEW f \in Frame PROVE [p EXCEPT ![Len(p)] = f] \in Seq(Frame)
  BY <1>1, <1>2, ExceptSeq
<1>5. QED
  BY <1>1, <1>3, <1>4 DEF Top

\* A dispatch in which nothing moved but whether it is inside a handler.
LEMMA Reframed ==
    ASSUME NEW f \in Frame, NEW b \in BOOLEAN
    PROVE  [f EXCEPT !.inside = b] \in Frame
BY DEF Frame

\* What on() was called with, its flag apart.
LEMMA Flagged ==
    ASSUME NEW e, NEW h, NEW b, NEW c
    PROVE  [[event |-> e, handler |-> h, subscribed |-> b] EXCEPT !.subscribed = c]
              = [event |-> e, handler |-> h, subscribed |-> c]
OBVIOUS

LEMMA SameCall ==
    ASSUME NEW e, NEW h, NEW e2, NEW h2
    PROVE  [event |-> e2, handler |-> h2, subscribed |-> TRUE]
              = [event |-> e, handler |-> h, subscribed |-> TRUE]
           <=> e2 = e /\ h2 = h
OBVIOUS

\* A function called.
LEMMA CalledFrame ==
    ASSUME NEW f \in Frame, f.todo # <<>>
    PROVE  [f EXCEPT !.inside = TRUE, !.called = Append(@, Head(f.todo)), !.todo = Tail(f.todo)]
               \in Frame
<1>1. PICK g : g = [f EXCEPT !.inside = TRUE, !.called = Append(@, Head(f.todo)),
                             !.todo = Tail(f.todo)]
  OBVIOUS
<1>2. f.called \in Seq(Handler) /\ f.todo \in Seq(Handler)
  BY DEF Frame
<1>3. PICK c, t : /\ c = Append(f.called, Head(f.todo)) /\ t = Tail(f.todo)
                  /\ c \in Seq(Handler) /\ t \in Seq(Handler)
                  /\ c \o t = f.called \o f.todo
  BY ZenonT(30), <1>2, MovingOn
<1>4. /\ f = [event |-> f.event, todo |-> f.todo, called |-> f.called,
              inside |-> f.inside, owed |-> f.owed]
      /\ f.event \in Event \cup {None} /\ f.owed \in SUBSET Handler
  BY DEF Frame
<1>5. g = [event |-> f.event, todo |-> t, called |-> c, inside |-> TRUE, owed |-> f.owed]
  BY <1>1, <1>3, <1>4
<1>6. IsInjective(c \o t) /\ ToSet(c \o t) = f.owed
  BY <1>3 DEF Frame
<1>7. QED
  BY <1>1, <1>3, <1>4, <1>5, <1>6 DEF Frame

-----------------------------------------------------------------------------
(* Each action keeps the invariant *)

LEMMA BInit ==
    ASSUME Init
    PROVE  BInv
<1>1. HandlersOK
  <2>1. handlers \in [Event -> Seq(Handler)] /\ \A e \in Event : handlers[e] = <<>>
    BY DEF Init
  <2>2. IsInjective(<<>>)
    BY DEF IsInjective
  <2>3. QED
    BY <2>1, <2>2 DEF HandlersOK
<1>2. SubsOK
  BY DEF Init, SubsOK
<1>3. StackOK
  BY DEF Init, StackOK
<1>4. HeardIffSubscribed
  <2>1. ASSUME NEW e \in Event PROVE ToSet(handlers[e]) = Hearing(e)
    <3>1. ToSet(handlers[e]) = {}
      BY DEF Init, ToSet
    <3>2. \A s \in Subscription : ~sub[s].subscribed
      BY DEF Init, Unused
    <3>3. Hearing(e) = {}
      BY <3>2 DEF Hearing, Live
    <3>4. QED
      BY <3>1, <3>3
  <2>2. QED
    BY <2>1 DEF HeardIffSubscribed
<1>5. QED
  BY <1>1, <1>2, <1>3, <1>4 DEF BInv

\* Nothing was subscribed or ended, and the dispatches are dispatches.
LEMMA StackMoves ==
    ASSUME BInv, UNCHANGED <<handlers, sub, deaf>>, stack' \in Seq(Frame),
           done' = NoDispatch \/ (done' \in Frame /\ done'.todo = <<>>)
    PROVE  BInv'
<1>1. HandlersOK' /\ SubsOK' /\ StackOK'
  BY DEF BInv, HandlersOK, SubsOK, StackOK
<1>2. HeardIffSubscribed'
  BY DEF BInv, HeardIffSubscribed, Hearing, Live
<1>3. QED
  BY <1>1, <1>2 DEF BInv

LEMMA OnKeeps ==
    ASSUME BInv, NEW s \in Subscription, NEW e \in Event, NEW h \in Handler, On(s, e, h)
    PROVE  BInv'
<1>1. /\ sub[s] = Unused /\ handlers' = [handlers EXCEPT ![e] = Added(e, h)]
      /\ sub' = [sub EXCEPT ![s] = [event |-> e, handler |-> h, subscribed |-> TRUE]]
      /\ done' = NoDispatch /\ stack' = stack /\ deaf' = deaf
  BY DEF On
<1>2. /\ handlers \in [Event -> Seq(Handler)] /\ handlers[e] \in Seq(Handler)
      /\ IsInjective(handlers[e])
  BY DEF BInv, HandlersOK
<1>3. PICK q : /\ q = Added(e, h) /\ q \in Seq(Handler) /\ IsInjective(q)
               /\ ToSet(q) = ToSet(handlers[e]) \cup {h}
  <2>1. CASE h \in ToSet(handlers[e])
    BY <1>2, <2>1 DEF Added
  <2>2. CASE h \notin ToSet(handlers[e])
    <3>1. Added(e, h) = Append(handlers[e], h)
      BY <2>2 DEF Added
    <3>2. QED
      BY <1>2, <2>2, <3>1, AppendedFacts
  <2>3. QED
    BY <2>1, <2>2
<1>4. HandlersOK'
  BY <1>1, <1>3 DEF BInv, HandlersOK
<1>5. /\ sub'[s] = [event |-> e, handler |-> h, subscribed |-> TRUE]
      /\ \A t \in Subscription \ {s} : sub'[t] = sub[t]
      /\ DOMAIN sub' = Subscription
  BY <1>1 DEF BInv, SubsOK
<1>6. s \notin deaf /\ ~sub[s].subscribed
  BY <1>1 DEF BInv, SubsOK, Unused
<1>7. SubsOK'
  <2>1. \A t \in Subscription : t \in deaf => sub'[t] # Unused
    BY <1>5, <1>6 DEF BInv, SubsOK
  <2>2. ASSUME NEW t \in Subscription
        PROVE  \/ sub'[t] = Unused
               \/ \E e2 \in Event, h2 \in Handler, b \in BOOLEAN :
                     sub'[t] = [event |-> e2, handler |-> h2, subscribed |-> b]
    BY <1>5 DEF BInv, SubsOK
  <2>3. QED
    BY <1>1, <1>5, <2>1, <2>2 DEF SubsOK
<1>8. StackOK'
  BY <1>1 DEF BInv, StackOK
<1>9. HeardIffSubscribed'
  <2>1. ASSUME NEW e2 \in Event PROVE ToSet(handlers'[e2]) = Hearing(e2)'
    <3>1. ToSet(handlers[e2]) = Hearing(e2)
      BY DEF BInv, HeardIffSubscribed
    <3>2. \A x : x \in Hearing(e2)'
                 <=> \E t \in Subscription :
                        /\ sub'[t].subscribed /\ t \notin deaf'
                        /\ sub'[t].event = e2 /\ sub'[t].handler = x
      BY DEF Hearing, Live
    <3>3. \A x : x \in Hearing(e2)' <=> (x \in Hearing(e2) \/ (e2 = e /\ x = h))
      BY <1>1, <1>5, <1>6, <3>2, HearingIs
    <3>4. CASE e2 = e
      BY <1>1, <1>2, <1>3, <3>1, <3>3, <3>4
    <3>5. CASE e2 # e
      BY <1>1, <1>2, <3>1, <3>3, <3>5
    <3>6. QED
      BY <3>4, <3>5
  <2>2. QED
    BY <2>1 DEF HeardIffSubscribed
<1>10. QED
  BY <1>4, <1>7, <1>8, <1>9 DEF BInv

LEMMA OffKeeps ==
    ASSUME BInv, NEW s \in Subscription, Off(s)
    PROVE  BInv'
<1>1. sub[s] # Unused /\ done' = NoDispatch /\ stack' = stack
  BY DEF Off
<1>2. CASE ~Live(s)
  <2>1. UNCHANGED <<handlers, sub, deaf>>
    BY <1>2 DEF Off, Ends
  <2>2. QED
    BY <1>1, <2>1, StackMoves DEF BInv, StackOK
<1>3. CASE Live(s)
  <2>1. PICK e \in Event, h \in Handler, b \in BOOLEAN :
           sub[s] = [event |-> e, handler |-> h, subscribed |-> b]
    BY <1>1 DEF BInv, SubsOK
  <2>2. sub[s] = [event |-> e, handler |-> h, subscribed |-> TRUE]
    BY <1>3, <2>1 DEF Live
  <2>3. /\ handlers' = [handlers EXCEPT ![e] = RemoveFirst(@, h)]
        /\ sub' = [sub EXCEPT ![s].subscribed = FALSE]
        /\ deaf' = deaf \cup {t \in Subscription \ {s} : sub[t] = sub[s]}
    <3>1. Ends(s) /\ Live(s) /\ sub[s].event = e /\ sub[s].handler = h
      BY <1>3, <2>2 DEF Ends
    <3>2. QED
      BY <3>1 DEF Off
  <2>4. /\ handlers \in [Event -> Seq(Handler)] /\ handlers[e] \in Seq(Handler)
        /\ IsInjective(handlers[e])
    BY DEF BInv, HandlersOK
  <2>5. PICK q : /\ q = RemoveFirst(handlers[e], h) /\ q \in Seq(Handler) /\ IsInjective(q)
                 /\ ToSet(q) = ToSet(handlers[e]) \ {h}
    BY <2>4, RemovedFacts
  <2>6. HandlersOK'
    BY <2>3, <2>5 DEF BInv, HandlersOK
  <2>7. /\ sub'[s] = [event |-> e, handler |-> h, subscribed |-> FALSE]
        /\ \A t \in Subscription \ {s} : sub'[t] = sub[t]
        /\ DOMAIN sub' = Subscription
    <3>1. DOMAIN sub = Subscription
      BY DEF BInv, SubsOK
    <3>2. sub'[s] = [sub[s] EXCEPT !.subscribed = FALSE]
      BY <2>3, <3>1
    <3>3. [sub[s] EXCEPT !.subscribed = FALSE]
             = [[event |-> e, handler |-> h, subscribed |-> TRUE] EXCEPT !.subscribed = FALSE]
      BY <2>2
    <3>5. sub'[s] = [event |-> e, handler |-> h, subscribed |-> FALSE]
      BY <3>2, <3>3, Flagged
    <3>4. QED
      BY <2>3, <3>1, <3>5
  <2>8. ASSUME NEW t \in Subscription \ {s}
        PROVE  sub[t] = sub[s]
               <=> (sub[t].subscribed /\ sub[t].event = e /\ sub[t].handler = h)
    <3>1. CASE ~sub[t].subscribed
      BY <2>2, <3>1
    <3>2. CASE sub[t].subscribed
      <4>1. PICK e2 \in Event, h2 \in Handler, b2 \in BOOLEAN :
               sub[t] = [event |-> e2, handler |-> h2, subscribed |-> b2]
        BY <3>2 DEF BInv, SubsOK, Unused
      <4>2. sub[t] = [event |-> e2, handler |-> h2, subscribed |-> TRUE]
        BY <3>2, <4>1
      <4>3. sub[t] = sub[s] <=> (e2 = e /\ h2 = h)
        BY <2>2, <4>2, SameCall
      <4>4. QED
        BY <4>2, <4>3
    <3>3. QED
      BY <3>1, <3>2
  <2>9. \A t \in Subscription :
           t \in deaf' <=> \/ t \in deaf
                           \/ t # s /\ sub[t].subscribed /\ sub[t].event = e /\ sub[t].handler = h
    BY <2>3, <2>8
  <2>10. SubsOK'
    <3>1. ASSUME NEW t \in Subscription, t \in deaf' PROVE sub'[t] # Unused
      <4>1. CASE t = s
        BY <2>7, <4>1, NoneAssumption DEF Unused
      <4>2. CASE t # s
        BY <2>7, <2>9, <3>1, <4>2 DEF BInv, SubsOK, Unused
      <4>3. QED
        BY <4>1, <4>2
    <3>2. ASSUME NEW t \in Subscription
          PROVE  \/ sub'[t] = Unused
                 \/ \E e2 \in Event, h2 \in Handler, b2 \in BOOLEAN :
                       sub'[t] = [event |-> e2, handler |-> h2, subscribed |-> b2]
      BY <2>7 DEF BInv, SubsOK
    <3>3. QED
      BY <2>7, <3>1, <3>2 DEF SubsOK
  <2>11. StackOK'
    BY <1>1 DEF BInv, StackOK
  <2>12. HeardIffSubscribed'
    <3>1. ASSUME NEW e2 \in Event PROVE ToSet(handlers'[e2]) = Hearing(e2)'
      <4>1. ToSet(handlers[e2]) = Hearing(e2)
        BY DEF BInv, HeardIffSubscribed
      <4>2. \A x : x \in Hearing(e2)'
                   <=> \E t \in Subscription :
                          /\ sub'[t].subscribed /\ t \notin deaf'
                          /\ sub'[t].event = e2 /\ sub'[t].handler = x
        BY DEF Hearing, Live
      <4>3. \A x : x \in Hearing(e2)' <=> (x \in Hearing(e2) /\ ~(e2 = e /\ x = h))
        <5>1. ASSUME NEW x, x \in Hearing(e2)' PROVE x \in Hearing(e2) /\ ~(e2 = e /\ x = h)
          <6>1. PICK t \in Subscription : /\ sub'[t].subscribed /\ t \notin deaf'
                                          /\ sub'[t].event = e2 /\ sub'[t].handler = x
            BY <4>2, <5>1
          <6>2. t # s
            BY <2>7, <6>1
          <6>3. QED
            BY <2>7, <2>9, <6>1, <6>2, HearingIs
        <5>2. ASSUME NEW x, x \in Hearing(e2), ~(e2 = e /\ x = h) PROVE x \in Hearing(e2)'
          <6>1. PICK t \in Subscription : /\ sub[t].subscribed /\ t \notin deaf
                                          /\ sub[t].event = e2 /\ sub[t].handler = x
            BY <5>2, HearingIs
          <6>2. t # s
            BY <2>2, <5>2, <6>1
          <6>3. QED
            BY <2>7, <2>9, <4>2, <5>2, <6>1, <6>2
        <5>3. QED
          BY <5>1, <5>2
      <4>4. CASE e2 = e
        BY <2>3, <2>4, <2>5, <4>1, <4>3, <4>4
      <4>5. CASE e2 # e
        BY <2>3, <2>4, <4>1, <4>3, <4>5
      <4>6. QED
        BY <4>4, <4>5
    <3>2. QED
      BY <3>1 DEF HeardIffSubscribed
  <2>13. QED
    BY <2>6, <2>10, <2>11, <2>12 DEF BInv
<1>4. QED
  BY <1>2, <1>3

LEMMA EmitKeeps ==
    ASSUME BInv, NEW e \in Event, Emit(e)
    PROVE  BInv'
<1>1. PICK f : /\ f = [event |-> e, todo |-> handlers[e], called |-> <<>>,
                       inside |-> FALSE, owed |-> Hearing(e)]
               /\ stack' = Append(stack, f)
  <2>1. [NoDispatch EXCEPT !.event = e, !.todo = handlers[e], !.owed = Hearing(e)]
           = [event |-> e, todo |-> handlers[e], called |-> <<>>,
              inside |-> FALSE, owed |-> Hearing(e)]
    <3>1. PICK f : f = NoDispatch
      OBVIOUS
    <3>2. PICK t, w : t = handlers[e] /\ w = Hearing(e)
      OBVIOUS
    <3>3. PICK g : g = [f EXCEPT !.event = e, !.todo = t, !.owed = w]
      OBVIOUS
    <3>4. f = [event |-> None, todo |-> <<>>, called |-> <<>>, inside |-> FALSE, owed |-> {}]
      BY <3>1 DEF NoDispatch
    <3>5. g = [event |-> e, todo |-> t, called |-> <<>>, inside |-> FALSE, owed |-> w]
      BY <3>3, <3>4
    <3>6. QED
      BY <3>1, <3>2, <3>3, <3>5
  <2>2. stack' = Append(stack, [NoDispatch EXCEPT !.event = e, !.todo = handlers[e],
                                                  !.owed = Hearing(e)])
    BY DEF Emit
  <2>3. QED
    BY <2>1, <2>2
<1>2. handlers[e] \in Seq(Handler) /\ IsInjective(handlers[e])
      /\ ToSet(handlers[e]) = Hearing(e)
  BY DEF BInv, HandlersOK, HeardIffSubscribed
<1>3. <<>> \in Seq(Handler) /\ <<>> \o handlers[e] = handlers[e]
  BY <1>2, EmptySeq, ConcatEmptySeq
<1>4. Hearing(e) \in SUBSET Handler
  BY <1>2, ToSetIs
<1>5. f \in Frame
  BY <1>1, <1>2, <1>3, <1>4 DEF Frame
<1>6. stack' \in Seq(Frame)
  BY <1>1, <1>5, AppendProperties DEF BInv, StackOK
<1>7. QED
  BY <1>6, StackMoves DEF Emit

LEMMA CallKeeps ==
    ASSUME BInv, Call
    PROVE  BInv'
<1>1. /\ stack # <<>> /\ Top.todo # <<>>
      /\ stack' = [stack EXCEPT ![Len(stack)] =
                      [Top EXCEPT !.inside = TRUE, !.called = Append(@, Head(Top.todo)),
                                  !.todo = Tail(Top.todo)]]
  BY DEF Call, SetTop, Remaining
<1>2. Top \in Frame
  BY <1>1, TopIs DEF BInv
<1>3. [Top EXCEPT !.inside = TRUE, !.called = Append(@, Head(Top.todo)), !.todo = Tail(Top.todo)]
         \in Frame
  BY <1>1, <1>2, CalledFrame
<1>4. stack' \in Seq(Frame)
  BY <1>1, <1>3, TopIs DEF BInv
<1>5. QED
  BY <1>4, StackMoves DEF Call

LEMMA ReturnKeeps ==
    ASSUME BInv, Return \/ Throw
    PROVE  BInv'
<1>1. /\ stack # <<>>
      /\ stack' = [stack EXCEPT ![Len(stack)] = [Top EXCEPT !.inside = FALSE]]
      /\ done' = NoDispatch /\ UNCHANGED <<handlers, sub, deaf>>
  BY DEF Return, Throw, SetTop, AfterThrow
<1>2. [Top EXCEPT !.inside = FALSE] \in Frame
  BY <1>1, TopIs, Reframed DEF BInv
<1>3. stack' \in Seq(Frame)
  BY <1>1, <1>2, TopIs DEF BInv
<1>4. QED
  BY <1>1, <1>3, StackMoves

LEMMA EmitReturnsKeeps ==
    ASSUME BInv, EmitReturns
    PROVE  BInv'
<1>1. /\ stack # <<>> /\ Top.todo = <<>> /\ stack' = Front(stack) /\ done' = Top
      /\ UNCHANGED <<handlers, sub, deaf>>
  BY DEF EmitReturns, Remaining
<1>2. Top \in Frame
  BY <1>1, TopIs DEF BInv
<1>3. Front(stack) \in Seq(Frame)
  <2>1. PICK p : p = stack /\ p \in Seq(Frame)
    BY DEF BInv, StackOK
  <2>2. PICK n \in Nat : n = Len(p)
    BY <2>1, LenProperties
  <2>3. 1 \in Int /\ n - 1 \in Int /\ \A i \in 1 .. n - 1 : p[i] \in Frame
    BY <2>1, <2>2, ElementOfSeq
  <2>4. SubSeq(p, 1, n - 1) \in Seq(Frame)
    BY <2>3, SubSeqProperties
  <2>5. QED
    BY <2>1, <2>2, <2>4 DEF Front
<1>4. QED
  BY <1>1, <1>2, <1>3, StackMoves

LEMMA BNext ==
    ASSUME BInv, [Next]_vars
    PROVE  BInv'
<1>1. ASSUME NEW s \in Subscription, NEW e \in Event, NEW h \in Handler, On(s, e, h)
      PROVE  BInv'
  BY <1>1, OnKeeps
<1>2. ASSUME NEW s \in Subscription, Off(s) PROVE BInv'
  BY <1>2, OffKeeps
<1>3. ASSUME NEW e \in Event, Emit(e) PROVE BInv'
  BY <1>3, EmitKeeps
<1>4. CASE Call
  BY <1>4, CallKeeps
<1>5. CASE Return \/ Throw
  BY <1>5, ReturnKeeps
<1>6. CASE EmitReturns
  BY <1>6, EmitReturnsKeeps
<1>7. CASE UNCHANGED vars
  BY <1>7, StackMoves DEF vars, BInv, StackOK
<1>8. QED
  BY <1>1, <1>2, <1>3, <1>4, <1>5, <1>6, <1>7 DEF Next

-----------------------------------------------------------------------------
(* The theorems *)

\* However handlers subscribe, unsubscribe, emit and throw while they are
\* called, and however deep: each Set is its live subscriptions, and each
\* dispatch under way has, called or to call, everyone it owes (bus.ts:24-57).
THEOREM BusInvariance == Spec => []BInv
<1>1. Init => BInv
  BY BInit
<1>2. BInv /\ [Next]_vars => BInv'
  BY BNext
<1>3. QED
  BY <1>1, <1>2, PTL DEF Spec

\* At any moment an event reaches exactly the functions with a subscription to
\* it that has not been ended, save the one silenced by another of the same
\* function (bus.ts:44-56).
THEOREM AlwaysHeardIffSubscribed == Spec => []HeardIffSubscribed
<1>1. BInv => HeardIffSubscribed
  BY DEF BInv
<1>2. QED
  BY <1>1, BusInvariance, PTL

\* A dispatch that has returned called each function that was to hear the
\* event when it was emitted, once, and no other (bus.ts:24-42).
THEOREM AlwaysEachToldOnce == Spec => []EachToldOnce
<1>1. BInv => EachToldOnce
  <2>1. ASSUME StackOK, done # NoDispatch
        PROVE  ToSet(done.called) = done.owed /\ IsInjective(done.called)
    <3>1. /\ done.called \in Seq(Handler) /\ done.todo = <<>>
          /\ IsInjective(done.called \o done.todo)
          /\ ToSet(done.called \o done.todo) = done.owed
      BY <2>1 DEF StackOK, Frame
    <3>2. done.called \o done.todo = done.called
      BY <3>1, ConcatEmptySeq
    <3>3. QED
      BY <3>1, <3>2
  <2>2. QED
    BY <2>1 DEF BInv, EachToldOnce
<1>2. QED
  BY <1>1, BusInvariance, PTL
=============================================================================
