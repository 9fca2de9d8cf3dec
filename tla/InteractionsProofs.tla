------------------------- MODULE InteractionsProofs -------------------------
(***************************************************************************)
(* What the answers of Interactions say of the device, for any number of   *)
(* clients, requests, endpoints and elements.                              *)
(***************************************************************************)
EXTENDS Interactions, TLAPS

\* What the devices did is one variable to the steps that leave it alone.
USE DEF history

\* A call that waits has what it needs to be delivered, and its reply says
\* what the device did; one that is answered tells the truth of it.
CallInv(k) ==
    /\ call[k].phase = "idle" => k \notin reached
    /\ call[k].phase = "asked" =>
          /\ call[k].at \in Endpoint /\ call[k].of \in Element
          /\ call[k].op # "read" => call[k].value \in Value
          /\ call[k].reply = "none" => k \notin reached
          /\ call[k].reply = "done" => k \in taken
          /\ call[k].reply = "refused" => k \in reached \ (taken \cup mute)
          /\ call[k].reply = "silent" => k \in mute /\ call[k].op # "read"
    /\ call[k].phase = "answered" =>
          /\ call[k].answer = "ok" /\ call[k].op # "read" => k \in taken \cup mute
          /\ call[k].answer = "rejected" => k \in reached \ (taken \cup mute)
          /\ \/ call[k].answer \in {"endpoint not found", "invalid", "asleep", "no method"}
             \/ call[k].answer = "not found" /\ call[k].op # "read"
             => k \notin reached

\* An endpoint is in nobody's copy before it joins and after it leaves.
Unlisted == \A e \in Endpoint, c \in Client : life[e] # "mapped" => seen[c][e] = None

IInv ==
    /\ TypeOK
    /\ \A k \in Call : CallInv(k)
    /\ Unlisted
    /\ BehindOnlyIfWide

\* A call that is over is a call.
LEMMA OverCall ==
    ASSUME NEW c \in CallRecord,
           NEW phase \in {"answered", "dropped", "lost"},
           NEW answer \in Answers \cup {"none"}
    PROVE  /\ Over(c, phase, answer) \in CallRecord
           /\ Over(c, phase, answer).phase = phase
           /\ Over(c, phase, answer).answer = answer
           /\ Over(c, phase, answer).op = c.op
BY DEF Over, Idle, CallRecord, Reply

\* The end of the process leaves each call over or untouched.
LEMMA EndedCall ==
    ASSUME NEW c \in CallRecord
    PROVE  /\ Ended(c) \in CallRecord
           /\ c.phase = "asked" => Ended(c).phase = "dropped"
           /\ c.phase # "asked" => Ended(c) = c
BY OverCall DEF Ended

\* So it keeps the invariant, whichever call ended it, if one did.
LEMMA DownKeeps ==
    ASSUME IInv, Down, UNCHANGED <<home, history>>,
           call' \in [Call -> CallRecord],
           \A k \in Call : call'[k].phase = "lost" \/ call'[k] = Ended(call[k])
    PROVE  IInv'
<1>0. call \in [Call -> CallRecord]
  BY DEF IInv, TypeOK
<1>1. TypeOK'
  BY NoneAssumption DEF IInv, TypeOK, Down, home
<1>2. ASSUME NEW k \in Call PROVE CallInv(k)'
  <2>1. CASE call'[k].phase \in {"lost", "dropped"}
    BY <2>1 DEF CallInv
  <2>2. CASE call'[k] = call[k]
    <3>1. CallInv(k) /\ UNCHANGED history
      BY DEF IInv
    <3> QED BY <2>2, <3>1 DEF CallInv
  <2>3. call[k] \in CallRecord
    BY <1>0
  <2>4. call'[k].phase = "lost" \/ call'[k] = Ended(call[k])
    OBVIOUS
  <2> QED BY <2>1, <2>2, <2>3, <2>4, EndedCall
<1>3. Unlisted' /\ BehindOnlyIfWide'
  BY DEF Unlisted, BehindOnlyIfWide, Live, Down
<1> QED BY <1>1, <1>2, <1>3 DEF IInv

\* A call that settles with an answer that holds keeps the invariant.
LEMMA SettleKeeps ==
    ASSUME IInv, NEW k \in Call, NEW answer \in Answers, NEW v,
           Settle(k, answer, v), UNCHANGED <<home, history>>,
           call[k].phase = "asked",
           answer = "ok" /\ call[k].op # "read" => k \in taken \cup mute,
           answer = "rejected" => k \in reached \ (taken \cup mute),
           answer \in {"endpoint not found", "invalid", "asleep", "no method"} => k \notin reached,
           answer = "not found" => call[k].op = "read"
    PROVE  IInv'
<1>0. call \in [Call -> CallRecord] /\ call[k] \in CallRecord
  BY DEF IInv, TypeOK
<1>1. CASE Carried({v})
  <2> DEFINE phase == IF call[k].by = None THEN "dropped" ELSE "answered"
  <2>1. /\ UNCHANGED <<hub, link, seen>>
        /\ call' = [call EXCEPT ![k] = Over(call[k], phase, answer)]
    BY <1>1 DEF Settle
  <2>2. phase \in {"dropped", "answered"}
    OBVIOUS
  <2> HIDE DEF phase
  <2>3. /\ Over(call[k], phase, answer) \in CallRecord
        /\ Over(call[k], phase, answer).phase = phase
        /\ Over(call[k], phase, answer).answer = answer
        /\ Over(call[k], phase, answer).op = call[k].op
    BY <1>0, <2>2 DEF Over, Idle, CallRecord, Reply
  <2>4. /\ call' \in [Call -> CallRecord]
        /\ \A j \in Call : j # k => call'[j] = call[j]
        /\ call'[k].phase \in {"dropped", "answered"}
        /\ call'[k].answer = answer /\ call'[k].op = call[k].op
    BY <1>0, <2>1, <2>2, <2>3
  <2>5. TypeOK'
    BY <2>1, <2>4 DEF IInv, TypeOK, home
  <2>6. ASSUME NEW j \in Call PROVE CallInv(j)'
    BY <2>4 DEF IInv, CallInv
  <2>7. Unlisted' /\ BehindOnlyIfWide'
    BY <2>1 DEF IInv, Unlisted, BehindOnlyIfWide, Live, home
  <2> QED BY <2>5, <2>6, <2>7 DEF IInv
<1>2. CASE ~Carried({v})
  <2>1. /\ Down
        /\ call' = [j \in Call |->
              IF j = k THEN Over(call[k], "lost", "none") ELSE Ended(call[j])]
    BY <1>2 DEF Settle, Thrown
  <2>2. /\ Over(call[k], "lost", "none") \in CallRecord
        /\ Over(call[k], "lost", "none").phase = "lost"
    BY <1>0 DEF Over, Idle, CallRecord, Reply
  <2>3. \A j \in Call : Ended(call[j]) \in CallRecord
    BY <1>0, EndedCall
  <2>4. /\ call' \in [Call -> CallRecord]
        /\ \A j \in Call : call'[j].phase = "lost" \/ call'[j] = Ended(call[j])
    BY <2>1, <2>2, <2>3
  <2> QED BY <2>1, <2>4, DownKeeps
<1> QED BY <1>1, <1>2

\* The invariant holds in every state the hub and its devices may be in.
THEOREM Invariance == Spec => []IInv
<1>1. Init => IInv
  <2> SUFFICES ASSUME Init PROVE IInv
    OBVIOUS
  <2>1. held \in [Endpoint -> Values0] /\ cache = held
    BY DEF Init, Values0
  <2>2. Idle \in CallRecord
    BY DEF Idle, CallRecord, Operations, Reply
  <2>3. TypeOK
    BY <2>1, <2>2 DEF Init, TypeOK
  <2>4. \A k \in Call : CallInv(k)
    BY DEF Init, CallInv, Idle
  <2>5. Unlisted /\ BehindOnlyIfWide
    BY DEF Init, Unlisted, BehindOnlyIfWide, Live
  <2> QED BY <2>3, <2>4, <2>5 DEF IInv
<1>2. IInv /\ [Next]_vars => IInv'
  <2> SUFFICES ASSUME IInv, [Next]_vars PROVE IInv'
    OBVIOUS
  <2>0. call \in [Call -> CallRecord]
    BY DEF IInv, TypeOK
  <2>1. ASSUME NEW k \in Call, NEW c \in Client, NEW form \in Malformed, Misfit(k, c, form)
        PROVE  IInv'
    <3>1. /\ call' \in [Call -> CallRecord]
          /\ \A j \in Call : j # k => call'[j] = call[j]
          /\ call'[k].phase = "answered" /\ call'[k].answer \in {"invalid", "no method"}
          /\ call'[k].op = "read" /\ call[k].phase = "idle"
      <4> DEFINE answer == IF form = "no such method" THEN "no method" ELSE "invalid"
      <4>1. /\ call' = [call EXCEPT ![k] = Over(Idle, "answered", answer)]
            /\ call[k].phase = "idle"
        BY <2>1 DEF Misfit
      <4>2. answer \in {"invalid", "no method"} /\ answer \in Answers
        BY DEF Answers, Refusals
      <4>3. Idle \in CallRecord /\ Idle.op = "read"
        BY DEF Idle, CallRecord, Operations, Reply
      <4> HIDE DEF answer
      <4>4. /\ Over(Idle, "answered", answer) \in CallRecord
            /\ Over(Idle, "answered", answer).phase = "answered"
            /\ Over(Idle, "answered", answer).answer = answer
            /\ Over(Idle, "answered", answer).op = "read"
        BY <4>2, <4>3 DEF Over, Idle, CallRecord, Reply
      <4> QED BY <2>0, <4>1, <4>2, <4>4
    <3>2. TypeOK'
      BY <2>1, <3>1 DEF Misfit, IInv, TypeOK, home
    <3>3. ASSUME NEW j \in Call PROVE CallInv(j)'
      BY <2>1, <3>1 DEF Misfit, IInv, CallInv
    <3>4. Unlisted' /\ BehindOnlyIfWide'
      BY <2>1 DEF Misfit, IInv, Unlisted, BehindOnlyIfWide, Live, home
    <3> QED BY <3>2, <3>3, <3>4 DEF IInv
  <2>2. ASSUME NEW k \in Call, NEW c \in Client, NEW op \in Operations, NEW e \in Endpoint,
               NEW x \in Element, NEW v \in Value \ Wide, Ask(k, c, op, e, x, v)
        PROVE  IInv'
    <3> DEFINE refusal == Refusal(op, e, x, v)
               asked == [Idle EXCEPT !.phase = "asked", !.by = c, !.op = op, !.at = e,
                            !.of = x, !.value = IF op = "read" THEN None ELSE v]
    <3>0. /\ refusal \in Refusals \cup {"none"}
          /\ refusal = "not found" => op # "read"
      BY DEF Refusal, Refusals, Modelled
    <3>1. /\ call[k].phase = "idle"
          /\ call' = [call EXCEPT ![k] =
                IF refusal = "none" THEN asked ELSE Over(asked, "answered", refusal)]
      BY <2>2 DEF Ask
    <3>2. /\ asked \in CallRecord /\ asked.phase = "asked" /\ asked.op = op
          /\ asked.at = e /\ asked.of = x /\ asked.reply = "none"
          /\ op # "read" => asked.value = v
      BY DEF Idle, CallRecord, Reply
    <3> HIDE DEF refusal, asked
    <3>3. refusal # "none" =>
              /\ Over(asked, "answered", refusal) \in CallRecord
              /\ Over(asked, "answered", refusal).phase = "answered"
              /\ Over(asked, "answered", refusal).answer = refusal
              /\ Over(asked, "answered", refusal).op = op
      BY <3>0, <3>2 DEF Over, Idle, CallRecord, Reply, Answers
    <3>4. /\ call' \in [Call -> CallRecord]
          /\ \A j \in Call : j # k => call'[j] = call[j]
      BY <2>0, <3>1, <3>2, <3>3
    <3>5. TypeOK'
      BY <2>2, <3>4 DEF Ask, IInv, TypeOK, home
    <3>6. CallInv(k)'
      <4>1. UNCHANGED history /\ k \notin reached
        BY <2>2, <3>1 DEF Ask, IInv, CallInv
      <4>2. CASE refusal = "none"
        <5>1. call'[k] = asked
          BY <2>0, <3>1, <4>2
        <5> QED BY <3>2, <4>1, <5>1 DEF CallInv
      <4>3. CASE refusal # "none"
        <5>1. call'[k] = Over(asked, "answered", refusal)
          BY <2>0, <3>1, <4>3
        <5> QED BY <3>0, <3>3, <4>1, <4>3, <5>1 DEF CallInv, Refusals
      <4> QED BY <4>2, <4>3
    <3>7. ASSUME NEW j \in Call PROVE CallInv(j)'
      BY ZenonT(30), <2>2, <3>4, <3>6 DEF Ask, IInv, CallInv
    <3>8. Unlisted' /\ BehindOnlyIfWide'
      BY <2>2 DEF Ask, IInv, Unlisted, BehindOnlyIfWide, Live, home
    <3> QED BY <3>5, <3>7, <3>8 DEF IInv
  <2>3. ASSUME NEW k \in Call, NEW reply \in {"done", "refused", "silent"}, Deliver(k, reply)
        PROVE  IInv'
    <3>0. CallInv(k) /\ call[k] \in CallRecord /\ call[k].phase = "asked"
      BY <2>0, <2>3 DEF IInv, Deliver
    <3>1. held[call[k].at][call[k].of] \in Value
      <4>1. call[k].at \in Endpoint /\ call[k].of \in Element
        BY <3>0 DEF CallInv
      <4>2. held \in [Endpoint -> [Element -> Value]]
        BY DEF IInv, TypeOK, Values0
      <4> QED BY <4>1, <4>2
    <3> DEFINE value == IF call[k].op = "read" /\ reply = "done"
                        THEN held[call[k].at][call[k].of] ELSE call[k].value
               sent == [call[k] EXCEPT !.reply = reply, !.value = value]
    <3>2. /\ call' \in [Call -> CallRecord]
          /\ \A j \in Call : j # k => call'[j] = call[j]
          /\ call'[k].phase = "asked" /\ call'[k].reply = reply
          /\ call'[k].at = call[k].at /\ call'[k].of = call[k].of /\ call'[k].op = call[k].op
          /\ call[k].op # "read" => call'[k].value = call[k].value
      <4>1. call' = [call EXCEPT ![k] = sent]
        BY <2>3 DEF Deliver
      <4>2. /\ value \in Value \cup {None}
            /\ call[k].op # "read" => value = call[k].value
        BY <3>0, <3>1 DEF CallRecord
      <4> HIDE DEF value
      <4>3. /\ sent \in CallRecord /\ sent.phase = "asked" /\ sent.reply = reply
            /\ sent.at = call[k].at /\ sent.of = call[k].of /\ sent.op = call[k].op
            /\ sent.value = value
        BY <3>0, <4>2 DEF CallRecord, Reply
      <4> HIDE DEF sent
      <4> QED BY <2>0, <4>1, <4>2, <4>3
    <3>3. held' \in [Endpoint -> Values0]
      <4>1. CASE UNCHANGED held
        BY <4>1 DEF IInv, TypeOK
      <4>2. CASE /\ call[k].op = "write"
                 /\ held' = [held EXCEPT ![call[k].at] =
                                [@ EXCEPT ![call[k].of] = call[k].value]]
        <5>1. /\ call[k].at \in Endpoint /\ call[k].of \in Element
              /\ call[k].value \in Value /\ held[call[k].at] \in Values0
          BY <3>0, <4>2 DEF CallInv, IInv, TypeOK
        <5>2. [held[call[k].at] EXCEPT ![call[k].of] = call[k].value] \in Values0
          BY <5>1 DEF Values0
        <5> QED BY <4>2, <5>1, <5>2 DEF IInv, TypeOK
      <4> QED BY <2>3, <4>1, <4>2 DEF Deliver
    <3>4. /\ reached' = reached \cup {k} /\ k \notin reached
          /\ taken' \in {taken, taken \cup {k}}
          /\ reply = "refused" => taken' = taken
          /\ reply = "done" => taken' = taken \cup {k}
          /\ reply = "silent" => call[k].op # "read"
          /\ mute' = IF reply = "silent" THEN mute \cup {k} ELSE mute
      BY <2>3 DEF Deliver
    <3>5. TypeOK'
      BY <2>3, <3>2, <3>3, <3>4 DEF Deliver, IInv, TypeOK
    <3>6. ASSUME NEW j \in Call PROVE CallInv(j)'
      <4>1. CallInv(j) /\ taken \subseteq reached /\ mute \subseteq reached
        BY DEF IInv, TypeOK
      <4>2. CASE j = k
        <5>1. k \in reached' /\ (reply = "done" => k \in taken')
          BY <3>4
        <5>2. reply = "refused" => k \notin taken' /\ k \notin mute'
          BY <3>4, <4>1, <4>2
        <5>3. reply = "silent" => k \in mute' /\ call'[k].op # "read"
          BY <3>2, <3>4
        <5> QED BY <3>0, <3>2, <4>2, <5>1, <5>2, <5>3 DEF CallInv
      <4>3. CASE j # k
        <5>1. call'[j] = call[j]
          BY <3>2, <4>3
        <5>2. (j \in reached') <=> (j \in reached)
          BY <3>4, <4>3
        <5>3. (j \in taken') <=> (j \in taken)
          BY <3>4, <4>3
        <5>4. (j \in mute') <=> (j \in mute)
          BY <3>4, <4>3
        <5> QED BY <4>1, <5>1, <5>2, <5>3, <5>4 DEF CallInv
      <4> QED BY <4>2, <4>3
    <3>7. Unlisted' /\ BehindOnlyIfWide'
      BY <2>3 DEF Deliver, IInv, Unlisted, BehindOnlyIfWide, Live
    <3> QED BY <3>5, <3>6, <3>7 DEF IInv
  <2>4. ASSUME NEW k \in Call, Answer(k) PROVE IInv'
    <3>0. CallInv(k) /\ call[k] \in CallRecord /\ call[k].phase = "asked"
      BY <2>0, <2>4 DEF IInv, Answer
    <3>1. call[k].reply \in {"done", "refused", "silent"}
      BY <2>4, <3>0 DEF Answer, CallRecord, Reply
    <3>2. /\ call[k].reply \in {"done", "silent"} => Reading(call[k].op, call[k].reply) = "ok"
          /\ call[k].reply = "refused" /\ call[k].op = "read"
                => Reading(call[k].op, call[k].reply) = "not found"
          /\ call[k].reply = "refused" /\ call[k].op # "read"
                => Reading(call[k].op, call[k].reply) = "rejected"
      BY DEF Reading
    <3>3. Reading(call[k].op, call[k].reply) \in Answers
      BY <3>1, <3>2 DEF Answers, Refusals
    <3> QED BY <2>4, <3>0, <3>1, <3>2, <3>3, SettleKeeps DEF Answer, CallInv
  <2>5. ASSUME NEW k \in Call, AnswerFromCache(k) PROVE IInv'
    <3>0. call[k].phase = "asked" /\ call[k].op = "read" /\ UNCHANGED <<home, history>>
      BY <2>5 DEF AnswerFromCache
    <3>1. CASE Settle(k, "not found", None)
      BY <3>0, <3>1, SettleKeeps DEF Answers, Refusals
    <3>2. CASE Settle(k, "ok", cache[call[k].at][call[k].of])
      <4>1. "ok" \in Answers
        BY DEF Answers
      <4> QED BY <3>0, <3>2, <4>1, SettleKeeps
    <3> QED BY <2>5, <3>1, <3>2 DEF AnswerFromCache
  <2>6. ASSUME NEW k \in Call, Fail(k) PROVE IInv'
    <3>1. PICK answer \in Failure(k) : Settle(k, answer, None)
      BY <2>6 DEF Fail
    <3>2. answer \in {"offline", "failed", "asleep"} /\ (answer = "asleep" => k \notin reached)
      BY DEF Failure
    <3> QED BY <2>6, <3>1, <3>2, SettleKeeps DEF Fail, Answers, Unreachable
  <2>7. ASSUME NEW e \in Endpoint, NEW x \in Element, Report(e, x) PROVE IInv'
    <3>1. cache' \in [Endpoint -> Values0]
      BY <2>7 DEF Report, IInv, TypeOK, Values0
    <3>2. ASSUME NEW c \in Client
          PROVE  /\ seen'[c] \in [Endpoint -> Values0 \cup {None}]
                 /\ \A f \in Endpoint : f # e \/ seen[c][e] = None => seen'[c][f] = seen[c][f]
                 /\ c \in Live /\ seen[c][e] # None /\ held[e][x] \notin Wide
                        => seen'[c][e] = [seen[c][e] EXCEPT ![x] = held[e][x]]
                 /\ ~(c \in Live /\ held[e][x] \notin Wide) => seen'[c] = seen[c]
      BY <2>7 DEF Report, Forward, Carried, IInv, TypeOK, Values0
    <3>3. seen' \in [Client -> [Endpoint -> Values0 \cup {None}]]
      BY <2>7, <3>2 DEF Report, Forward
    <3>4. TypeOK'
      BY <2>7, <3>1, <3>3 DEF Report, IInv, TypeOK
    <3>5. Unlisted'
      <4>1. life' = life /\ life[e] = "mapped"
        BY <2>7 DEF Report
      <4> QED BY <3>2, <4>1 DEF IInv, Unlisted
    <3>6. BehindOnlyIfWide'
      <4> SUFFICES ASSUME NEW c \in Live, NEW f \in Endpoint, seen'[c][f] # None,
                          NEW y \in Served, seen'[c][f][y] # cache'[f][y]
                   PROVE  cache'[f][y] \in Wide
        BY <2>7 DEF Report, BehindOnlyIfWide, Live
      <4>0. /\ c \in Client /\ y \in Element
            /\ seen[c][f] # None
        <5>1. c \in Client /\ y \in Element
          BY ElementAssumption DEF Live
        <5>2. CASE f # e \/ seen[c][e] = None
          BY <3>2, <5>1, <5>2
        <5>3. CASE f = e /\ seen[c][e] # None
          BY <5>1, <5>3
        <5> QED BY <5>1, <5>2, <5>3
      <4>1. CASE f = e /\ y = x
        <5>1. cache'[f][y] = held[e][x]
          BY <2>7, <4>1 DEF Report, IInv, TypeOK, Values0
        <5>2. CASE held[e][x] \notin Wide
          <6>1. seen[c][e] # None
            BY <4>0, <4>1
          <6>2. seen[c][e] \in Values0
            BY <4>0, <6>1 DEF IInv, TypeOK
          <6> QED BY <3>2, <4>0, <4>1, <5>1, <5>2, <6>1, <6>2 DEF Values0
        <5> QED BY <5>1, <5>2
      <4>2. CASE f # e \/ y # x
        <5>1. cache'[f][y] = cache[f][y]
          BY <2>7, <4>0, <4>2 DEF Report, IInv, TypeOK, Values0
        <5>2. seen[c][f] # None /\ seen'[c][f][y] = seen[c][f][y]
          <6>1. seen[c][f] # None
            BY <4>0
          <6>2. seen[c][f] \in Values0
            BY <4>0, <6>1 DEF IInv, TypeOK
          <6>3. CASE f = e /\ held[e][x] \notin Wide
            BY <3>2, <4>0, <4>2, <6>1, <6>2, <6>3 DEF Values0
          <6>4. CASE ~(f = e /\ held[e][x] \notin Wide)
            BY <3>2, <4>0, <6>1, <6>4
          <6> QED BY <6>1, <6>3, <6>4
        <5> QED BY <5>1, <5>2 DEF IInv, BehindOnlyIfWide
      <4> QED BY <4>1, <4>2
    <3>7. ASSUME NEW k \in Call PROVE CallInv(k)'
      BY <2>7 DEF Report, IInv, CallInv
    <3> QED BY <3>4, <3>5, <3>6, <3>7 DEF IInv
  <2>8. ASSUME NEW e \in Endpoint, NEW x \in Element, NEW v \in Value, Drift(e, x, v)
        PROVE  IInv'
    <3>1. TypeOK'
      BY <2>8 DEF Drift, IInv, TypeOK, Values0
    <3>2. ASSUME NEW k \in Call PROVE CallInv(k)'
      BY <2>8 DEF Drift, IInv, CallInv
    <3>3. Unlisted' /\ BehindOnlyIfWide'
      BY <2>8 DEF Drift, IInv, Unlisted, BehindOnlyIfWide, Live
    <3> QED BY <3>1, <3>2, <3>3 DEF IInv
  <2>9. ASSUME NEW e \in Endpoint, Join(e) PROVE IInv'
    <3>1. /\ cache' \in [Endpoint -> Values0] /\ cache'[e] = held[e]
          /\ \A f \in Endpoint : f # e => cache'[f] = cache[f] /\ life'[f] = life[f]
          /\ life'[e] = "mapped" /\ life' \in [Endpoint -> {"new", "mapped", "gone"}]
          /\ life[e] = "new"
      BY <2>9 DEF Join, IInv, TypeOK
    <3>2. ASSUME NEW c \in Client
          PROVE  /\ seen'[c] \in [Endpoint -> Values0 \cup {None}]
                 /\ \A f \in Endpoint : f # e => seen'[c][f] = seen[c][f]
                 /\ seen'[c][e] \in {held[e], seen[c][e]}
      BY <2>9 DEF Join, IInv, TypeOK
    <3>3. seen' \in [Client -> [Endpoint -> Values0 \cup {None}]]
      BY <2>9, <3>2 DEF Join
    <3>4. TypeOK'
      BY <2>9, <3>1, <3>3 DEF Join, IInv, TypeOK
    <3>5. Unlisted'
      BY <3>1, <3>2 DEF IInv, Unlisted
    <3>6. BehindOnlyIfWide'
      <4> SUFFICES ASSUME NEW c \in Live, NEW f \in Endpoint, seen'[c][f] # None,
                          NEW y \in Served, seen'[c][f][y] # cache'[f][y]
                   PROVE  cache'[f][y] \in Wide
        BY <2>9 DEF Join, BehindOnlyIfWide, Live
      <4>0. c \in Client
        BY DEF Live
      <4>1. CASE f = e
        BY <3>1, <3>2, <4>0, <4>1 DEF IInv, Unlisted
      <4>2. CASE f # e
        BY <3>1, <3>2, <4>0, <4>2 DEF IInv, BehindOnlyIfWide
      <4> QED BY <4>1, <4>2
    <3>7. ASSUME NEW k \in Call PROVE CallInv(k)'
      BY <2>9 DEF Join, IInv, CallInv
    <3> QED BY <3>4, <3>5, <3>6, <3>7 DEF IInv
  <2>10. ASSUME NEW e \in Endpoint, Leave(e) PROVE IInv'
    <3>1. TypeOK'
      BY <2>10 DEF Leave, IInv, TypeOK
    <3>2. ASSUME NEW k \in Call PROVE CallInv(k)'
      BY <2>10 DEF Leave, IInv, CallInv
    <3>3. Unlisted'
      BY <2>10 DEF Leave, IInv, TypeOK, Unlisted
    <3>4. BehindOnlyIfWide'
      BY <2>10 DEF Leave, IInv, TypeOK, BehindOnlyIfWide, Live
    <3> QED BY <3>1, <3>2, <3>3, <3>4 DEF IInv
  <2>11. ASSUME NEW c \in Client, Open(c) PROVE IInv'
    <3>1. TypeOK'
      BY <2>11 DEF Open, IInv, TypeOK, home
    <3>2. ASSUME NEW k \in Call PROVE CallInv(k)'
      BY <2>11 DEF Open, IInv, CallInv
    <3>3. Unlisted' /\ BehindOnlyIfWide'
      BY <2>11 DEF Open, IInv, TypeOK, Unlisted, BehindOnlyIfWide, Live, home
    <3> QED BY <3>1, <3>2, <3>3 DEF IInv
  <2>12. ASSUME NEW c \in Client, Close(c) PROVE IInv'
    <3>0. /\ call' \in [Call -> CallRecord]
          /\ \A k \in Call : /\ call'[k].phase = call[k].phase /\ call'[k].at = call[k].at
                             /\ call'[k].of = call[k].of /\ call'[k].op = call[k].op
                             /\ call'[k].value = call[k].value /\ call'[k].reply = call[k].reply
                             /\ call'[k].answer = call[k].answer
      BY <2>0, <2>12 DEF Close, CallRecord
    <3>1. TypeOK'
      BY <2>12, <3>0 DEF Close, IInv, TypeOK, home
    <3>2. ASSUME NEW k \in Call PROVE CallInv(k)'
      BY ZenonT(30), <2>12, <3>0 DEF Close, IInv, CallInv
    <3>3. Unlisted' /\ BehindOnlyIfWide'
      BY <2>12 DEF Close, IInv, TypeOK, Unlisted, BehindOnlyIfWide, Live, home
    <3> QED BY <3>1, <3>2, <3>3 DEF IInv
  <2>13. ASSUME NEW c \in Client, Subscribe(c) PROVE IInv'
    <3>1. CASE Carried(UNION {Values(e) : e \in Mapped})
      <4>0. /\ link' = [link EXCEPT ![c] = "live"]
            /\ seen' = [seen EXCEPT ![c] =
                  [e \in Endpoint |-> IF e \in Mapped THEN cache[e] ELSE None]]
            /\ UNCHANGED <<hub, call>> /\ hub
            /\ UNCHANGED <<home, history>>
        BY <2>13, <3>1 DEF Subscribe
      <4>1. TypeOK'
        BY <4>0 DEF IInv, TypeOK, home
      <4>2. ASSUME NEW k \in Call PROVE CallInv(k)'
        BY <4>0 DEF IInv, CallInv
      <4>3. Unlisted'
        BY <4>0 DEF IInv, TypeOK, Unlisted, Mapped, home
      <4>4. BehindOnlyIfWide'
        BY <4>0 DEF IInv, TypeOK, BehindOnlyIfWide, Live, home
      <4> QED BY <4>1, <4>2, <4>3, <4>4 DEF IInv
    <3>2. CASE ~Carried(UNION {Values(e) : e \in Mapped})
      <4>1. Down /\ call' = [k \in Call |-> Ended(call[k])] /\ UNCHANGED <<home, history>>
        BY <2>13, <3>2 DEF Subscribe
      <4>2. \A k \in Call : Ended(call[k]) \in CallRecord
        BY <2>0, EndedCall
      <4>3. call' \in [Call -> CallRecord] /\ \A k \in Call : call'[k] = Ended(call[k])
        BY <4>1, <4>2
      <4> QED BY <4>1, <4>3, DownKeeps
    <3> QED BY <3>1, <3>2
  <2>14. CASE Stop
    <3>1. Down /\ call' = [k \in Call |-> Ended(call[k])] /\ UNCHANGED <<home, history>>
      BY <2>14 DEF Stop
    <3>2. \A k \in Call : Ended(call[k]) \in CallRecord
      BY <2>0, EndedCall
    <3>3. call' \in [Call -> CallRecord] /\ \A k \in Call : call'[k] = Ended(call[k])
      BY <3>1, <3>2
    <3> QED BY <3>1, <3>3, DownKeeps
  <2>15. CASE Start
    <3>1. TypeOK'
      BY <2>15 DEF Start, IInv, TypeOK, home
    <3>2. ASSUME NEW k \in Call PROVE CallInv(k)'
      BY <2>15 DEF Start, IInv, CallInv
    <3>3. Unlisted' /\ BehindOnlyIfWide'
      BY <2>15 DEF Start, IInv, Unlisted, BehindOnlyIfWide, Live, home
    <3> QED BY <3>1, <3>2, <3>3 DEF IInv
  <2>16. CASE UNCHANGED vars
    <3>1. TypeOK'
      BY <2>16 DEF vars, IInv, TypeOK, home
    <3>2. ASSUME NEW k \in Call PROVE CallInv(k)'
      BY <2>16 DEF vars, IInv, CallInv
    <3>3. Unlisted' /\ BehindOnlyIfWide'
      BY <2>16 DEF vars, IInv, Unlisted, BehindOnlyIfWide, Live, home
    <3> QED BY <3>1, <3>2, <3>3 DEF IInv
  <2> QED
    BY <2>1, <2>2, <2>3, <2>4, <2>5, <2>6, <2>7, <2>8, <2>9, <2>10, <2>11, <2>12, <2>13,
       <2>14, <2>15, <2>16
    DEF Next, Progress, Reply
<1> QED BY <1>1, <1>2, PTL DEF Spec

\* Every variable keeps its type.
THEOREM TypeCorrect == Spec => []TypeOK
<1>1. IInv => TypeOK
  BY DEF IInv
<1> QED BY <1>1, Invariance, PTL

\* A write or a command answered as done was carried out, one answered as
\* rejected was not.
THEOREM AlwaysTruthful == Spec => []AnswersTellTruth
<1>1. IInv => AnswersTellTruth
  BY DEF IInv, CallInv, AnswersTellTruth, Answered
<1> QED BY <1>1, Invariance, PTL

\* What the hub refuses by itself never gets to a device.
THEOREM AlwaysRefusedUnsent == Spec => []RefusedUnsent
<1>1. IInv => RefusedUnsent
  BY DEF IInv, CallInv, RefusedUnsent, Answered
<1> QED BY <1>1, Invariance, PTL

\* A subscriber's copy is behind the SDK's on values JSON cannot carry only.
THEOREM AlwaysBehindOnlyIfWide == Spec => []BehindOnlyIfWide
<1>1. IInv => BehindOnlyIfWide
  BY DEF IInv
<1> QED BY <1>1, Invariance, PTL
=============================================================================
