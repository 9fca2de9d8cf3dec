----------------------------- MODULE HubProofs ------------------------------
(***************************************************************************)
(* The process over any signals, secrets and configuration files.  A boot  *)
(* and a shutdown are a climb up the launch order and a descent down it,   *)
(* and never more than one of them is under way: what is up is always a    *)
(* prefix of the order.                                                    *)
(***************************************************************************)
EXTENDS Hub, SequenceTheorems, TLAPS

Height == Len(Order)

\* The first j components, and a walk that has them left to stop.
Below(j) == {Order[i] : i \in 1 .. j}

Descends(left, j) ==
    /\ left \in Seq(Component) /\ Len(left) = j
    /\ \A i \in 1 .. j : left[i] = Order[j - i + 1]

\* What a component may hold open although it was asked to stop.
Kept == threw \cup (IF boot = "failed" THEN MayLeak ELSE {})

AllAbsent == \A w \in Walker : walk[w] = Absent

-----------------------------------------------------------------------------
(* The phases of the life of a process *)

NotYet ==
    /\ boot \in {"environment", "config", "paths"} /\ exit \in {"none", "killed"}
    /\ ~stopping /\ AllAbsent
    /\ started = <<>> /\ field = {} /\ open = {}

Climbing ==
    /\ boot \in {"next", "launching"} /\ exit \in {"none", "killed"}
    /\ ~stopping /\ AllAbsent
    /\ \E k \in 0 .. Height - 1 :
          /\ started = SubSeq(Order, 1, k)
          /\ field = Below(k)
          /\ open = Below(IF boot = "launching" THEN k + 1 ELSE k)

Up ==
    /\ boot = "ready" /\ exit = "none"
    /\ ~stopping /\ AllAbsent
    /\ started = SubSeq(Order, 1, Height)
    /\ field = Below(Height) /\ open = Below(Height)

\* Walker w has the first j components left, the last of which it may await.
DescendingBy(w, j) ==
    /\ (boot = "failed" /\ ~stopping) \/ (boot = "ready" /\ stopping)
    /\ exit \in {"none", "killed"}
    /\ \A v \in Walker \ {w} : walk[v] = Absent
    /\ walk[w].at \in {"next", "awaiting"}
    /\ Descends(walk[w].left, j)
    /\ walk[w].at = "awaiting" => j > 0
    /\ field = Below(IF walk[w].at = "awaiting" THEN j - 1 ELSE j)
    /\ Below(j) \subseteq open /\ open \subseteq Below(j) \cup Kept
    /\ \E k \in 0 .. Height : started = SubSeq(Order, 1, k)

Descending == \E w \in Walker, j \in 0 .. Height : DescendingBy(w, j)

Ended ==
    /\ boot \in {"failed", "ready"} /\ exit \in {"success", "failure"}
    /\ AllAbsent
    /\ started = <<>> /\ field = {} /\ open \subseteq Kept

-----------------------------------------------------------------------------
(* The inductive invariant *)

\* The walks are records of their kind; a device is asked for once the hub is
\* up, and is orphaned by a controller that would not close.
Ranges ==
    /\ stopping \in BOOLEAN
    /\ walk \in [Walker -> Walks]
    /\ threw \subseteq Component
    /\ request \in {"none", "joining", "saved", "orphaned", "failed"}
    /\ request # "none" => boot = "ready"
    /\ OrphanedOnlyIfStopThrew

Heeded ==
    /\ token \in Token /\ file \in File
    /\ boot = "config" => Read(token) = "good"
    /\ SettingsHeeded

HInv ==
    /\ Ranges /\ Heeded
    /\ NotYet \/ Climbing \/ Up \/ Descending \/ Ended

-----------------------------------------------------------------------------
(* The launch order *)

LEMMA OrderFacts ==
    /\ Height = 5 /\ Order \in Seq(Component) /\ DOMAIN Order = 1 .. Height
    /\ \A i \in 1 .. Height : Order[i] \in Component
    /\ \A i, j \in 1 .. Height : Order[i] = Order[j] => i = j
    /\ Order[3] = "database" /\ Order[4] = "matter"
<1>1. Order \in Seq({"hub.log", "matter.log", "database", "matter", "server"})
  BY DEF Order
<1>2. /\ Len(Order) = 5 /\ DOMAIN Order = 1 .. 5
      /\ Order[1] = "hub.log" /\ Order[2] = "matter.log" /\ Order[3] = "database"
      /\ Order[4] = "matter" /\ Order[5] = "server"
  BY DEF Order
<1>3. \A i, j \in 1 .. 5 : Order[i] = Order[j] => i = j
  BY <1>2
<1>4. \A i \in 1 .. 5 : Order[i] \in Component
  BY <1>2 DEF Component, ToSet
<1>5. Order \in Seq(Component)
  BY <1>1, <1>2, <1>4, IsASeq
<1>6. QED
  BY <1>2, <1>3, <1>4, <1>5 DEF Height

LEMMA BelowFacts ==
    /\ Below(0) = {} /\ Below(Height) \subseteq Component
    /\ \A j \in 1 .. Height :
          Below(j) = Below(j - 1) \cup {Order[j]} /\ Order[j] \notin Below(j - 1)
    /\ \A j \in 0 .. Height : Below(j) \subseteq Component
<1>1. Height \in Nat
  BY OrderFacts
<1>2. Below(0) = {}
  BY DEF Below
<1>3. \A j \in 0 .. Height : Below(j) \subseteq Component
  BY <1>1, OrderFacts DEF Below
<1>4. ASSUME NEW j \in 1 .. Height
      PROVE  Below(j) = Below(j - 1) \cup {Order[j]} /\ Order[j] \notin Below(j - 1)
  <2>1. \A i : i \in 1 .. j <=> i \in 1 .. j - 1 \/ i = j
    BY <1>1
  <2>2. Below(j) = Below(j - 1) \cup {Order[j]}
    BY <2>1 DEF Below
  <2>3. ASSUME NEW i \in 1 .. j - 1, Order[i] = Order[j] PROVE FALSE
    BY <1>1, <2>3, OrderFacts
  <2>4. QED
    BY <2>2, <2>3 DEF Below
<1>5. QED
  BY <1>1, <1>2, <1>3, <1>4

\* What is up is closed downwards.
LEMMA BelowClosed ==
    ASSUME NEW m \in 0 .. Height, NEW i \in 1 .. Height, NEW j \in 1 .. Height,
           i < j, Order[j] \in Below(m)
    PROVE  Order[i] \in Below(m)
<1>1. Height \in Nat
  BY OrderFacts
<1>2. PICK h \in 1 .. m : Order[j] = Order[h]
  BY DEF Below
<1>3. j = h
  BY <1>1, <1>2, OrderFacts
<1>4. i \in 1 .. m
  BY <1>1, <1>3
<1>5. QED
  BY <1>4 DEF Below

\* #started as it grows, and the walk it is turned into.
LEMMA PrefixFacts ==
    ASSUME NEW k \in 0 .. Height
    PROVE  /\ SubSeq(Order, 1, k) \in Seq(Component) /\ Len(SubSeq(Order, 1, k)) = k
           /\ \A i \in 1 .. k : SubSeq(Order, 1, k)[i] = Order[i]
<1>1. Height \in Nat /\ \A i \in 1 .. k : Order[i] \in Component
  BY OrderFacts
<1>2. 1 \in Int /\ k \in Int
  BY <1>1
<1>3. /\ SubSeq(Order, 1, k) \in Seq(Component)
      /\ Len(SubSeq(Order, 1, k)) = IF 1 <= k THEN k - 1 + 1 ELSE 0
      /\ \A i \in 1 .. k - 1 + 1 : SubSeq(Order, 1, k)[i] = Order[1 + i - 1]
  BY <1>1, <1>2, SubSeqProperties
<1>4. QED
  BY <1>1, <1>3

LEMMA PrefixGrows ==
    ASSUME NEW k \in 0 .. Height, k < Height
    PROVE  Append(SubSeq(Order, 1, k), Order[k + 1]) = SubSeq(Order, 1, k + 1)
<1> DEFINE s == SubSeq(Order, 1, k)
           t == SubSeq(Order, 1, k + 1)
<1>1. Height \in Nat /\ k + 1 \in 0 .. Height /\ k + 1 \in 1 .. Height
  BY OrderFacts
<1>2. /\ s \in Seq(Component) /\ Len(s) = k /\ \A i \in 1 .. k : s[i] = Order[i]
      /\ t \in Seq(Component) /\ Len(t) = k + 1 /\ \A i \in 1 .. k + 1 : t[i] = Order[i]
  BY <1>1, PrefixFacts
<1>3. Order[k + 1] \in Component
  BY <1>1, OrderFacts
<1> HIDE DEF s, t
<1>4. /\ Append(s, Order[k + 1]) \in Seq(Component)
      /\ Len(Append(s, Order[k + 1])) = k + 1
      /\ \A i \in 1 .. k : Append(s, Order[k + 1])[i] = s[i]
      /\ Append(s, Order[k + 1])[k + 1] = Order[k + 1]
  BY <1>2, <1>3, AppendProperties
<1>5. \A i \in 1 .. k + 1 : Append(s, Order[k + 1])[i] = t[i]
  BY <1>1, <1>2, <1>4
<1>6. Append(s, Order[k + 1]) = t
  BY <1>2, <1>4, <1>5, SeqEqual
<1>7. QED
  BY <1>6 DEF s, t

LEMMA ReverseDescends ==
    ASSUME NEW k \in 0 .. Height
    PROVE  Descends(Reverse(SubSeq(Order, 1, k)), k)
<1> DEFINE s == SubSeq(Order, 1, k)
<1>1. Height \in Nat /\ k \in Nat
  BY OrderFacts
<1>2. s \in Seq(Component) /\ Len(s) = k /\ \A i \in 1 .. k : s[i] = Order[i]
  BY PrefixFacts
<1> HIDE DEF s
<1>3. Reverse(s) = [i \in 1 .. k |-> s[(k - i) + 1]]
  BY <1>2 DEF Reverse
<1>4. \A i \in 1 .. k : k - i + 1 \in 1 .. k /\ s[(k - i) + 1] = Order[k - i + 1]
  BY <1>1, <1>2
<1>5. \A i \in 1 .. k : s[(k - i) + 1] \in Component
  BY <1>1, <1>2, <1>4, ElementOfSeq
<1>6. Reverse(s) \in Seq(Component) /\ Len(Reverse(s)) = k
  BY <1>1, <1>3, <1>5, IsASeq
<1>7. QED
  BY <1>3, <1>4, <1>6 DEF Descends, s

\* One step down.
LEMMA DescendsOne ==
    ASSUME NEW j \in 0 .. Height, NEW left, Descends(left, j)
    PROVE  /\ left = <<>> <=> j = 0
           /\ j > 0 => Head(left) = Order[j] /\ Descends(Tail(left), j - 1)
<1>1. Height \in Nat /\ j \in Nat
  BY OrderFacts
<1>2. /\ left \in Seq(Component) /\ Len(left) = j
      /\ \A i \in 1 .. j : left[i] = Order[j - i + 1]
  BY DEF Descends
<1>3. left = <<>> <=> j = 0
  BY <1>1, <1>2, EmptySeq
<1>4. ASSUME j > 0 PROVE Head(left) = Order[j] /\ Descends(Tail(left), j - 1)
  <2>1. left # <<>> /\ 1 \in 1 .. j /\ j - 1 + 1 = j
    BY <1>1, <1>3, <1>4
  <2>2. Head(left) = left[1]
    BY <1>2, <2>1
  <2>3. Head(left) = Order[j]
    BY <1>2, <2>1, <2>2
  <2>4. /\ Tail(left) \in Seq(Component) /\ Len(Tail(left)) = j - 1
        /\ \A i \in 1 .. j - 1 : Tail(left)[i] = left[i + 1]
    BY <1>2, <2>1, HeadTailProperties
  <2>5. ASSUME NEW i \in 1 .. j - 1 PROVE Tail(left)[i] = Order[(j - 1) - i + 1]
    <3>1. i + 1 \in 1 .. j /\ j - (i + 1) + 1 = (j - 1) - i + 1
      BY <1>1, <2>5
    <3>2. QED
      BY <1>2, <2>4, <3>1
  <2>6. QED
    BY <2>3, <2>4, <2>5 DEF Descends
<1>5. QED
  BY <1>3, <1>4

-----------------------------------------------------------------------------
(* The settings *)

\* What is loaded states what the file states and the defaults for the rest.
LEMMA LoadedHeeds ==
    ASSUME file \in File, Loadable(file)
    PROVE  /\ file.kind \in {"missing", "object"}
           /\ \A s \in DOMAIN file.body : \A f \in DOMAIN file.body[s] :
                 /\ s \in DOMAIN Loaded(file) /\ f \in DOMAIN Loaded(file)[s]
                 /\ Loaded(file)[s][f] = file.body[s][f]
           /\ \A s \in DOMAIN Loaded(file) : \A f \in DOMAIN Loaded(file)[s] :
                 States(file.body, s, f) \/ Loaded(file)[s][f] = Default[f]
<1>1. file.kind \in {"missing", "object"}
  BY DEF Loadable
<1>2. Loaded(file) = Filled(file.body)
  BY <1>1, FileAssumption DEF Loaded
<1>3. \A s \in DOMAIN file.body : \A f \in DOMAIN file.body[s] :
         s \in DOMAIN Fields /\ f \in Fields[s]
  <2>1. CASE file.kind = "missing"
    BY <2>1, FileAssumption DEF NoBody
  <2>2. CASE file.kind = "object"
    BY <2>2 DEF Loadable, Valid
  <2>3. QED
    BY <1>1, <2>1, <2>2
<1>4. PICK loaded : loaded = Filled(file.body)
  OBVIOUS
<1>5. /\ DOMAIN loaded = DOMAIN Fields
      /\ \A s \in DOMAIN Fields : DOMAIN loaded[s] = Fields[s]
      /\ \A s \in DOMAIN Fields : \A f \in Fields[s] :
            loaded[s][f] = IF States(file.body, s, f) THEN file.body[s][f] ELSE Default[f]
  BY <1>4 DEF Filled
<1>6. \A s \in DOMAIN file.body : \A f \in DOMAIN file.body[s] : States(file.body, s, f)
  BY DEF States
<1>7. QED
  BY <1>1, <1>2, <1>3, <1>4, <1>5, <1>6

\* After the configuration is loaded nothing touches it.
LEMMA HeededStays ==
    ASSUME Heeded, UNCHANGED settings, boot' # "config",
           boot' \in {boot, "failed"} \/ boot \notin {"environment", "config", "failed"}
    PROVE  Heeded'
BY DEF Heeded, settings, SettingsHeeded

-----------------------------------------------------------------------------
(* Init, and the steps of the boot *)

LEMMA InitHolds == Init => HInv
<1> SUFFICES ASSUME Init PROVE HInv
  OBVIOUS
<1>1. Absent \in Walks
  <2>1. <<>> \in Seq(Component)
    OBVIOUS
  <2>2. QED
    BY <2>1 DEF Absent, Walks
<1>2. Ranges
  BY <1>1 DEF Init, Ranges, OrphanedOnlyIfStopThrew
<1>3. Heeded
  BY DEF Init, Heeded, SettingsHeeded
<1>4. NotYet
  BY DEF Init, NotYet, AllAbsent
<1>5. QED
  BY <1>2, <1>3, <1>4 DEF HInv

\* The phase a process is in, from where its boot stands.
LEMMA PhaseOfBoot ==
    ASSUME HInv, exit = "none"
    PROVE  /\ boot \in {"environment", "config", "paths"} => NotYet
           /\ boot \in {"next", "launching"} => Climbing
           /\ boot = "ready" /\ ~stopping => Up
           /\ ~AllAbsent => Descending
BY DEF HInv, NotYet, Climbing, Up, Descending, DescendingBy, Ended

LEMMA ResolveKeeps == ASSUME HInv, ResolveEnvironment PROVE HInv'
<1>1. NotYet /\ exit = "none" /\ boot = "environment"
  BY PhaseOfBoot DEF ResolveEnvironment, Running
<1>2. UNCHANGED <<started, field, open, stopping, walk, request, threw>> /\ UNCHANGED settings
  BY DEF ResolveEnvironment
<1>3. CASE TokenAccepted(token)
  <2>1. boot' = "config" /\ exit' = exit
    BY <1>3 DEF ResolveEnvironment
  <2>2. Read(token) = "good"
    BY <1>3, TokenAssumption DEF HInv, Heeded, TokenAccepted, Read, TokenKinds
  <2>3. Heeded'
    BY <1>2, <2>1, <2>2 DEF HInv, Heeded, SettingsHeeded, settings
  <2>4. NotYet'
    BY <1>1, <1>2, <2>1 DEF NotYet, AllAbsent
  <2>5. Ranges'
    BY <1>1, <1>2, <2>1 DEF HInv, Ranges, OrphanedOnlyIfStopThrew
  <2>6. QED
    BY <2>3, <2>4, <2>5 DEF HInv
<1>4. CASE ~TokenAccepted(token)
  <2>1. boot' = "failed" /\ exit' = "failure"
    BY <1>4 DEF ResolveEnvironment, Refuse
  <2>2. Heeded'
    BY <1>2, <2>1, HeededStays DEF HInv
  <2>3. Ended'
    BY <1>1, <1>2, <2>1 DEF NotYet, Ended, AllAbsent
  <2>4. Ranges'
    BY <1>1, <1>2, <2>1 DEF HInv, Ranges, OrphanedOnlyIfStopThrew
  <2>5. QED
    BY <2>2, <2>3, <2>4 DEF HInv
<1>5. QED
  BY <1>3, <1>4

LEMMA LoadConfigKeeps == ASSUME HInv, LoadConfig PROVE HInv'
<1>1. NotYet /\ exit = "none" /\ boot = "config"
  BY PhaseOfBoot DEF LoadConfig, Running
<1>2. UNCHANGED <<token, file, started, field, open, stopping, walk, request, threw>>
  BY DEF LoadConfig
<1>3. CASE Loadable(file)
  <2>1. boot' = "paths" /\ exit' = exit /\ config' = Loaded(file)
    BY <1>3 DEF LoadConfig
  <2>2. file \in File /\ token \in Token /\ Read(token) = "good"
    BY <1>1 DEF HInv, Heeded
  <2>3. Heeded'
    BY <1>2, <1>3, <2>1, <2>2, LoadedHeeds DEF Heeded, SettingsHeeded
  <2>4. NotYet'
    BY <1>1, <1>2, <2>1 DEF NotYet, AllAbsent
  <2>5. Ranges'
    BY <1>1, <1>2, <2>1 DEF HInv, Ranges, OrphanedOnlyIfStopThrew
  <2>6. QED
    BY <2>3, <2>4, <2>5 DEF HInv
<1>4. CASE ~Loadable(file)
  <2>1. boot' = "failed" /\ exit' = "failure" /\ config' = config
    BY <1>4 DEF LoadConfig, Refuse
  <2>2. Heeded'
    BY <1>2, <2>1, HeededStays DEF HInv, settings
  <2>3. Ended'
    BY <1>1, <1>2, <2>1 DEF NotYet, Ended, AllAbsent
  <2>4. Ranges'
    BY <1>1, <1>2, <2>1 DEF HInv, Ranges, OrphanedOnlyIfStopThrew
  <2>5. QED
    BY <2>2, <2>3, <2>4 DEF HInv
<1>5. QED
  BY <1>3, <1>4

\* A walk that begins, with nobody on one, has all of #started left.
LEMMA WalkBegins ==
    ASSUME Ranges, AllAbsent, NEW w \in Walker, Shutdown(w),
           NEW k \in 0 .. Height, started = SubSeq(Order, 1, k)
    PROVE  /\ walk' \in [Walker -> Walks]
           /\ \A v \in Walker \ {w} : walk'[v] = Absent
           /\ walk'[w].at = "next" /\ Descends(walk'[w].left, k)
<1>1. Descends(ToStop, k)
  BY ReverseDescends DEF ToStop
<1>2. [at |-> "next", left |-> ToStop] \in Walks
  BY <1>1 DEF Descends, Walks
<1>3. QED
  BY <1>1, <1>2 DEF Shutdown, Ranges, AllAbsent

LEMMA MakePathsKeeps == ASSUME HInv, MakePaths PROVE HInv'
<1>1. NotYet /\ exit = "none" /\ boot = "paths"
  BY PhaseOfBoot DEF MakePaths, Running
<1>2. /\ UNCHANGED <<started, field, open, stopping, exit, request, threw>>
      /\ UNCHANGED settings /\ boot' \in {"next", "failed"}
  BY DEF MakePaths
<1>3. Heeded'
  BY <1>1, <1>2, HeededStays DEF HInv
<1>4. /\ 0 \in 0 .. Height /\ 0 \in 0 .. Height - 1
      /\ SubSeq(Order, 1, 0) = <<>> /\ Below(0) = {}
  BY OrderFacts, BelowFacts, SubSeqEmpty
<1>5. CASE boot' = "next" /\ walk' = walk
  <2>1. Climbing'
    BY <1>1, <1>2, <1>4, <1>5 DEF NotYet, Climbing, AllAbsent
  <2>2. Ranges'
    BY <1>1, <1>2, <1>5 DEF HInv, Ranges, OrphanedOnlyIfStopThrew
  <2>3. QED
    BY <1>3, <2>1, <2>2 DEF HInv
<1>6. CASE boot' = "failed" /\ Shutdown(Boot)
  <2>1. Boot \in Walker
    BY DEF Walker
  <2>2. /\ walk' \in [Walker -> Walks]
        /\ \A v \in Walker \ {Boot} : walk'[v] = Absent
        /\ walk'[Boot].at = "next" /\ Descends(walk'[Boot].left, 0)
    BY <1>1, <1>4, <1>6, <2>1, WalkBegins DEF HInv, NotYet
  <2>3. DescendingBy(Boot, 0)'
    BY <1>1, <1>2, <1>4, <1>6, <2>2 DEF NotYet, DescendingBy
  <2>4. Descending'
    BY <1>4, <2>1, <2>3 DEF Descending
  <2>5. Ranges'
    BY <1>1, <1>2, <1>6, <2>2 DEF HInv, Ranges, OrphanedOnlyIfStopThrew
  <2>6. QED
    BY <1>3, <2>4, <2>5 DEF HInv
<1>7. QED
  BY <1>5, <1>6 DEF MakePaths

\* Where a boot that is between its directories and its end stands.
LEMMA ClimbFacts ==
    ASSUME Climbing
    PROVE  \E k \in 0 .. Height - 1 :
              /\ k \in 0 .. Height /\ k + 1 \in 1 .. Height /\ k + 1 \in 0 .. Height
              /\ started = SubSeq(Order, 1, k) /\ Len(started) = k
              /\ Upcoming = Order[k + 1]
              /\ field = Below(k)
              /\ open = Below(IF boot = "launching" THEN k + 1 ELSE k)
              /\ Below(k + 1) = Below(k) \cup {Upcoming} /\ Upcoming \notin Below(k)
<1>1. PICK k \in 0 .. Height - 1 :
         /\ started = SubSeq(Order, 1, k)
         /\ field = Below(k)
         /\ open = Below(IF boot = "launching" THEN k + 1 ELSE k)
  BY DEF Climbing
<1>2. Height \in Nat /\ k \in 0 .. Height /\ k + 1 \in 1 .. Height /\ k + 1 \in 0 .. Height
  BY OrderFacts
<1>3. Len(started) = k
  BY <1>1, <1>2, PrefixFacts
<1>4. Upcoming = Order[k + 1]
  BY <1>3 DEF Upcoming
<1>5. k + 1 - 1 = k
  BY <1>2
<1>6. Below(k + 1) = Below(k + 1 - 1) \cup {Order[k + 1]} /\ Order[k + 1] \notin Below(k + 1 - 1)
  BY <1>2, BelowFacts
<1>7. QED
  BY <1>1, <1>2, <1>3, <1>4, <1>5, <1>6

LEMMA LaunchKeeps == ASSUME HInv, Launch PROVE HInv'
<1>1. Climbing /\ exit = "none" /\ boot = "next"
  BY PhaseOfBoot DEF Launch, Running
<1>2. /\ UNCHANGED <<started, field, stopping, walk, exit, request, threw>>
      /\ UNCHANGED settings /\ boot' = "launching" /\ open' = open \cup {Upcoming}
  BY DEF Launch
<1>3. PICK k \in 0 .. Height - 1 :
         /\ started = SubSeq(Order, 1, k) /\ field = Below(k) /\ open = Below(k)
         /\ Below(k + 1) = Below(k) \cup {Upcoming}
  BY <1>1, ClimbFacts
<1>4. Climbing'
  BY <1>1, <1>2, <1>3 DEF Climbing, AllAbsent
<1>5. Heeded'
  BY <1>1, <1>2, HeededStays DEF HInv
<1>6. Ranges'
  BY <1>1, <1>2 DEF HInv, Ranges, OrphanedOnlyIfStopThrew
<1>7. QED
  BY <1>4, <1>5, <1>6 DEF HInv

LEMMA LaunchedKeeps == ASSUME HInv, Launched PROVE HInv'
<1>1. Climbing /\ exit = "none" /\ boot = "launching"
  BY PhaseOfBoot DEF Launched, Running
<1>2. /\ UNCHANGED <<open, stopping, walk, exit, request, threw>>
      /\ UNCHANGED settings /\ field' = field \cup {Upcoming}
      /\ started' = Append(started, Upcoming)
      /\ boot' = IF Len(started) + 1 = Height THEN "ready" ELSE "next"
  BY DEF Launched, Recorded, Height
<1>3. PICK k \in 0 .. Height - 1 :
         /\ k \in 0 .. Height /\ k + 1 \in 1 .. Height
         /\ started = SubSeq(Order, 1, k) /\ Len(started) = k
         /\ Upcoming = Order[k + 1] /\ field = Below(k) /\ open = Below(k + 1)
         /\ Below(k + 1) = Below(k) \cup {Upcoming}
  BY <1>1, ClimbFacts
<1>4. Height \in Nat
  BY OrderFacts
<1>5. started' = SubSeq(Order, 1, k + 1) /\ field' = Below(k + 1) /\ open' = Below(k + 1)
  BY <1>2, <1>3, <1>4, PrefixGrows
<1>6. CASE k + 1 = Height
  <2>1. Up'
    BY <1>1, <1>2, <1>3, <1>5, <1>6 DEF Climbing, Up, AllAbsent
  <2>2. QED
    BY <1>1, <1>2, <2>1, HeededStays DEF HInv, Ranges, OrphanedOnlyIfStopThrew
<1>7. CASE k + 1 # Height
  <2>1. boot' = "next" /\ k + 1 \in 0 .. Height - 1
    BY <1>2, <1>3, <1>4, <1>7
  <2>2. Climbing'
    BY <1>1, <1>2, <1>5, <2>1 DEF Climbing, AllAbsent
  <2>3. QED
    BY <1>1, <1>2, <2>1, <2>2, HeededStays DEF HInv, Ranges, OrphanedOnlyIfStopThrew
<1>8. QED
  BY <1>6, <1>7

LEMMA LaunchFailsKeeps == ASSUME HInv, LaunchFails PROVE HInv'
<1>1. Climbing /\ exit = "none" /\ boot = "launching"
  BY PhaseOfBoot DEF LaunchFails, Running
<1>2. /\ UNCHANGED <<started, field, stopping, exit, request, threw>>
      /\ UNCHANGED settings /\ boot' = "failed" /\ Shutdown(Boot)
      /\ open' = open \ {Upcoming} \/ (Upcoming \in MayLeak /\ open' = open)
  BY DEF LaunchFails
<1>3. PICK k \in 0 .. Height - 1 :
         /\ k \in 0 .. Height
         /\ started = SubSeq(Order, 1, k)
         /\ field = Below(k) /\ open = Below(k + 1)
         /\ Below(k + 1) = Below(k) \cup {Upcoming} /\ Upcoming \notin Below(k)
  BY <1>1, ClimbFacts
<1>4. Boot \in Walker
  BY DEF Walker
<1>5. /\ walk' \in [Walker -> Walks]
      /\ \A v \in Walker \ {Boot} : walk'[v] = Absent
      /\ walk'[Boot].at = "next" /\ Descends(walk'[Boot].left, k)
  BY <1>1, <1>2, <1>3, <1>4, WalkBegins DEF HInv, Climbing
<1>6. Below(k) \subseteq open' /\ open' \subseteq Below(k) \cup MayLeak
  BY <1>2, <1>3
<1>7. DescendingBy(Boot, k)'
  BY <1>1, <1>2, <1>3, <1>5, <1>6 DEF Climbing, DescendingBy, Kept
<1>8. Descending'
  BY <1>3, <1>4, <1>7 DEF Descending
<1>9. Heeded'
  BY <1>1, <1>2, HeededStays DEF HInv
<1>10. Ranges'
  BY <1>1, <1>2, <1>5 DEF HInv, Ranges, OrphanedOnlyIfStopThrew
<1>11. QED
  BY <1>8, <1>9, <1>10 DEF HInv

-----------------------------------------------------------------------------
(* The steps of #shutdown *)

\* The walk that takes a step is the only one.
LEMMA TheWalk ==
    ASSUME HInv, exit = "none", NEW w \in Walker, walk[w].at # "absent"
    PROVE  /\ boot \in {"failed", "ready"}
           /\ walk[w] \in Walks
           /\ \E j \in 0 .. Height : DescendingBy(w, j)
<1>1. ~AllAbsent
  BY DEF AllAbsent, Absent
<1>2. PICK v \in Walker, j \in 0 .. Height : DescendingBy(v, j)
  BY <1>1, PhaseOfBoot DEF Descending
<1>3. v = w
  BY <1>2 DEF DescendingBy, Absent
<1>4. QED
  BY <1>2, <1>3 DEF HInv, Ranges, DescendingBy

\* One step down, and who is left below.
LEMMA DownFacts ==
    ASSUME NEW j \in 0 .. Height, j > 0
    PROVE  /\ j - 1 \in 0 .. Height /\ j \in 1 .. Height
           /\ Below(j) = Below(j - 1) \cup {Order[j]} /\ Order[j] \notin Below(j - 1)
BY OrderFacts, BelowFacts

\* With one walk at a time, the component to stop is always in its window.
LEMMA AskKeeps == ASSUME HInv, NEW w \in Walker, AskToStop(w) PROVE HInv'
<1>1. /\ exit = "none" /\ walk[w].at = "next" /\ walk[w].left # <<>>
      /\ UNCHANGED <<boot, started, open, stopping, exit, request, threw>>
      /\ UNCHANGED settings
  BY DEF AskToStop, Running
<1>2. PICK j \in 0 .. Height : DescendingBy(w, j)
  BY <1>1, TheWalk
<1>3. /\ field = Below(j) /\ Descends(walk[w].left, j)
      /\ Below(j) \subseteq open /\ open \subseteq Below(j) \cup Kept
      /\ \A v \in Walker \ {w} : walk[v] = Absent
  BY <1>1, <1>2 DEF DescendingBy
<1>4. j > 0 /\ Head(walk[w].left) = Order[j]
  <2>1. j # 0
    BY <1>1, <1>3, DescendsOne
  <2>2. j > 0
    BY <2>1, OrderFacts
  <2>3. QED
    BY <1>3, <2>2, DescendsOne
<1>5. /\ j - 1 \in 0 .. Height
      /\ Below(j) = Below(j - 1) \cup {Order[j]} /\ Order[j] \notin Below(j - 1)
  BY <1>4, DownFacts
<1>6. /\ field' = field \ {Order[j]}
      /\ walk' = [walk EXCEPT ![w].at = "awaiting"]
  BY <1>3, <1>4, <1>5 DEF AskToStop
<1>7. walk \in [Walker -> Walks] /\ walk[w] \in Walks
  BY DEF HInv, Ranges
<1>8. /\ walk'[w].at = "awaiting" /\ walk'[w].left = walk[w].left
      /\ \A v \in Walker \ {w} : walk'[v] = walk[v]
      /\ walk' \in [Walker -> Walks]
  BY <1>6, <1>7 DEF Walks
<1>9. field' = Below(j - 1)
  BY <1>3, <1>5, <1>6
<1>10. DescendingBy(w, j)'
  BY <1>1, <1>2, <1>3, <1>4, <1>8, <1>9 DEF DescendingBy, Kept
<1>11. Descending'
  BY <1>10 DEF Descending
<1>12. Heeded'
  BY <1>1, <1>2, HeededStays DEF HInv, DescendingBy
<1>13. Ranges'
  BY <1>1, <1>8 DEF HInv, Ranges, OrphanedOnlyIfStopThrew
<1>14. QED
  BY <1>11, <1>12, <1>13 DEF HInv

\* A stop() that settles, whether it released its component or rejected and
\* kept it: the walk goes on with the next one down.
LEMMA SettledKeeps ==
    ASSUME HInv, NEW w \in Walker, exit = "none", walk[w].at = "awaiting",
           walk' = [walk EXCEPT ![w] = [at |-> "next", left |-> Tail(@.left)]],
           threw \subseteq threw', threw' \subseteq Component,
           open' \subseteq open,
           \A c \in open \ open' : c = Head(walk[w].left),
           Head(walk[w].left) \in open' => Head(walk[w].left) \in threw',
           UNCHANGED <<boot, started, field, stopping, exit, request>>,
           UNCHANGED settings
    PROVE  HInv'
<1>1. PICK j \in 0 .. Height : DescendingBy(w, j)
  BY TheWalk
<1>2. /\ field = Below(j - 1) /\ Descends(walk[w].left, j) /\ j > 0
      /\ Below(j) \subseteq open /\ open \subseteq Below(j) \cup Kept
      /\ \A v \in Walker \ {w} : walk[v] = Absent
  BY <1>1 DEF DescendingBy
<1>3. Head(walk[w].left) = Order[j] /\ Descends(Tail(walk[w].left), j - 1)
  BY <1>2, DescendsOne
<1>4. /\ j - 1 \in 0 .. Height
      /\ Below(j) = Below(j - 1) \cup {Order[j]} /\ Order[j] \notin Below(j - 1)
  BY <1>2, DownFacts
<1>5. walk \in [Walker -> Walks] /\ walk[w] \in Walks
  BY DEF HInv, Ranges
<1>6. [at |-> "next", left |-> Tail(walk[w].left)] \in Walks
  BY <1>3 DEF Walks, Descends
<1>7. /\ walk'[w].at = "next" /\ Descends(walk'[w].left, j - 1)
      /\ \A v \in Walker \ {w} : walk'[v] = walk[v]
      /\ walk' \in [Walker -> Walks]
  BY <1>3, <1>5, <1>6
<1>8. Below(j - 1) \subseteq open' /\ open' \subseteq Below(j - 1) \cup Kept'
  <2>1. Kept \subseteq Kept'
    BY DEF Kept
  <2>2. Order[j] \in open' => Order[j] \in Kept'
    BY <1>3 DEF Kept
  <2>3. QED
    BY <1>2, <1>3, <1>4, <2>1, <2>2
<1>9. DescendingBy(w, j - 1)'
  BY <1>1, <1>2, <1>7, <1>8 DEF DescendingBy
<1>10. Descending'
  BY <1>4, <1>9 DEF Descending
<1>11. Heeded'
  BY <1>1, HeededStays DEF HInv, DescendingBy
<1>12. Ranges'
  BY <1>7 DEF HInv, Ranges, OrphanedOnlyIfStopThrew
<1>13. QED
  BY <1>10, <1>11, <1>12 DEF HInv

LEMMA StoppedKeeps == ASSUME HInv, NEW w \in Walker, Stopped(w) PROVE HInv'
<1>1. threw \subseteq Component
  BY DEF HInv, Ranges
<1>2. QED
  BY <1>1, SettledKeeps DEF Stopped, Running

LEMMA StopThrowsKeeps == ASSUME HInv, NEW w \in Walker, StopThrows(w) PROVE HInv'
<1>1. exit = "none" /\ walk[w].at = "awaiting"
  BY DEF StopThrows, Running
<1>2. PICK j \in 0 .. Height : DescendingBy(w, j)
  BY <1>1, TheWalk
<1>3. j \in 1 .. Height /\ Head(walk[w].left) = Order[j]
  BY <1>1, <1>2, DescendsOne, DownFacts DEF DescendingBy
<1>4. threw' \subseteq Component /\ threw \subseteq threw' /\ Head(walk[w].left) \in threw'
  BY <1>3, OrderFacts DEF HInv, Ranges, StopThrows
<1>5. walk' = [walk EXCEPT ![w] = [at |-> "next", left |-> Tail(@.left)]]
  BY DEF StopThrows, LeftAfter
<1>6. QED
  BY <1>1, <1>4, <1>5, SettledKeeps DEF StopThrows

LEMMA ExitKeeps == ASSUME HInv, NEW w \in Walker, Exit(w) PROVE HInv'
<1>1. /\ exit = "none" /\ walk[w].at = "next" /\ walk[w].left = <<>>
      /\ UNCHANGED <<boot, field, open, stopping, request, threw>> /\ UNCHANGED settings
      /\ started' = <<>> /\ walk' = [walk EXCEPT ![w] = Absent]
      /\ exit' \in {"success", "failure"}
  BY DEF Exit, Running, Code
<1>2. PICK j \in 0 .. Height : DescendingBy(w, j)
  BY <1>1, TheWalk
<1>3. /\ field = Below(j) /\ Descends(walk[w].left, j) /\ boot \in {"failed", "ready"}
      /\ open \subseteq Below(j) \cup Kept
      /\ \A v \in Walker \ {w} : walk[v] = Absent
  BY <1>1, <1>2 DEF DescendingBy
<1>4. j = 0 /\ Below(j) = {}
  BY <1>1, <1>3, DescendsOne, BelowFacts
<1>5. walk \in [Walker -> Walks] /\ Absent \in Walks
  <2>1. <<>> \in Seq(Component)
    OBVIOUS
  <2>2. QED
    BY <2>1 DEF HInv, Ranges, Absent, Walks
<1>6. AllAbsent' /\ walk' \in [Walker -> Walks]
  BY <1>1, <1>3, <1>5 DEF AllAbsent
<1>7. Ended'
  BY <1>1, <1>3, <1>4, <1>6 DEF Ended, Kept
<1>8. Heeded'
  BY <1>1, <1>3, HeededStays DEF HInv
<1>9. Ranges'
  BY <1>1, <1>6 DEF HInv, Ranges, OrphanedOnlyIfStopThrew
<1>10. QED
  BY <1>7, <1>8, <1>9 DEF HInv

\* A signal kills a process that is not up; the first one after that begins
\* the one walk down.
LEMMA ReceiveKeeps == ASSUME HInv, NEW s \in Signal, Receive(s) PROVE HInv'
<1>1. /\ exit = "none" /\ walk[s].at = "absent"
      /\ UNCHANGED <<boot, started, field, open, request, threw>> /\ UNCHANGED settings
  BY DEF Receive, Running
<1>2. boot \in {"environment", "config", "paths", "next", "launching", "ready", "failed"}
  BY DEF HInv, NotYet, Climbing, Up, Descending, DescendingBy, Ended
<1>3. Heeded'
  BY <1>1 DEF HInv, Heeded, settings, SettingsHeeded
<1>4. CASE boot # "ready"
  <2>1. exit' = "killed" /\ UNCHANGED <<stopping, walk>>
    BY <1>4 DEF Receive
  <2>2. Ranges'
    BY <1>1, <2>1 DEF HInv, Ranges, OrphanedOnlyIfStopThrew
  <2>3. CASE NotYet
    BY <1>1, <1>3, <2>1, <2>2, <2>3 DEF HInv, NotYet, AllAbsent
  <2>4. CASE Climbing
    BY <1>1, <1>3, <2>1, <2>2, <2>4 DEF HInv, Climbing, AllAbsent
  <2>5. CASE Descending
    <3>1. PICK w \in Walker, j \in 0 .. Height : DescendingBy(w, j)
      BY <2>5 DEF Descending
    <3>2. DescendingBy(w, j)'
      BY <1>1, <2>1, <3>1 DEF DescendingBy, Kept
    <3>3. Descending'
      BY <3>2 DEF Descending
    <3>4. QED
      BY <1>3, <2>2, <3>3 DEF HInv
  <2>6. QED
    BY <1>1, <1>4, <2>3, <2>4, <2>5 DEF HInv, Up, Ended
<1>5. CASE boot = "ready"
  <2>1. ~stopping /\ stopping' = TRUE /\ Shutdown(s) /\ exit' = exit
    BY <1>5 DEF Receive, Heeds
  <2>2. Up
    BY <1>1, <1>5, <2>1, PhaseOfBoot
  <2>3. s \in Walker /\ Height \in 0 .. Height /\ started = SubSeq(Order, 1, Height)
    BY <2>2, OrderFacts DEF Walker, Up
  <2>4. /\ walk' \in [Walker -> Walks]
        /\ \A v \in Walker \ {s} : walk'[v] = Absent
        /\ walk'[s].at = "next" /\ Descends(walk'[s].left, Height)
    BY <2>1, <2>2, <2>3, WalkBegins DEF HInv, Up
  <2>5. DescendingBy(s, Height)'
    BY <1>1, <1>5, <2>1, <2>2, <2>3, <2>4 DEF Up, DescendingBy
  <2>6. Descending'
    BY <2>3, <2>5 DEF Descending
  <2>7. Ranges'
    BY <1>1, <1>5, <2>1, <2>4 DEF HInv, Ranges, OrphanedOnlyIfStopThrew
  <2>8. QED
    BY <1>3, <2>6, <2>7 DEF HInv
<1>6. QED
  BY <1>4, <1>5

-----------------------------------------------------------------------------
(* The commissioning in flight *)

\* While the controller is up, and while it closes, the database is open.
LEMMA DatabaseOutlasts ==
    ASSUME HInv, exit = "none", boot = "ready", "matter" \in open, "matter" \notin threw
    PROVE  "database" \in open
<1>1. Order[3] = "database" /\ Order[4] = "matter" /\ Height = 5
  BY OrderFacts
<1>2. Up \/ Descending
  BY DEF HInv, NotYet, Climbing, Ended
<1>3. CASE Up
  <2>1. Height \in 0 .. Height /\ 3 \in 1 .. Height
    BY <1>1
  <2>2. QED
    BY <1>1, <1>3, <2>1 DEF Up, Below
<1>4. CASE Descending
  <2>1. PICK j \in 0 .. Height :
           Below(j) \subseteq open /\ open \subseteq Below(j) \cup threw
    BY <1>4 DEF Descending, DescendingBy, Kept
  <2>2. Order[4] \in Below(j) /\ 3 \in 1 .. Height /\ 4 \in 1 .. Height
    BY <1>1, <2>1
  <2>3. Order[3] \in Below(j)
    BY <2>2, BelowClosed
  <2>4. QED
    BY <1>1, <2>1, <2>3
<1>5. QED
  BY <1>2, <1>3, <1>4

\* The hub does not move under a request.
LEMMA PhaseStays ==
    ASSUME HInv,
           UNCHANGED <<boot, started, field, open, stopping, walk, exit, threw>>,
           UNCHANGED settings, Ranges'
    PROVE  HInv'
<1>1. Heeded'
  BY DEF HInv, Heeded, settings, SettingsHeeded
<1>2. Descending => Descending'
  <2>1. ASSUME NEW w \in Walker, NEW j \in 0 .. Height, DescendingBy(w, j)
        PROVE  DescendingBy(w, j)'
    BY <2>1 DEF DescendingBy, Kept
  <2>2. QED
    BY <2>1 DEF Descending
<1>3. /\ NotYet => NotYet'
      /\ Climbing => Climbing'
      /\ Up => Up'
      /\ Ended => Ended'
  BY DEF NotYet, Climbing, Up, Ended, AllAbsent, Kept
<1>4. QED
  BY <1>1, <1>2, <1>3 DEF HInv

LEMMA RequestKeeps == ASSUME HInv, Commission \/ Joined \/ Refused PROVE HInv'
<1>1. /\ exit = "none"
      /\ UNCHANGED <<boot, started, field, open, stopping, walk, exit, threw>>
      /\ UNCHANGED settings
  BY DEF Commission, Joined, Refused, Running
<1>2. Ranges'
  <2>1. CASE Commission
    BY <1>1, <2>1 DEF HInv, Ranges, OrphanedOnlyIfStopThrew, Commission
  <2>2. CASE Joined
    <3>1. boot = "ready" /\ "matter" \in open
      BY <2>2 DEF HInv, Ranges, Joined
    <3>2. "database" \notin open => "matter" \in threw
      BY <1>1, <3>1, DatabaseOutlasts
    <3>3. request' = IF "database" \in open THEN "saved" ELSE "orphaned"
      BY <2>2 DEF Joined
    <3>4. QED
      BY <1>1, <3>1, <3>2, <3>3 DEF HInv, Ranges, OrphanedOnlyIfStopThrew
  <2>3. CASE Refused
    BY <1>1, <2>3 DEF HInv, Ranges, OrphanedOnlyIfStopThrew, Refused
  <2>4. QED
    BY <2>1, <2>2, <2>3
<1>3. QED
  BY <1>1, <1>2, PhaseStays

-----------------------------------------------------------------------------
(* The theorems *)

LEMMA NextKeeps == HInv /\ [Next]_vars => HInv'
<1> SUFFICES ASSUME HInv, [Next]_vars PROVE HInv'
  OBVIOUS
<1>1. CASE Booting
  BY <1>1, ResolveKeeps, LoadConfigKeeps, MakePathsKeeps, LaunchKeeps, LaunchedKeeps,
     LaunchFailsKeeps DEF Booting
<1>2. ASSUME NEW w \in Walker, ShuttingDown(w) PROVE HInv'
  BY <1>2, AskKeeps, StoppedKeeps, StopThrowsKeeps, ExitKeeps DEF ShuttingDown
<1>3. ASSUME NEW s \in Signal, Receive(s) PROVE HInv'
  BY <1>3, ReceiveKeeps
<1>4. CASE Commission \/ Joined \/ Refused
  BY <1>4, RequestKeeps
<1>5. CASE UNCHANGED vars
  <2>1. /\ UNCHANGED <<boot, started, field, open, stopping, walk, exit, threw>>
        /\ UNCHANGED settings /\ UNCHANGED request
    BY <1>5 DEF vars, hub
  <2>2. Ranges'
    BY <2>1 DEF HInv, Ranges, OrphanedOnlyIfStopThrew
  <2>3. QED
    BY <2>1, <2>2, PhaseStays
<1>6. CASE Ask \/ GiveUp
  <2>1. /\ UNCHANGED <<boot, started, field, open, stopping, walk, exit, threw>>
        /\ UNCHANGED settings /\ UNCHANGED request
    BY <1>6 DEF Ask, GiveUp
  <2>2. Ranges'
    BY <2>1 DEF HInv, Ranges, OrphanedOnlyIfStopThrew
  <2>3. QED
    BY <2>1, <2>2, PhaseStays
<1>7. QED
  BY <1>1, <1>2, <1>3, <1>4, <1>5, <1>6 DEF Next

\* Through any boot, any failure and any signals, a process is in one of its
\* five phases, and a walk down is never met by another.
THEOREM HubInvariance == Spec => []HInv
<1>1. QED
  BY InitHolds, NextKeeps, PTL DEF Spec

WaitingTyped == waiting \in BOOLEAN

LEMMA WaitingKeeps == WaitingTyped /\ [Next]_vars => WaitingTyped'
<1>1. [Next]_vars => waiting' = waiting \/ waiting' \in BOOLEAN
  BY DEF Next, vars, hub, Booting, ShuttingDown, ResolveEnvironment, LoadConfig, MakePaths,
         Launch, Launched, LaunchFails, AskToStop, Stopped, StopThrows, Exit, Receive,
         Commission, Joined, Refused, Ask, GiveUp
<1>2. QED
  BY <1>1 DEF WaitingTyped

\* Every variable has its type, #started being a prefix of the launch order.
THEOREM HubTypeCorrect == Spec => []TypeOK
<1>1. HInv /\ WaitingTyped => TypeOK
  <2> SUFFICES ASSUME HInv, WaitingTyped PROVE TypeOK
    OBVIOUS
  <2>1. PICK k \in 0 .. Height : started = SubSeq(Order, 1, k)
    <3>1. 0 \in 0 .. Height /\ Height \in 0 .. Height /\ SubSeq(Order, 1, 0) = <<>>
      BY OrderFacts, SubSeqEmpty
    <3>2. \A i \in 0 .. Height - 1 : i \in 0 .. Height
      BY OrderFacts
    <3>3. QED
      BY <3>1, <3>2 DEF HInv, NotYet, Climbing, Up, Descending, DescendingBy, Ended
  <2>2. started = SubSeq(Order, 1, Len(started))
    BY <2>1, PrefixFacts
  <2>3. field \subseteq Component /\ open \subseteq Component
    <3>1. Kept \subseteq Component
      BY OrderFacts DEF Kept, MayLeak, HInv, Ranges
    <3>2. CASE NotYet \/ Ended
      BY <3>1, <3>2 DEF NotYet, Ended
    <3>3. CASE Climbing
      <4>1. PICK i \in 0 .. Height : i + 1 \in 0 .. Height /\ field = Below(i)
                                      /\ open = Below(IF boot = "launching" THEN i + 1 ELSE i)
        BY <3>3, ClimbFacts
      <4>2. QED
        BY <4>1, BelowFacts
    <3>4. CASE Up
      BY <3>4, BelowFacts DEF Up
    <3>5. CASE Descending
      <4>1. PICK w \in Walker, j \in 0 .. Height : DescendingBy(w, j)
        BY <3>5 DEF Descending
      <4>2. j > 0 => j - 1 \in 0 .. Height
        BY OrderFacts
      <4>3. QED
        BY <3>1, <4>1, <4>2, BelowFacts DEF DescendingBy
    <3>6. QED
      BY <3>2, <3>3, <3>4, <3>5 DEF HInv
  <2>4. /\ boot \in {"environment", "config", "paths", "next", "launching", "ready", "failed"}
        /\ exit \in {"none", "success", "failure", "killed"}
    BY DEF HInv, NotYet, Climbing, Up, Descending, DescendingBy, Ended
  <2>5. QED
    BY <2>2, <2>3, <2>4 DEF HInv, Ranges, TypeOK, WaitingTyped
<1>2. Init => WaitingTyped
  BY DEF Init, WaitingTyped
<1>3. QED
  BY <1>1, <1>2, WaitingKeeps, HubInvariance, PTL DEF Spec

\* A hub that got as far as its directories runs what its file states, with
\* the defaults for the rest, behind a secret that a client can present.
THEOREM AlwaysSettingsHeeded == Spec => []SettingsHeeded
<1>1. HInv => SettingsHeeded
  BY DEF HInv, Heeded
<1>2. QED
  BY <1>1, HubInvariance, PTL

\* What a component was built from is usable for as long as it is.
THEOREM AlwaysDependenciesUp == Spec => []DependenciesUp
<1>1. HInv => DependenciesUp
  <2> SUFFICES ASSUME HInv PROVE DependenciesUp
    OBVIOUS
  <2>1. \E m \in 0 .. Height : field = Below(m)
    <3>1. 0 \in 0 .. Height /\ Height \in 0 .. Height /\ Below(0) = {}
      BY OrderFacts, BelowFacts
    <3>2. CASE Climbing
      BY <3>2, ClimbFacts
    <3>3. CASE Descending
      <4>1. PICK w \in Walker, j \in 0 .. Height : DescendingBy(w, j)
        BY <3>3 DEF Descending
      <4>2. j > 0 => j - 1 \in 0 .. Height
        BY OrderFacts
      <4>3. QED
        BY <4>1, <4>2 DEF DescendingBy
    <3>4. QED
      BY <3>1, <3>2, <3>3 DEF HInv, NotYet, Up, Ended
  <2>2. QED
    BY <2>1, BelowClosed DEF DependenciesUp, Height
<1>2. QED
  BY <1>1, HubInvariance, PTL

\* A process that ends by itself has asked every component to stop, and holds
\* open only what a stop() or a start() that rejected kept.
THEOREM NothingEverLeftBehind == Spec => []NothingLeftBehind
<1>1. HInv => NothingLeftBehind
  BY DEF HInv, NotYet, Climbing, Up, Descending, DescendingBy, Ended, Kept,
         NothingLeftBehind
<1>2. QED
  BY <1>1, HubInvariance, PTL

\* A device is orphaned by a shutdown only if the controller would not close.
THEOREM AlwaysOrphanedOnlyIfStopThrew == Spec => []OrphanedOnlyIfStopThrew
<1>1. HInv => OrphanedOnlyIfStopThrew
  BY DEF HInv, Ranges
<1>2. QED
  BY <1>1, HubInvariance, PTL
=============================================================================
