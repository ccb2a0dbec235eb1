------------------------ MODULE SnapshotStore_proofs ------------------------
(* Theorems about SnapshotStore, for every value of its constants. *)
EXTENDS SnapshotStore, SequenceTheorems, FiniteSetTheorems, TLAPS

-----------------------------------------------------------------------------
(* The list of open profiles. *)

Listed(pr) == \E i \in DOMAIN lru : lru[i] = pr

LEMMA LengthOf ==
  ASSUME NEW S, NEW n \in Nat, NEW s \in [1 .. n -> S]
  PROVE  Len(s) = n
<1>1. s \in Seq(S)
  BY SeqDef
<1> QED
  BY <1>1, LenProperties

\* Moving a profile to the end loses no other profile and repeats none.
LEMMA RefreshedShape ==
  ASSUME NEW n \in Nat, lru \in [1 .. n -> present], NEW pr \in present
  PROVE  \E m \in {n, n + 1} :
           /\ m >= 1
           /\ Refreshed(pr) \in [1 .. m -> present]
           /\ Len(Refreshed(pr)) = m
           /\ Refreshed(pr)[m] = pr
           /\ \A q \in present \ {pr} :
                Listed(q) => \E i \in 1 .. m : Refreshed(pr)[i] = q
           /\ (\A i, j \in DOMAIN lru : lru[i] = lru[j] => i = j) =>
                \A i, j \in 1 .. m : Refreshed(pr)[i] = Refreshed(pr)[j] => i = j
<1>1. Len(lru) = n
  BY LengthOf
<1>2. CASE Listed(pr)
  <2> DEFINE p == CHOOSE i \in DOMAIN lru : lru[i] = pr
  <2>1. p \in 1 .. n /\ lru[p] = pr
    BY <1>2 DEF Listed
  <2>2. Place(pr) = p
    BY <1>2 DEF Place, Listed
  <2>3. n >= 1
    BY <2>1
  <2> HIDE DEF p
  <2>4. Refreshed(pr) =
          [i \in 1 .. n |-> IF i = n THEN pr ELSE IF i < p THEN lru[i] ELSE lru[i + 1]]
    BY <1>1, <2>1, <2>2 DEF Refreshed
  <2>5. Refreshed(pr) \in [1 .. n -> present]
    BY <2>1, <2>4
  <2>6. Len(Refreshed(pr)) = n
    BY <2>5, LengthOf
  <2>7. ASSUME NEW q \in present \ {pr}, Listed(q)
        PROVE  \E i \in 1 .. n : Refreshed(pr)[i] = q
    <3>1. PICK k \in 1 .. n : lru[k] = q
      BY <2>7 DEF Listed
    <3>2. CASE k < p
      BY <3>1, <3>2, <2>1, <2>4
    <3>3. CASE k > p
      <4>1. k - 1 \in 1 .. n /\ k - 1 # n /\ ~(k - 1 < p) /\ (k - 1) + 1 = k
        BY <3>1, <3>3, <2>1
      <4> QED
        BY <4>1, <3>1, <2>4
    <3> QED
      BY <3>1, <3>2, <3>3, <2>1, <2>7
  <2>8. ASSUME \A i, j \in DOMAIN lru : lru[i] = lru[j] => i = j
        PROVE  \A i, j \in 1 .. n : Refreshed(pr)[i] = Refreshed(pr)[j] => i = j
    BY <2>1, <2>4, <2>8
  <2> QED
    BY <2>3, <2>4, <2>5, <2>6, <2>7, <2>8
<1>3. CASE ~Listed(pr)
  <2>1. Place(pr) = n + 1
    BY <1>1, <1>3 DEF Place, Listed
  <2>2. Refreshed(pr) =
          [i \in 1 .. n + 1 |-> IF i = n + 1 THEN pr ELSE IF i < n + 1 THEN lru[i] ELSE lru[i + 1]]
    BY <1>1, <2>1 DEF Refreshed
  <2>3. Refreshed(pr) \in [1 .. n + 1 -> present]
    BY <2>2
  <2>4. Len(Refreshed(pr)) = n + 1
    BY <2>3, LengthOf
  <2>5. ASSUME \A i, j \in DOMAIN lru : lru[i] = lru[j] => i = j
        PROVE  \A i, j \in 1 .. n + 1 : Refreshed(pr)[i] = Refreshed(pr)[j] => i = j
    BY <1>3, <2>2, <2>5 DEF Listed
  <2>6. ASSUME NEW q \in present \ {pr}, Listed(q)
        PROVE  \E i \in 1 .. n + 1 : Refreshed(pr)[i] = q
    BY <2>2, <2>6 DEF Listed
  <2> QED
    BY <2>2, <2>3, <2>4, <2>5, <2>6
<1> QED
  BY <1>2, <1>3

-----------------------------------------------------------------------------
(* The shape of a state: its type, and where a worker may be. *)

Sharing == {"idle", "touch"}

\* The steps of Load under deferredOnce.
Exclusive == {"recheck", "refused", "resolve", "build", "admit", "known", "install", "learn"}

NoRepeat == \A i, j \in DOMAIN lru : lru[i] = lru[j] => i = j

Placed ==
  /\ \A w \in Workers : IF pc[w] = "idle" THEN call[w] = Idle ELSE Mine(w) \in present
  /\ \A w \in Workers :
       pc[w] \in Sharing \cup (IF w \in Readers THEN ReaderSteps ELSE PublisherSteps)

Locked == \A r \in Readers : pc[r] \in Exclusive => mutex[Mine(r)] = r

Roles ==
  /\ Placed
  /\ Locked
  /\ present \subseteq setting.profiles
  /\ NoRepeat
  /\ \A pr \in Profiles \ present :
       ~deferred[pr] /\ active[pr] = Nil /\ top[pr] = Nil /\ loads[pr] = 0

Shape == TypeOK /\ Roles

LEMMA SettingTyped ==
  ASSUME setting \in Settings
  PROVE  /\ setting.profiles \in (SUBSET Profiles) \ {{}}
         /\ setting.readers \subseteq Readers
         /\ setting.indexers \subseteq Indexers
         /\ setting.ids \in 1 .. MaxId
  BY SettingsAssumption DEF Setting

LEMMA CallsTyped ==
  /\ Idle \in Call
  /\ \A c \in Call, pr \in Profiles, g, h \in Generations \cup {Nil} :
       /\ [c EXCEPT !.id = g] \in Call
       /\ [c EXCEPT !.seen = g] \in Call
       /\ [c EXCEPT !.on = pr, !.id = g] \in Call
       /\ [c EXCEPT !.on = pr, !.floor = g] \in Call
  BY DEF Idle, Call

LEMMA InitShape ==
  ASSUME Init
  PROVE  Shape
<1>1. 0 \in 0 .. MaxOpen /\ lru \in [1 .. 0 -> present]
  BY BoundsAssumption DEF Init
<1>2. Nil \in Generations \cup {Nil} /\ 1 \in Generations
  BY BoundsAssumption DEF Nil, Generations
<1>3. present \subseteq setting.profiles /\ present \subseteq Profiles
  BY SettingTyped DEF Init
<1>4. TypeOK
  <2>1. deferred \in [Profiles -> BOOLEAN] /\ failure \in [Profiles -> BOOLEAN]
        /\ closed \in [Profiles -> BOOLEAN]
    BY Zenon DEF Init
  <2>2. call \in [Workers -> Call] /\ pc \in [Workers -> Steps]
    BY CallsTyped DEF Init, Steps
  <2>3. mutex \in [Profiles -> Readers \cup {None}] /\ loads \in [Profiles -> 0 .. 2]
    BY DEF Init
  <2>4. /\ disk \in [Profiles -> Generations \cup {Nil}]
        /\ generation \in [Profiles -> Generations \cup {Nil}]
        /\ active \in [Profiles -> Generations \cup {Nil}]
        /\ top \in [Profiles -> Generations \cup {Nil}]
    BY <1>2 DEF Init
  <2>5. setting \in Settings /\ closing = None
    BY DEF Init
  <2> QED
    BY <1>1, <1>3, <2>1, <2>2, <2>3, <2>4, <2>5 DEF TypeOK
<1>5. Roles
  <2>1. \A pr \in Profiles \ present :
          ~deferred[pr] /\ active[pr] = Nil /\ top[pr] = Nil /\ loads[pr] = 0
    BY DEF Init
  <2>2. NoRepeat
    BY <1>1 DEF NoRepeat
  <2>3. \A w \in Workers : pc[w] = "idle" /\ call[w] = Idle
    BY DEF Init
  <2> QED
    BY <1>3, <2>1, <2>2, <2>3 DEF Roles, Placed, Locked, Sharing, Exclusive, Workers
<1> QED
  BY <1>4, <1>5 DEF Shape

\* Without more profiles than room, a list of profiles has no excess.
LEMMA NoExcess ==
  ASSUME setting \in Settings, present \subseteq setting.profiles, NeverEvicts,
         NEW m \in Nat, NEW list \in [1 .. m -> present],
         \A i, j \in 1 .. m : list[i] = list[j] => i = j
  PROVE  m <= MaxOpen
<1>1. setting.profiles \subseteq Profiles
  BY SettingTyped
<1>2. /\ IsFiniteSet(setting.profiles) /\ IsFiniteSet(present)
      /\ Cardinality(setting.profiles) \in Nat /\ Cardinality(present) \in Nat
      /\ Cardinality(present) <= Cardinality(setting.profiles)
  BY <1>1, ProfilesAssumption, FS_Subset, FS_CardinalityType
<1>3. list \in Injection(1 .. m, present)
  BY DEF Injection, IsInjective
<1>4. Cardinality(1 .. m) = m
  BY FS_Interval
<1>5. m <= Cardinality(present)
  BY <1>2, <1>3, <1>4, FS_Injection
<1> QED
  BY <1>2, <1>5, BoundsAssumption DEF NeverEvicts

\* What a Touch does to the list and to the profiles it unloads.
LEMMA TouchFacts ==
  ASSUME Shape, NEW w \in Workers, Touch(w)
  PROVE  /\ \E n \in 0 .. MaxOpen : lru' \in [1 .. n -> present]
         /\ NoRepeat'
         /\ \A q \in {Mine(w)} : Listed(q)'
         /\ \A q \in Profiles : active'[q] \in {active[q], Nil}
         /\ \A q \in Profiles : Listed(q) /\ deferred[q] => Listed(q)' \/ active'[q] = Nil
         /\ NeverEvicts => active' = active
<1> DEFINE list == Refreshed(Mine(w))
           gone == Excess(list)
           out  == {list[i] : i \in 1 .. gone}
<1>1. Mine(w) \in present /\ active \in [Profiles -> Generations \cup {Nil}]
  BY DEF Shape, Roles, Placed, TypeOK, Touch, At
<1>2. PICK n \in 0 .. MaxOpen : lru \in [1 .. n -> present]
  BY DEF Shape, TypeOK
<1>3. PICK m \in {n, n + 1} :
        /\ m >= 1 /\ list \in [1 .. m -> present] /\ Len(list) = m
        /\ list[m] = Mine(w)
        /\ \A q \in present \ {Mine(w)} : Listed(q) => \E i \in 1 .. m : list[i] = q
        /\ \A i, j \in 1 .. m : list[i] = list[j] => i = j
  <2>1. n \in Nat /\ \A i, j \in DOMAIN lru : lru[i] = lru[j] => i = j
    BY BoundsAssumption DEF Shape, Roles, NoRepeat
  <2> QED
    BY <1>1, <1>2, <2>1, RefreshedShape
<1>4. gone \in 0 .. m - 1 /\ m - gone <= MaxOpen /\ (m <= MaxOpen => gone = 0)
  BY <1>2, <1>3, BoundsAssumption DEF Excess
<1>5. /\ lru' = [i \in 1 .. m - gone |-> list[gone + i]]
      /\ active' = [q \in Profiles |-> IF q \in out /\ deferred[q] THEN Nil ELSE active[q]]
  BY <1>3 DEF Touch
<1> HIDE DEF list, gone
<1>6. m - gone \in 0 .. MaxOpen /\ lru' \in [1 .. m - gone -> present]
  BY <1>2, <1>3, <1>4, <1>5
<1>7. NoRepeat'
  BY <1>2, <1>3, <1>4, <1>5 DEF NoRepeat
<1>8. ASSUME NEW i \in 1 .. m, i > gone
      PROVE  i - gone \in DOMAIN lru' /\ lru'[i - gone] = list[i]
  BY <1>2, <1>4, <1>5, <1>8
<1>9. \A q \in {Mine(w)} : Listed(q)'
  BY <1>2, <1>3, <1>4, <1>8 DEF Listed
<1>10. ASSUME NEW q \in Profiles, Listed(q), deferred[q]
       PROVE  Listed(q)' \/ active'[q] = Nil
  <2>1. CASE q = Mine(w)
    BY <1>9, <2>1
  <2>2. CASE q # Mine(w)
    <3>1. q \in present
      BY <1>2, <1>10 DEF Listed
    <3>2. PICK i \in 1 .. m : list[i] = q
      BY <1>3, <1>10, <2>2, <3>1
    <3>3. CASE i > gone
      BY <1>8, <3>2, <3>3 DEF Listed
    <3>4. CASE i <= gone
      BY <1>4, <1>5, <1>10, <3>2, <3>4
    <3> QED
      BY <1>4, <3>3, <3>4
  <2> QED
    BY <2>1, <2>2
<1>11. ASSUME NeverEvicts PROVE active' = active
  <2>1. gone = 0
    BY <1>2, <1>3, <1>4, <1>11, NoExcess, SMTT(20) DEF Shape, TypeOK, Roles
  <2>2. out = {}
    BY <2>1
  <2> QED
    BY <1>1, <1>5, <2>2
<1> QED
  BY <1>1, <1>5, <1>6, <1>7, <1>9, <1>10, <1>11

RoleSteps(w) == Sharing \cup (IF w \in Readers THEN ReaderSteps ELSE PublisherSteps)

Control ==
  /\ pc \in [Workers -> Steps]
  /\ call \in [Workers -> Call]
  /\ Placed

\* What is known of a worker in the middle of a call.
LEMMA AtWork ==
  ASSUME Shape, NEW w \in Workers, pc[w] # "idle"
  PROVE  /\ Mine(w) \in present /\ Mine(w) \in Profiles
         /\ call[w] \in Call /\ Held(w) \in Generations \cup {Nil}
         /\ pc[w] \in ReaderSteps => w \in Readers
         /\ pc[w] \in PublisherSteps => w \notin Readers
<1>1. Mine(w) \in present /\ Mine(w) \in Profiles /\ call[w] \in Call
  BY DEF Shape, TypeOK, Roles, Placed
<1>2. Held(w) \in Generations \cup {Nil}
  BY <1>1 DEF Held, Call
<1>3. /\ pc[w] \in ReaderSteps => w \in Readers
      /\ pc[w] \in PublisherSteps => w \notin Readers
  BY DEF Shape, Roles, Placed, Sharing, ReaderSteps, PublisherSteps
<1> QED
  BY <1>1, <1>2, <1>3

\* The mutex stays with its holder, or its holder leaves it.
LEMMA LockKept ==
  ASSUME Shape, NEW w \in Workers,
         pc[w] = "idle" \/ Mine(w) \in Profiles,
         \A v \in Workers \ {w} : pc'[v] = pc[v] /\ call'[v] = call[v],
         \/ /\ mutex' = mutex
            /\ pc'[w] \in Exclusive => pc[w] \in Exclusive /\ call'[w].on = call[w].on
         \/ pc[w] \in Exclusive /\ pc'[w] \notin Exclusive /\ Unlock(w)
  PROVE  Locked'
<1> SUFFICES ASSUME NEW r \in Readers, pc'[r] \in Exclusive
             PROVE  mutex'[Mine(r)'] = r
  BY DEF Locked
<1>0. r \in Workers /\ mutex \in [Profiles -> Readers \cup {None}]
  BY DEF Workers, Shape, TypeOK
<1>1. CASE r = w
  BY <1>0, <1>1 DEF Shape, Roles, Locked, Mine
<1>2. CASE r # w
  <2>1. pc[r] \in Exclusive /\ Mine(r)' = Mine(r) /\ mutex[Mine(r)] = r
    BY <1>0, <1>2 DEF Shape, Roles, Locked, Mine
  <2>2. CASE mutex' = mutex
    BY <2>1, <2>2
  <2>3. CASE pc[w] \in Exclusive /\ Unlock(w)
    <3>1. w \in Readers
      BY <2>3 DEF Shape, Roles, Placed, Exclusive, Sharing, PublisherSteps
    <3>2. mutex[Mine(w)] = w
      BY <2>3, <3>1 DEF Shape, Roles, Locked
    <3> QED
      BY <1>0, <1>2, <2>1, <2>3, <3>2 DEF Unlock
  <2> QED
    BY <2>2, <2>3
<1> QED
  BY <1>1, <1>2

\* The three ways a worker goes on in a call.
LEMMA Stays ==
  ASSUME Shape, present' = present, NEW w \in Workers, pc[w] # "idle",
         NEW s \in RoleSteps(w) \ {"idle"}, Then(w, s)
  PROVE  /\ Control'
         /\ (s \in Exclusive => pc[w] \in Exclusive) /\ mutex' = mutex => Locked'
         /\ pc[w] \in Exclusive /\ s \notin Exclusive /\ Unlock(w) => Locked'
<1>1. pc' = [pc EXCEPT ![w] = s] /\ call' = call
  BY DEF Then, Goto
<1>2. s \in Steps
  BY DEF RoleSteps, Steps, Sharing
<1>3. Control'
  BY <1>1, <1>2 DEF Shape, TypeOK, Roles, Control, Placed, RoleSteps, Mine
<1>4. /\ \A v \in Workers \ {w} : pc'[v] = pc[v] /\ call'[v] = call[v]
      /\ pc'[w] = s /\ call'[w] = call[w] /\ Mine(w) \in Profiles
  BY <1>1, AtWork DEF Shape, TypeOK
<1> QED
  BY <1>3, <1>4, LockKept

LEMMA Ends ==
  ASSUME Shape, present' = present, NEW w \in Workers, pc[w] # "idle", Finish(w)
  PROVE  /\ Control'
         /\ mutex' = mutex => Locked'
         /\ pc[w] \in Exclusive /\ Unlock(w) => Locked'
<1>1. pc' = [pc EXCEPT ![w] = "idle"] /\ call' = [call EXCEPT ![w] = Idle]
  BY DEF Finish, Goto
<1>2. Control'
  BY <1>1, CallsTyped DEF Shape, TypeOK, Roles, Control, Placed, Mine, Steps, Sharing
<1>3. /\ \A v \in Workers \ {w} : pc'[v] = pc[v] /\ call'[v] = call[v]
      /\ pc'[w] = "idle" /\ call'[w] = Idle /\ Mine(w) \in Profiles
  BY <1>1, AtWork DEF Shape, TypeOK
<1>4. "idle" \notin Exclusive
  BY DEF Exclusive
<1> QED
  BY <1>2, <1>3, <1>4, LockKept

LEMMA Holds ==
  ASSUME Shape, present' = present, NEW w \in Workers, pc[w] # "idle",
         NEW s \in RoleSteps(w) \ {"idle"}, Goto(w, s),
         NEW g \in Generations \cup {Nil},
         Holding(w, g) \/ call' = [call EXCEPT ![w].seen = g]
  PROVE  /\ Control'
         /\ (s \in Exclusive => pc[w] \in Exclusive) /\ mutex' = mutex => Locked'
         /\ pc[w] \in Exclusive /\ s \notin Exclusive /\ Unlock(w) => Locked'
<1>1. call[w] \in Call /\ Mine(w) \in Profiles /\ Mine(w) \in present
  BY AtWork
<1>2. PICK c \in Call : c.on = call[w].on /\ call' = [call EXCEPT ![w] = c]
  <2>1. CASE Holding(w, g)
    <3>1. [call[w] EXCEPT !.id = g] \in Call
      BY <1>1, CallsTyped
    <3>2. [call[w] EXCEPT !.id = g].on = call[w].on
      BY <1>1 DEF Call
    <3> QED
      BY <2>1, <3>1, <3>2 DEF Holding
  <2>2. CASE call' = [call EXCEPT ![w].seen = g]
    <3>1. [call[w] EXCEPT !.seen = g] \in Call
      BY <1>1, CallsTyped
    <3>2. [call[w] EXCEPT !.seen = g].on = call[w].on
      BY <1>1 DEF Call
    <3> QED
      BY <2>2, <3>1, <3>2
  <2> QED
    BY <2>1, <2>2
<1>3. s \in Steps /\ pc' = [pc EXCEPT ![w] = s]
  BY DEF RoleSteps, Steps, Sharing, Goto
<1>4. Control'
  BY <1>1, <1>2, <1>3 DEF Shape, TypeOK, Roles, Control, Placed, RoleSteps, Mine
<1>5. /\ \A v \in Workers \ {w} : pc'[v] = pc[v] /\ call'[v] = call[v]
      /\ pc'[w] = s /\ call'[w].on = call[w].on
  BY <1>2, <1>3 DEF Shape, TypeOK
<1> QED
  BY <1>1, <1>4, <1>5, LockKept

-----------------------------------------------------------------------------
(* Every step keeps the shape. *)

\* The part of the shape that is about the store and not about the workers.
Stored ==
  /\ setting \in Settings /\ present \subseteq setting.profiles
  /\ disk \in [Profiles -> Generations \cup {Nil}]
  /\ deferred \in [Profiles -> BOOLEAN]
  /\ active \in [Profiles -> Generations \cup {Nil}]
  /\ generation \in [Profiles -> Generations \cup {Nil}]
  /\ failure \in [Profiles -> BOOLEAN]
  /\ mutex \in [Profiles -> Readers \cup {None}]
  /\ \E n \in 0 .. MaxOpen : lru \in [1 .. n -> present]
  /\ NoRepeat
  /\ closed \in [Profiles -> BOOLEAN]
  /\ closing = None \/ closing \subseteq present
  /\ top \in [Profiles -> Generations \cup {Nil}]
  /\ loads \in [Profiles -> 0 .. 2]
  /\ \A pr \in Profiles \ present :
       ~deferred[pr] /\ active[pr] = Nil /\ top[pr] = Nil /\ loads[pr] = 0

LEMMA ShapeParts ==
  /\ Shape => Stored /\ Control /\ Locked
  /\ Stored' /\ Control' /\ Locked' => Shape'
<1>1. setting' \in Settings /\ present' \subseteq setting'.profiles => present' \subseteq Profiles
  BY SettingsAssumption DEF Setting
<1> QED
  BY <1>1 DEF Shape, TypeOK, Roles, Stored, Control, NoRepeat

\* Load, before it publishes anything.
LEMMA WaitingShape ==
  ASSUME Shape, NEW r \in Workers,
         Look(r) \/ Lock(r) \/ Recheck(r) \/ ReadFailure(r) \/ Resolve(r)
  PROVE  Shape'
<1>1. pc[r] \in ReaderSteps /\ pc[r] # "idle"
  BY DEF Look, Lock, Recheck, ReadFailure, Resolve, At, ReaderSteps
<1>2. r \in Readers /\ Mine(r) \in present /\ Mine(r) \in Profiles
  BY <1>1, AtWork
<1>3. UNCHANGED <<setting, disk, present, deferred, active, generation, failure, lru,
                  closed, closing, top>>
  BY DEF Look, Lock, Recheck, ReadFailure, Resolve, installation, shutdown, store
<1>4. {"touch", "lock", "recheck", "refused", "resolve", "build"} \subseteq RoleSteps(r) \ {"idle"}
  BY <1>2 DEF RoleSteps, Sharing, ReaderSteps
<1>5. Mine(r) \in Profiles /\ active[Mine(r)] \in Generations \cup {Nil}
      /\ disk[Mine(r)] \in Generations \cup {Nil}
  BY <1>2 DEF Shape, TypeOK
<1>6. Control' /\ Locked'
  <2>1. CASE Look(r)
    <3>1. mutex' = mutex
      BY <2>1 DEF Look, store
    <3> QED
      BY <1>1, <1>3, <1>4, <1>5, <2>1, <3>1, Stays, Ends, Holds DEF Look, Exclusive
  <2>2. CASE Lock(r)
    <3>1. Control'
      BY <1>1, <1>3, <1>4, <2>2, Stays DEF Lock
    <3>2. Locked'
      BY <1>2, <1>3, <2>2, NoneAssumption
      DEF Lock, Then, Goto, Shape, TypeOK, Roles, Locked, Mine, Workers
    <3> QED
      BY <3>1, <3>2
  <2>3. CASE Recheck(r)
    BY <1>1, <1>3, <1>4, <1>5, <2>3, Stays, Holds DEF Recheck, Exclusive, At
  <2>4. CASE ReadFailure(r)
    BY <1>1, <1>3, <1>4, <1>5, <2>4, Stays, Ends DEF ReadFailure, Exclusive, At
  <2>5. CASE Resolve(r)
    BY <1>1, <1>3, <1>4, <1>5, <2>5, Holds DEF Resolve, Exclusive, At
  <2> QED
    BY <2>1, <2>2, <2>3, <2>4, <2>5
<1>7. /\ mutex' \in [Profiles -> Readers \cup {None}]
      /\ loads' \in [Profiles -> 0 .. 2]
      /\ \A pr \in Profiles \ {Mine(r)} : loads'[pr] = loads[pr]
  BY <1>2 DEF Look, Lock, Recheck, ReadFailure, Resolve, Unlock, store, Shape, TypeOK
<1>8. Stored'
  BY <1>2, <1>3, <1>7, ShapeParts DEF Stored, NoRepeat
<1> QED
  BY <1>6, <1>8, ShapeParts

LEMMA LoadingShape ==
  ASSUME Shape, NEW r \in Workers, Materialise(r) \/ Install(r) \/ Learn(r)
  PROVE  Shape'
<1>1. /\ pc[r] \in {"build", "admit", "known", "install", "learn"} /\ pc[r] # "idle"
      /\ pc[r] \in Exclusive
  BY DEF Materialise, Gate, Install, Learn, At, Exclusive
<1>2. r \in Readers /\ Mine(r) \in present /\ Mine(r) \in Profiles
      /\ Held(r) \in Generations \cup {Nil}
  BY <1>1, AtWork DEF ReaderSteps
<1>3. UNCHANGED <<setting, disk, present, deferred, lru, loads, closed, closing>>
  BY DEF Materialise, Gate, Refuse, Install, Learn, installation, shutdown, store
<1>4. {"touch", "admit", "known", "install", "learn"} \subseteq RoleSteps(r) \ {"idle"}
  BY <1>2 DEF RoleSteps, Sharing, ReaderSteps
<1>5. Control' /\ Locked'
  <2>1. CASE Materialise(r)
    <3>1. PICK after \in {"admit", "known", "install"} :
            Refuse(r) \/ (Then(r, after) /\ UNCHANGED mutex)
      BY <2>1 DEF Materialise, Gate, store
    <3> QED
      BY <1>1, <1>3, <1>4, <3>1, Stays, Ends DEF Refuse
  <2>2. CASE Install(r)
    BY <1>1, <1>3, <1>4, <2>2, Stays DEF Install, Exclusive
  <2>3. CASE Learn(r)
    BY <1>1, <1>3, <1>4, <2>3, Stays DEF Learn, Exclusive
  <2> QED
    BY <2>1, <2>2, <2>3
<1>6. /\ active' \in [Profiles -> Generations \cup {Nil}]
      /\ top' \in [Profiles -> Generations \cup {Nil}]
      /\ generation' \in [Profiles -> Generations \cup {Nil}]
      /\ failure' \in [Profiles -> BOOLEAN]
      /\ mutex' \in [Profiles -> Readers \cup {None}]
      /\ \A pr \in Profiles \ {Mine(r)} : active'[pr] = active[pr] /\ top'[pr] = top[pr]
  <2>1. CASE Materialise(r)
    <3>1. UNCHANGED <<active, top, generation>> /\ (Unlock(r) \/ UNCHANGED mutex)
          /\ (UNCHANGED failure \/ failure' = [failure EXCEPT ![Mine(r)] = TRUE])
      BY <2>1 DEF Materialise, Gate, Refuse, store
    <3>2. failure' \in [Profiles -> BOOLEAN]
      BY <3>1, Zenon DEF Shape, TypeOK
    <3>3. mutex' \in [Profiles -> Readers \cup {None}]
      BY <3>1 DEF Shape, TypeOK, Unlock
    <3> QED
      BY <3>1, <3>2, <3>3 DEF Shape, TypeOK
  <2>2. CASE Install(r)
    BY <1>2, <2>2 DEF Install, Swap, Unlock, Shape, TypeOK
  <2>3. CASE Learn(r)
    BY <1>2, <2>3 DEF Learn, Unlock, Shape, TypeOK
  <2> QED
    BY <2>1, <2>2, <2>3
<1>7. Stored'
  BY <1>2, <1>3, <1>6, ShapeParts DEF Stored, NoRepeat
<1> QED
  BY <1>5, <1>7, ShapeParts

LEMMA PublishShape ==
  ASSUME Shape, NEW w \in Workers, Publish(w)
  PROVE  Shape'
<1> USE DEF Publish, Compare, Attach, CheckOpen, ReadCurrent, ReadKnown, CompareAndSwap,
            RecheckOpen, Retract, Retire, RecordGeneration
<1>1. pc[w] \in PublisherSteps /\ pc[w] # "idle" /\ pc[w] \notin Exclusive
  BY DEF At, PublisherSteps, Exclusive
<1>2. w \notin Readers /\ Mine(w) \in present /\ Mine(w) \in Profiles
      /\ Held(w) \in Generations \cup {Nil}
  BY <1>1, AtWork
<1>3. UNCHANGED <<setting, disk, present, deferred, mutex, lru, loads, closed, closing>>
  BY DEF installation, shutdown, store
<1>4. /\ PublisherSteps \cup {"touch"} \subseteq RoleSteps(w) \ {"idle"}
      /\ PublisherSteps \cap Exclusive = {} /\ "touch" \notin Exclusive
  BY <1>2 DEF RoleSteps, Sharing, PublisherSteps, Exclusive
<1>5. \/ \E s \in PublisherSteps \cup {"touch"} : Then(w, s)
      \/ Finish(w)
      \/ ReadCurrent(w)
  BY DEF PublisherSteps
<1>6. Control' /\ Locked'
  <2>1. CASE ReadCurrent(w)
    <3>1. active[Mine(w)] \in Generations \cup {Nil}
      BY <1>2 DEF Shape, TypeOK
    <3>2. "older" \in PublisherSteps /\ "swap" \in PublisherSteps
      BY DEF PublisherSteps
    <3>3. CASE Finish(w)
      BY <1>1, <1>3, <3>3, Ends
    <3>4. CASE /\ call' = [call EXCEPT ![w].seen = active[Mine(w)]]
               /\ Goto(w, IF active[Mine(w)] = Nil THEN "older" ELSE "swap")
      BY <1>1, <1>3, <1>4, <3>1, <3>2, <3>4, Holds
    <3> QED
      BY <2>1, <3>3, <3>4
  <2>2. CASE ~ReadCurrent(w)
    BY <1>1, <1>3, <1>4, <1>5, <2>2, Stays, Ends
  <2> QED
    BY <2>1, <2>2
<1>7. /\ active' \in [Profiles -> Generations \cup {Nil}]
      /\ top' \in [Profiles -> Generations \cup {Nil}]
      /\ generation' \in [Profiles -> Generations \cup {Nil}]
      /\ \A pr \in Profiles \ {Mine(w)} : active'[pr] = active[pr] /\ top'[pr] = top[pr]
  <2>1. CASE CompareAndSwap(w) \/ Retract(w)
    <3>1. generation' = generation
      BY <2>1
    <3>2. CASE Swap(w)
      BY <1>2, <3>1, <3>2 DEF Swap, Shape, TypeOK
    <3>3. CASE UNCHANGED <<active, top>>
      BY <3>1, <3>3 DEF Shape, TypeOK
    <3>4. CASE Retract(w)
      BY <1>2, <3>1, <3>4 DEF Shape, TypeOK
    <3> QED
      BY <2>1, <3>2, <3>3, <3>4
  <2>2. CASE RecordGeneration(w)
    BY <1>2, <2>2 DEF Shape, TypeOK
  <2>3. CASE ~(CompareAndSwap(w) \/ Retract(w) \/ RecordGeneration(w))
    BY <2>3 DEF store, Shape, TypeOK
  <2> QED
    BY <2>1, <2>2, <2>3
<1>8. failure' \in [Profiles -> BOOLEAN]
  <2>1. failure' = failure \/ failure' = [failure EXCEPT ![Mine(w)] = FALSE]
    BY DEF store
  <2> QED
    BY <2>1, Zenon DEF Shape, TypeOK
<1>9. Stored'
  BY <1>2, <1>3, <1>7, <1>8, ShapeParts DEF Stored, NoRepeat
<1> QED
  BY <1>6, <1>9, ShapeParts

LEMMA TouchShape ==
  ASSUME Shape, NEW w \in Workers, Touch(w)
  PROVE  Shape'
<1>1. pc[w] # "idle" /\ pc[w] \notin Exclusive
  BY DEF Touch, At, Exclusive
<1>2. Mine(w) \in present
  BY <1>1, AtWork
<1>3. /\ UNCHANGED <<setting, disk, present, deferred, generation, failure, mutex, top,
                     loads, closed, closing>>
      /\ Finish(w)
  BY DEF Touch, installation, shutdown
<1>4. Control' /\ Locked'
  BY <1>1, <1>3, Ends
<1>5. active' \in [Profiles -> Generations \cup {Nil}]
  BY DEF Touch, Shape, TypeOK
<1>6. Stored'
  BY <1>2, <1>3, <1>5, ShapeParts, TouchFacts DEF Stored
<1> QED
  BY <1>4, <1>6, ShapeParts

\* A worker begins a call.
LEMMA BeginShape ==
  ASSUME Shape, NEW w \in Workers, pc[w] = "idle",
         NEW pr \in present, NEW g \in Generations \cup {Nil},
         NEW s \in RoleSteps(w) \ ({"idle"} \cup Exclusive), Goto(w, s),
         \/ call' = [call EXCEPT ![w].on = pr, ![w].floor = g]
         \/ call' = [call EXCEPT ![w].on = pr, ![w].id = g],
         UNCHANGED <<setting, present, deferred, shutdown, store>>,
         disk' \in [Profiles -> Generations \cup {Nil}]
  PROVE  Shape'
<1>1. call[w] \in Call /\ pr \in Profiles
  BY DEF Shape, TypeOK
<1>2. PICK c \in Call : c.on = pr /\ call' = [call EXCEPT ![w] = c]
  <2>1. CASE call' = [call EXCEPT ![w].on = pr, ![w].floor = g]
    <3>1. [call[w] EXCEPT !.on = pr, !.floor = g] \in Call
      BY <1>1, CallsTyped
    <3>2. [call[w] EXCEPT !.on = pr, !.floor = g].on = pr
      BY <1>1 DEF Call
    <3>3. call' = [call EXCEPT ![w] = [call[w] EXCEPT !.on = pr, !.floor = g]]
      BY <2>1
    <3> QED
      BY <3>1, <3>2, <3>3
  <2>2. CASE call' = [call EXCEPT ![w].on = pr, ![w].id = g]
    <3>1. [call[w] EXCEPT !.on = pr, !.id = g] \in Call
      BY <1>1, CallsTyped
    <3>2. [call[w] EXCEPT !.on = pr, !.id = g].on = pr
      BY <1>1 DEF Call
    <3>3. call' = [call EXCEPT ![w] = [call[w] EXCEPT !.on = pr, !.id = g]]
      BY <2>2
    <3> QED
      BY <3>1, <3>2, <3>3
  <2> QED
    BY <2>1, <2>2
<1>3. s \in Steps /\ pc' = [pc EXCEPT ![w] = s]
  BY DEF RoleSteps, Steps, Sharing, Goto
<1>4. Control'
  BY <1>2, <1>3 DEF Shape, TypeOK, Roles, Control, Placed, RoleSteps, Mine
<1>5. Locked'
  <2>1. /\ \A v \in Workers \ {w} : pc'[v] = pc[v] /\ call'[v] = call[v]
        /\ pc'[w] = s
    BY <1>2, <1>3 DEF Shape, TypeOK
  <2> QED
    BY <2>1, LockKept DEF store
<1>6. Stored'
  BY ShapeParts DEF Stored, NoRepeat, shutdown, store
<1> QED
  BY <1>4, <1>5, <1>6, ShapeParts

LEMMA StartShape ==
  ASSUME Shape,
         \/ \E r \in Readers, pr \in Profiles : Ask(r, pr)
         \/ \E f \in Followers : Poll(f)
         \/ \E x \in Indexers, pr \in Profiles : Produce(x, pr)
  PROVE  Shape'
<1>1. CASE \E r \in Readers, pr \in Profiles : Ask(r, pr)
  <2>1. PICK r \in Readers, pr \in Profiles : Ask(r, pr)
    BY <1>1
  <2>2. r \in Workers /\ "look" \in RoleSteps(r) \ ({"idle"} \cup Exclusive)
    BY DEF Workers, RoleSteps, ReaderSteps, Exclusive
  <2>3. top[pr] \in Generations \cup {Nil}
    BY DEF Shape, TypeOK
  <2>4. disk' \in [Profiles -> Generations \cup {Nil}]
    BY <2>1 DEF Ask, installation, Shape, TypeOK
  <2> QED
    BY <2>1, <2>2, <2>3, <2>4, BeginShape DEF Ask, At, installation
<1>2. CASE \E f \in Followers : Poll(f)
  <2>1. PICK f \in Followers : Poll(f)
    BY <1>2
  <2>2. f \in Workers /\ "compare" \in RoleSteps(f) \ ({"idle"} \cup Exclusive)
    BY WorkersAssumption DEF Workers, RoleSteps, PublisherSteps, Exclusive
  <2>3. Follows[f] \in present /\ disk[Follows[f]] \in Generations \cup {Nil}
    BY <2>1, FollowsAssumption DEF Poll, Shape, TypeOK
  <2>4. disk' \in [Profiles -> Generations \cup {Nil}]
    BY <2>1 DEF Poll, installation, Shape, TypeOK
  <2> QED
    BY <2>1, <2>2, <2>3, <2>4, BeginShape DEF Poll, At, installation
<1>3. CASE \E x \in Indexers, pr \in Profiles : Produce(x, pr)
  <2>1. PICK x \in Indexers, pr \in Profiles : Produce(x, pr)
    BY <1>3
  <2>2. x \in Workers /\ "compare" \in RoleSteps(x) \ ({"idle"} \cup Exclusive)
    BY WorkersAssumption DEF Workers, RoleSteps, PublisherSteps, Exclusive
  <2>3. setting.ids \in 1 .. MaxId
    BY SettingTyped DEF Shape, TypeOK
  <2>4. disk[pr] + 1 \in Generations \cup {Nil}
    BY <2>1, <2>3, BoundsAssumption DEF Produce, Shape, TypeOK, Generations, Nil
  <2>5. disk' \in [Profiles -> Generations \cup {Nil}]
    BY <2>1, <2>4 DEF Produce, Shape, TypeOK
  <2> QED
    BY <2>1, <2>2, <2>4, <2>5, BeginShape DEF Produce, At
<1> QED
  BY <1>1, <1>2, <1>3

LEMMA EnvironmentShape ==
  ASSUME Shape, Environment
  PROVE  Shape'
<1>1. UNCHANGED <<setting, pc, call, mutex, lru, top, loads, failure>>
  BY DEF Environment, MoveCurrent, AddProfile, Close, CloseProfile, installation, store
<1>2. present \subseteq present'
  BY DEF Environment, MoveCurrent, AddProfile, Close, CloseProfile, installation
<1>3. Control' /\ Locked'
  BY <1>1, <1>2, ShapeParts DEF Control, Placed, Locked, Mine
<1>4. setting.profiles \subseteq Profiles /\ setting.ids \in 1 .. MaxId
  BY SettingTyped DEF Shape, TypeOK
<1>5. Stored'
  <2> USE DEF Stored, NoRepeat
  <2>1. ASSUME NEW pr \in Profiles, MoveCurrent(pr) PROVE Stored'
    <3>1. disk' \in [Profiles -> Generations \cup {Nil}]
      BY <1>4, <2>1, BoundsAssumption DEF MoveCurrent, Shape, TypeOK, ids, Generations, Nil
    <3> QED
      BY <1>1, <2>1, <3>1, ShapeParts DEF MoveCurrent, shutdown, store
  <2>2. ASSUME NEW pr \in Profiles, AddProfile(pr) PROVE Stored'
    <3>1. deferred' \in [Profiles -> BOOLEAN]
          /\ \A q \in Profiles \ present' : deferred'[q] = deferred[q]
      BY <2>2, Zenon DEF AddProfile, Shape, TypeOK
    <3>2. generation' \in [Profiles -> Generations \cup {Nil}]
      BY <2>2 DEF AddProfile, Shape, TypeOK
    <3>3. present' \subseteq setting.profiles /\ present \subseteq present'
      BY <1>4, <2>2, ShapeParts DEF AddProfile
    <3>4. \E n \in 0 .. MaxOpen : lru' \in [1 .. n -> present']
      BY <1>1, <3>3, ShapeParts
    <3> QED
      BY <1>1, <2>2, <3>1, <3>2, <3>3, <3>4, ShapeParts DEF AddProfile, shutdown
  <2>3. CASE Close
    BY <1>1, <2>3, ShapeParts DEF Close, installation, store
  <2>4. ASSUME NEW pr \in Profiles, CloseProfile(pr) PROVE Stored'
    <3>1. closed' \in [Profiles -> BOOLEAN]
      BY <2>4, Zenon DEF CloseProfile, Shape, TypeOK
    <3>2. active' \in [Profiles -> Generations \cup {Nil}]
      BY <2>4 DEF CloseProfile, Shape, TypeOK
    <3>3. closing' \subseteq present /\ pr \in present
      BY <2>4 DEF CloseProfile, Shape, TypeOK
    <3>4. \A q \in Profiles \ present : active'[q] = active[q]
      BY <2>4, <3>3 DEF CloseProfile, Shape, TypeOK
    <3> QED
      BY <1>1, <2>4, <3>1, <3>2, <3>3, <3>4, ShapeParts DEF CloseProfile, installation
  <2> QED
    BY <2>1, <2>2, <2>3, <2>4 DEF Environment
<1> QED
  BY <1>3, <1>5, ShapeParts

\* The steps of a worker, one kind of lemma each.
LEMMA ProceedCases ==
  ASSUME NEW w \in Workers, Proceed(w)
  PROVE  \/ Look(w) \/ Lock(w) \/ Recheck(w) \/ ReadFailure(w) \/ Resolve(w)
         \/ Materialise(w) \/ Install(w) \/ Learn(w)
         \/ Publish(w)
         \/ Touch(w)
  BY DEF Proceed, Load

LEMMA ShapeStep == Shape /\ [Next]_vars => Shape'
<1> SUFFICES ASSUME Shape, [Next]_vars PROVE Shape'
  OBVIOUS
<1>1. ASSUME NEW w \in Workers, Proceed(w) PROVE Shape'
  BY <1>1, ProceedCases, WaitingShape, LoadingShape, PublishShape, TouchShape
<1>2. CASE UNCHANGED vars
  BY <1>2, ShapeParts
  DEF vars, installation, shutdown, store, Stored, Control, Placed, Locked, NoRepeat, Mine
<1> QED
  BY <1>1, <1>2, StartShape, EnvironmentShape DEF Next

(***************************************************************************)
(* Every reachable state of the snapshot store is well typed; in           *)
(* particular the list of open profiles never outgrows maxOpenProfiles     *)
(* (touchProfile, evictProfilesLocked).                                    *)
(***************************************************************************)
THEOREM StoreTyped == Spec => []TypeOK
<1>1. Spec => []Shape
  BY InitShape, ShapeStep, PTL DEF Spec
<1>2. Shape => TypeOK
  BY DEF Shape
<1> QED
  BY <1>1, <1>2, PTL

-----------------------------------------------------------------------------
(* The bound on open profiles. *)

\* The steps between the installation of a snapshot and its Touch.
Touchers == {"learn", "reclosed", "retract", "retire", "record", "touch"}

\* The worker that is about to put the profile it opened on the list.
Brings(w, pr) == pc[w] \in Touchers /\ Mine(w) = pr /\ Held(w) = active[pr]

Covered ==
  \A pr \in Profiles : deferred[pr] /\ active[pr] # Nil =>
    Listed(pr) \/ \E w \in Workers : Brings(w, pr)

\* A step of one worker leaves the circumstances and the other workers alone.
LEMMA Frame ==
  ASSUME Shape, NEW w \in Workers, Proceed(w)
  PROVE  /\ UNCHANGED <<setting, disk, present, deferred, closed, closing>>
         /\ \A v \in Workers \ {w} : pc'[v] = pc[v] /\ call'[v] = call[v]
<1>1. UNCHANGED <<setting, disk, present, deferred, closed, closing>>
  BY DEF Proceed, Load, Publish, Look, Lock, Recheck, ReadFailure, Resolve, Materialise, Gate,
         Refuse, Install, Learn, Compare, Attach, CheckOpen, ReadCurrent, ReadKnown,
         CompareAndSwap, RecheckOpen, Retract, Retire, RecordGeneration, Touch,
         installation, shutdown
<1>2. \/ Finish(w)
      \/ \E s \in Steps : Then(w, s)
      \/ \E s \in Steps, g \in Generations \cup {Nil} :
           Goto(w, s) /\ (Holding(w, g) \/ call' = [call EXCEPT ![w].seen = g])
  <2>1. Mine(w) \in Profiles
    <3>1. pc[w] # "idle"
      BY DEF Proceed, Load, Publish, Look, Lock, Recheck, ReadFailure, Resolve, Materialise,
             Gate, Install, Learn, Compare, Attach, CheckOpen, ReadCurrent, ReadKnown,
             CompareAndSwap, RecheckOpen, Retract, Retire, RecordGeneration, Touch, At
    <3> QED
      BY <3>1, AtWork
  <2>2. active[Mine(w)] \in Generations \cup {Nil} /\ disk[Mine(w)] \in Generations \cup {Nil}
    BY <2>1 DEF Shape, TypeOK
  <2>3. CASE Look(w) \/ Recheck(w) \/ Resolve(w)
    BY <2>2, <2>3 DEF Look, Recheck, Resolve, Steps, ReaderSteps
  <2>4. CASE Lock(w) \/ ReadFailure(w) \/ Materialise(w) \/ Install(w) \/ Learn(w)
    BY <2>4 DEF Lock, ReadFailure, Materialise, Gate, Refuse, Install, Learn, Steps, ReaderSteps
  <2>5. CASE ReadCurrent(w)
    BY <2>2, <2>5 DEF ReadCurrent, Steps, PublisherSteps
  <2>6. CASE Publish(w) /\ ~ReadCurrent(w)
    BY <2>6 DEF Publish, Compare, Attach, CheckOpen, ReadKnown, CompareAndSwap, RecheckOpen,
                Retract, Retire, RecordGeneration, Steps, PublisherSteps
  <2>7. CASE Touch(w)
    BY <2>7 DEF Touch
  <2> QED
    BY <2>3, <2>4, <2>5, <2>6, <2>7, ProceedCases
<1>3. \A v \in Workers \ {w} : pc'[v] = pc[v] /\ call'[v] = call[v]
  BY <1>2 DEF Finish, Then, Goto, Holding, Shape, TypeOK
<1> QED
  BY <1>1, <1>3

\* A profile stays covered when one worker moves and the list stays.
LEMMA CoverKept ==
  ASSUME Covered, NEW w \in Workers, UNCHANGED <<deferred, lru>>,
         \A v \in Workers \ {w} : pc'[v] = pc[v] /\ call'[v] = call[v],
         \A pr \in Profiles : \/ active'[pr] = active[pr] /\ (Brings(w, pr) => Brings(w, pr)')
                              \/ active'[pr] = Nil
                              \/ Brings(w, pr)'
  PROVE  Covered'
<1> SUFFICES ASSUME NEW pr \in Profiles, deferred[pr], active'[pr] # Nil, ~Brings(w, pr)'
             PROVE  Listed(pr)' \/ \E v \in Workers : Brings(v, pr)'
  BY DEF Covered
<1>1. active'[pr] = active[pr] /\ ~Brings(w, pr)
  OBVIOUS
<1>2. Listed(pr) \/ \E v \in Workers \ {w} : Brings(v, pr)
  BY <1>1 DEF Covered
<1> QED
  BY <1>1, <1>2 DEF Listed, Brings, Mine, Held

LEMMA ProceedCovers ==
  ASSUME Shape, Covered, NEW w \in Workers, Proceed(w)
  PROVE  Covered'
<1>1. /\ UNCHANGED deferred
      /\ \A v \in Workers \ {w} : pc'[v] = pc[v] /\ call'[v] = call[v]
  BY Frame
<1>2. /\ pc \in [Workers -> Steps] /\ call \in [Workers -> Call]
      /\ active \in [Profiles -> Generations \cup {Nil}]
  BY DEF Shape, TypeOK
<1>3. CASE Touch(w)
  <2>1. pc[w] = "touch" /\ Mine(w) \in Profiles
    BY <1>3, AtWork DEF Touch, At
  <2> SUFFICES ASSUME NEW pr \in Profiles, deferred[pr], active'[pr] # Nil
               PROVE  Listed(pr)' \/ \E v \in Workers : Brings(v, pr)'
    BY <1>1 DEF Covered
  <2>2. active'[pr] = active[pr]
    BY <1>3, TouchFacts
  <2>3. CASE Listed(pr) \/ Brings(w, pr)
    BY <1>3, <2>2, <2>3, TouchFacts DEF Brings
  <2>4. CASE \E v \in Workers \ {w} : Brings(v, pr)
    BY <1>1, <2>2, <2>4 DEF Brings, Mine, Held
  <2> QED
    BY <2>2, <2>3, <2>4 DEF Covered
<1>4. CASE Install(w) \/ CompareAndSwap(w)
  <2>1. UNCHANGED lru /\ pc[w] \in {"install", "swap"}
    BY <1>4 DEF Install, CompareAndSwap, At
  <2>2. Mine(w) \in Profiles
    BY <2>1, AtWork
  <2>3. CASE UNCHANGED active
    BY <1>1, <2>1, <2>3, CoverKept DEF Brings, Touchers
  <2>4. CASE /\ Swap(w) /\ (Then(w, "learn") \/ Then(w, "reclosed"))
    <3>1. pc'[w] \in Touchers /\ call' = call
      BY <1>2, <2>4 DEF Then, Goto, Touchers
    <3>2. \A pr \in Profiles : active'[pr] = IF pr = Mine(w) THEN Held(w) ELSE active[pr]
      BY <1>2, <2>4 DEF Swap
    <3>3. \A pr \in Profiles : Brings(w, pr) => pr = Mine(w)
      BY DEF Brings
    <3>4. \A pr \in Profiles : pr = Mine(w) => Brings(w, pr)'
      BY <2>2, <3>1, <3>2 DEF Brings, Mine, Held
    <3> QED
      BY <1>1, <2>1, <3>2, <3>3, <3>4, CoverKept
  <2> QED
    BY <1>4, <2>3, <2>4 DEF Install, CompareAndSwap
<1>5. CASE Retract(w)
  <2>1. UNCHANGED lru /\ pc[w] = "retract"
    BY <1>5 DEF Retract, At
  <2>2. Mine(w) \in Profiles
    BY <2>1, AtWork
  <2>3. \A pr \in Profiles : (active'[pr] = active[pr] /\ ~Brings(w, pr)) \/ active'[pr] = Nil
    BY <1>2, <1>5, <2>2 DEF Retract, Brings
  <2> QED
    BY <1>1, <2>1, <2>3, CoverKept
<1>6. CASE Learn(w) \/ RecheckOpen(w) \/ Retire(w) \/ RecordGeneration(w)
  <2>1. UNCHANGED <<lru, active, call>> /\ pc'[w] \in Touchers
    BY <1>2, <1>6 DEF Learn, RecheckOpen, Retire, RecordGeneration, Then, Goto, Touchers, store
  <2> QED
    BY <1>1, <2>1, CoverKept DEF Brings, Mine, Held
<1>7. CASE \/ Look(w) \/ Lock(w) \/ Recheck(w) \/ ReadFailure(w) \/ Resolve(w) \/ Materialise(w)
           \/ Compare(w) \/ Attach(w) \/ CheckOpen(w) \/ ReadCurrent(w) \/ ReadKnown(w)
  <2>1. UNCHANGED <<lru, active>> /\ pc[w] \notin Touchers
    BY <1>7 DEF Look, Lock, Recheck, ReadFailure, Resolve, Materialise, Gate, Refuse, Compare,
                Attach, CheckOpen, ReadCurrent, ReadKnown, At, Touchers, store
  <2> QED
    BY <1>1, <2>1, CoverKept DEF Brings
<1> QED
  BY <1>3, <1>4, <1>5, <1>6, <1>7, ProceedCases DEF Publish

LEMMA CoveredStep == Shape /\ Covered /\ [Next]_vars => Covered'
<1> SUFFICES ASSUME Shape, Covered, [Next]_vars PROVE Covered'
  OBVIOUS
<1>1. ASSUME NEW w \in Workers, pc[w] = "idle", UNCHANGED <<deferred, store>>,
             \A v \in Workers \ {w} : pc'[v] = pc[v] /\ call'[v] = call[v]
      PROVE  Covered'
  BY <1>1, CoverKept DEF Brings, Touchers, store
<1>2. ASSUME NEW r \in Readers, NEW pr \in Profiles, Ask(r, pr) PROVE Covered'
  BY <1>1, <1>2 DEF Ask, At, Goto, Workers, installation, Shape, TypeOK
<1>3. ASSUME NEW f \in Followers, Poll(f) PROVE Covered'
  BY <1>1, <1>3 DEF Poll, At, Goto, Workers, installation, Shape, TypeOK
<1>4. ASSUME NEW x \in Indexers, NEW pr \in Profiles, Produce(x, pr) PROVE Covered'
  BY <1>1, <1>4 DEF Produce, At, Goto, Workers, Shape, TypeOK
<1>5. CASE Environment
  <2>1. UNCHANGED <<pc, call, lru>>
    BY <1>5 DEF Environment, MoveCurrent, AddProfile, Close, CloseProfile, store
  <2>2. \A pr \in Profiles : /\ active'[pr] \in {active[pr], Nil}
                             /\ deferred'[pr] = deferred[pr] \/ active'[pr] = Nil
    BY <1>5 DEF Environment, MoveCurrent, AddProfile, Close, CloseProfile, store, installation,
                Shape, TypeOK, Roles
  <2> QED
    BY <2>1, <2>2 DEF Covered, Listed, Brings, Mine, Held
<1>6. CASE UNCHANGED vars
  BY <1>6 DEF vars, installation, store, Covered, Listed, Brings, Mine, Held
<1> QED
  BY <1>2, <1>3, <1>4, <1>5, <1>6, ProceedCovers DEF Next

LEMMA InitCovered == Init => Covered
  BY DEF Init, Covered

(***************************************************************************)
(* At most maxOpenProfiles profiles with a loader are materialised, but    *)
(* for those a call in progress has yet to put on the list                 *)
(* (touchProfile, evictProfilesLocked, unload).                            *)
(***************************************************************************)
THEOREM RoomIsKept == Spec => []OpenProfilesBounded
<1>1. Shape /\ Covered => OpenProfilesBounded
  <2> SUFFICES ASSUME Shape, Covered PROVE OpenProfilesBounded
    OBVIOUS
  <2> DEFINE open == {pr \in Profiles \ Touching : deferred[pr] /\ active[pr] # Nil}
             list == {lru[i] : i \in DOMAIN lru}
  <2>1. PICK n \in 0 .. MaxOpen : lru \in [1 .. n -> present]
    BY DEF Shape, TypeOK
  <2>2. n \in Nat /\ n <= MaxOpen /\ MaxOpen \in Nat
    BY <2>1, BoundsAssumption
  <2>3. open \subseteq list
    BY DEF Covered, Listed, Brings, Touching, Touchers
  <2>4. lru \in Surjection(1 .. n, list)
    BY <2>1 DEF Surjection
  <2>5. IsFiniteSet(1 .. n) /\ Cardinality(1 .. n) = n
    BY <2>2, FS_Interval
  <2> HIDE DEF open, list
  <2>6. IsFiniteSet(list) /\ Cardinality(list) <= n
    BY <2>4, <2>5, FS_Surjection
  <2>7. Cardinality(open) <= Cardinality(list)
    BY <2>3, <2>6, FS_Subset
  <2>8. IsFiniteSet(open) /\ Cardinality(list) \in Nat /\ Cardinality(open) \in Nat
    BY <2>3, <2>6, FS_Subset, FS_CardinalityType
  <2>9. Cardinality(open) <= MaxOpen
    BY <2>2, <2>6, <2>7, <2>8
  <2> QED
    BY <2>9 DEF open, OpenProfilesBounded
<1> QED
  BY <1>1, InitShape, ShapeStep, InitCovered, CoveredStep, PTL DEF Spec

-----------------------------------------------------------------------------
(* With room for every profile, what is active is the newest there was. *)

Newest ==
  /\ \A w \in Workers :
       /\ pc[w] = "retract" => closed[Mine(w)]
       /\ pc[w] \in {"older", "swap"} => call[w].seen < Held(w)
  /\ NeverEvicts => \A pr \in Profiles : ~closed[pr] => active[pr] = top[pr]

LEMMA InitNewest == Init => Newest
  BY DEF Init, Newest

\* The steps that change neither what is active nor what has been.
LEMMA ServedSteps ==
  ASSUME Shape, Newest, NEW w \in Workers, Proceed(w)
  PROVE  \/ UNCHANGED <<active, top>>
         \/ Touch(w) /\ top' = top
         \/ Retract(w) /\ top' = top
         \/ /\ Swap(w) /\ Mine(w) \in Profiles /\ Held(w) \in Generations \cup {Nil}
            /\ \/ Install(w) /\ active[Mine(w)] = Nil
               \/ CompareAndSwap(w) /\ active[Mine(w)] = call[w].seen /\ call[w].seen < Held(w)
<1>1. CASE Install(w) \/ CompareAndSwap(w)
  <2>1. pc[w] \in {"install", "swap"}
    BY <1>1 DEF Install, CompareAndSwap, At
  <2> QED
    BY <1>1, <2>1, AtWork DEF Install, CompareAndSwap, At, Newest
<1>2. CASE Touch(w) \/ Retract(w)
  BY <1>2 DEF Touch, Retract
<1>3. CASE ~(Install(w) \/ CompareAndSwap(w) \/ Touch(w) \/ Retract(w))
  BY <1>3, ProceedCases
  DEF Publish, Look, Lock, Recheck, ReadFailure, Resolve, Materialise, Gate, Refuse, Learn,
      Compare, Attach, CheckOpen, ReadCurrent, ReadKnown, RecheckOpen, Retire,
      RecordGeneration, store
<1> QED
  BY <1>1, <1>2, <1>3

LEMMA ProceedNewest ==
  ASSUME Shape, Newest, NEW w \in Workers, Proceed(w)
  PROVE  Newest'
<1>1. /\ UNCHANGED <<setting, closed>>
      /\ \A v \in Workers \ {w} : pc'[v] = pc[v] /\ call'[v] = call[v]
  BY Frame
<1>2. /\ pc \in [Workers -> Steps] /\ call \in [Workers -> Call]
      /\ active \in [Profiles -> Generations \cup {Nil}]
      /\ top \in [Profiles -> Generations \cup {Nil}]
  BY DEF Shape, TypeOK
<1>3. pc'[w] = "retract" => closed[Mine(w)'] 
  <2>1. CASE RecheckOpen(w)
    BY <1>2, <2>1 DEF RecheckOpen, Then, Goto, Mine
  <2>2. CASE ~RecheckOpen(w)
    <3>1. pc'[w] # "retract"
      BY <1>2, <2>2, ProceedCases
      DEF Publish, Look, Lock, Recheck, ReadFailure, Resolve, Materialise, Gate, Refuse,
          Install, Learn, Compare, Attach, CheckOpen, ReadCurrent, ReadKnown, CompareAndSwap,
          Retract, Retire, RecordGeneration, Touch, Then, Goto, Finish
    <3> QED
      BY <3>1
  <2> QED
    BY <2>1, <2>2
<1>4. pc'[w] \in {"older", "swap"} => call'[w].seen < Held(w)'
  <2>1. CASE ReadCurrent(w)
    <3>1. call[w] \in Call /\ Mine(w) \in Profiles
      BY <2>1, AtWork DEF ReadCurrent, At
    <3> QED
      BY <1>2, <2>1, <3>1 DEF ReadCurrent, Goto, Finish, Held, Call
  <2>2. CASE ReadKnown(w)
    BY <1>2, <2>2 DEF ReadKnown, At, Then, Goto, Finish, Held, Newest
  <2>3. CASE ~ReadCurrent(w) /\ ~ReadKnown(w)
    <3>1. pc'[w] \notin {"older", "swap"}
      BY <1>2, <2>3, ProceedCases
      DEF Publish, Look, Lock, Recheck, ReadFailure, Resolve, Materialise, Gate, Refuse,
          Install, Learn, Compare, Attach, CheckOpen, CompareAndSwap, RecheckOpen,
          Retract, Retire, RecordGeneration, Touch, Then, Goto, Finish
    <3> QED
      BY <3>1
  <2> QED
    BY <2>1, <2>2, <2>3
<1>5. ASSUME NeverEvicts, NEW pr \in Profiles, ~closed[pr]
      PROVE  active'[pr] = top'[pr]
  <2>1. active[pr] = top[pr]
    BY <1>5 DEF Newest
  <2>2. CASE UNCHANGED <<active, top>>
    BY <2>1, <2>2
  <2>3. CASE Touch(w) /\ top' = top
    BY <1>5, <2>1, <2>3, TouchFacts
  <2>4. CASE Retract(w) /\ top' = top
    <3>1. closed[Mine(w)]
      BY <2>4 DEF Retract, At, Newest
    <3> QED
      BY <1>2, <1>5, <2>1, <2>4, <3>1 DEF Retract
  <2>5. CASE /\ Swap(w) /\ Mine(w) \in Profiles /\ Held(w) \in Generations \cup {Nil}
             /\ active[Mine(w)] = Nil \/ active[Mine(w)] < Held(w)
    BY <1>2, <2>1, <2>5 DEF Swap, Generations, Nil
  <2> QED
    BY <2>2, <2>3, <2>4, <2>5, ServedSteps
<1> QED
  BY <1>1, <1>3, <1>4, <1>5 DEF Newest, NeverEvicts, Mine, Held

LEMMA NewestStep == Shape /\ Newest /\ [Next]_vars => Newest'
<1> SUFFICES ASSUME Shape, Newest, [Next]_vars PROVE Newest'
  OBVIOUS
<1>1. ASSUME NEW w \in Workers, NEW s \in {"look", "compare"}, Goto(w, s),
             UNCHANGED <<setting, closed, active, top>>,
             \A v \in Workers \ {w} : call'[v] = call[v]
      PROVE  Newest'
  BY <1>1 DEF Newest, NeverEvicts, Goto, Mine, Held, Shape, TypeOK
<1>2. ASSUME NEW r \in Readers, NEW pr \in Profiles, Ask(r, pr) PROVE Newest'
  BY <1>1, <1>2 DEF Ask, Workers, installation, shutdown, store, Shape, TypeOK
<1>3. ASSUME NEW f \in Followers, Poll(f) PROVE Newest'
  BY <1>1, <1>3 DEF Poll, Workers, installation, shutdown, store, Shape, TypeOK
<1>4. ASSUME NEW x \in Indexers, NEW pr \in Profiles, Produce(x, pr) PROVE Newest'
  BY <1>1, <1>4 DEF Produce, Workers, shutdown, store, Shape, TypeOK
<1>5. CASE Environment
  <2>1. UNCHANGED <<setting, pc, call, top>>
    BY <1>5 DEF Environment, MoveCurrent, AddProfile, Close, CloseProfile, installation, store
  <2>2. \A pr \in Profiles : /\ closed[pr] => closed'[pr]
                             /\ active'[pr] = active[pr] \/ closed'[pr]
    BY <1>5 DEF Environment, MoveCurrent, AddProfile, Close, CloseProfile, store, installation,
                shutdown, Shape, TypeOK
  <2>3. \A w \in Workers : pc[w] = "retract" => Mine(w) \in Profiles
    BY AtWork
  <2> QED
    BY <2>1, <2>2, <2>3 DEF Newest, NeverEvicts, Mine, Held
<1>6. CASE UNCHANGED vars
  BY <1>6 DEF vars, installation, shutdown, store, Newest, NeverEvicts, Mine, Held
<1> QED
  BY <1>2, <1>3, <1>4, <1>5, <1>6, ProceedNewest DEF Next

(***************************************************************************)
(* With room for every profile a stale publisher loses, as publication.go  *)
(* (line 421) says: in a store that is open no generation is ever replaced *)
(* by an older one, whatever publications, first loads, failures and       *)
(* rollbacks of CURRENT race.  Without that room an unload between the     *)
(* read and the swap refutes it; a store that is being closed may take a   *)
(* late snapshot, which its publisher takes back.                          *)
(***************************************************************************)
THEOREM RoomMakesTheStaleLose ==
  Spec => [](NeverEvicts =>
               /\ \A pr \in Profiles : ~closed[pr] => active[pr] = top[pr]
               /\ (\A pr \in Profiles : ~closed[pr]) => StalePublisherLoses)
<1>1. Newest => (NeverEvicts =>
                   /\ \A pr \in Profiles : ~closed[pr] => active[pr] = top[pr]
                   /\ (\A pr \in Profiles : ~closed[pr]) => StalePublisherLoses)
  BY DEF Newest, StalePublisherLoses
<1> QED
  BY <1>1, InitShape, ShapeStep, InitNewest, NewestStep, PTL DEF Spec

-----------------------------------------------------------------------------
(* The store implements the promise of PublishedSnapshot. *)

Served == [pr \in Profiles |-> IF closed[pr] \/ ~NeverEvicts THEN Nil ELSE active[pr]]

LEMMA ServedIs ==
  /\ Promised!vars = <<Served, closed>>
  /\ Promised!vars' = <<Served', closed'>>
  /\ Promised!Init <=> /\ Served = [pr \in Profiles |-> Nil]
                       /\ closed = [pr \in Profiles |-> FALSE]
  /\ \A pr \in Profiles : Promised!Shut(pr) <=>
       /\ ~closed[pr]
       /\ closed' = [closed EXCEPT ![pr] = TRUE]
       /\ Served' = [Served EXCEPT ![pr] = Nil]
  /\ \A pr \in Profiles, g \in Generations : Promised!Advance(pr, g) <=>
       /\ ~closed[pr] /\ g > Served[pr]
       /\ Served' = [Served EXCEPT ![pr] = g]
       /\ UNCHANGED closed
  BY DEF Promised!vars, Promised!Init, Promised!Shut, Promised!Advance, Served

LEMMA ProceedPromise ==
  ASSUME Shape, Newest, NEW w \in Workers, Proceed(w)
  PROVE  \/ UNCHANGED <<Served, closed>>
         \/ \E pr \in Profiles, g \in Generations : Promised!Advance(pr, g)
<1>1. UNCHANGED <<setting, closed>> /\ (NeverEvicts' <=> NeverEvicts)
  BY Frame DEF NeverEvicts
<1>2. /\ active \in [Profiles -> Generations \cup {Nil}]
      /\ closed \in [Profiles -> BOOLEAN]
  BY DEF Shape, TypeOK
<1>3. CASE UNCHANGED active \/ ~NeverEvicts \/ Touch(w)
  BY <1>1, <1>3, TouchFacts DEF Served
<1>4. CASE Retract(w)
  <2>1. closed[Mine(w)]
    BY <1>4 DEF Retract, At, Newest
  <2> QED
    BY <1>1, <1>2, <1>4, <2>1 DEF Retract, Served
<1>5. CASE /\ NeverEvicts /\ Swap(w) /\ Mine(w) \in Profiles
           /\ Held(w) \in Generations \cup {Nil}
           /\ active[Mine(w)] = Nil \/ active[Mine(w)] < Held(w)
  <2>1. active' = [active EXCEPT ![Mine(w)] = Held(w)]
    BY <1>5 DEF Swap
  <2>2. CASE closed[Mine(w)] \/ Held(w) = active[Mine(w)]
    BY <1>1, <1>2, <2>1, <2>2 DEF Served
  <2>3. CASE ~closed[Mine(w)] /\ Held(w) # active[Mine(w)]
    <3>1. Held(w) \in Generations /\ Held(w) > active[Mine(w)]
      BY <1>2, <1>5, <2>3 DEF Generations, Nil
    <3>2. Served[Mine(w)] = active[Mine(w)]
      BY <1>5, <2>3 DEF Served
    <3>3. Served' = [Served EXCEPT ![Mine(w)] = Held(w)]
      BY <1>1, <1>2, <1>5, <2>1, <2>3 DEF Served
    <3> QED
      BY <1>1, <1>5, <2>3, <3>1, <3>2, <3>3, ServedIs
  <2> QED
    BY <2>2, <2>3
<1> QED
  BY <1>3, <1>4, <1>5, ServedSteps

LEMMA EnvironmentPromise ==
  ASSUME Shape, Environment
  PROVE  \/ UNCHANGED <<Served, closed>>
         \/ \E pr \in Profiles : Promised!Shut(pr)
<1>1. /\ UNCHANGED setting /\ (NeverEvicts' <=> NeverEvicts)
      /\ active \in [Profiles -> Generations \cup {Nil}]
      /\ closed \in [Profiles -> BOOLEAN]
  BY DEF Environment, MoveCurrent, AddProfile, Close, CloseProfile, installation, NeverEvicts,
         Shape, TypeOK
<1>2. CASE UNCHANGED <<active, closed>>
  BY <1>1, <1>2 DEF Served
<1>3. ASSUME NEW pr \in Profiles, CloseProfile(pr)
      PROVE  UNCHANGED <<Served, closed>> \/ Promised!Shut(pr)
  <2>1. CASE closed[pr]
    BY <1>1, <1>3, <2>1 DEF CloseProfile, Served
  <2>2. CASE ~closed[pr]
    <3>1. closed' = [closed EXCEPT ![pr] = TRUE] /\ UNCHANGED active
      BY <1>3, <2>2 DEF CloseProfile
    <3>2. Served' = [Served EXCEPT ![pr] = Nil]
      BY <1>1, <3>1 DEF Served
    <3> QED
      BY <2>2, <3>1, <3>2, ServedIs
  <2> QED
    BY <2>1, <2>2
<1> QED
  BY <1>2, <1>3 DEF Environment, MoveCurrent, AddProfile, Close, shutdown, store

(***************************************************************************)
(* With room for every profile, what the store serves of each implements   *)
(* the register of PublishedSnapshot: it only moves to newer generations,  *)
(* whatever deferred loads, followers, indexers and closings race          *)
(* (Publish, publishMaterialised, Close).                                  *)
(***************************************************************************)
THEOREM PromiseKept == Spec => ImplementsPublishedSnapshot
<1>1. Init => Promised!Init
  BY ServedIs DEF Init, Served
<1>2. Shape /\ Newest /\ [Next]_vars => [Promised!Next]_(Promised!vars)
  <2> SUFFICES ASSUME Shape, Newest, [Next]_vars
               PROVE  UNCHANGED <<Served, closed>> \/ Promised!Next
    BY ServedIs
  <2>1. CASE UNCHANGED <<setting, closed, active>>
    BY <2>1 DEF Served, NeverEvicts
  <2>2. ASSUME NEW w \in Workers, Proceed(w)
        PROVE  UNCHANGED <<Served, closed>> \/ Promised!Next
    BY <2>2, ProceedPromise DEF Promised!Next
  <2>3. CASE Environment
    BY <2>3, EnvironmentPromise DEF Promised!Next
  <2>4. CASE \/ \E r \in Readers, pr \in Profiles : Ask(r, pr)
             \/ \E f \in Followers : Poll(f)
             \/ \E x \in Indexers, pr \in Profiles : Produce(x, pr)
    BY <2>1, <2>4 DEF Ask, Poll, Produce, installation, shutdown, store
  <2>5. CASE UNCHANGED vars
    BY <2>1, <2>5 DEF vars, installation, shutdown, store
  <2> QED
    BY <2>2, <2>3, <2>4, <2>5 DEF Next
<1> QED
  BY <1>1, <1>2, InitShape, ShapeStep, InitNewest, NewestStep, PTL
  DEF Spec, ImplementsPublishedSnapshot, Promised!Spec

-----------------------------------------------------------------------------
(* Readers do not go back. *)

\* What a reader was promised when it called; the lock is only reached where
\* nothing had been served.
Floors ==
  NeverEvicts => \A r \in Readers :
    pc[r] # "idle" /\ ~closed[Mine(r)] =>
      /\ call[r].floor <= top[Mine(r)]
      /\ pc[r] \notin {"look", "touch"} => call[r].floor = Nil
      /\ pc[r] = "touch" => call[r].floor <= Held(r)

\* The numbers of a state are natural numbers.
Numbers ==
  /\ \A pr \in Profiles : /\ top[pr] \in Nat /\ active[pr] \in Nat
                          /\ generation[pr] \in Nat /\ disk[pr] \in Nat
  /\ \A w \in Workers : /\ call[w].floor \in Nat /\ Held(w) \in Nat
                        /\ call[w].seen \in Nat

LEMMA NumbersTyped == (Shape => Numbers) /\ (Shape' => Numbers')
<1>1. Generations \cup {Nil} \subseteq Nat
  BY BoundsAssumption DEF Generations, Nil
<1>2. \A c \in Call : c.floor \in Nat /\ c.id \in Nat /\ c.seen \in Nat
  BY <1>1 DEF Call
<1>3. Shape => Numbers
  BY <1>1, <1>2 DEF Shape, TypeOK, Numbers, Held
<1>4. Shape' => Numbers'
  BY <1>1, <1>2 DEF Shape, TypeOK, Numbers, Held
<1> QED
  BY <1>3, <1>4

LEMMA InitFloors == Init => Floors
  BY DEF Init, Floors, Workers

LEMMA TopGrows ==
  ASSUME Shape, [Next]_vars
  PROVE  \A pr \in Profiles : top[pr] <= top'[pr] /\ (closed[pr] => closed'[pr])
<1>1. /\ top \in [Profiles -> Generations \cup {Nil}]
      /\ \A pr \in Profiles : top[pr] \in Int
  BY NumbersTyped DEF Shape, TypeOK, Numbers
<1>2. CASE UNCHANGED <<top, closed>>
  BY <1>1, <1>2
<1>3. ASSUME NEW w \in Workers, Proceed(w)
      PROVE  \A pr \in Profiles : top[pr] <= top'[pr] /\ (closed[pr] => closed'[pr])
  <2>1. UNCHANGED closed
    BY <1>3, Frame
  <2>2. CASE UNCHANGED top
    BY <1>1, <2>1, <2>2
  <2>3. CASE Install(w) \/ CompareAndSwap(w)
    <3>1. Held(w) \in Generations \cup {Nil}
      BY <2>3, AtWork DEF Install, CompareAndSwap, At
    <3> QED
      BY <1>1, <2>1, <2>3, <3>1 DEF Install, CompareAndSwap, Swap, Generations, Nil
  <2>4. CASE ~(Install(w) \/ CompareAndSwap(w))
    <3>1. UNCHANGED top
      BY <1>3, <2>4, ProceedCases
      DEF Publish, Look, Lock, Recheck, ReadFailure, Resolve, Materialise, Gate, Refuse, Learn,
          Compare, Attach, CheckOpen, ReadCurrent, ReadKnown, RecheckOpen, Retract, Retire,
          RecordGeneration, Touch, store
    <3> QED
      BY <2>2, <3>1
  <2> QED
    BY <2>3, <2>4
<1>4. CASE Environment
  <2>1. UNCHANGED top
    BY <1>4 DEF Environment, MoveCurrent, AddProfile, Close, CloseProfile, store
  <2>2. \A pr \in Profiles : closed[pr] => closed'[pr]
    BY <1>4 DEF Environment, MoveCurrent, AddProfile, Close, CloseProfile, shutdown, Shape, TypeOK
  <2> QED
    BY <1>1, <2>1, <2>2
<1> QED
  BY <1>2, <1>3, <1>4 DEF Next, Ask, Poll, Produce, vars, shutdown, store

LEMMA ProceedFloors ==
  ASSUME Shape, Newest, Floors, NEW w \in Workers, Proceed(w), [Next]_vars
  PROVE  Floors'
<1> SUFFICES ASSUME NeverEvicts', NEW r \in Readers, pc'[r] # "idle", ~closed'[Mine(r)']
             PROVE  /\ call'[r].floor <= top'[Mine(r)']
                    /\ pc'[r] \notin {"look", "touch"} => call'[r].floor = Nil
                    /\ pc'[r] = "touch" => call'[r].floor <= Held(r)'
  BY DEF Floors
<1>1. /\ UNCHANGED <<setting, closed>> /\ NeverEvicts
      /\ \A v \in Workers \ {w} : pc'[v] = pc[v] /\ call'[v] = call[v]
      /\ r \in Workers
  BY Frame DEF NeverEvicts, Workers
<1>2. /\ \A pr \in Profiles : top[pr] \in Nat /\ top'[pr] \in Nat /\ active[pr] \in Nat
      /\ \A pr \in Profiles : top[pr] <= top'[pr]
  BY TopGrows, ShapeStep, NumbersTyped DEF Numbers
<1>3. /\ pc \in [Workers -> Steps] /\ call \in [Workers -> Call]
      /\ call[r].floor \in Nat /\ Held(r)' \in Nat
  BY <1>1, ShapeStep, NumbersTyped DEF Shape, TypeOK, Numbers
<1>4. CASE r # w
  <2>1. pc'[r] = pc[r] /\ call'[r] = call[r] /\ Mine(r)' = Mine(r) /\ Held(r)' = Held(r)
    BY <1>1, <1>4 DEF Mine, Held
  <2>2. Mine(r) \in Profiles
    BY <1>1, <2>1, AtWork
  <2>3. top[Mine(r)] \in Nat /\ top'[Mine(r)] \in Nat /\ top[Mine(r)] <= top'[Mine(r)]
    BY <1>2, <2>2
  <2> QED
    BY <1>1, <1>3, <2>1, <2>3 DEF Floors
<1>5. CASE r = w
  <2>1. pc[r] # "idle"
    BY <1>5 DEF Proceed, Load, Publish, Look, Lock, Recheck, ReadFailure, Resolve, Materialise,
             Gate, Install, Learn, Compare, Attach, CheckOpen, ReadCurrent, ReadKnown,
             CompareAndSwap, RecheckOpen, Retract, Retire, RecordGeneration, Touch, At
  <2>2. Mine(r) \in Profiles /\ call[r] \in Call
    BY <1>1, <2>1, AtWork
  <2>3. ~Publish(r) /\ ~Touch(r)
    <3>1. ~Publish(r)
      <4>1. Publish(r) => pc[r] \in PublisherSteps
        BY DEF Publish, Compare, Attach, CheckOpen, ReadCurrent, ReadKnown, CompareAndSwap,
               RecheckOpen, Retract, Retire, RecordGeneration, At, PublisherSteps
      <4> QED
        BY <1>1, <2>1, <4>1, AtWork
    <3>2. ~Touch(r)
      BY <1>3, <1>1 DEF Touch, Finish, Goto
    <3> QED
      BY <3>1, <3>2
  <2>4. Mine(r)' = Mine(r) /\ call'[r].floor = call[r].floor
    BY <1>1, <1>3, <1>5, <2>2, <2>3, ProceedCases
    DEF Look, Lock, Recheck, ReadFailure, Resolve, Materialise, Gate, Refuse, Install, Learn,
        Then, Holding, Finish, Goto, Mine, Call
  <2>5. /\ ~closed[Mine(r)] /\ active[Mine(r)] = top[Mine(r)]
        /\ call[r].floor <= top[Mine(r)]
        /\ pc[r] \notin {"look", "touch"} => call[r].floor = Nil
    BY <1>1, <2>1, <2>2, <2>4 DEF Floors, Newest
  <2>6. call'[r].floor <= top'[Mine(r)']
    BY <1>2, <1>3, <2>2, <2>4, <2>5
  <2>7. CASE Look(r)
    <3>1. CASE Holding(r, active[Mine(r)]) /\ Goto(r, "touch")
      <4>1. Held(r)' = active[Mine(r)] /\ pc'[r] = "touch"
        BY <1>1, <1>3, <2>2, <3>1 DEF Holding, Goto, Held, Call
      <4> QED
        BY <2>4, <2>5, <2>6, <4>1
    <3>2. CASE active[Mine(r)] = Nil /\ Then(r, "lock")
      <4>1. pc'[r] = "lock"
        BY <1>1, <1>3, <3>2 DEF Then, Goto
      <4> QED
        BY <1>3, <2>4, <2>5, <2>6, <3>2, <4>1 DEF Nil
    <3>3. CASE Finish(r)
      BY <1>1, <1>3, <3>3 DEF Finish, Goto
    <3> QED
      BY <2>7, <3>1, <3>2, <3>3 DEF Look
  <2>8. CASE ~Look(r)
    <3>1. pc[r] \notin {"look", "touch"}
      BY <1>5, <2>3, <2>8, ProceedCases
      DEF Lock, Recheck, ReadFailure, Resolve, Materialise, Gate, Install, Learn, At
    <3> QED
      BY <1>3, <2>4, <2>5, <2>6, <3>1 DEF Nil
  <2> QED
    BY <2>7, <2>8
<1> QED
  BY <1>4, <1>5

LEMMA FloorsStep == Shape /\ Newest /\ Floors /\ [Next]_vars => Floors'
<1> SUFFICES ASSUME Shape, Newest, Floors, [Next]_vars PROVE Floors'
  OBVIOUS
<1>1. /\ \A pr \in Profiles : top[pr] \in Nat /\ top'[pr] \in Nat
      /\ \A pr \in Profiles : top[pr] <= top'[pr] /\ (closed[pr] => closed'[pr])
      /\ \A r \in Readers : call[r].floor \in Nat
      /\ Readers \subseteq Workers
  BY TopGrows, ShapeStep, NumbersTyped DEF Numbers, Workers
<1>2. ASSUME UNCHANGED setting,
             \A r \in Readers : pc'[r] # "idle" =>
                \/ pc'[r] = pc[r] /\ call'[r] = call[r]
                \/ /\ pc'[r] = "look" /\ Mine(r)' \in Profiles
                   /\ call'[r].floor = top[Mine(r)']
      PROVE  Floors'
  <2> SUFFICES ASSUME NeverEvicts, NEW r \in Readers, pc'[r] # "idle", ~closed'[Mine(r)']
               PROVE  /\ call'[r].floor <= top'[Mine(r)']
                      /\ pc'[r] \notin {"look", "touch"} => call'[r].floor = Nil
                      /\ pc'[r] = "touch" => call'[r].floor <= Held(r)'
    BY <1>2 DEF Floors, NeverEvicts
  <2>1. CASE pc'[r] = pc[r] /\ call'[r] = call[r]
    <3>1. Mine(r) \in Profiles /\ Mine(r)' = Mine(r) /\ Held(r)' = Held(r)
      BY <1>1, <2>1, AtWork DEF Mine, Held
    <3>2. ~closed[Mine(r)] /\ top[Mine(r)] \in Nat /\ top'[Mine(r)] \in Nat
          /\ top[Mine(r)] <= top'[Mine(r)] /\ call[r].floor \in Nat
      BY <1>1, <3>1
    <3> QED
      BY <2>1, <3>1, <3>2 DEF Floors
  <2>2. CASE pc'[r] = "look" /\ Mine(r)' \in Profiles /\ call'[r].floor = top[Mine(r)']
    BY <1>1, <2>2
  <2> QED
    BY <1>2, <2>1, <2>2
<1>3. ASSUME NEW w \in Readers, NEW pr \in Profiles, Ask(w, pr) PROVE Floors'
  <2>1. /\ \A r \in Readers \ {w} : pc'[r] = pc[r] /\ call'[r] = call[r]
        /\ pc'[w] = "look"
    BY <1>1, <1>3 DEF Ask, Goto, Shape, TypeOK
  <2>2. Mine(w)' = pr /\ call'[w].floor = top[pr]
    BY <1>1, <1>3 DEF Ask, Mine, Shape, TypeOK, Call
  <2> QED
    BY <1>2, <1>3, <2>1, <2>2 DEF Ask, installation
<1>4. CASE \/ \E f \in Followers : Poll(f)
           \/ \E x \in Indexers, pr \in Profiles : Produce(x, pr)
  <2>1. PICK v \in Followers \cup Indexers :
          /\ Goto(v, "compare") /\ UNCHANGED setting
          /\ \A u \in Workers \ {v} : call'[u] = call[u]
    <3>1. CASE \E f \in Followers : Poll(f)
      BY <3>1 DEF Poll, installation, Shape, TypeOK
    <3>2. CASE \E x \in Indexers, pr \in Profiles : Produce(x, pr)
      BY <3>2 DEF Produce, Shape, TypeOK
    <3> QED
      BY <1>4, <3>1, <3>2
  <2>2. \A r \in Readers : r \in Workers /\ r # v
    BY <1>1, WorkersAssumption
  <2>3. \A r \in Readers : pc'[r] = pc[r] /\ call'[r] = call[r]
    BY <2>1, <2>2 DEF Goto, Shape, TypeOK
  <2> QED
    BY <1>2, <2>1, <2>3
<1>5. CASE Environment \/ UNCHANGED vars
  BY <1>2, <1>5
  DEF Environment, MoveCurrent, AddProfile, Close, CloseProfile, installation, vars
<1> QED
  BY <1>3, <1>4, <1>5, ProceedFloors DEF Next

(***************************************************************************)
(* With room for every profile, a Load of an open store never answers an   *)
(* older snapshot than its profile had served when it was called (Load,    *)
(* publishMaterialised, Publish).                                          *)
(***************************************************************************)
THEOREM NoReaderGoesBack == Spec => []ReadersNeverGoBack
<1>1. Shape /\ Floors => ReadersNeverGoBack
  <2> SUFFICES ASSUME Shape, Floors, NeverEvicts, NEW r \in Readers, At(r, "touch"),
                      ~closed[Mine(r)]
               PROVE  Held(r) >= call[r].floor
    BY DEF ReadersNeverGoBack
  <2>1. r \in Workers /\ pc[r] # "idle"
    BY DEF At, Workers
  <2>2. call[r].floor \in Nat /\ Held(r) \in Nat
    BY <2>1, NumbersTyped DEF Numbers
  <2> QED
    BY <2>1, <2>2 DEF Floors, At
<1> QED
  BY <1>1, InitShape, ShapeStep, InitNewest, NewestStep, InitFloors, FloorsStep, PTL DEF Spec

-----------------------------------------------------------------------------
(* A profile is loaded once. *)

\* The steps of a load that has read CURRENT and published nothing yet.
Building == {"build", "admit", "known", "install"}

\* Room for every profile, and nothing that goes wrong.
Calm == NeverEvicts /\ Undisturbed

\* CURRENT only advances, and what is known or held of it is behind it.
Behind ==
  /\ closing = None
  /\ \A pr \in Profiles : ~closed[pr]
  /\ \A pr \in Profiles : (deferred[pr] => disk[pr] # Nil) /\ generation[pr] <= disk[pr]
  /\ \A w \in Workers : pc[w] \in {"learn"} \cup Building \cup PublisherSteps =>
                          Held(w) <= disk[Mine(w)]

\* What was published stays, and a load in progress is not refused.
Published ==
  /\ \A w \in Workers : pc[w] \in {"learn", "reclosed", "retire", "record"} =>
                          active[Mine(w)] # Nil
  /\ \A r \in Readers : pc[r] \in Exclusive \cup {"lock"} => deferred[Mine(r)]
  /\ \A r \in Readers : pc[r] \in Building =>
       /\ Held(r) # Nil
       /\ generation[Mine(r)] <= Held(r) \/ active[Mine(r)] # Nil

\* A second load finds the first under way, or what it published.
Once ==
  /\ \A r \in Readers : pc[r] \in {"refused", "resolve"} => loads[Mine(r)] = 0
  /\ \A pr \in Profiles : loads[pr] <= 1
  /\ \A pr \in Profiles : loads[pr] = 1 /\ active[pr] = Nil =>
       \E h \in Readers : mutex[pr] = h /\ pc[h] \in Building /\ Mine(h) = pr

OneLoad == Calm => Behind /\ Published /\ Once

LEMMA InitOneLoad == Init => OneLoad
<1> SUFFICES ASSUME Init PROVE Behind /\ Published /\ Once
  BY DEF OneLoad
<1>1. Behind
  <2>1. \A pr \in Profiles : deferred[pr] => disk[pr] # Nil
    BY Zenon DEF Init
  <2>2. \A pr \in Profiles : generation[pr] <= disk[pr]
    BY DEF Init, Nil
  <2> QED
    BY <2>1, <2>2 DEF Init, Behind, Building, PublisherSteps
<1>2. Published
  BY DEF Init, Published, Building, Exclusive, Workers
<1>3. Once
  BY DEF Init, Once, Workers
<1> QED
  BY <1>1, <1>2, <1>3

\* What is active is never taken back.
LEMMA ActiveStays ==
  ASSUME Shape, Newest, Calm, Behind, Published, NEW w \in Workers, Proceed(w)
  PROVE  /\ \A pr \in Profiles : active[pr] # Nil => active'[pr] # Nil
         /\ Install(w) \/ (CompareAndSwap(w) /\ Then(w, "reclosed")) =>
              \A pr \in {Mine(w)} : active'[pr] # Nil
<1>1. active \in [Profiles -> Generations \cup {Nil}] /\ pc \in [Workers -> Steps]
  BY DEF Shape, TypeOK
<1>2. ~Retract(w)
  <2>1. Retract(w) => Mine(w) \in Profiles /\ closed[Mine(w)]
    BY AtWork DEF Retract, At, Newest
  <2> QED
    BY <2>1 DEF Behind
<1>3. Install(w) => Mine(w) \in Profiles /\ Held(w) # Nil
  <2> SUFFICES ASSUME Install(w) PROVE Mine(w) \in Profiles /\ Held(w) # Nil
    OBVIOUS
  <2>1. pc[w] = "install"
    BY DEF Install, At
  <2>2. w \in Readers /\ Mine(w) \in Profiles
    BY <2>1, AtWork DEF ReaderSteps
  <2> QED
    BY <2>1, <2>2 DEF Published, Building
<1>4. CompareAndSwap(w) => Mine(w) \in Profiles /\ Held(w) # Nil
  <2> SUFFICES ASSUME CompareAndSwap(w) PROVE Mine(w) \in Profiles /\ Held(w) # Nil
    OBVIOUS
  <2>1. pc[w] = "swap"
    BY DEF CompareAndSwap, At
  <2>2. Mine(w) \in Profiles /\ call[w].seen < Held(w)
    BY <2>1, AtWork DEF Newest
  <2> QED
    BY <2>2, NumbersTyped DEF Numbers, Nil
<1>5. CASE Install(w)
  BY <1>1, <1>3, <1>5 DEF Install, Swap
<1>6. CASE CompareAndSwap(w)
  <2>1. ~(Then(w, "open") /\ Then(w, "reclosed"))
    BY <1>1 DEF Then, Goto
  <2> QED
    BY <1>1, <1>4, <1>6, <2>1 DEF CompareAndSwap, Swap, Install, At
<1>7. CASE ~Install(w) /\ ~CompareAndSwap(w)
  <2>1. Touch(w) => active' = active
    BY TouchFacts DEF Calm
  <2> QED
    BY <1>2, <1>7, <2>1, ServedSteps
<1> QED
  BY <1>5, <1>6, <1>7

LEMMA ProceedBehind ==
  ASSUME Shape, Behind, NEW w \in Workers, Proceed(w)
  PROVE  Behind'
<1>1. /\ UNCHANGED <<disk, deferred, closed, closing>>
      /\ \A v \in Workers \ {w} : pc'[v] = pc[v] /\ call'[v] = call[v]
  BY Frame
<1>2. /\ pc \in [Workers -> Steps] /\ call \in [Workers -> Call]
      /\ \A pr \in Profiles : generation[pr] \in Nat /\ disk[pr] \in Nat
      /\ generation \in [Profiles -> Generations \cup {Nil}]
  BY NumbersTyped DEF Shape, TypeOK, Numbers
<1>3. pc[w] # "idle"
  BY DEF Proceed, Load, Publish, Look, Lock, Recheck, ReadFailure, Resolve, Materialise,
         Gate, Install, Learn, Compare, Attach, CheckOpen, ReadCurrent, ReadKnown,
         CompareAndSwap, RecheckOpen, Retract, Retire, RecordGeneration, Touch, At
<1>4. Mine(w) \in Profiles /\ call[w] \in Call
  BY <1>3, AtWork
<1>5. \A pr \in Profiles : generation'[pr] <= disk[pr]
  <2>1. CASE Learn(w) \/ RecordGeneration(w)
    <3>1. Held(w) <= disk[Mine(w)]
      BY <2>1 DEF Learn, RecordGeneration, At, PublisherSteps, Behind
    <3> QED
      BY <1>2, <1>4, <2>1, <3>1 DEF Learn, RecordGeneration, Behind
  <2>2. CASE ~(Learn(w) \/ RecordGeneration(w))
    <3>1. UNCHANGED generation
      BY <2>2, ProceedCases
      DEF Publish, Look, Lock, Recheck, ReadFailure, Resolve, Materialise, Gate, Refuse, Install,
          Compare, Attach, CheckOpen, ReadCurrent, ReadKnown, CompareAndSwap, RecheckOpen,
          Retract, Retire, Touch, store
    <3> QED
      BY <3>1 DEF Behind
  <2> QED
    BY <2>1, <2>2
<1>6. pc'[w] \in {"learn"} \cup Building \cup PublisherSteps => Held(w)' <= disk[Mine(w)']
  <2>1. CASE Resolve(w)
    <3>1. Held(w)' = disk[Mine(w)] /\ Mine(w)' = Mine(w)
      BY <1>2, <1>4, <2>1 DEF Resolve, Holding, Held, Mine, Call
    <3> QED
      BY <1>2, <1>4, <3>1
  <2>2. CASE Look(w) \/ Lock(w) \/ Recheck(w) \/ ReadFailure(w) \/ Touch(w)
    <3>1. pc'[w] \notin {"learn"} \cup Building \cup PublisherSteps
      BY <1>2, <2>2 DEF Look, Lock, Recheck, ReadFailure, Touch, Then, Goto, Finish, Building,
                        PublisherSteps
    <3> QED
      BY <3>1
  <2>3. CASE Materialise(w) \/ Install(w) \/ Learn(w) \/ Publish(w)
    <3>1. Held(w) <= disk[Mine(w)]
      BY <2>3 DEF Materialise, Gate, Install, Learn, Publish, Compare, Attach, CheckOpen,
                  ReadCurrent, ReadKnown, CompareAndSwap, RecheckOpen, Retract, Retire,
                  RecordGeneration, At, Building, PublisherSteps, Behind
    <3>2. pc'[w] = "idle" \/ (Held(w)' = Held(w) /\ Mine(w)' = Mine(w))
      BY <1>2, <1>4, <2>3
      DEF Materialise, Gate, Refuse, Install, Learn, Publish, Compare, Attach, CheckOpen,
          ReadCurrent, ReadKnown, CompareAndSwap, RecheckOpen, Retract, Retire,
          RecordGeneration, Then, Goto, Finish, Held, Mine, Call
    <3> QED
      BY <3>1, <3>2 DEF Building, PublisherSteps
  <2> QED
    BY <2>1, <2>2, <2>3, ProceedCases
<1> QED
  BY <1>1, <1>5, <1>6 DEF Behind, Held, Mine

LEMMA ProceedPublished ==
  ASSUME Shape, Newest, Calm, Behind, Published, NEW w \in Workers, Proceed(w)
  PROVE  Published'
<1>1. /\ UNCHANGED <<disk, deferred, closed, closing>>
      /\ \A v \in Workers \ {w} : pc'[v] = pc[v] /\ call'[v] = call[v]
  BY Frame
<1>2. /\ pc \in [Workers -> Steps] /\ call \in [Workers -> Call]
      /\ \A pr \in Profiles : generation[pr] \in Nat /\ disk[pr] \in Nat
      /\ generation \in [Profiles -> Generations \cup {Nil}]
      /\ Readers \subseteq Workers
  BY NumbersTyped DEF Shape, TypeOK, Numbers, Workers
<1>3. pc[w] # "idle"
  BY DEF Proceed, Load, Publish, Look, Lock, Recheck, ReadFailure, Resolve, Materialise,
         Gate, Install, Learn, Compare, Attach, CheckOpen, ReadCurrent, ReadKnown,
         CompareAndSwap, RecheckOpen, Retract, Retire, RecordGeneration, Touch, At
<1>4. Mine(w) \in Profiles /\ call[w] \in Call /\ (Publish(w) => w \notin Readers)
  <2>1. Publish(w) => pc[w] \in PublisherSteps
    BY DEF Publish, Compare, Attach, CheckOpen, ReadCurrent, ReadKnown, CompareAndSwap,
           RecheckOpen, Retract, Retire, RecordGeneration, At, PublisherSteps
  <2> QED
    BY <1>3, <2>1, AtWork
<1>5. \A pr \in Profiles : active[pr] # Nil => active'[pr] # Nil
  BY ActiveStays
<1>6. pc'[w] = "idle" \/ Mine(w)' = Mine(w)
  BY <1>2, <1>4, ProceedCases
  DEF Publish, Look, Lock, Recheck, ReadFailure, Resolve, Materialise, Gate, Refuse, Install,
      Learn, Compare, Attach, CheckOpen, ReadCurrent, ReadKnown, CompareAndSwap, RecheckOpen,
      Retract, Retire, RecordGeneration, Touch, Then, Goto, Finish, Holding, Mine, Call
\* A generation is recorded of what is active.
<1>7. \A pr \in Profiles : generation'[pr] = generation[pr] \/ active'[pr] # Nil
  <2>1. CASE Learn(w) \/ RecordGeneration(w)
    <3>1. active[Mine(w)] # Nil
      BY <2>1 DEF Learn, RecordGeneration, At, Published
    <3> QED
      BY <1>2, <1>4, <1>5, <2>1, <3>1 DEF Learn, RecordGeneration
  <2>2. CASE ~(Learn(w) \/ RecordGeneration(w))
    <3>1. UNCHANGED generation
      BY <2>2, ProceedCases
      DEF Publish, Look, Lock, Recheck, ReadFailure, Resolve, Materialise, Gate, Refuse, Install,
          Compare, Attach, CheckOpen, ReadCurrent, ReadKnown, CompareAndSwap, RecheckOpen,
          Retract, Retire, Touch, store
    <3> QED
      BY <3>1
  <2> QED
    BY <2>1, <2>2
<1>8. pc'[w] \in {"learn", "reclosed", "retire", "record"} => active'[Mine(w)'] # Nil
  <2> SUFFICES ASSUME pc'[w] \in {"learn", "reclosed", "retire", "record"}
               PROVE  \A pr \in {Mine(w)} : active'[pr] # Nil
    BY <1>6
  <2>1. CASE Install(w) \/ (CompareAndSwap(w) /\ Then(w, "reclosed"))
    BY <2>1, ActiveStays
  <2>2. CASE RecheckOpen(w) \/ Retire(w)
    <3>1. active[Mine(w)] # Nil
      BY <2>2 DEF RecheckOpen, Retire, At, Published
    <3> QED
      BY <1>4, <1>5, <3>1
  <2>3. CASE /\ ~Install(w) /\ ~RecheckOpen(w) /\ ~Retire(w)
             /\ ~(CompareAndSwap(w) /\ Then(w, "reclosed"))
    <3>1. pc'[w] \notin {"learn", "reclosed", "retire", "record"}
      BY <1>2, <2>3, ProceedCases
      DEF Publish, Look, Lock, Recheck, ReadFailure, Resolve, Materialise, Gate, Refuse,
          Learn, Compare, Attach, CheckOpen, ReadCurrent, ReadKnown, CompareAndSwap,
          Retract, RecordGeneration, Touch, Then, Goto, Finish
    <3> QED
      BY <3>1
  <2> QED
    BY <2>1, <2>2, <2>3
<1>9. w \in Readers /\ pc'[w] \in Exclusive \cup {"lock"} => deferred[Mine(w)']
  <2> SUFFICES ASSUME w \in Readers, pc'[w] \in Exclusive \cup {"lock"}
               PROVE  deferred[Mine(w)]
    BY <1>6 DEF Exclusive
  <2>1. CASE Look(w)
    BY <1>2, <2>1 DEF Look, Then, Goto, Finish, Exclusive
  <2>2. CASE Touch(w)
    BY <1>2, <2>2 DEF Touch, Finish, Goto, Exclusive
  <2>3. CASE ~Look(w) /\ ~Touch(w)
    <3>1. pc[w] \in Exclusive \cup {"lock"}
      BY <1>4, <2>3, ProceedCases
      DEF Lock, Recheck, ReadFailure, Resolve, Materialise, Gate, Install, Learn, At, Exclusive
    <3> QED
      BY <3>1 DEF Published
  <2> QED
    BY <2>1, <2>2, <2>3
<1>10. w \in Readers /\ pc'[w] \in Building =>
         Held(w)' # Nil /\ (generation'[Mine(w)'] <= Held(w)' \/ active'[Mine(w)'] # Nil)
  <2> SUFFICES ASSUME w \in Readers, pc'[w] \in Building
               PROVE  /\ Held(w)' # Nil
                      /\ \A pr \in {Mine(w)} : generation'[pr] <= Held(w)' \/ active'[pr] # Nil
    BY <1>6 DEF Building
  <2>1. CASE Resolve(w)
    <3>1. deferred[Mine(w)] /\ disk[Mine(w)] # Nil /\ generation[Mine(w)] <= disk[Mine(w)]
      BY <1>4, <2>1 DEF Resolve, At, Published, Behind, Exclusive
    <3>2. Held(w)' = disk[Mine(w)] /\ UNCHANGED generation
      BY <1>2, <1>4, <2>1 DEF Resolve, Holding, Held, Call
    <3> QED
      BY <3>1, <3>2
  <2>2. CASE Materialise(w)
    <3>1. pc[w] \in Building /\ Held(w)' = Held(w)
      BY <1>2, <2>2 DEF Materialise, Gate, Refuse, At, Then, Goto, Finish, Building, Held
    <3> QED
      BY <1>4, <1>5, <1>7, <3>1 DEF Published
  <2>3. CASE ~Resolve(w) /\ ~Materialise(w)
    <3>1. pc'[w] \notin Building
      BY <1>2, <1>4, <2>3, ProceedCases
      DEF Look, Lock, Recheck, ReadFailure, Install, Learn, Touch, Then, Goto, Finish, Building
    <3> QED
      BY <3>1
  <2> QED
    BY <2>1, <2>2, <2>3
<1>11. ASSUME NEW v \in Workers \ {w}, pc[v] # "idle" PROVE Mine(v) \in Profiles
  BY <1>11, AtWork
<1>12. ASSUME NEW v \in Workers, pc'[v] \in {"learn", "reclosed", "retire", "record"}
       PROVE  active'[Mine(v)'] # Nil
  <2>1. CASE v # w
    BY <1>1, <1>5, <1>11, <1>12, <2>1 DEF Published, Mine
  <2> QED
    BY <1>8, <1>12, <2>1
<1>13. ASSUME NEW r \in Readers, pc'[r] \in Building, r # w
       PROVE  Held(r)' # Nil /\ (generation'[Mine(r)'] <= Held(r)' \/ active'[Mine(r)'] # Nil)
  <2>1. /\ Mine(r)' = Mine(r) /\ Held(r)' = Held(r) /\ pc[r] \in Building
        /\ Mine(r) \in Profiles
    BY <1>1, <1>2, <1>11, <1>13 DEF Mine, Held, Building
  <2> QED
    BY <1>5, <1>7, <2>1 DEF Published
<1>14. ASSUME NEW r \in Readers, pc'[r] \in Exclusive \cup {"lock"}, r # w
       PROVE  deferred[Mine(r)']
  BY <1>1, <1>2, <1>14 DEF Published, Mine
<1> QED
  BY <1>1, <1>9, <1>10, <1>12, <1>13, <1>14 DEF Published

LEMMA ProceedOnce ==
  ASSUME Shape, Newest, Calm, Behind, Published, Once, NEW w \in Workers, Proceed(w)
  PROVE  Once'
<1>1. \A v \in Workers \ {w} : pc'[v] = pc[v] /\ call'[v] = call[v]
  BY Frame
<1>2. /\ pc \in [Workers -> Steps] /\ call \in [Workers -> Call]
      /\ active \in [Profiles -> Generations \cup {Nil}]
      /\ mutex \in [Profiles -> Readers \cup {None}]
      /\ loads \in [Profiles -> 0 .. 2]
      /\ Readers \subseteq Workers
  BY DEF Shape, TypeOK, Workers
<1>3. pc[w] # "idle"
  BY DEF Proceed, Load, Publish, Look, Lock, Recheck, ReadFailure, Resolve, Materialise,
         Gate, Install, Learn, Compare, Attach, CheckOpen, ReadCurrent, ReadKnown,
         CompareAndSwap, RecheckOpen, Retract, Retire, RecordGeneration, Touch, At
<1>4. /\ Mine(w) \in Profiles /\ call[w] \in Call
      /\ pc[w] \in Exclusive => w \in Readers /\ mutex[Mine(w)] = w
  BY <1>3, AtWork DEF Exclusive, ReaderSteps, Shape, Roles, Locked
<1>5. \A pr \in Profiles : active[pr] # Nil => active'[pr] # Nil
  BY ActiveStays
\* Only Resolve counts a load, and it holds the lock.
<1>6. /\ Resolve(w) => pc[w] = "resolve" /\ loads[Mine(w)] = 0
      /\ \A pr \in Profiles : loads'[pr] = IF Resolve(w) /\ pr = Mine(w) THEN 1 ELSE loads[pr]
  <2>1. CASE Resolve(w)
    <3>1. pc[w] = "resolve" /\ loads[Mine(w)] = 0
      BY <1>4, <2>1 DEF Resolve, At, Once, Exclusive
    <3> QED
      BY <1>2, <1>4, <2>1, <3>1 DEF Resolve
  <2>2. CASE ~Resolve(w)
    <3>1. UNCHANGED loads
      BY <2>2, ProceedCases
      DEF Publish, Look, Lock, Recheck, ReadFailure, Materialise, Gate, Refuse, Install, Learn,
          Compare, Attach, CheckOpen, ReadCurrent, ReadKnown, CompareAndSwap, RecheckOpen,
          Retract, Retire, RecordGeneration, Touch, store
    <3> QED
      BY <2>2, <3>1
  <2> QED
    BY <2>1, <2>2
\* The mutex changes hands through its holder.
<1>7. \A pr \in Profiles :
        \/ mutex'[pr] = mutex[pr]
        \/ pr = Mine(w) /\ pc[w] = "lock" /\ mutex[pr] = None
        \/ pr = Mine(w) /\ pc[w] \in Exclusive
  <2>1. CASE Lock(w)
    BY <1>2, <1>4, <2>1 DEF Lock, At
  <2>2. CASE Recheck(w) \/ ReadFailure(w) \/ Materialise(w) \/ Install(w) \/ Learn(w)
    BY <1>2, <1>4, <2>2 DEF Recheck, ReadFailure, Materialise, Gate, Refuse, Install, Learn,
                            Unlock, At, Exclusive, store
  <2>3. CASE Look(w) \/ Resolve(w) \/ Publish(w) \/ Touch(w)
    BY <2>3 DEF Look, Resolve, Publish, Compare, Attach, CheckOpen, ReadCurrent, ReadKnown,
                CompareAndSwap, RecheckOpen, Retract, Retire, RecordGeneration, Touch, store
  <2> QED
    BY <2>1, <2>2, <2>3, ProceedCases
<1>8. ASSUME NEW r \in Readers, pc'[r] \in {"refused", "resolve"}
      PROVE  loads'[Mine(r)'] = 0
  <2>1. CASE r # w
    <3>1. pc[r] = pc'[r] /\ Mine(r)' = Mine(r) /\ pc[r] \in Exclusive /\ pc[r] # "idle"
      BY <1>1, <1>2, <1>8, <2>1 DEF Mine, Exclusive
    <3>2. Mine(r) \in Profiles /\ mutex[Mine(r)] = r
      BY <1>2, <3>1, AtWork DEF Shape, Roles, Locked
    <3>3. loads[Mine(r)] = 0
      BY <1>8, <3>1 DEF Once
    <3>4. ~(Resolve(w) /\ Mine(r) = Mine(w))
      BY <1>4, <1>6, <2>1, <3>2 DEF Exclusive
    <3> QED
      BY <1>6, <3>1, <3>2, <3>3, <3>4
  <2>2. CASE r = w /\ Recheck(w)
    <3>1. pc[w] = "recheck" /\ active[Mine(w)] = Nil /\ Mine(w)' = Mine(w)
      BY <1>2, <1>4, <1>8, <2>2 DEF Recheck, At, Holding, Then, Goto, Mine
    <3>2. mutex[Mine(w)] = w /\ pc[w] \notin Building
      BY <1>4, <3>1 DEF Exclusive, Building
    <3>3. loads[Mine(w)] # 1 /\ loads[Mine(w)] <= 1 /\ loads[Mine(w)] \in 0 .. 2
      BY <1>2, <1>4, <3>1, <3>2 DEF Once
    <3>4. ~Resolve(w)
      BY <1>6, <3>1
    <3>5. loads'[Mine(w)] = 0
      BY <1>4, <1>6, <3>3, <3>4
    <3> QED
      BY <2>2, <3>1, <3>5
  <2>3. CASE r = w /\ ~Recheck(w)
    <3>1. ReadFailure(w)
      BY <1>2, <1>8, <2>3, ProceedCases
      DEF Publish, Look, Lock, Resolve, Materialise, Gate, Refuse, Install, Learn, Compare,
          Attach, CheckOpen, ReadCurrent, ReadKnown, CompareAndSwap, RecheckOpen, Retract,
          Retire, RecordGeneration, Touch, Then, Goto, Finish
    <3>2. pc[w] = "refused" /\ Mine(w)' = Mine(w) /\ ~Resolve(w)
      BY <1>2, <1>6, <1>8, <2>3, <3>1 DEF ReadFailure, At, Then, Finish, Goto, Mine
    <3>3. loads'[Mine(w)] = 0
      BY <1>4, <1>6, <2>3, <3>2 DEF Once
    <3> QED
      BY <2>3, <3>2, <3>3
  <2> QED
    BY <2>1, <2>2, <2>3
<1>9. ASSUME NEW pr \in Profiles, loads'[pr] = 1, active'[pr] = Nil
      PROVE  \E h \in Readers : mutex'[pr] = h /\ pc'[h] \in Building /\ Mine(h)' = pr
  <2>1. active[pr] = Nil
    BY <1>5, <1>9
  <2>2. CASE Resolve(w) /\ pr = Mine(w)
    <3>1. mutex'[pr] = w /\ w \in Readers
      BY <1>4, <2>2 DEF Resolve, At, Exclusive
    <3>2. pc'[w] = "build" /\ Mine(w)' = Mine(w)
      BY <1>2, <1>4, <2>2 DEF Resolve, Holding, Goto, Mine, Call
    <3> QED
      BY <2>2, <3>1, <3>2 DEF Building
  <2>3. CASE ~(Resolve(w) /\ pr = Mine(w))
    <3>1. PICK h \in Readers : mutex[pr] = h /\ pc[h] \in Building /\ Mine(h) = pr
      BY <1>6, <1>9, <2>1, <2>3 DEF Once
    <3>2. CASE h # w
      <4>1. mutex'[pr] = h
        BY <1>2, <1>4, <1>7, <3>1, <3>2, NoneAssumption
      <4>2. pc'[h] = pc[h] /\ Mine(h)' = Mine(h)
        BY <1>1, <1>2, <3>1, <3>2 DEF Mine
      <4> QED
        BY <3>1, <4>1, <4>2
    <3>3. CASE h = w
      <4>1. Materialise(w) \/ Install(w)
        BY <3>1, <3>3, ProceedCases
        DEF Publish, Look, Lock, Recheck, ReadFailure, Resolve, Learn, Compare, Attach,
            CheckOpen, ReadCurrent, ReadKnown, CompareAndSwap, RecheckOpen, Retract, Retire,
            RecordGeneration, Touch, At, Building
      <4>2. ~Install(w)
        BY <1>9, <3>1, <3>3, ActiveStays
      <4>3. Held(w) # Nil /\ ~closed[pr] /\ setting.fail = FALSE
            /\ (generation[pr] <= Held(w) \/ active[pr] # Nil)
        BY <3>1, <3>3 DEF Published, Behind, Calm, Undisturbed
      <4>4. generation[pr] \in Nat /\ Held(w) \in Nat
        BY NumbersTyped DEF Numbers
      <4>5. ~(generation[pr] # Nil /\ Held(w) < generation[pr])
        BY <2>1, <4>3, <4>4
      <4>6. UNCHANGED <<mutex, call>> /\ pc'[w] \in Building
        BY <1>2, <3>1, <3>3, <4>1, <4>2, <4>3, <4>5
        DEF Materialise, Gate, Then, Goto, Building, store
      <4> QED
        BY <3>1, <3>3, <4>6 DEF Mine
    <3> QED
      BY <3>2, <3>3
  <2> QED
    BY <2>2, <2>3
<1>10. \A pr \in Profiles : loads'[pr] <= 1
  BY <1>6 DEF Once
<1> QED
  BY <1>8, <1>9, <1>10 DEF Once

LEMMA OneLoadStep == Shape /\ Newest /\ OneLoad /\ [Next]_vars => OneLoad'
<1> SUFFICES ASSUME Shape, Newest, OneLoad, [Next]_vars, Calm'
             PROVE  Behind' /\ Published' /\ Once'
  BY DEF OneLoad
<1>1. setting' = setting
  <2>1. ASSUME NEW w \in Workers, Proceed(w) PROVE setting' = setting
    BY <2>1, Frame
  <2> QED
    BY <2>1 DEF Next, Ask, Poll, Produce, Environment, MoveCurrent, AddProfile, Close,
                CloseProfile, installation, vars
<1>2. Calm /\ Behind /\ Published /\ Once
  BY <1>1 DEF Calm, NeverEvicts, Undisturbed, OneLoad
<1>3. ASSUME NEW w \in Workers, Proceed(w) PROVE Behind' /\ Published' /\ Once'
  BY <1>2, <1>3, ProceedBehind, ProceedPublished, ProceedOnce
<1>4. /\ pc \in [Workers -> Steps] /\ call \in [Workers -> Call]
      /\ mutex \in [Profiles -> Readers \cup {None}]
      /\ disk \in [Profiles -> Generations \cup {Nil}]
      /\ generation \in [Profiles -> Generations \cup {Nil}]
      /\ \A pr \in Profiles : generation[pr] \in Nat /\ disk[pr] \in Nat
      /\ \A w \in Workers : Held(w) \in Nat
      /\ Readers \subseteq Workers
  BY NumbersTyped DEF Shape, TypeOK, Numbers, Workers
<1>5. \A w \in Workers : pc[w] # "idle" => Mine(w) \in Profiles /\ Mine(w) \in present
  BY AtWork
\* A call begins, and CURRENT may have advanced to what it holds.
<1>6. ASSUME NEW w \in Workers, pc[w] = "idle", NEW s \in {"look", "compare"}, Goto(w, s),
             \A v \in Workers \ {w} : call'[v] = call[v],
             UNCHANGED <<deferred, active, generation, mutex, loads, closed, closing>>,
             \A pr \in Profiles : disk'[pr] \in Nat /\ disk[pr] <= disk'[pr],
             s = "compare" => Held(w)' <= disk'[Mine(w)']
      PROVE  Behind' /\ Published' /\ Once'
  <2>1. pc'[w] = s /\ \A v \in Workers \ {w} : pc'[v] = pc[v]
    BY <1>4, <1>6 DEF Goto
  <2>2. \A v \in Workers \ {w} : Mine(v)' = Mine(v) /\ Held(v)' = Held(v)
    BY <1>6 DEF Mine, Held
  <2>3. Behind'
    <3>1. \A pr \in Profiles : (deferred[pr] => disk'[pr] # Nil) /\ generation[pr] <= disk'[pr]
      BY <1>2, <1>4, <1>6 DEF Behind, Nil
    <3>2. ASSUME NEW v \in Workers, pc'[v] \in {"learn"} \cup Building \cup PublisherSteps
          PROVE  Held(v)' <= disk'[Mine(v)']
      <4>1. CASE v = w
        BY <1>6, <2>1, <3>2, <4>1 DEF Building, PublisherSteps
      <4>2. CASE v # w
        <5>1. pc[v] # "idle"
          BY <2>1, <3>2, <4>2 DEF Building, PublisherSteps
        <5>2. Mine(v) \in Profiles /\ Held(v) <= disk[Mine(v)]
          BY <1>2, <1>5, <2>1, <3>2, <4>2, <5>1 DEF Behind
        <5> QED
          BY <1>4, <1>6, <2>2, <4>2, <5>2
      <4> QED
        BY <4>1, <4>2
    <3> QED
      BY <1>2, <1>6, <3>1, <3>2 DEF Behind
  <2>4. Published'
    BY <1>2, <1>4, <1>6, <2>1, <2>2 DEF Published, Building, Exclusive
  <2>5. Once'
    <3>1. ASSUME NEW pr \in Profiles, loads'[pr] = 1, active'[pr] = Nil
          PROVE  \E h \in Readers : mutex'[pr] = h /\ pc'[h] \in Building /\ Mine(h)' = pr
      <4>1. PICK h \in Readers : mutex[pr] = h /\ pc[h] \in Building /\ Mine(h) = pr
        BY <1>2, <1>6, <3>1 DEF Once
      <4>2. h # w
        BY <1>6, <4>1 DEF Building
      <4> QED
        BY <1>4, <1>6, <2>1, <2>2, <4>1, <4>2
    <3>2. \A r \in Readers : pc'[r] \in {"refused", "resolve"} => loads'[Mine(r)'] = 0
      BY <1>2, <1>4, <1>6, <2>1, <2>2 DEF Once
    <3> QED
      BY <1>2, <1>6, <3>1, <3>2 DEF Once
  <2> QED
    BY <2>3, <2>4, <2>5
<1>7. ASSUME NEW r \in Readers, NEW pr \in Profiles, Ask(r, pr)
      PROVE  Behind' /\ Published' /\ Once'
  <2>1. r \in Workers /\ pc[r] = "idle" /\ \A v \in Workers \ {r} : call'[v] = call[v]
    BY <1>4, <1>7 DEF Ask, At
  <2> QED
    BY <1>4, <1>6, <1>7, <2>1 DEF Ask, installation, shutdown, store
<1>8. ASSUME NEW f \in Followers, Poll(f) PROVE Behind' /\ Published' /\ Once'
  <2>1. /\ f \in Workers /\ pc[f] = "idle" /\ call[f] \in Call
        /\ \A v \in Workers \ {f} : call'[v] = call[v]
    BY <1>4, <1>8 DEF Poll, At, Workers
  <2>2. Follows[f] \in Profiles
    BY FollowsAssumption
  <2>3. Held(f)' = disk[Follows[f]] /\ Mine(f)' = Follows[f]
    BY <1>4, <1>8, <2>1 DEF Poll, Held, Mine, Call
  <2>4. Held(f)' <= disk'[Mine(f)']
    BY <1>4, <1>8, <2>2, <2>3 DEF Poll, installation
  <2> QED
    BY <1>4, <1>6, <1>8, <2>1, <2>4 DEF Poll, installation, shutdown, store
<1>9. ASSUME NEW x \in Indexers, NEW pr \in Profiles, Produce(x, pr)
      PROVE  Behind' /\ Published' /\ Once'
  <2>1. /\ x \in Workers /\ pc[x] = "idle" /\ call[x] \in Call
        /\ \A v \in Workers \ {x} : call'[v] = call[v]
    BY <1>4, <1>9 DEF Produce, At, Workers
  <2>2. Held(x)' = disk[pr] + 1 /\ Mine(x)' = pr
    BY <1>4, <1>9, <2>1 DEF Produce, Held, Mine, Call
  <2>3. \A q \in Profiles : disk'[q] = IF q = pr THEN disk[pr] + 1 ELSE disk[q]
    BY <1>4, <1>9 DEF Produce
  <2>4. /\ \A q \in Profiles : disk'[q] \in Nat /\ disk[q] <= disk'[q]
        /\ Held(x)' <= disk'[Mine(x)']
    BY <1>4, <2>2, <2>3
  <2> QED
    BY <1>6, <1>9, <2>1, <2>4 DEF Produce, shutdown, store
<1>10. CASE Environment
  <2>1. UNCHANGED <<pc, call, active, mutex, loads, closed, closing>>
    BY <1>2, <1>10 DEF Environment, MoveCurrent, AddProfile, Close, CloseProfile, shutdown,
                       store, Behind, Calm, Undisturbed
  <2>2. /\ \A w \in Workers : Mine(w)' = Mine(w) /\ Held(w)' = Held(w)
        /\ \A pr \in present : deferred'[pr] = deferred[pr] /\ generation'[pr] = generation[pr]
        /\ \A pr \in Profiles : disk'[pr] \in Nat /\ disk[pr] <= disk'[pr]
        /\ \A pr \in Profiles : (deferred'[pr] => disk'[pr] # Nil) /\ generation'[pr] <= disk'[pr]
    <3>1. ASSUME NEW pr \in Profiles, MoveCurrent(pr)
          PROVE  /\ \A q \in Profiles : disk'[q] \in Nat /\ disk[q] <= disk'[q]
                 /\ UNCHANGED <<deferred, generation>>
      <4>1. disk' = [disk EXCEPT ![pr] = disk[pr] + 1]
        BY <1>2, <3>1 DEF MoveCurrent, Calm, Undisturbed
      <4>2. \A q \in Profiles : disk'[q] = IF q = pr THEN disk[pr] + 1 ELSE disk[q]
        BY <1>4, <4>1
      <4> QED
        BY <1>4, <3>1, <4>2 DEF MoveCurrent, store
    <3>2. ASSUME NEW pr \in Profiles, AddProfile(pr)
          PROVE  /\ pr \notin present /\ UNCHANGED disk
                 /\ \A q \in Profiles \ {pr} : /\ deferred'[q] = deferred[q]
                                               /\ generation'[q] = generation[q]
                 /\ deferred'[pr] => disk[pr] # Nil
                 /\ generation'[pr] = disk[pr]
      <4>1. /\ \A q \in Profiles \ {pr} : deferred'[q] = deferred[q]
            /\ deferred'[pr] => disk[pr] # Nil
        BY <3>2, Zenon DEF AddProfile, Shape, TypeOK
      <4> QED
        BY <1>4, <3>2, <4>1 DEF AddProfile
    <3>3. CASE Close \/ \E pr \in Profiles : CloseProfile(pr)
      BY <1>2, <3>3 DEF Close, CloseProfile, Behind, Calm, Undisturbed
    <3>4. \A w \in Workers : Mine(w)' = Mine(w) /\ Held(w)' = Held(w)
      BY <2>1 DEF Mine, Held
    <3>5. present \subseteq Profiles
      BY DEF Shape, TypeOK
    <3> DEFINE Advanced ==
          /\ \A pr \in present : deferred'[pr] = deferred[pr] /\ generation'[pr] = generation[pr]
          /\ \A pr \in Profiles : disk'[pr] \in Nat /\ disk[pr] <= disk'[pr]
          /\ \A pr \in Profiles : (deferred'[pr] => disk'[pr] # Nil) /\ generation'[pr] <= disk'[pr]
    <3>6. ASSUME NEW pr \in Profiles, MoveCurrent(pr) PROVE Advanced
      BY <1>2, <1>4, <3>1, <3>6 DEF Behind, Nil
    <3>7. ASSUME NEW pr \in Profiles, AddProfile(pr) PROVE Advanced
      BY <1>2, <1>4, <3>2, <3>5, <3>7 DEF Behind
    <3> QED
      BY <1>10, <3>3, <3>4, <3>6, <3>7 DEF Environment
  <2>3. Behind'
    <3>1. ASSUME NEW v \in Workers, pc[v] \in {"learn"} \cup Building \cup PublisherSteps
          PROVE  Held(v) <= disk'[Mine(v)]
      <4>1. pc[v] # "idle"
        BY <3>1 DEF Building, PublisherSteps
      <4>2. Mine(v) \in Profiles /\ Held(v) <= disk[Mine(v)]
        BY <1>2, <1>5, <3>1, <4>1 DEF Behind
      <4> QED
        BY <1>4, <2>2, <4>2
    <3> QED
      BY <1>2, <2>1, <2>2, <3>1 DEF Behind
  <2>4. Published'
    <3>1. \A r \in Readers : pc[r] \in Exclusive \cup {"lock"} => Mine(r) \in present
      BY <1>4, <1>5 DEF Exclusive
    <3>2. Building \subseteq Exclusive
      BY DEF Building, Exclusive
    <3> QED
      BY <1>2, <2>1, <2>2, <1>4, <3>1, <3>2 DEF Published
  <2>5. Once'
    BY <1>2, <1>4, <2>1, <2>2 DEF Once
  <2> QED
    BY <2>3, <2>4, <2>5
<1>11. CASE UNCHANGED vars
  <2>1. UNCHANGED <<disk, deferred, active, generation, mutex, loads, closed, closing, pc, call>>
    BY <1>11 DEF vars, installation, shutdown, store
  <2> QED
    BY <1>2, <2>1 DEF Behind, Published, Once, Mine, Held
<1> QED
  BY <1>3, <1>7, <1>8, <1>9, <1>10, <1>11 DEF Next

(***************************************************************************)
(* Readers that arrive at once build one set of indexes: as long as there  *)
(* is room for every profile and nothing goes wrong, a profile is loaded   *)
(* at most once, whatever publishes meanwhile (Load, materialise).         *)
(***************************************************************************)
THEOREM LoadedOnce == Spec => []LoadsOnce
<1>1. OneLoad => LoadsOnce
  BY DEF OneLoad, LoadsOnce, Calm, Once
<1> QED
  BY <1>1, InitShape, ShapeStep, InitNewest, NewestStep, InitOneLoad, OneLoadStep, PTL DEF Spec

-----------------------------------------------------------------------------
(* A refused follower came second. *)

\* CURRENT is not rolled back, and what it names can be loaded.
Faithful == ~setting.rewind /\ ~setting.fail

\* The known generation was learned from a snapshot that was served.
Recorded(pr) == generation[pr] <= top[pr]

\* Otherwise it is the one CURRENT named when the profile was opened: nothing
\* has been served since, and a load still may.
Pristine(pr) ==
  /\ active[pr] = Nil /\ deferred[pr] /\ generation[pr] <= disk[pr]
  /\ failure[pr] => closed[pr]

AfterSwap == {"learn", "reclosed", "retract", "retire", "record"}

\* What w is about to publish is then not older than the known generation.
Ahead(w) ==
  ~Recorded(Mine(w)) =>
    /\ pc[w] \in Building => generation[Mine(w)] <= Held(w)
    /\ pc[w] = "swap" => generation[Mine(w)] < Held(w)
    /\ pc[w] \in {"read", "older"} /\ w \in Followers => generation[Mine(w)] < Held(w)
    /\ pc[w] = "open" /\ w \in Followers => generation[Mine(w)] < Held(w) \/ closed[Mine(w)]

Answered ==
  /\ \A w \in Workers : pc[w] \in AfterSwap => Held(w) <= top[Mine(w)]
  /\ \A pr \in Profiles \ present : Recorded(pr) /\ ~failure[pr]
  /\ Faithful => /\ \A pr \in Profiles : Recorded(pr) \/ Pristine(pr)
                 /\ \A w \in Workers : pc[w] # "idle" => Ahead(w)

LEMMA InitAnswered == Init => Answered
<1> SUFFICES ASSUME Init PROVE Answered
  OBVIOUS
<1>1. /\ \A w \in Workers : pc[w] = "idle"
      /\ \A pr \in Profiles : /\ generation[pr] = IF pr \in present THEN disk[pr] ELSE Nil
                              /\ disk[pr] \in {Nil, 1} /\ top[pr] = Nil /\ active[pr] = Nil
  BY DEF Init
<1>2. \A pr \in Profiles : failure[pr] = FALSE /\ deferred[pr] = (pr \in present /\ disk[pr] # Nil)
  BY Zenon DEF Init
<1>3. ASSUME NEW pr \in Profiles PROVE Recorded(pr) \/ Pristine(pr)
  <2>1. CASE pr \in present /\ disk[pr] = 1
    <3>1. disk[pr] # Nil
      BY <2>1 DEF Nil
    <3>2. deferred[pr] /\ ~failure[pr]
      BY <1>2, <2>1, <3>1, Zenon
    <3> QED
      BY <1>1, <2>1, <3>2 DEF Pristine
  <2>2. CASE ~(pr \in present /\ disk[pr] = 1)
    BY <1>1, <2>2 DEF Recorded, Nil
  <2> QED
    BY <2>1, <2>2
<1>4. \A pr \in Profiles \ present : Recorded(pr) /\ ~failure[pr]
  BY <1>1, <1>2 DEF Recorded, Nil
<1> QED
  BY <1>1, <1>3, <1>4 DEF Answered, AfterSwap

\* A worker whose place and store are as they were, or have been recorded.
LEMMA AheadStays ==
  ASSUME NEW w \in Workers, Ahead(w), pc'[w] = pc[w], call'[w] = call[w],
         Recorded(Mine(w))' \/ ( /\ ~Recorded(Mine(w))
                                 /\ generation'[Mine(w)] = generation[Mine(w)]
                                 /\ closed[Mine(w)] => closed'[Mine(w)] )
  PROVE  Ahead(w)'
<1>1. Mine(w)' = Mine(w) /\ Held(w)' = Held(w)
  BY DEF Mine, Held
<1> QED
  BY <1>1 DEF Ahead, Recorded, Mine

\* What a worker does to the store of its profile, the only one it touches.
LEMMA StoreSteps ==
  ASSUME Shape, Answered, NEW w \in Workers, Proceed(w), [Next]_vars
  PROVE  /\ pc[w] # "idle" /\ Mine(w) \in Profiles /\ Mine(w) \in present
         /\ \A pr \in Profiles :
              \/ generation'[pr] = generation[pr]
              \/ pr = Mine(w) /\ generation'[pr] = Held(w) /\ Held(w) <= top[pr]
         /\ \A pr \in Profiles : Recorded(pr) => Recorded(pr)'
         /\ \A pr \in Profiles \ {Mine(w)} : failure'[pr] = failure[pr]
<1>1. pc[w] # "idle"
  BY DEF Proceed, Load, Publish, Look, Lock, Recheck, ReadFailure, Resolve, Materialise,
         Gate, Install, Learn, Compare, Attach, CheckOpen, ReadCurrent, ReadKnown,
         CompareAndSwap, RecheckOpen, Retract, Retire, RecordGeneration, Touch, At
<1>2. Mine(w) \in Profiles /\ Mine(w) \in present /\ Held(w) \in Nat
  BY <1>1, AtWork, NumbersTyped DEF Numbers
<1>3. /\ generation \in [Profiles -> Generations \cup {Nil}] /\ failure \in [Profiles -> BOOLEAN]
      /\ \A pr \in Profiles : generation[pr] \in Nat /\ top[pr] \in Nat
      /\ \A pr \in Profiles : top'[pr] \in Nat /\ top[pr] <= top'[pr]
  BY NumbersTyped, ShapeStep, TopGrows DEF Shape, TypeOK, Numbers
<1>4. ASSUME NEW pr \in Profiles
      PROVE  \/ generation'[pr] = generation[pr]
             \/ pr = Mine(w) /\ generation'[pr] = Held(w) /\ Held(w) <= top[pr]
  <2>1. CASE Learn(w) \/ RecordGeneration(w)
    <3>1. Held(w) <= top[Mine(w)] /\ generation' = [generation EXCEPT ![Mine(w)] = Held(w)]
      BY <2>1 DEF Learn, RecordGeneration, At, Answered, AfterSwap
    <3> QED
      BY <1>2, <1>3, <3>1
  <2>2. CASE ~(Learn(w) \/ RecordGeneration(w))
    <3>1. UNCHANGED generation
      BY <2>2, ProceedCases
      DEF Publish, Look, Lock, Recheck, ReadFailure, Resolve, Materialise, Gate, Refuse, Install,
          Compare, Attach, CheckOpen, ReadCurrent, ReadKnown, CompareAndSwap, RecheckOpen,
          Retract, Retire, Touch, store
    <3> QED
      BY <3>1
  <2> QED
    BY <2>1, <2>2
<1>5. ASSUME NEW pr \in Profiles, Recorded(pr) PROVE Recorded(pr)'
  BY <1>2, <1>3, <1>4, <1>5 DEF Recorded
<1>6. ASSUME NEW pr \in Profiles \ {Mine(w)} PROVE failure'[pr] = failure[pr]
  <2>1. \/ UNCHANGED failure
        \/ \E refused \in BOOLEAN : failure' = [failure EXCEPT ![Mine(w)] = refused]
    BY ProceedCases
    DEF Publish, Look, Lock, Recheck, ReadFailure, Resolve, Materialise, Gate, Refuse, Install,
        Learn, Compare, Attach, CheckOpen, ReadCurrent, ReadKnown, CompareAndSwap, RecheckOpen,
        Retract, Retire, RecordGeneration, Touch, store
  <2> QED
    BY <1>3, <2>1
<1> QED
  BY <1>1, <1>2, <1>4, <1>5, <1>6

\* A snapshot of a profile that is still as it was opened makes it recorded.
LEMMA SwapRecords ==
  ASSUME Shape, Answered, Faithful, NEW w \in Workers, Proceed(w), [Next]_vars, Swap(w),
         Install(w) \/ CompareAndSwap(w)
  PROVE  Recorded(Mine(w))'
<1>1. /\ Mine(w) \in Profiles /\ pc[w] # "idle"
      /\ \A pr \in Profiles : Recorded(pr) => Recorded(pr)'
  BY StoreSteps
<1>2. CASE Recorded(Mine(w))
  <2>1. UNCHANGED generation /\ Mine(w)' = Mine(w)
    BY <1>1, AtWork DEF Install, CompareAndSwap, Then, Mine
  <2> QED
    BY <1>1, <1>2, <2>1 DEF Recorded
<1>3. CASE ~Recorded(Mine(w))
  <2>1. generation[Mine(w)] <= Held(w)
    <3>1. Ahead(w)
      BY <1>1 DEF Answered
    <3>2. generation[Mine(w)] \in Nat /\ Held(w) \in Nat
      BY <1>1, NumbersTyped DEF Numbers
    <3> QED
      BY <1>3, <3>1, <3>2 DEF Ahead, Install, CompareAndSwap, At, Building
  <2>2. UNCHANGED generation /\ Mine(w)' = Mine(w)
    BY <1>1, AtWork DEF Install, CompareAndSwap, Then, Mine
  <2>3. Held(w) <= top'[Mine(w)]
    <3>1. Held(w) \in Nat /\ top[Mine(w)] \in Nat /\ top \in [Profiles -> Generations \cup {Nil}]
      BY <1>1, NumbersTyped DEF Numbers, Shape, TypeOK
    <3> QED
      BY <1>1, <3>1 DEF Swap
  <2>4. generation[Mine(w)] \in Nat /\ Held(w) \in Nat /\ top'[Mine(w)] \in Nat
    BY <1>1, NumbersTyped, ShapeStep DEF Numbers
  <2> QED
    BY <2>1, <2>2, <2>3, <2>4 DEF Recorded
<1> QED
  BY <1>2, <1>3

\* What w may do next to a store of which nothing was served yet.
LEMMA ProceedAhead ==
  ASSUME Shape, Answered, Faithful, NEW w \in Workers, Proceed(w), [Next]_vars,
         pc'[w] # "idle"
  PROVE  Ahead(w)'
<1> DEFINE pr == Mine(w)
<1>1. /\ pc[w] # "idle" /\ pr \in Profiles
      /\ \A q \in Profiles : Recorded(q) => Recorded(q)'
      /\ \/ generation'[pr] = generation[pr]
         \/ generation'[pr] = Held(w) /\ Held(w) <= top[pr]
  BY StoreSteps
<1>2. /\ pc \in [Workers -> Steps] /\ call \in [Workers -> Call]
      /\ generation[pr] \in Nat /\ Held(w) \in Nat /\ top[pr] \in Nat /\ top'[pr] \in Nat
      /\ disk[pr] \in Nat /\ active[pr] \in Nat /\ top[pr] <= top'[pr]
  BY <1>1, NumbersTyped, ShapeStep, TopGrows DEF Numbers, Shape, TypeOK
<1>3. /\ UNCHANGED <<disk, deferred, closed>>
      /\ Mine(w)' = pr
      /\ Resolve(w) \/ Look(w) \/ Recheck(w) \/ Held(w)' = Held(w)
  <2>1. UNCHANGED <<disk, deferred, closed>>
    BY Frame
  <2>2. Finish(w) => pc'[w] = "idle"
    BY <1>2 DEF Finish, Goto
  <2>3. \/ call' = call
        \/ \E g \in Nat : Holding(w, g) /\ (Resolve(w) \/ Look(w) \/ Recheck(w))
        \/ \E g \in Nat : call' = [call EXCEPT ![w].seen = g]
    BY <1>2, <2>2, ProceedCases
    DEF Publish, Look, Lock, Recheck, ReadFailure, Resolve, Materialise, Gate, Refuse, Install,
        Learn, Compare, Attach, CheckOpen, ReadCurrent, ReadKnown, CompareAndSwap, RecheckOpen,
        Retract, Retire, RecordGeneration, Touch, Then
  <2>4. Mine(w)' = pr /\ (Resolve(w) \/ Look(w) \/ Recheck(w) \/ Held(w)' = Held(w))
    <3>1. CASE \E g \in Nat : Holding(w, g) /\ (Resolve(w) \/ Look(w) \/ Recheck(w))
      BY <1>2, <3>1 DEF Holding, Mine, Call
    <3>2. CASE \E g \in Nat : call' = [call EXCEPT ![w].seen = g]
      BY <1>2, <3>2 DEF Mine, Held, Call
    <3> QED
      BY <2>3, <3>1, <3>2 DEF Mine, Held
  <2> QED
    BY <2>1, <2>4
<1> SUFFICES ASSUME ~Recorded(Mine(w))' PROVE Ahead(w)'
  BY DEF Ahead
<1>4. /\ ~Recorded(pr) /\ Pristine(pr) /\ Ahead(w)
      /\ generation'[pr] = generation[pr]
  <2>1. ~(generation'[pr] <= top'[pr])
    BY <1>3 DEF Recorded
  <2>2. generation'[pr] = generation[pr] /\ ~Recorded(pr)
    BY <1>1, <1>2, <2>1 DEF Recorded
  <2> QED
    BY <1>1, <2>2 DEF Answered
<1>5. ~(Swap(w) /\ (Install(w) \/ CompareAndSwap(w)))
  BY SwapRecords
<1> HIDE DEF pr
<1>6. SUFFICES
        /\ pc'[w] \in Building => generation[pr] <= Held(w)'
        /\ pc'[w] = "swap" => generation[pr] < Held(w)'
        /\ pc'[w] \in {"read", "older"} /\ w \in Followers => generation[pr] < Held(w)'
        /\ pc'[w] = "open" /\ w \in Followers => generation[pr] < Held(w)' \/ closed[pr]
  BY <1>3, <1>4 DEF Ahead
<1>7. CASE Look(w) \/ Lock(w) \/ Recheck(w) \/ ReadFailure(w) \/ Learn(w) \/ Touch(w)
  BY <1>2, <1>7 DEF Look, Lock, Recheck, ReadFailure, Learn, Touch, Then, Goto, Finish, Building
<1>8. CASE Resolve(w)
  <2>1. Held(w)' = disk[pr] /\ pc'[w] = "build"
    BY <1>2, <1>8 DEF Resolve, Holding, Held, Goto, Call, pr
  <2> QED
    BY <1>4, <2>1 DEF Pristine
<1>9. CASE Materialise(w)
  <2>1. pc[w] \in Building /\ pc'[w] \in Building /\ ~Resolve(w) /\ ~Look(w) /\ ~Recheck(w)
    BY <1>2, <1>9 DEF Materialise, Gate, Refuse, Resolve, Look, Recheck, At, Then, Goto, Finish,
                      Building
  <2> QED
    BY <1>3, <1>4, <2>1 DEF Ahead, pr, Building
<1>10. CASE Install(w)
  BY <1>4, <1>5, <1>10 DEF Install, Pristine, pr
<1>11. CASE Publish(w)
  <2>1. Held(w)' = Held(w)
    BY <1>3, <1>11
    DEF Publish, Look, Recheck, Resolve, Compare, Attach, CheckOpen, ReadCurrent, ReadKnown,
        CompareAndSwap, RecheckOpen, Retract, Retire, RecordGeneration, At
  <2>2. CASE Compare(w)
    <3>1. pc'[w] = "open" /\ ActiveID(pr) < Held(w)
      BY <1>2, <2>2 DEF Compare, Then, Goto, Finish, pr
    <3>2. closed[pr] \/ ActiveID(pr) = generation[pr]
      BY <1>4 DEF Pristine, ActiveID, Nil
    <3> QED
      BY <2>1, <3>1, <3>2 DEF Building
  <2>3. CASE Attach(w)
    BY <1>2, <2>3, WorkersAssumption DEF Attach, Then, Goto, Finish, Building
  <2>4. CASE CheckOpen(w)
    <3>1. pc[w] = "open" /\ pc'[w] = "read" /\ ~closed[pr]
      BY <1>2, <2>4 DEF CheckOpen, At, Then, Goto, Finish, pr
    <3> QED
      BY <1>4, <2>1, <3>1 DEF Ahead, pr, Building
  <2>5. CASE ReadCurrent(w)
    <3>1. pc[w] = "read" /\ pc'[w] = "older"
      BY <1>2, <1>4, <2>5 DEF ReadCurrent, At, Goto, Finish, Pristine, pr
    <3> QED
      BY <1>4, <2>1, <3>1 DEF Ahead, pr, Building
  <2>6. CASE ReadKnown(w)
    <3>1. pc'[w] = "swap" /\ generation[pr] < Held(w)
      BY <1>2, <2>6 DEF ReadKnown, Then, Goto, Finish, pr
    <3> QED
      BY <2>1, <3>1 DEF Building
  <2>7. CASE CompareAndSwap(w)
    <3>1. pc[w] = "swap" /\ pc'[w] = "open"
      BY <1>2, <1>5, <2>7 DEF CompareAndSwap, At, Then, Goto
    <3> QED
      BY <1>4, <2>1, <3>1 DEF Ahead, pr, Building
  <2>8. CASE RecheckOpen(w) \/ Retract(w) \/ Retire(w) \/ RecordGeneration(w)
    BY <1>2, <2>8 DEF RecheckOpen, Retract, Retire, RecordGeneration, Then, Goto, Finish, Building
  <2> QED
    BY <1>11, <2>2, <2>3, <2>4, <2>5, <2>6, <2>7, <2>8 DEF Publish
<1> QED
  BY <1>7, <1>8, <1>9, <1>10, <1>11, ProceedCases

\* A load of CURRENT as it is cannot be refused but by a store that is closed.
LEMMA ProceedPristine ==
  ASSUME Shape, Answered, Faithful, NEW w \in Workers, Proceed(w), [Next]_vars,
         NEW pr \in Profiles, ~Recorded(pr)'
  PROVE  Pristine(pr)'
<1>1. /\ pc[w] # "idle" /\ Mine(w) \in Profiles
      /\ \A q \in Profiles : Recorded(q) => Recorded(q)'
      /\ \/ generation'[pr] = generation[pr]
         \/ pr = Mine(w) /\ generation'[pr] = Held(w) /\ Held(w) <= top[pr]
      /\ pr # Mine(w) => failure'[pr] = failure[pr]
  BY StoreSteps
<1>2. /\ generation[pr] \in Nat /\ Held(w) \in Nat /\ top[pr] \in Nat /\ top'[pr] \in Nat
      /\ top[pr] <= top'[pr] /\ active \in [Profiles -> Generations \cup {Nil}]
  BY <1>1, NumbersTyped, ShapeStep, TopGrows DEF Numbers, Shape, TypeOK
<1>3. UNCHANGED <<disk, deferred, closed>>
  BY Frame
<1>4. /\ ~Recorded(pr) /\ Pristine(pr) /\ Ahead(w)
      /\ generation'[pr] = generation[pr]
  BY <1>1, <1>2 DEF Answered, Recorded
<1>5. active'[pr] = Nil
  <2>1. CASE Swap(w) /\ (Install(w) \/ CompareAndSwap(w))
    <3>1. pr # Mine(w)
      <4>1. Mine(w)' = Mine(w)
        BY <2>1, <1>1, AtWork DEF Install, CompareAndSwap, Then, Mine
      <4> QED
        BY <2>1, <4>1, SwapRecords DEF Recorded
    <3> QED
      BY <1>1, <1>2, <1>4, <2>1, <3>1 DEF Swap, Pristine
  <2>2. CASE Touch(w)
    BY <1>4, <2>2, TouchFacts DEF Pristine
  <2>3. CASE Retract(w)
    BY <1>2, <1>4, <2>3 DEF Retract, Pristine
  <2>4. CASE ~(Swap(w) /\ (Install(w) \/ CompareAndSwap(w))) /\ ~Touch(w) /\ ~Retract(w)
    <3>1. UNCHANGED active
      BY <2>4, ProceedCases
      DEF Publish, Look, Lock, Recheck, ReadFailure, Resolve, Materialise, Gate, Refuse, Install,
          Learn, Compare, Attach, CheckOpen, ReadCurrent, ReadKnown, CompareAndSwap, RecheckOpen,
          Retire, RecordGeneration, store
    <3> QED
      BY <1>4, <3>1 DEF Pristine
  <2> QED
    BY <2>1, <2>2, <2>3, <2>4
<1>6. failure'[pr] => failure[pr] \/ closed[pr]
  <2>1. CASE pr = Mine(w) /\ Refuse(w) /\ Materialise(w)
    <3>1. pc[w] \in Building
      BY <2>1 DEF Materialise, Gate, At, Building
    <3>2. generation[pr] <= Held(w) /\ generation[pr] # Nil /\ Held(w) # Nil
      BY <1>1, <1>2, <1>4, <2>1, <3>1 DEF Ahead, Recorded, Nil
    <3>3. \A step \in Steps \ {"idle"} : ~Then(w, step)
      BY <2>1 DEF Refuse, Then, Finish, Goto, Shape, TypeOK
    <3>4. ~Then(w, "admit") /\ ~Then(w, "known") /\ ~Then(w, "install")
      BY <3>3 DEF Steps, ReaderSteps
    <3>5. closed[Mine(w)] \/ (generation[Mine(w)] # Nil /\ Held(w) < generation[Mine(w)])
          \/ Held(w) = Nil
      BY <2>1, <3>4 DEF Materialise, Gate, Faithful
    <3> QED
      BY <1>2, <2>1, <3>2, <3>5
  <2>2. CASE ~(pr = Mine(w) /\ Refuse(w) /\ Materialise(w))
    <3>1. CASE pr = Mine(w)
      <4>1. UNCHANGED failure \/ failure' = [failure EXCEPT ![Mine(w)] = FALSE]
        BY <2>2, <3>1, ProceedCases
        DEF Publish, Look, Lock, Recheck, ReadFailure, Resolve, Materialise, Gate, Install,
            Learn, Compare, Attach, CheckOpen, ReadCurrent, ReadKnown, CompareAndSwap,
            RecheckOpen, Retract, Retire, RecordGeneration, Touch, store
      <4> QED
        BY <3>1, <4>1, Zenon DEF Shape, TypeOK
    <3>2. CASE pr # Mine(w)
      BY <1>1, <3>2
    <3> QED
      BY <3>1, <3>2
  <2> QED
    BY <2>1, <2>2
<1> QED
  BY <1>3, <1>4, <1>5, <1>6 DEF Pristine

\* Held stays what it is while a snapshot is being made known.
LEMMA ProceedAfterSwap ==
  ASSUME Shape, Answered, NEW w \in Workers, Proceed(w), [Next]_vars, pc'[w] \in AfterSwap
  PROVE  Held(w)' <= top'[Mine(w)']
<1>1. pc[w] # "idle" /\ Mine(w) \in Profiles
  BY StoreSteps
<1>2. /\ pc \in [Workers -> Steps] /\ call \in [Workers -> Call]
      /\ Held(w) \in Nat /\ top[Mine(w)] \in Nat /\ top'[Mine(w)] \in Nat
      /\ top[Mine(w)] <= top'[Mine(w)]
      /\ top \in [Profiles -> Generations \cup {Nil}]
  BY <1>1, NumbersTyped, ShapeStep, TopGrows DEF Numbers, Shape, TypeOK
<1>3. \/ (Install(w) \/ CompareAndSwap(w)) /\ Swap(w) /\ UNCHANGED call
      \/ pc[w] \in AfterSwap /\ UNCHANGED call
  <2>1. CASE Look(w) \/ Lock(w) \/ Recheck(w) \/ ReadFailure(w) \/ Learn(w) \/ Touch(w)
             \/ Resolve(w)
    BY <1>2, <2>1 DEF Look, Lock, Recheck, ReadFailure, Learn, Touch, Resolve, Then, Goto, Finish,
                      AfterSwap
  <2>2. CASE Materialise(w)
    BY <1>2, <2>2 DEF Materialise, Gate, Refuse, Then, Goto, Finish, AfterSwap
  <2>3. CASE Install(w)
    BY <1>2, <2>3 DEF Install, Then, Goto, AfterSwap
  <2>4. CASE Publish(w)
    BY <1>2, <2>4 DEF Publish, Compare, Attach, CheckOpen, ReadCurrent, ReadKnown, CompareAndSwap,
                      RecheckOpen, Retract, Retire, RecordGeneration, Then, Goto, Finish, At,
                      AfterSwap
  <2> QED
    BY <2>1, <2>2, <2>3, <2>4, ProceedCases
<1>4. Held(w)' = Held(w) /\ Mine(w)' = Mine(w)
  BY <1>3 DEF Held, Mine
<1>5. Held(w) <= top'[Mine(w)]
  <2>1. CASE Swap(w)
    BY <1>1, <1>2, <2>1 DEF Swap
  <2>2. CASE pc[w] \in AfterSwap
    BY <1>2, <2>2 DEF Answered
  <2> QED
    BY <1>3, <2>1, <2>2
<1> QED
  BY <1>4, <1>5

LEMMA ProceedAnswered ==
  ASSUME Shape, Answered, NEW w \in Workers, Proceed(w), [Next]_vars
  PROVE  Answered'
<1>1. /\ pc[w] # "idle" /\ Mine(w) \in Profiles /\ Mine(w) \in present
      /\ \A pr \in Profiles :
           \/ generation'[pr] = generation[pr]
           \/ pr = Mine(w) /\ generation'[pr] = Held(w) /\ Held(w) <= top[pr]
      /\ \A pr \in Profiles : Recorded(pr) => Recorded(pr)'
      /\ \A pr \in Profiles \ {Mine(w)} : failure'[pr] = failure[pr]
  BY StoreSteps
<1>2. /\ UNCHANGED <<setting, disk, present, deferred, closed>>
      /\ \A v \in Workers \ {w} : pc'[v] = pc[v] /\ call'[v] = call[v]
  BY Frame
<1>3. ASSUME NEW v \in Workers, pc'[v] \in AfterSwap PROVE Held(v)' <= top'[Mine(v)']
  <2>1. CASE v = w
    BY <1>3, <2>1, ProceedAfterSwap
  <2>2. CASE v # w
    <3>1. pc[v] \in AfterSwap /\ Held(v)' = Held(v) /\ Mine(v)' = Mine(v)
      BY <1>2, <1>3, <2>2 DEF Held, Mine
    <3>2. Mine(v) \in Profiles /\ Held(v) <= top[Mine(v)]
      BY <3>1, AtWork DEF Answered, AfterSwap
    <3>3. /\ Held(v) \in Nat /\ top[Mine(v)] \in Nat /\ top'[Mine(v)] \in Nat
          /\ top[Mine(v)] <= top'[Mine(v)]
      BY <3>2, NumbersTyped, ShapeStep, TopGrows DEF Numbers
    <3> QED
      BY <3>1, <3>2, <3>3
  <2> QED
    BY <2>1, <2>2
<1>4. \A pr \in Profiles \ present' : Recorded(pr)' /\ ~failure'[pr]
  BY <1>1, <1>2 DEF Answered
<1>5. ASSUME Faithful'
      PROVE  /\ \A pr \in Profiles : Recorded(pr)' \/ Pristine(pr)'
             /\ \A v \in Workers : pc'[v] # "idle" => Ahead(v)'
  <2>1. Faithful
    BY <1>2, <1>5 DEF Faithful
  <2>2. \A pr \in Profiles : Recorded(pr)' \/ Pristine(pr)'
    BY <2>1, ProceedPristine
  <2>3. ASSUME NEW v \in Workers, pc'[v] # "idle" PROVE Ahead(v)'
    <3>1. CASE v = w
      BY <2>1, <2>3, <3>1, ProceedAhead
    <3>2. CASE v # w
      <4>1. pc[v] # "idle" /\ pc'[v] = pc[v] /\ call'[v] = call[v]
        BY <1>2, <2>3, <3>2
      <4>2. Ahead(v) /\ Mine(v) \in Profiles /\ Mine(v)' = Mine(v)
        BY <2>1, <4>1, AtWork DEF Answered, Mine
      <4>3. generation'[Mine(v)] # generation[Mine(v)] => Recorded(Mine(v))'
        <5>1. ASSUME Mine(v) = Mine(w), generation'[Mine(v)] = Held(w), Held(w) <= top[Mine(v)]
              PROVE  Recorded(Mine(v))'
          <6>1. /\ Held(w) \in Nat /\ top[Mine(v)] \in Nat /\ top'[Mine(v)] \in Nat
                /\ top[Mine(v)] <= top'[Mine(v)]
            BY <4>2, NumbersTyped, ShapeStep, TopGrows DEF Numbers
          <6> QED
            BY <4>2, <5>1, <6>1 DEF Recorded
        <5> QED
          BY <1>1, <4>2, <5>1
      <4>4. Recorded(Mine(v)) => Recorded(Mine(v))'
        BY <1>1, <4>2 DEF Recorded
      <4> QED
        BY <1>2, <4>1, <4>2, <4>3, <4>4, AheadStays
    <3> QED
      BY <3>1, <3>2
  <2> QED
    BY <2>2, <2>3
<1> QED
  BY <1>3, <1>4, <1>5 DEF Answered

LEMMA AnsweredStep == Shape /\ Answered /\ [Next]_vars => Answered'
<1> SUFFICES ASSUME Shape, Answered, [Next]_vars PROVE Answered'
  OBVIOUS
<1>1. \A w \in Workers : pc[w] # "idle" => Mine(w) \in Profiles /\ Mine(w) \in present
  BY AtWork
<1>2. /\ pc \in [Workers -> Steps] /\ call \in [Workers -> Call]
      /\ disk \in [Profiles -> Generations \cup {Nil}]
      /\ active \in [Profiles -> Generations \cup {Nil}]
      /\ generation \in [Profiles -> Generations \cup {Nil}]
      /\ \A pr \in Profiles : generation[pr] \in Nat /\ disk[pr] \in Nat /\ top[pr] \in Nat
      /\ present \subseteq Profiles
  BY NumbersTyped DEF Shape, TypeOK, Numbers
<1>3. \A pr \in Profiles : closed[pr] => closed'[pr]
  BY TopGrows
\* A step that begins at most one call.
<1>4. ASSUME UNCHANGED <<setting, present, deferred, active, generation, failure, top, closed>>,
             \A pr \in Profiles : disk[pr] <= disk'[pr] /\ disk'[pr] \in Nat,
             \A w \in Workers : \/ pc'[w] = pc[w] /\ call'[w] = call[w]
                                \/ pc'[w] \in {"look", "compare"}
      PROVE  Answered'
  <2>1. \A pr \in Profiles : /\ Recorded(pr) <=> Recorded(pr)'
                             /\ Pristine(pr) => Pristine(pr)'
    BY <1>2, <1>4 DEF Recorded, Pristine
  <2>2. ASSUME NEW w \in Workers, pc'[w] \in AfterSwap PROVE Held(w)' <= top'[Mine(w)']
    <3>1. pc'[w] = pc[w] /\ call'[w] = call[w]
      BY <1>4, <2>2 DEF AfterSwap
    <3> QED
      BY <1>4, <2>2, <3>1 DEF Answered, Held, Mine
  <2>3. ASSUME NEW w \in Workers, pc'[w] # "idle", pc[w] # "idle" => Ahead(w) PROVE Ahead(w)'
    <3>1. CASE pc'[w] = pc[w] /\ call'[w] = call[w]
      <4>1. Mine(w) \in Profiles
        BY <1>1, <2>3, <3>1
      <4>2. Recorded(Mine(w))' \/ ~Recorded(Mine(w))
        BY <1>4, <3>1 DEF Recorded, Mine
      <4> QED
        BY <1>4, <2>3, <3>1, <4>2, AheadStays
    <3>2. CASE pc'[w] \in {"look", "compare"}
      BY <3>2 DEF Ahead, Building
    <3> QED
      BY <1>4, <3>1, <3>2
  <2>4. Faithful' => Faithful
    BY <1>4 DEF Faithful
  <2> QED
    BY <1>4, <2>1, <2>2, <2>3, <2>4 DEF Answered
<1>5. CASE \E r \in Readers, pr \in Profiles : Ask(r, pr)
  BY <1>2, <1>4, <1>5 DEF Ask, Goto, installation, shutdown, store
<1>6. CASE \E f \in Followers : Poll(f)
  BY <1>2, <1>4, <1>6 DEF Poll, Goto, installation, shutdown, store
<1>7. CASE \E x \in Indexers, pr \in Profiles : Produce(x, pr)
  <2>1. PICK x \in Indexers, pr \in Profiles : Produce(x, pr)
    BY <1>7
  <2>2. \A q \in Profiles : disk[q] <= disk'[q] /\ disk'[q] \in Nat
    BY <1>2, <2>1 DEF Produce
  <2> QED
    BY <1>2, <1>4, <2>1, <2>2 DEF Produce, Goto, shutdown, store
<1>8. CASE UNCHANGED vars
  BY <1>2, <1>4, <1>8 DEF vars, installation, shutdown, store
<1>9. CASE Close
  BY <1>2, <1>4, <1>9 DEF Close, installation, store
<1>10. ASSUME NEW pr \in Profiles, MoveCurrent(pr) PROVE Answered'
  <2>1. CASE Faithful
    <3>1. \A q \in Profiles : disk[q] <= disk'[q] /\ disk'[q] \in Nat
      BY <1>2, <1>10, <2>1 DEF MoveCurrent, Faithful
    <3> QED
      BY <1>4, <1>10, <3>1 DEF MoveCurrent, shutdown, store
  <2>2. CASE ~Faithful
    BY <1>10, <2>2 DEF Answered, Faithful, MoveCurrent, shutdown, store, Recorded, Held, Mine
  <2> QED
    BY <2>1, <2>2
<1>11. ASSUME NEW pr \in Profiles, AddProfile(pr) PROVE Answered'
  <2>1. /\ UNCHANGED <<setting, disk, active, failure, top, closed, pc, call>>
        /\ present' = present \cup {pr} /\ pr \notin present
        /\ \A q \in Profiles \ {pr} : deferred'[q] = deferred[q] /\ generation'[q] = generation[q]
        /\ generation'[pr] = disk[pr]
    BY <1>11, <1>2 DEF AddProfile, shutdown, Shape, TypeOK
  <2>2. deferred'[pr] = (disk[pr] # Nil)
    BY <1>11, Zenon DEF AddProfile, Shape, TypeOK
  <2>3. ~failure[pr] /\ active[pr] = Nil /\ top[pr] = Nil
    BY <2>1 DEF Answered, Shape, Roles
  <2>4. \A q \in Profiles \ {pr} : /\ Recorded(q) <=> Recorded(q)'
                                   /\ Pristine(q) => Pristine(q)'
    BY <2>1 DEF Recorded, Pristine
  <2>5. Recorded(pr)' \/ Pristine(pr)'
    <3>1. CASE disk[pr] = Nil
      BY <2>1, <2>3, <3>1 DEF Recorded, Nil
    <3>2. CASE disk[pr] # Nil
      <4>1. deferred'[pr] = TRUE
        BY <2>2, <3>2, Zenon
      <4>2. deferred'[pr] /\ active'[pr] = Nil /\ ~failure'[pr]
        BY <2>1, <2>3, <4>1
      <4> QED
        BY <1>2, <2>1, <4>2 DEF Pristine
    <3> QED
      BY <3>1, <3>2
  <2>6. ASSUME NEW w \in Workers, pc[w] # "idle", Ahead(w) PROVE Ahead(w)'
    <3>1. Mine(w) \in Profiles \ {pr}
      BY <1>1, <2>1, <2>6
    <3>2. Recorded(Mine(w))' \/ ~Recorded(Mine(w))
      BY <2>1, <3>1 DEF Recorded, Mine
    <3> QED
      BY <2>1, <2>6, <3>1, <3>2, AheadStays
  <2>7. \A w \in Workers : pc'[w] \in AfterSwap => Held(w)' <= top'[Mine(w)']
    BY <2>1 DEF Answered, Held, Mine
  <2>8. \A q \in Profiles \ present' : Recorded(q)' /\ ~failure'[q]
    BY <2>1, <2>4 DEF Answered
  <2> QED
    BY <2>1, <2>4, <2>5, <2>6, <2>7, <2>8 DEF Answered, Faithful
<1>12. ASSUME NEW pr \in Profiles, CloseProfile(pr) PROVE Answered'
  <2>1. /\ UNCHANGED <<setting, disk, present, deferred, generation, failure, top, pc, call>>
        /\ \A q \in Profiles : active'[q] \in {active[q], Nil}
    BY <1>2, <1>12 DEF CloseProfile, installation
  <2>2. \A q \in Profiles : /\ Recorded(q) <=> Recorded(q)'
                            /\ Pristine(q) => Pristine(q)'
    BY <1>3, <2>1 DEF Recorded, Pristine
  <2>3. ASSUME NEW w \in Workers, pc[w] # "idle", Ahead(w) PROVE Ahead(w)'
    <3>1. Mine(w) \in Profiles
      BY <1>1, <2>3
    <3>2. Recorded(Mine(w))' \/ ~Recorded(Mine(w))
      BY <2>1 DEF Recorded, Mine
    <3> QED
      BY <1>3, <2>1, <2>3, <3>1, <3>2, AheadStays
  <2> QED
    BY <2>1, <2>2, <2>3 DEF Answered, Faithful, Held, Mine
<1> QED
  BY <1>5, <1>6, <1>7, <1>8, <1>9, <1>10, <1>11, <1>12, ProceedAnswered DEF Next, Environment

(***************************************************************************)
(* When Publish refuses a follower, another publisher did install this     *)
(* generation or a newer one, as followOnce says, wherever CURRENT is      *)
(* never rolled back and what it names can be loaded: however profiles     *)
(* are evicted, stores closed and publishers interleaved.  With a load     *)
(* that fails the promise is refuted (run snapshot_stuck_refusal).         *)
(***************************************************************************)
THEOREM FaithfulRefusals == Spec => [](Faithful => RefusalMeansServed)
<1>1. Shape /\ Answered => (Faithful => RefusalMeansServed)
  <2> SUFFICES ASSUME Shape, Answered, Faithful, NEW f \in Followers,
                      At(f, "older"), generation[Mine(f)] >= Held(f)
               PROVE  top[Mine(f)] >= Held(f)
    BY DEF RefusalMeansServed
  <2>1. f \in Workers /\ Mine(f) \in Profiles /\ Ahead(f)
    BY AtWork DEF Answered, At, Workers
  <2>2. /\ Held(f) \in Nat /\ top[Mine(f)] \in Nat /\ generation[Mine(f)] \in Nat
    BY <2>1, NumbersTyped DEF Numbers
  <2> QED
    BY <2>1, <2>2 DEF Ahead, Recorded, At
<1> QED
  BY <1>1, InitShape, ShapeStep, InitAnswered, AnsweredStep, PTL DEF Spec

=============================================================================
