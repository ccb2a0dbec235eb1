---------------------------- MODULE SnapshotStore ----------------------------
(***************************************************************************)
(* The snapshots a server answers from (internal/hotsnapshot/publication): *)
(* one store per profile, a bounded number of them materialised, under the *)
(* readers (every tool call), the followers of CURRENT                     *)
(* (internal/indexing/follow.go) and the indexers inside the server        *)
(* (internal/indexing/service.go).                                         *)
(*                                                                         *)
(* A step is one atomic load, store or compare-and-swap, or one critical   *)
(* section of profilesMu.  A snapshot stands for its generation number: a  *)
(* compare-and-swap that fails on another pointer to the same generation   *)
(* only makes Publish decide the same thing again.                         *)
(***************************************************************************)
EXTENDS Integers, Sequences, FiniteSets

CONSTANTS
  Profiles,     \* the profiles of the installation
  Readers,      \* concurrent calls of Load
  Followers,    \* goroutines that follow CURRENT
  Follows,      \* the profile each of them follows
  Indexers,     \* goroutines that index in the server
  MaxId,        \* bound: the largest generation number published
  MaxOpen,      \* maxOpenProfiles
  None,         \* no worker, no profile
  Settings      \* the installations and circumstances one run covers

Workers == Readers \cup Followers \cup Indexers
Nil == 0   \* no snapshot, no known generation
Generations == 1 .. MaxId

ASSUME BoundsAssumption == MaxId \in Nat \ {0} /\ MaxOpen \in Nat \ {0}
ASSUME ProfilesAssumption == IsFiniteSet(Profiles)
ASSUME NoneAssumption == None \notin Profiles /\ None \notin Workers
ASSUME WorkersAssumption == /\ Readers \cap (Followers \cup Indexers) = {}
                            /\ Followers \cap Indexers = {}
ASSUME FollowsAssumption == Follows \in [Followers -> Profiles]

(***************************************************************************)
(* The profiles of an installation, the readers and indexers at work, the  *)
(* largest generation published, and whether CURRENT may be rolled back, a *)
(* load may fail and the server may close the store.                       *)
(***************************************************************************)
Setting == [profiles: (SUBSET Profiles) \ {{}}, readers: SUBSET Readers,
            indexers: SUBSET Indexers, ids: 1 .. MaxId,
            rewind: BOOLEAN, fail: BOOLEAN, close: BOOLEAN]

ASSUME SettingsAssumption == Settings \subseteq Setting

VARIABLES
  setting,     \* constant in a behaviour: one of Settings
  disk,        \* the generation CURRENT names, per profile
  present,     \* the profiles of the aggregate
  deferred,    \* the store has a loader, per profile
  active,      \* the published snapshot
  generation,  \* the generation the store knows of
  failure,     \* the deferred load was refused
  mutex,       \* the holder of deferredOnce
  lru,         \* profileLRU
  closed,      \* the store is closed, per profile
  closing,     \* the profiles Close has still to clear; None before it
  pc,          \* the next step of each worker
  call,        \* the local variables of its call
  top,         \* history: the newest snapshot ever active, per profile
  loads        \* history: deferred loads, per profile, counted up to 2

installation == <<setting, disk, present, deferred>>
ids == 1 .. setting.ids
shutdown == <<closed, closing>>
store == <<active, generation, failure, mutex, lru, top, loads>>
vars == <<installation, shutdown, store, pc, call>>

ReaderSteps == {"look", "lock", "recheck", "refused", "resolve", "build", "admit",
                "known", "install", "learn"}
PublisherSteps == {"compare", "open", "read", "older", "swap", "reclosed",
                   "retract", "retire", "record"}
Steps == {"idle", "touch"} \cup ReaderSteps \cup PublisherSteps

Call == [on: Profiles \cup {None},       \* the profile it is about
         id: Generations \cup {Nil},     \* the snapshot it holds
         seen: Generations \cup {Nil},   \* what Publish read in active
         floor: Generations \cup {Nil}]  \* history: top when Load was called

Idle == [on |-> None, id |-> Nil, seen |-> Nil, floor |-> Nil]

\* openConfiguredSnapshot: a profile without a generation gets no loader.
Init ==
  /\ setting \in Settings
  /\ disk \in [Profiles -> {Nil, 1}]
  /\ \A pr \in Profiles \ setting.profiles : disk[pr] = Nil
  /\ present \in (SUBSET setting.profiles) \ {{}}
  /\ deferred = [pr \in Profiles |-> pr \in present /\ disk[pr] # Nil]
  /\ active = [pr \in Profiles |-> Nil]
  /\ generation = [pr \in Profiles |-> IF pr \in present THEN disk[pr] ELSE Nil]
  /\ failure = [pr \in Profiles |-> FALSE]
  /\ mutex = [pr \in Profiles |-> None]
  /\ lru = << >>
  /\ closed = [pr \in Profiles |-> FALSE]
  /\ closing = None
  /\ pc = [w \in Workers |-> "idle"]
  /\ call = [w \in Workers |-> Idle]
  /\ top = [pr \in Profiles |-> Nil]
  /\ loads = [pr \in Profiles |-> 0]

-----------------------------------------------------------------------------

At(w, step) == pc[w] = step
Goto(w, step) == pc' = [pc EXCEPT ![w] = step]
Then(w, step) == Goto(w, step) /\ UNCHANGED call
Finish(w) == Goto(w, "idle") /\ call' = [call EXCEPT ![w] = Idle]
Holding(w, g) == call' = [call EXCEPT ![w].id = g]

Mine(w) == call[w].on
Held(w) == call[w].id

Unlock(w) == mutex' = [mutex EXCEPT ![Mine(w)] = None]

\* active takes the snapshot of w; the history follows.
Swap(w) ==
  /\ active' = [active EXCEPT ![Mine(w)] = Held(w)]
  /\ top' = [top EXCEPT ![Mine(w)] = IF Held(w) > @ THEN Held(w) ELSE @]

-----------------------------------------------------------------------------
(* Load. *)

Ask(r, pr) ==
  /\ At(r, "idle") /\ r \in setting.readers /\ pr \in present /\ ~closed[pr]
  /\ Goto(r, "look")
  /\ call' = [call EXCEPT ![r].on = pr, ![r].floor = top[pr]]
  /\ UNCHANGED <<installation, shutdown, store>>

Look(r) ==
  /\ At(r, "look")
  /\ LET pr == Mine(r) IN
       \/ active[pr] # Nil /\ Holding(r, active[pr]) /\ Goto(r, "touch")
       \/ active[pr] = Nil /\ deferred[pr] /\ Then(r, "lock")
       \/ active[pr] = Nil /\ ~deferred[pr] /\ Finish(r)
  /\ UNCHANGED <<installation, shutdown, store>>

Lock(r) ==
  /\ At(r, "lock")
  /\ mutex[Mine(r)] = None
  /\ mutex' = [mutex EXCEPT ![Mine(r)] = r]
  /\ Then(r, "recheck")
  /\ UNCHANGED <<installation, shutdown, active, generation, failure, lru, top, loads>>

\* MUTANT: active is not read again under the lock.
RecheckBlind(r) ==
  /\ At(r, "recheck")
  /\ Then(r, "refused")
  /\ UNCHANGED <<installation, shutdown, store>>

\* A reader that waited for the lock finds what its holder published.
Recheck(r) ==
  /\ At(r, "recheck")
  /\ LET found == active[Mine(r)] IN
       \/ found # Nil /\ Holding(r, found) /\ Goto(r, "touch") /\ Unlock(r)
       \/ found = Nil /\ Then(r, "refused") /\ UNCHANGED mutex
  /\ UNCHANGED <<installation, shutdown, active, generation, failure, lru, top, loads>>

ReadFailure(r) ==
  /\ At(r, "refused")
  /\ \/ failure[Mine(r)] /\ Unlock(r) /\ Finish(r)
     \/ ~failure[Mine(r)] /\ Then(r, "resolve") /\ UNCHANGED mutex
  /\ UNCHANGED <<installation, shutdown, active, generation, failure, lru, top, loads>>

\* The loader reads CURRENT anew: it may have moved since the store was opened.
Resolve(r) ==
  /\ At(r, "resolve")
  /\ Holding(r, disk[Mine(r)])
  /\ loads' = [loads EXCEPT ![Mine(r)] = IF @ = 2 THEN 2 ELSE @ + 1]
  /\ Goto(r, "build")
  /\ UNCHANGED <<installation, shutdown, active, generation, failure, mutex, lru, top>>

Refuse(r) ==
  /\ failure' = [failure EXCEPT ![Mine(r)] = TRUE]
  /\ Unlock(r) /\ Finish(r)
  /\ UNCHANGED <<installation, shutdown, active, generation, lru, top, loads>>

\* A check on the way to publishing what was loaded.
Gate(r, step, refused, after) ==
  /\ At(r, step)
  /\ \/ refused /\ Refuse(r)
     \/ ~refused /\ Then(r, after) /\ UNCHANGED <<installation, shutdown, store>>

\* publishMaterialised.
Materialise(r) ==
  LET known == generation[Mine(r)] IN
    \/ \E broken \in {FALSE, setting.fail} :
         Gate(r, "build", broken \/ Held(r) = Nil, "admit")
    \/ Gate(r, "admit", closed[Mine(r)], "known")
    \/ Gate(r, "known", known # Nil /\ Held(r) < known, "install")

\* MUTANT: a store in place of the compare-and-swap.
InstallStoring(r) ==
  /\ At(r, "install")
  /\ Swap(r) /\ Then(r, "learn")
  /\ UNCHANGED <<installation, shutdown, generation, failure, mutex, lru, loads>>

\* A load that finds a snapshot published meanwhile answers its own.
Install(r) ==
  /\ At(r, "install")
  /\ \/ /\ active[Mine(r)] = Nil
        /\ Swap(r) /\ Then(r, "learn")
        /\ UNCHANGED mutex
     \/ /\ active[Mine(r)] # Nil
        /\ Unlock(r) /\ Then(r, "touch")
        /\ UNCHANGED <<active, top>>
  /\ UNCHANGED <<installation, shutdown, generation, failure, lru, loads>>

Learn(r) ==
  /\ At(r, "learn")
  /\ generation' = [generation EXCEPT ![Mine(r)] = Held(r)]
  /\ Unlock(r) /\ Then(r, "touch")
  /\ UNCHANGED <<installation, shutdown, active, failure, lru, top, loads>>

-----------------------------------------------------------------------------
(* onLoad: the least recently used profiles are unloaded. *)

\* The place of pr in the list; without one, the first place after it.
Place(pr) ==
  IF \E i \in DOMAIN lru : lru[i] = pr
    THEN CHOOSE i \in DOMAIN lru : lru[i] = pr
    ELSE Len(lru) + 1

\* pr leaves its place and goes to the end.
Refreshed(pr) ==
  LET place == Place(pr)
      size  == IF place > Len(lru) THEN place ELSE Len(lru)
  IN  [i \in 1 .. size |-> IF i = size THEN pr ELSE IF i < place THEN lru[i] ELSE lru[i + 1]]

\* MUTANT: one profile too many is kept.
ExcessLate(list) == IF Len(list) > MaxOpen + 1 THEN Len(list) - MaxOpen - 1 ELSE 0

\* How many profiles, from the head of the list, have to go.
Excess(list) == IF Len(list) > MaxOpen THEN Len(list) - MaxOpen ELSE 0

\* One critical section of profilesMu.  Only a store with a loader is unloaded.
Touch(w) ==
  /\ At(w, "touch")
  /\ LET list == Refreshed(Mine(w))
         gone == Excess(list)
         out  == {list[i] : i \in 1 .. gone}
     IN  /\ lru' = [i \in 1 .. Len(list) - gone |-> list[gone + i]]
         /\ active' = [q \in Profiles |-> IF q \in out /\ deferred[q] THEN Nil ELSE active[q]]
  /\ Finish(w)
  /\ UNCHANGED <<installation, shutdown, generation, failure, mutex, top, loads>>

-----------------------------------------------------------------------------
(* Publish, by a follower of CURRENT or by an indexer. *)

\* A tick of Follow reads CURRENT first and the store after it.
Poll(f) ==
  /\ At(f, "idle")
  /\ LET pr == Follows[f] IN
       /\ pr \in present /\ disk[pr] # Nil
       /\ call' = [call EXCEPT ![f].on = pr, ![f].id = disk[pr]]
  /\ Goto(f, "compare")
  /\ UNCHANGED <<installation, shutdown, store>>

\* ActiveID, Nil when it has no answer.  Its reads are one step here: they only
\* decide whether to try, and Publish checks again.
ActiveID(pr) ==
  CASE closed[pr] -> Nil
    [] ~closed[pr] /\ active[pr] # Nil -> active[pr]
    [] ~closed[pr] /\ active[pr] = Nil /\ deferred[pr] /\ ~failure[pr] -> generation[pr]
    [] OTHER -> Nil

\* MUTANT: a follower publishes only where nothing is served yet.
CompareUnserved(f) ==
  /\ f \in Followers /\ At(f, "compare")
  /\ \/ ActiveID(Mine(f)) = Nil /\ Then(f, "open")
     \/ (ActiveID(Mine(f)) # Nil \/ setting.fail) /\ Finish(f)
  /\ UNCHANGED <<installation, shutdown, store>>

\* A tick whose build fails leaves the rest to the next one.
Compare(f) ==
  /\ f \in Followers /\ At(f, "compare")
  /\ \/ ActiveID(Mine(f)) < Held(f) /\ Then(f, "open")
     \/ (ActiveID(Mine(f)) >= Held(f) \/ setting.fail) /\ Finish(f)
  /\ UNCHANGED <<installation, shutdown, store>>

\* An index pass moves CURRENT, and publishes while CURRENT is still its own.
Produce(x, pr) ==
  /\ At(x, "idle") /\ x \in setting.indexers /\ pr \in present
  /\ disk[pr] < setting.ids
  /\ disk' = [disk EXCEPT ![pr] = @ + 1]
  /\ Goto(x, "compare")
  /\ call' = [call EXCEPT ![x].on = pr, ![x].id = disk[pr] + 1]
  /\ UNCHANGED <<setting, present, deferred, shutdown, store>>

Attach(x) ==
  /\ x \in Indexers /\ At(x, "compare")
  /\ \/ disk[Mine(x)] = Held(x) /\ Then(x, "open")
     \/ (disk[Mine(x)] # Held(x) \/ setting.fail) /\ Finish(x)
  /\ UNCHANGED <<installation, shutdown, store>>

CheckOpen(w) ==
  /\ At(w, "open")
  /\ \/ ~closed[Mine(w)] /\ Then(w, "read")
     \/ closed[Mine(w)] /\ Finish(w)
  /\ UNCHANGED <<installation, shutdown, store>>

ReadCurrent(w) ==
  /\ At(w, "read")
  /\ LET current == active[Mine(w)] IN
       \/ /\ current < Held(w)
          /\ call' = [call EXCEPT ![w].seen = current]
          /\ Goto(w, IF current = Nil THEN "older" ELSE "swap")
       \/ current >= Held(w) /\ Finish(w)
  /\ UNCHANGED <<installation, shutdown, store>>

\* The known generation is asked for only when nothing is active.
ReadKnown(w) ==
  /\ At(w, "older")
  /\ \/ generation[Mine(w)] < Held(w) /\ Then(w, "swap")
     \/ generation[Mine(w)] >= Held(w) /\ Finish(w)
  /\ UNCHANGED <<installation, shutdown, store>>

\* MUTANT: a store in place of the compare-and-swap.
CompareAndSwapBlind(w) ==
  /\ At(w, "swap")
  /\ Swap(w) /\ Then(w, "reclosed")
  /\ UNCHANGED <<installation, shutdown, generation, failure, mutex, lru, loads>>

CompareAndSwap(w) ==
  /\ At(w, "swap")
  /\ \/ active[Mine(w)] = call[w].seen /\ Swap(w) /\ Then(w, "reclosed")
     \/ active[Mine(w)] # call[w].seen /\ Then(w, "open") /\ UNCHANGED <<active, top>>
  /\ UNCHANGED <<installation, shutdown, generation, failure, mutex, lru, loads>>

\* A store closed meanwhile takes the snapshot back.
RecheckOpen(w) ==
  /\ At(w, "reclosed")
  /\ Then(w, IF closed[Mine(w)] THEN "retract" ELSE "retire")
  /\ UNCHANGED <<installation, shutdown, store>>

Retract(w) ==
  /\ At(w, "retract")
  /\ active' = [active EXCEPT ![Mine(w)] = IF @ = Held(w) THEN Nil ELSE @]
  /\ Finish(w)
  /\ UNCHANGED <<installation, shutdown, generation, failure, mutex, lru, top, loads>>

\* A published generation retires the refusal of the previous one.
Retire(w) ==
  /\ At(w, "retire")
  /\ failure' = [failure EXCEPT ![Mine(w)] = FALSE]
  /\ Then(w, "record")
  /\ UNCHANGED <<installation, shutdown, active, generation, mutex, lru, top, loads>>

RecordGeneration(w) ==
  /\ At(w, "record")
  /\ generation' = [generation EXCEPT ![Mine(w)] = Held(w)]
  /\ Then(w, "touch")
  /\ UNCHANGED <<installation, shutdown, active, failure, mutex, lru, top, loads>>

-----------------------------------------------------------------------------
(* The installation around the store. *)

\* Another process publishes, rolls back or discards.
MoveCurrent(pr) ==
  /\ pr \in setting.profiles
  /\ \E g \in ids \cup {Nil} :
       /\ g = disk[pr] + 1 \/ (setting.rewind /\ g < disk[pr])
       /\ disk' = [disk EXCEPT ![pr] = g]
  /\ UNCHANGED <<setting, present, deferred, shutdown, store, pc, call>>

\* index_project creates a profile in the running server.
AddProfile(pr) ==
  /\ pr \in setting.profiles \ present /\ closing = None
  /\ present' = present \cup {pr}
  /\ deferred' = [deferred EXCEPT ![pr] = disk[pr] # Nil]
  /\ generation' = [generation EXCEPT ![pr] = disk[pr]]
  /\ UNCHANGED <<setting, disk, shutdown, active, failure, mutex, lru, top, loads, pc, call>>

\* Close of the aggregate, then of its profiles one by one in any order.
Close ==
  /\ setting.close /\ closing = None
  /\ closing' = present
  /\ UNCHANGED <<closed, installation, store, pc, call>>

CloseProfile(pr) ==
  /\ closing # None /\ pr \in closing
  /\ \/ /\ ~closed[pr] /\ \A q \in closing : ~closed[q]
        /\ closed' = [closed EXCEPT ![pr] = TRUE]
        /\ UNCHANGED <<active, closing>>
     \/ /\ closed[pr]
        /\ active' = [active EXCEPT ![pr] = Nil]
        /\ closing' = closing \ {pr}
        /\ UNCHANGED closed
  /\ UNCHANGED <<installation, generation, failure, mutex, lru, top, loads, pc, call>>

-----------------------------------------------------------------------------

Load(r) ==
  \/ Look(r) \/ Lock(r) \/ Recheck(r) \/ ReadFailure(r) \/ Resolve(r)
  \/ Materialise(r) \/ Install(r) \/ Learn(r)

Publish(w) ==
  \/ Compare(w) \/ Attach(w) \/ CheckOpen(w) \/ ReadCurrent(w) \/ ReadKnown(w)
  \/ CompareAndSwap(w) \/ RecheckOpen(w) \/ Retract(w) \/ Retire(w)
  \/ RecordGeneration(w)

Proceed(w) == Load(w) \/ Publish(w) \/ Touch(w)

Environment ==
  \/ \E pr \in Profiles : MoveCurrent(pr) \/ AddProfile(pr) \/ CloseProfile(pr)
  \/ Close

Next ==
  \/ \E w \in Workers : Proceed(w)
  \/ \E r \in Readers, pr \in Profiles : Ask(r, pr)
  \/ \E f \in Followers : Poll(f)
  \/ \E x \in Indexers, pr \in Profiles : Produce(x, pr)
  \/ Environment

Spec == Init /\ [][Next]_vars

\* A call that was made runs on, and the ticker of a follower never stops.
FairSpec ==
  /\ Spec
  /\ \A w \in Workers : WF_vars(Proceed(w))
  /\ \A f \in Followers : WF_vars(Poll(f))

-----------------------------------------------------------------------------
(* Properties. *)

TypeOK ==
  /\ setting \in Settings
  /\ disk \in [Profiles -> Generations \cup {Nil}]
  /\ present \subseteq Profiles
  /\ deferred \in [Profiles -> BOOLEAN]
  /\ active \in [Profiles -> Generations \cup {Nil}]
  /\ generation \in [Profiles -> Generations \cup {Nil}]
  /\ failure \in [Profiles -> BOOLEAN]
  /\ mutex \in [Profiles -> Readers \cup {None}]
  /\ \E n \in 0 .. MaxOpen : lru \in [1 .. n -> present]
  /\ closed \in [Profiles -> BOOLEAN]
  /\ closing = None \/ closing \subseteq present
  /\ pc \in [Workers -> Steps]
  /\ call \in [Workers -> Call]
  /\ top \in [Profiles -> Generations \cup {Nil}]
  /\ loads \in [Profiles -> 0 .. 2]

\* There is room for every profile: nothing is ever unloaded.
NeverEvicts == Cardinality(setting.profiles) <= MaxOpen

\* No rollback of CURRENT, no load that fails, no shutdown.
Undisturbed == ~(setting.rewind \/ setting.fail \/ setting.close)

(***************************************************************************)
(* Readers that arrive at once build one set of indexes, not one each: as  *)
(* long as nothing is unloaded and nothing goes wrong, a profile is loaded *)
(* at most once, whatever publishes meanwhile (SnapshotStore).  After a    *)
(* load that failed, a publication that retires its refusal may let a      *)
(* waiting reader load a second time.                                      *)
(***************************************************************************)
LoadsOnce == NeverEvicts /\ Undisturbed => \A pr \in Profiles : loads[pr] <= 1

(***************************************************************************)
(* A Load of an open store never answers an older snapshot than its        *)
(* profile had already served when it was called, though a deferred load,  *)
(* a rollback of CURRENT and several publishers race it.                   *)
(***************************************************************************)
ReadersNeverGoBack ==
  NeverEvicts => \A r \in Readers :
    At(r, "touch") /\ ~closed[Mine(r)] => Held(r) >= call[r].floor

(***************************************************************************)
(* At most MaxOpen profiles with a loader stay materialised, but for those *)
(* a call in progress is about to touch (SetMaxOpenProfiles).              *)
(***************************************************************************)
Touching == {Mine(w) : w \in {v \in Workers : pc[v] \in
               {"learn", "reclosed", "retract", "retire", "record", "touch"}}}

OpenProfilesBounded ==
  Cardinality({pr \in Profiles \ Touching : deferred[pr] /\ active[pr] # Nil}) <= MaxOpen

(***************************************************************************)
(* What is served follows CURRENT: once it stops moving, every followed    *)
(* profile of the server settles on the generation it names (Follow).  It  *)
(* takes loads that succeed, a CURRENT that is not rolled back, and room   *)
(* for every profile: a load that a publication overtook leaves its        *)
(* refusal behind, and once the newer snapshot is unloaded that refusal    *)
(* keeps the profile from being loaded again.                              *)
(***************************************************************************)
FollowsPublished ==
  \A f \in Followers :
    LET pr == Follows[f] IN
      NeverEvicts /\ Undisturbed =>
                     <>[](\/ pr \notin present \/ disk[pr] = Nil
                          \/ ActiveID(pr) = disk[pr])

(***************************************************************************)
(* "Compare-and-swap prevents a stale concurrent publisher from            *)
(* overwriting a generation that won the race" (Publish): what is active   *)
(* is the newest snapshot that ever was.                                   *)
(***************************************************************************)
StalePublisherLoses == \A pr \in Profiles : active[pr] \in {Nil, top[pr]}

(***************************************************************************)
(* When Publish refuses a follower, "another publisher installed this      *)
(* generation, or a newer one" (followOnce).                               *)
(***************************************************************************)
RefusalMeansServed ==
  \A f \in Followers :
    At(f, "older") /\ generation[Mine(f)] >= Held(f) => top[Mine(f)] >= Held(f)

(***************************************************************************)
(* Without eviction, each profile implements a register that only moves to *)
(* newer snapshots until it is shut (with eviction nothing is claimed).    *)
(***************************************************************************)
Promised == INSTANCE PublishedSnapshot
              WITH served <- [pr \in Profiles |-> IF closed[pr] \/ ~NeverEvicts THEN Nil
                                                ELSE active[pr]],
                   shut <- closed

ImplementsPublishedSnapshot == Promised!Spec

=============================================================================
