-------------------- MODULE SourceInvalidation_proofs --------------------
(***************************************************************************)
(* Theorems about SourceInvalidation, for every set of profiles, worktrees *)
(* and passes, any budget and any circumstances: the type invariant with   *)
(* the holders of the two locks, and that nobody is forgotten: neither a   *)
(* stale profile nor, unless its watcher was overtaken, an edited one.     *)
(***************************************************************************)
EXTENDS SourceInvalidation, TLAPS

USE NamesAssumption, NoneAssumption, ActorsAssumption, ContentsAssumption,
    AttemptsAssumption, SettingsAssumption

-----------------------------------------------------------------------------
(* The inductive invariant. *)

WatcherSteps == {"idle", "observe", "lock", "write", "enqueue", "stopped"}
Busy == {"observe", "lock", "write", "enqueue"}

Watchers(w) ==
  [at: WatcherSteps, known: {None} \cup Manifests(w), undelivered: BOOLEAN,
   seen: {None} \cup Manifests(w), left: SUBSET Uses[w], missed: BOOLEAN]

SchedulerSteps == {"wait", "next", "check", "start", "rebuild", "recheck"}

FullPasses ==
  [at: {"idle", "verify", "record", "write"}, on: Profiles \cup {None},
   manifest: {None} \cup UNION {Manifests(pr) : pr \in Profiles}, child: BOOLEAN]

\* The sources, the state file and what the manager knows of it.
Recorded ==
  /\ setting \in Settings
  /\ tree \in [Sources -> Contents]
  /\ DOMAIN record = Profiles /\ \A pr \in Profiles : record[pr] \in Records(pr)
  /\ overtaken \in [Profiles -> BOOLEAN]
  /\ cached \subseteq Profiles /\ Staled \subseteq cached

\* A watcher whose change failed to be delivered after its first scan tries again.
Watched ==
  /\ DOMAIN watcher = Profiles
  /\ \A w \in Profiles :
       /\ watcher[w] \in Watchers(w)
       /\ watcher[w].at \in Busy /\ watcher[w].known # None => watcher[w].undelivered

\* The scheduler works on a profile until it has dealt with it.
Queued ==
  /\ pending \subseteq Profiles /\ wake \in BOOLEAN
  /\ attempts \in [Profiles -> Nat] /\ timers \in [Profiles -> Nat]
  /\ scheduler \in [at: SchedulerSteps, on: Profiles \cup {None}]
  /\ scheduler.on = None <=> scheduler.at \in {"wait", "next"}

\* One pass at a time, and the scheduler waits for its own.
Passing ==
  /\ pass \in [Passes -> FullPasses]
  /\ \A p \in Passes :
       pass[p] # Resting =>
         /\ pass[p].at # "idle"
         /\ pass[p].on \in Profiles /\ pass[p].manifest \in Manifests(pass[p].on)
         /\ targets = p
         /\ pass[p].child => scheduler.at = "rebuild"
  /\ targets = None \/ (targets \in Passes /\ pass[targets] # Resting)

Locking ==
  \/ lock = None
  \/ lock \in Profiles /\ watcher[lock].at = "write"
  \/ lock \in Passes /\ pass[lock].at = "write"

Shape == Recorded /\ Watched /\ Queued /\ Passing /\ Locking

\* The profiles and their worktrees are those of the circumstances.
LEMMA Profiled ==
  ASSUME setting \in Settings
  PROVE  /\ Profiles \subseteq Names
         /\ \A pr \in Profiles : Uses[pr] \subseteq Sources
<1>1. setting.uses \in UNION {[prs -> (SUBSET Sources) \ {{}}] : prs \in SUBSET Names}
  BY DEF Setting
<1>2. PICK prs \in SUBSET Names : setting.uses \in [prs -> (SUBSET Sources) \ {{}}]
  BY <1>1
<1> QED
  BY <1>2 DEF Profiles, Uses

\* An observation is a manifest.
LEMMA ViewTyped ==
  ASSUME Recorded
  PROVE  \A pr \in Profiles : View(pr) \in Manifests(pr)
BY Profiled DEF Recorded, View, Manifests

\* The circumstances never change, and with them what is typed by them.
LEMMA ProfilesStay ==
  ASSUME setting' = setting
  PROVE  /\ Profiles' = Profiles /\ Uses' = Uses
         /\ \A pr : /\ Manifests(pr)' = Manifests(pr)
                    /\ Records(pr)' = Records(pr)
                    /\ Watchers(pr)' = Watchers(pr)
         /\ FullPasses' = FullPasses
<1>1. Profiles' = Profiles /\ Uses' = Uses
  BY DEF Profiles, Uses
<1>2. \A pr : Manifests(pr)' = Manifests(pr)
  BY <1>1 DEF Manifests
<1>3. \A pr : Records(pr)' = Records(pr) /\ Watchers(pr)' = Watchers(pr)
  BY <1>1, <1>2 DEF Records, Watchers
<1>4. FullPasses' = FullPasses
  BY <1>1, <1>2 DEF FullPasses
<1> QED
  BY <1>1, <1>2, <1>3, <1>4

LEMMA SettingStays == [Next]_vars => setting' = setting
<1> SUFFICES ASSUME [Next]_vars PROVE setting' = setting
  OBVIOUS
<1>1. ASSUME NEW w \in Profiles, Watch(w) \/ Stop(w) \/ TimerFires(w)
      PROVE  setting' = setting
  BY <1>1 DEF Watch, Notice, Observe, TakeLock, Invalidate, MarkStale, EnqueueStale, Stop,
              TimerFires
<1>2. CASE Schedule
  BY <1>2 DEF Schedule, Wake, Take, Check, Rebuild, Recheck
<1>3. ASSUME NEW p \in Passes, Pass(p) \/ PassFails(p) PROVE setting' = setting
  BY <1>3 DEF Pass, Verify, RecordLock, RecordPublished, PassFails
<1> QED
  BY <1>1, <1>2, <1>3 DEF Next, UserPass, Edit, Restart, vars

\* A part of the state that is left alone keeps its shape.
LEMMA Untouched ==
  ASSUME Shape, setting' = setting
  PROVE  /\ UNCHANGED <<tree, record, overtaken, cached>> => Recorded'
         /\ UNCHANGED watcher => Watched'
         /\ UNCHANGED <<pending, wake, attempts, timers, scheduler>> => Queued'
         /\ UNCHANGED <<targets, pass, scheduler>> => Passing'
         /\ UNCHANGED <<lock, watcher, pass>> => Locking'
<1>1. /\ Profiles' = Profiles /\ Uses' = Uses
      /\ \A pr : /\ Manifests(pr)' = Manifests(pr) /\ Records(pr)' = Records(pr)
                 /\ Watchers(pr)' = Watchers(pr)
      /\ FullPasses' = FullPasses
  BY ProfilesStay
<1>2. UNCHANGED <<tree, record, overtaken, cached>> => Recorded'
  <2> SUFFICES ASSUME UNCHANGED <<tree, record, overtaken, cached>> PROVE Recorded'
    OBVIOUS
  <2>1. Staled' = Staled
    BY <1>1 DEF Staled, Stale, Tracked
  <2> QED
    BY <1>1, <2>1 DEF Shape, Recorded
<1>3. UNCHANGED watcher => Watched'
  BY <1>1 DEF Shape, Watched
<1>4. UNCHANGED <<pending, wake, attempts, timers, scheduler>> => Queued'
  BY <1>1 DEF Shape, Queued
<1>5. UNCHANGED <<targets, pass, scheduler>> => Passing'
  BY <1>1 DEF Shape, Passing
<1>6. UNCHANGED <<lock, watcher, pass>> => Locking'
  BY <1>1 DEF Shape, Locking
<1> QED
  BY <1>2, <1>3, <1>4, <1>5, <1>6

-----------------------------------------------------------------------------
(* The watchers. *)

\* A watcher's own step: what it becomes has its shape, and a change that is
\* not delivered yet is not let go.
Turns(w, v) ==
  /\ v \in Watchers(w) /\ Becomes(w, v)
  /\ v.at \in Busy /\ v.known # None => v.undelivered

LEMMA TurnKeepsShape ==
  ASSUME Shape, setting' = setting, NEW w \in Profiles, NEW v, Turns(w, v)
  PROVE  /\ Watched'
         /\ /\ UNCHANGED pass
            /\ \/ lock' = None
               \/ (lock' = lock /\ watcher[w].at # "write")
               \/ (lock' = w /\ v.at = "write")
            => Locking'
<1>1. Profiles' = Profiles /\ \A pr : Watchers(pr)' = Watchers(pr)
  BY ProfilesStay
<1>2. /\ DOMAIN watcher' = Profiles
      /\ \A u \in Profiles : watcher'[u] = IF u = w THEN v ELSE watcher[u]
  BY DEF Turns, Becomes, Shape, Watched
<1>3. Watched'
  BY <1>1, <1>2 DEF Shape, Watched, Turns
<1> QED
  BY <1>1, <1>2, <1>3 DEF Shape, Locking

\* Giving back keeps the change: the watcher still has to report it.
LEMMA GiveBackTurns ==
  ASSUME Shape, NEW w \in Profiles, watcher[w].at \in Busy,
         NEW value \in Watchers(w), GiveBack(w, value),
         value.known = watcher[w].known, value.undelivered = watcher[w].undelivered
  PROVE  \E v : /\ Turns(w, v) /\ v.at \in {"idle", "enqueue"}
                /\ v.at \in Busy \/ v.undelivered
<1> DEFINE v == Freed(value, IF value.known = None THEN "enqueue" ELSE "idle")
<1>1. v \in Watchers(w) /\ v.known = value.known /\ v.undelivered = value.undelivered
      /\ v.at = IF value.known = None THEN "enqueue" ELSE "idle"
  BY DEF Freed, Watchers, WatcherSteps
<1>2. value.known # None => value.undelivered
  BY DEF Shape, Watched
<1> QED
  BY <1>1, <1>2 DEF Turns, GiveBack, Busy

LEMMA NextMarkTurns ==
  ASSUME Shape, NEW w \in Profiles, watcher[w].at \in Busy,
         NEW s, NEW missed \in BOOLEAN, NextMark(w, s, missed)
  PROVE  \E v : /\ Turns(w, v) /\ v.at \in {"lock", "idle", "enqueue"}
                /\ v.at \in Busy \/ v.undelivered
<1> DEFINE value == [watcher[w] EXCEPT !.left = @ \ {s}, !.missed = missed]
<1>1. /\ value \in Watchers(w) /\ value.known = watcher[w].known
      /\ value.undelivered = watcher[w].undelivered
  BY DEF Shape, Watched, Watchers
<1>2. value.known # None => value.undelivered
  BY <1>1 DEF Shape, Watched
<1>3. ASSUME NEW step \in {"lock", "enqueue"}, Becomes(w, [value EXCEPT !.at = step])
      PROVE  \E v : Turns(w, v) /\ v.at = step
  <2>1. /\ [value EXCEPT !.at = step] \in Watchers(w)
        /\ [value EXCEPT !.at = step].at = step
        /\ [value EXCEPT !.at = step].known = value.known
        /\ [value EXCEPT !.at = step].undelivered = value.undelivered
    BY <1>1 DEF Watchers, WatcherSteps
  <2> QED
    BY <1>2, <1>3, <2>1 DEF Turns
<1>4. CASE GiveBack(w, value)
  BY <1>1, <1>4, GiveBackTurns
<1>5. CASE ~GiveBack(w, value)
  BY <1>3, <1>5 DEF NextMark, Busy
<1> QED
  BY <1>4, <1>5

LEMMA MarkDependentsRecorded ==
  ASSUME Shape, setting' = setting, UNCHANGED tree, overtaken' \in [Profiles -> BOOLEAN],
         NEW changed, MarkDependents(changed)
  PROVE  Recorded'
<1> DEFINE dependents == {pr \in Profiles : Tracked(pr) /\ Uses[pr] \cap changed # {}}
<1>1. Profiles' = Profiles /\ \A pr : Records(pr)' = Records(pr)
  BY ProfilesStay
<1>2. /\ DOMAIN record' = Profiles
      /\ \A pr \in Profiles : record'[pr] = IF pr \in dependents
                                THEN [record[pr] EXCEPT !.stale = TRUE] ELSE record[pr]
      /\ cached' = Staled \cup dependents
  BY DEF MarkDependents
<1>3. \A pr \in Profiles : record'[pr] \in Records(pr)
  BY <1>2 DEF Shape, Recorded, Records, Tracked
<1>4. Staled' \subseteq cached'
  BY <1>1, <1>2 DEF Staled, Stale, Tracked
<1>5. cached' \subseteq Profiles
  BY <1>2 DEF Staled
<1> QED
  BY <1>1, <1>2, <1>3, <1>4, <1>5 DEF Shape, Recorded

\* Notice, Stop and Observe only concern the watcher and the manager's cache.
LEMMA NoticeShape ==
  ASSUME Shape, NEW w \in Profiles, Notice(w)
  PROVE  Shape'
<1> DEFINE v == [watcher[w] EXCEPT !.at = "observe", !.known = View(w), !.undelivered = TRUE]
<1>1. View(w) \in Manifests(w)
  BY ViewTyped DEF Shape
<1>2. v \in Watchers(w) /\ v.undelivered = TRUE
  BY <1>1 DEF Shape, Watched, Watchers, WatcherSteps
<1>3. Turns(w, v) /\ setting' = setting
  BY <1>2 DEF Turns, Notice
<1>4. Recorded'
  <2>1. Profiles' = Profiles /\ \A pr : Records(pr)' = Records(pr)
    BY <1>3, ProfilesStay
  <2>2. Staled' = Staled
    BY <2>1 DEF Notice, Staled, Stale, Tracked
  <2>3. overtaken' \in [Profiles -> BOOLEAN]
    BY DEF Notice, Shape, Recorded
  <2> QED
    BY <2>1, <2>2, <2>3 DEF Notice, Shape, Recorded, sources
<1>5. Watched' /\ Locking'
  BY <1>3, TurnKeepsShape DEF Notice, At, passes
<1>6. Queued' /\ Passing'
  BY <1>3, Untouched DEF Notice, queue, passes
<1> QED
  BY <1>4, <1>5, <1>6 DEF Shape

LEMMA StopShape ==
  ASSUME Shape, NEW w \in Profiles, Stop(w)
  PROVE  Shape'
<1> DEFINE v == [watcher[w] EXCEPT !.at = "stopped"]
<1>1. v \in Watchers(w) /\ v.at = "stopped"
  BY DEF Shape, Watched, Watchers, WatcherSteps
<1>2. Turns(w, v) /\ setting' = setting
  BY <1>1 DEF Turns, Stop, Busy
<1>3. Watched' /\ Locking'
  BY <1>2, TurnKeepsShape DEF Stop, At, passes
<1> QED
  BY <1>2, <1>3, Untouched DEF Shape, Stop, sources, queue, passes

\* Every refresh reads all the stale profiles of the state file.
LEMMA RefreshRecorded ==
  ASSUME Shape, setting' = setting, UNCHANGED <<tree, record, overtaken>>,
         cached' = Staled \/ UNCHANGED cached
  PROVE  Recorded'
<1>1. Profiles' = Profiles /\ \A pr : Records(pr)' = Records(pr)
  BY ProfilesStay
<1>2. Staled' = Staled /\ Staled \subseteq Profiles
  BY <1>1 DEF Staled, Stale, Tracked
<1> QED
  BY <1>1, <1>2 DEF Shape, Recorded

LEMMA ObserveTurns ==
  ASSUME Shape, NEW w \in Profiles, Observe(w)
  PROVE  \E v : Turns(w, v) /\ v.at \in {"lock", "enqueue"}
<1>1. View(w) \in Manifests(w)
  BY ViewTyped DEF Shape
<1>2. /\ watcher[w] \in Watchers(w)
      /\ watcher[w].known # None => watcher[w].undelivered
  BY DEF Shape, Watched, Observe, At, Busy
<1>3. CASE Becomes(w, [watcher[w] EXCEPT !.at = "lock", !.seen = View(w)])
  <2> DEFINE v == [watcher[w] EXCEPT !.at = "lock", !.seen = View(w)]
  <2>1. /\ v \in Watchers(w) /\ v.at = "lock" /\ v.known = watcher[w].known
        /\ v.undelivered = watcher[w].undelivered
    BY <1>1, <1>2 DEF Watchers, WatcherSteps
  <2> QED
    BY <1>2, <1>3, <2>1 DEF Turns
<1>4. CASE Becomes(w, [watcher[w] EXCEPT !.at = "lock", !.left = Uses[w]])
  <2> DEFINE v == [watcher[w] EXCEPT !.at = "lock", !.left = Uses[w]]
  <2>1. /\ v \in Watchers(w) /\ v.at = "lock" /\ v.known = watcher[w].known
        /\ v.undelivered = watcher[w].undelivered
    BY <1>2 DEF Watchers, WatcherSteps
  <2> QED
    BY <1>2, <1>4, <2>1 DEF Turns
<1>5. CASE Becomes(w, [watcher[w] EXCEPT !.at = "enqueue"])
  <2> DEFINE v == [watcher[w] EXCEPT !.at = "enqueue"]
  <2>1. /\ v \in Watchers(w) /\ v.at = "enqueue" /\ v.known = watcher[w].known
        /\ v.undelivered = watcher[w].undelivered
    BY <1>2 DEF Watchers, WatcherSteps
  <2> QED
    BY <1>2, <1>5, <2>1 DEF Turns
<1> QED
  BY <1>3, <1>4, <1>5 DEF Observe

LEMMA ObserveShape ==
  ASSUME Shape, NEW w \in Profiles, Observe(w)
  PROVE  Shape'
<1>1. PICK v : Turns(w, v) /\ v.at \in {"lock", "enqueue"}
  BY ObserveTurns
<1>2. Recorded'
  BY RefreshRecorded DEF Observe, sources
<1>3. Watched' /\ Locking'
  BY <1>1, TurnKeepsShape DEF Observe, At, passes
<1> QED
  BY <1>2, <1>3, Untouched DEF Shape, Observe, queue, passes

LEMMA TakeLockTurns ==
  ASSUME Shape, NEW w \in Profiles, TakeLock(w)
  PROVE  \E v : /\ Turns(w, v)
                /\ v.at \in Busy \/ v.undelivered
                /\ \/ (lock' = w /\ v.at = "write")
                   \/ (lock' = lock /\ v.at # "write")
<1>1. /\ watcher[w] \in Watchers(w) /\ watcher[w].at = "lock"
      /\ watcher[w].known # None => watcher[w].undelivered
  BY DEF Shape, Watched, TakeLock, At, Busy
<1>2. CASE lock' = w /\ Becomes(w, [watcher[w] EXCEPT !.at = "write"])
  <2> DEFINE v == [watcher[w] EXCEPT !.at = "write"]
  <2>1. /\ v \in Watchers(w) /\ v.at = "write" /\ v.known = watcher[w].known
        /\ v.undelivered = watcher[w].undelivered
    BY <1>1 DEF Watchers, WatcherSteps
  <2> QED
    BY <1>1, <1>2, <2>1 DEF Turns, Busy
<1>3. CASE lock' = lock /\ GiveBack(w, watcher[w])
  BY <1>1, <1>3, GiveBackTurns DEF Busy
<1>4. CASE lock' = lock /\ \E s \in watcher[w].left : NextMark(w, s, TRUE)
  BY <1>1, <1>4, NextMarkTurns DEF Busy
<1> QED
  BY <1>2, <1>3, <1>4 DEF TakeLock

LEMMA TakeLockShape ==
  ASSUME Shape, NEW w \in Profiles, TakeLock(w)
  PROVE  Shape'
<1>1. PICK v : Turns(w, v) /\ ((lock' = w /\ v.at = "write") \/ (lock' = lock /\ v.at # "write"))
  BY TakeLockTurns
<1>2. Watched' /\ Locking'
  BY <1>1, TurnKeepsShape DEF TakeLock, At, passes
<1> QED
  BY <1>2, Untouched DEF Shape, TakeLock, sources, queue, passes

LEMMA InvalidateTurns ==
  ASSUME Shape, NEW w \in Profiles, Invalidate(w)
  PROVE  \E v : Turns(w, v) /\ v.at = "enqueue"
<1> DEFINE v == [watcher[w] EXCEPT !.at = "enqueue"]
<1>1. /\ v \in Watchers(w) /\ v.at = "enqueue" /\ v.known = watcher[w].known
      /\ v.undelivered = watcher[w].undelivered
      /\ watcher[w].known # None => watcher[w].undelivered
  BY DEF Shape, Watched, Watchers, WatcherSteps, Invalidate, At, Busy
<1> QED
  BY <1>1 DEF Turns, Invalidate

LEMMA MarkStaleTurns ==
  ASSUME Shape, NEW w \in Profiles, MarkStale(w)
  PROVE  \E v : Turns(w, v) /\ (v.at \in Busy \/ v.undelivered)
<1>1. watcher[w].at \in Busy /\ watcher[w].missed \in BOOLEAN
  BY DEF Shape, Watched, Watchers, MarkStale, At, Busy
<1> QED
  BY <1>1, NextMarkTurns DEF MarkStale

LEMMA WritesShape ==
  ASSUME Shape, NEW w \in Profiles, Invalidate(w) \/ MarkStale(w)
  PROVE  Shape'
<1>1. PICK v : Turns(w, v)
  BY InvalidateTurns, MarkStaleTurns
<1>2. setting' = setting /\ lock' = None
  BY DEF Invalidate, MarkStale
<1>3. Recorded'
  <2>1. overtaken' \in [Profiles -> BOOLEAN]
    BY DEF Invalidate, MarkStale, Shape, Recorded
  <2> QED
    BY <1>2, <2>1, MarkDependentsRecorded DEF Invalidate, MarkStale, sources
<1>4. Watched' /\ Locking'
  BY <1>1, <1>2, TurnKeepsShape DEF Invalidate, MarkStale, passes
<1> QED
  BY <1>2, <1>3, <1>4, Untouched DEF Shape, Invalidate, MarkStale, queue, passes

LEMMA EnqueueTyped ==
  ASSUME Shape, NEW prs \in SUBSET Profiles, Enqueue(prs)
  PROVE  pending' \subseteq Profiles /\ wake' \in BOOLEAN
<1>1. pending' \subseteq Profiles
  BY DEF Enqueue, Shape, Queued
<1>2. wake' \in BOOLEAN
  BY Zenon DEF Enqueue
<1> QED
  BY <1>1, <1>2

LEMMA EnqueueStaleShape ==
  ASSUME Shape, NEW w \in Profiles, EnqueueStale(w)
  PROVE  Shape'
<1> DEFINE v == Freed([watcher[w] EXCEPT !.undelivered = FALSE], "idle")
<1>1. v \in Watchers(w) /\ v.at = "idle"
  BY DEF Shape, Watched, Watchers, WatcherSteps, Freed
<1>2. Turns(w, v) /\ setting' = setting /\ Profiles' = Profiles
  BY <1>1, ProfilesStay DEF Turns, EnqueueStale, Busy
<1>3. Watched' /\ Locking'
  BY <1>2, TurnKeepsShape DEF EnqueueStale, At, passes
<1>4. cached \subseteq Profiles
  BY DEF Shape, Recorded
<1>5. attempts' \in [Profiles -> Nat]
  BY DEF EnqueueStale, Shape, Queued
<1>6. Queued'
  BY <1>2, <1>4, <1>5, EnqueueTyped DEF EnqueueStale, Shape, Queued
<1> QED
  BY <1>2, <1>3, <1>6, Untouched DEF Shape, EnqueueStale, sources, passes

LEMMA WatchShape ==
  ASSUME Shape, NEW w \in Profiles, Watch(w) \/ Stop(w)
  PROVE  Shape'
BY NoticeShape, StopShape, ObserveShape, TakeLockShape, WritesShape, EnqueueStaleShape DEF Watch

-----------------------------------------------------------------------------
(* The scheduler. *)

\* A retry and a success change the budget and the timers of their profile only.
LEMMA RetryTyped ==
  ASSUME Shape, NEW pr \in Profiles
  PROVE  /\ Retry(pr) => /\ attempts' \in [Profiles -> Nat] /\ timers' \in [Profiles -> Nat]
                         /\ \A q \in Profiles \ {pr} : UNCHANGED <<attempts[q], timers[q]>>
                         /\ attempts'[pr] < MaxAttempts => timers'[pr] > 0
         /\ Clear(pr) => /\ attempts' \in [Profiles -> Nat] /\ timers' \in [Profiles -> Nat]
                         /\ \A q \in Profiles \ {pr} : UNCHANGED <<attempts[q], timers[q]>>
<1>1. attempts \in [Profiles -> Nat] /\ timers \in [Profiles -> Nat]
  BY DEF Shape, Queued
<1>2. ASSUME Retry(pr)
      PROVE  /\ attempts' \in [Profiles -> Nat] /\ timers' \in [Profiles -> Nat]
             /\ \A q \in Profiles \ {pr} : UNCHANGED <<attempts[q], timers[q]>>
             /\ attempts'[pr] < MaxAttempts => timers'[pr] > 0
  <2>1. attempts' \in [Profiles -> Nat] /\ \A q \in Profiles \ {pr} : attempts'[q] = attempts[q]
    BY <1>1, <1>2 DEF Retry
  <2>2. timers' = [timers EXCEPT ![pr] = IF attempts'[pr] < MaxAttempts
                                           THEN timers[pr] + 1 ELSE timers[pr]]
    BY <1>2 DEF Retry
  <2> QED
    BY <1>1, <2>1, <2>2
<1>3. ASSUME Clear(pr)
      PROVE  /\ attempts' \in [Profiles -> Nat] /\ timers' \in [Profiles -> Nat]
             /\ \A q \in Profiles \ {pr} : UNCHANGED <<attempts[q], timers[q]>>
  BY <1>1, <1>3 DEF Clear
<1> QED
  BY <1>2, <1>3

\* The scheduler is alone in moving itself on, unless it waits for a pass.
LEMMA SchedulerMoves ==
  ASSUME Shape, setting' = setting, scheduler.at # "rebuild",
         scheduler' \in [at: SchedulerSteps, on: Profiles \cup {None}],
         scheduler'.on = None <=> scheduler'.at \in {"wait", "next"}
  PROVE  /\ /\ pending' \subseteq Profiles /\ wake' \in BOOLEAN
            /\ attempts' \in [Profiles -> Nat] /\ timers' \in [Profiles -> Nat]
            => Queued'
         /\ UNCHANGED <<targets, pass>> => Passing'
<1>1. Profiles' = Profiles /\ FullPasses' = FullPasses /\ \A pr : Manifests(pr)' = Manifests(pr)
  BY ProfilesStay
<1> QED
  BY <1>1 DEF Shape, Queued, Passing

LEMMA WakeShape == ASSUME Shape, Wake PROVE Shape'
<1>1. /\ scheduler.at # "rebuild" /\ setting' = setting
      /\ scheduler' \in [at: SchedulerSteps, on: Profiles \cup {None}]
      /\ scheduler'.on = None <=> scheduler'.at \in {"wait", "next"}
  BY DEF Wake, Scheduled, NextOne, SchedulerSteps
<1>2. Queued' /\ Passing'
  BY <1>1, SchedulerMoves DEF Wake, passes, Shape, Queued
<1> QED
  BY <1>1, <1>2, Untouched DEF Shape, Wake, sources, passes

LEMMA TakeShape == ASSUME Shape, Take PROVE Shape'
<1>1. /\ scheduler.at # "rebuild" /\ setting' = setting
      /\ scheduler' \in [at: SchedulerSteps, on: Profiles \cup {None}]
      /\ scheduler'.on = None <=> scheduler'.at \in {"wait", "next"}
      /\ pending' \subseteq Profiles
  <2>1. Profiles \subseteq Names /\ pending \subseteq Profiles
    BY Profiled DEF Shape, Recorded, Queued
  <2>2. \/ scheduler' = [at |-> "wait", on |-> None]
        \/ \E pr \in Profiles : scheduler' = [at |-> "check", on |-> pr]
    BY <2>1 DEF Take, Waiting
  <2>3. /\ scheduler' \in [at: SchedulerSteps, on: Profiles \cup {None}]
        /\ scheduler'.on = None <=> scheduler'.at \in {"wait", "next"}
    BY <2>1, <2>2 DEF SchedulerSteps
  <2> QED
    BY <2>1, <2>3 DEF Take, Scheduled
<1>2. Queued' /\ Passing'
  BY <1>1, SchedulerMoves DEF Take, passes, Shape, Queued
<1> QED
  BY <1>1, <1>2, Untouched DEF Shape, Take, sources, passes

\* The profile the scheduler works on.
LEMMA OnTyped ==
  ASSUME Shape, scheduler.at \in {"check", "start", "rebuild", "recheck"}
  PROVE  /\ scheduler.on \in Profiles
         /\ \A step \in {"start", "rebuild", "recheck"} : Working(step) =>
              scheduler' = [at |-> step, on |-> scheduler.on]
BY DEF Shape, Queued, Working

LEMMA CheckShape == ASSUME Shape, Check PROVE Shape'
<1>1. scheduler.at = "check" /\ setting' = setting /\ scheduler.on \in Profiles
  BY OnTyped DEF Check, Scheduled
<1>2. /\ scheduler' \in [at: SchedulerSteps, on: Profiles \cup {None}]
      /\ scheduler'.on = None <=> scheduler'.at \in {"wait", "next"}
  <2>1. CASE Working("start")
    <3>1. scheduler' = [at |-> "start", on |-> scheduler.on] /\ scheduler.on # None
      BY <1>1, <2>1, OnTyped DEF Shape, Queued
    <3> QED
      BY <1>1, <3>1 DEF SchedulerSteps
  <2>2. CASE NextOne
    BY <2>2 DEF NextOne, SchedulerSteps
  <2> QED
    BY <2>1, <2>2 DEF Check
<1>3. attempts' \in [Profiles -> Nat] /\ timers' \in [Profiles -> Nat]
  BY <1>1, RetryTyped DEF Check, Shape, Queued
<1>4. Queued' /\ Passing'
  BY <1>1, <1>2, <1>3, SchedulerMoves DEF Check, passes, Shape, Queued
<1>5. Recorded'
  <2>1. cached' = Staled \/ UNCHANGED cached
    BY DEF Check
  <2> QED
    BY <1>1, <2>1, RefreshRecorded DEF Check, sources
<1> QED
  BY <1>1, <1>4, <1>5, Untouched DEF Shape, Check, passes

LEMMA RecheckShape == ASSUME Shape, Recheck PROVE Shape'
<1>1. scheduler.at = "recheck" /\ setting' = setting /\ scheduler.on \in Profiles
  BY OnTyped DEF Recheck, Scheduled
<1>2. /\ scheduler' \in [at: SchedulerSteps, on: Profiles \cup {None}]
      /\ scheduler'.on = None <=> scheduler'.at \in {"wait", "next"}
  BY DEF Recheck, NextOne, SchedulerSteps
<1>3. attempts' \in [Profiles -> Nat] /\ timers' \in [Profiles -> Nat]
  BY <1>1, RetryTyped DEF Recheck, Shape, Queued
<1>4. Queued' /\ Passing'
  BY <1>1, <1>2, <1>3, SchedulerMoves DEF Recheck, passes, Shape, Queued
<1>5. Recorded'
  <2>1. cached' = Staled \/ UNCHANGED cached
    BY DEF Recheck
  <2> QED
    BY <1>1, <2>1, RefreshRecorded DEF Recheck, sources
<1> QED
  BY <1>1, <1>4, <1>5, Untouched DEF Shape, Recheck, passes

LEMMA TimerShape == ASSUME Shape, NEW pr \in Profiles, TimerFires(pr) PROVE Shape'
<1>1. setting' = setting /\ Profiles' = Profiles
  BY ProfilesStay DEF TimerFires
<1>2. timers' \in [Profiles -> Nat]
  BY DEF TimerFires, Shape, Queued
<1>3. pending' \subseteq Profiles /\ wake' \in BOOLEAN
  BY EnqueueTyped DEF TimerFires
<1>4. Queued'
  BY <1>1, <1>2, <1>3 DEF TimerFires, Shape, Queued
<1> QED
  BY <1>1, <1>4, Untouched DEF Shape, TimerFires, sources, passes

-----------------------------------------------------------------------------
(* The full passes. *)

\* A pass starts alone, and the scheduler waits for one of its own.
LEMMA LaunchShape ==
  ASSUME Shape, setting' = setting, NEW p \in Passes, NEW pr \in Profiles,
         NEW isChild \in BOOLEAN, Launch(p, pr, isChild), UNCHANGED <<watcher, lock>>,
         isChild => scheduler'.at = "rebuild"
  PROVE  Passing' /\ Locking'
<1>1. Profiles' = Profiles /\ FullPasses' = FullPasses /\ \A q : Manifests(q)' = Manifests(q)
  BY ProfilesStay
<1>2. View(pr) \in Manifests(pr)
  BY ViewTyped DEF Shape
<1> DEFINE new == [at |-> "verify", on |-> pr, manifest |-> View(pr), child |-> isChild]
<1>3. new \in FullPasses /\ new # Resting
  BY <1>2 DEF FullPasses, Resting
<1>4. \A q \in Passes : pass'[q] = IF q = p THEN new ELSE Resting
  BY DEF Launch, Shape, Passing
<1>5. pass' \in [Passes -> FullPasses]
  BY <1>3 DEF Launch, Shape, Passing
<1>6. Passing'
  BY <1>1, <1>2, <1>3, <1>4, <1>5 DEF Launch, Passing
<1>7. Locking'
  BY <1>1, <1>4 DEF Shape, Locking, Passing, Launch, Resting
<1> QED
  BY <1>6, <1>7

LEMMA RebuildShape == ASSUME Shape, Rebuild PROVE Shape'
<1>1. /\ scheduler.at = "start" /\ setting' = setting /\ scheduler.on \in Profiles
      /\ scheduler.on # None /\ Profiles' = Profiles
  BY OnTyped, ProfilesStay DEF Rebuild, Scheduled, Shape, Queued
<1>2. \E step \in {"rebuild", "recheck"} : scheduler' = [at |-> step, on |-> scheduler.on]
  BY <1>1, OnTyped DEF Rebuild
<1>3. Queued'
  BY <1>1, <1>2 DEF Rebuild, Shape, Queued, SchedulerSteps
<1>4. Passing' /\ Locking'
  <2>1. CASE \E p \in Passes : Launch(p, scheduler.on, TRUE) /\ Working("rebuild")
    <3>1. scheduler'.at = "rebuild"
      BY <1>1, <2>1, OnTyped
    <3> QED
      BY <1>1, <2>1, <3>1, LaunchShape DEF Rebuild
  <2>2. CASE UNCHANGED <<targets, pass>>
    <3>1. /\ scheduler' \in [at: SchedulerSteps, on: Profiles \cup {None}]
          /\ scheduler'.on = None <=> scheduler'.at \in {"wait", "next"}
      BY <1>1, <1>2 DEF SchedulerSteps
    <3> QED
      BY <1>1, <2>2, <3>1, SchedulerMoves, Untouched DEF Rebuild
  <2> QED
    BY <2>1, <2>2 DEF Rebuild
<1> QED
  BY <1>1, <1>3, <1>4, Untouched DEF Shape, Rebuild, sources

LEMMA UserPassShape ==
  ASSUME Shape, NEW p \in Passes, NEW pr \in Profiles, UserPass(p, pr)
  PROVE  Shape'
<1>1. setting' = setting /\ Launch(p, pr, FALSE) /\ UNCHANGED <<watcher, lock>>
  BY DEF UserPass
<1>2. Passing' /\ Locking'
  BY <1>1, LaunchShape
<1> QED
  BY <1>1, <1>2, Untouched DEF Shape, UserPass, sources, queue

\* A pass that ends leaves no lock behind, and the scheduler its profile.
LEMMA EndsShape ==
  ASSUME Shape, setting' = setting, NEW p \in Passes, pass[p] # Resting, Ends(p),
         UNCHANGED <<watcher, pending, wake, attempts, timers>>
  PROVE  /\ Queued' /\ Passing' /\ Locking'
         /\ scheduler'.on = scheduler.on
         /\ scheduler'.at = "wait" => scheduler.at = "wait"
<1>1. Profiles' = Profiles /\ FullPasses' = FullPasses /\ \A q : Manifests(q)' = Manifests(q)
  BY ProfilesStay
<1>2. \A q \in Passes : pass'[q] = Resting
  BY DEF Shape, Passing, Ends
<1>3. pass' \in [Passes -> FullPasses]
  BY DEF Shape, Passing, Ends, Resting, FullPasses
<1>4. \/ scheduler' = scheduler
      \/ scheduler.at = "rebuild" /\ scheduler' = [at |-> "recheck", on |-> scheduler.on]
  BY OnTyped DEF Ends, Shape, Passing
<1>5. Queued'
  BY <1>1, <1>4, OnTyped DEF Shape, Queued, SchedulerSteps
<1>6. Passing'
  BY <1>1, <1>2, <1>3 DEF Passing, Ends
<1>7. Locking'
  <2>1. \A q \in Passes \ {p} : pass[q] = Resting /\ pass[q].at = "idle"
    BY DEF Shape, Passing, Resting
  <2> QED
    BY <1>1, <2>1 DEF Shape, Locking, Ends
<1> QED
  BY <1>4, <1>5, <1>6, <1>7

\* A pass that goes on from one step to the next.
LEMMA PassGoes ==
  ASSUME Shape, setting' = setting, NEW p \in Passes, NEW step \in {"record", "write"},
         pass[p] # Resting, pass[p].at # "write", pass' = [pass EXCEPT ![p].at = step],
         UNCHANGED <<targets, scheduler, watcher>>, lock' = lock \/ (lock' = p /\ step = "write")
  PROVE  Passing' /\ Locking'
<1>1. Profiles' = Profiles /\ FullPasses' = FullPasses /\ \A q : Manifests(q)' = Manifests(q)
  BY ProfilesStay
<1>2. /\ pass' \in [Passes -> FullPasses]
      /\ \A q \in Passes \ {p} : pass'[q] = pass[q]
      /\ pass'[p].at = step /\ pass'[p].on = pass[p].on /\ pass'[p].manifest = pass[p].manifest
      /\ pass'[p].child = pass[p].child
  BY DEF Shape, Passing, FullPasses
<1>3. pass'[p] # Resting
  BY <1>2 DEF Resting
<1>4. Passing'
  BY <1>1, <1>2, <1>3 DEF Shape, Passing
<1>5. Locking'
  BY <1>1, <1>2 DEF Shape, Locking
<1> QED
  BY <1>4, <1>5

\* The state file takes what a pass publishes.
LEMMA PublishedRecorded ==
  ASSUME Shape, NEW p \in Passes, RecordPublished(p)
  PROVE  Recorded' /\ Staled' \subseteq Staled
<1> DEFINE pr == pass[p].on  m == pass[p].manifest
<1>1. setting' = setting /\ Profiles' = Profiles /\ \A q : Records(q)' = Records(q)
  BY ProfilesStay DEF RecordPublished
<1>2. pr \in Profiles /\ m \in Manifests(pr)
  BY DEF Shape, Passing, RecordPublished, Resting
<1>3. /\ DOMAIN record' = Profiles
      /\ \A q \in Profiles : record'[q] = IF q = pr THEN [manifest |-> m, stale |-> FALSE]
                                                    ELSE record[q]
  BY DEF RecordPublished, Shape, Recorded
<1>4. \A q \in Profiles : record'[q] \in Records(q)
  <2>1. [manifest |-> m, stale |-> FALSE] \in Records(pr)
    BY <1>2 DEF Records
  <2>2. \A q \in Profiles : record[q] \in Records(q)
    BY DEF Shape, Recorded
  <2> HIDE DEF pr, m
  <2> QED
    BY <1>3, <2>1, <2>2
<1>5. Staled' \subseteq Staled
  BY <1>1, <1>3 DEF Staled, Stale, Tracked
<1>6. overtaken' \in [Profiles -> BOOLEAN]
  <2>1. MovedPast(pr, m) \in BOOLEAN
    BY Zenon DEF MovedPast
  <2>2. overtaken' = [overtaken EXCEPT ![pr] = MovedPast(pr, m)]
    BY DEF RecordPublished
  <2> HIDE DEF pr, m
  <2> QED
    BY <2>1, <2>2 DEF Shape, Recorded
<1> QED
  BY <1>1, <1>3, <1>4, <1>5, <1>6 DEF RecordPublished, Shape, Recorded, sources

LEMMA PassShape ==
  ASSUME Shape, NEW p \in Passes, Pass(p) \/ PassFails(p)
  PROVE  Shape'
<1>1. /\ setting' = setting /\ UNCHANGED <<tree, watcher, pending, wake, attempts, timers>>
      /\ pass[p] # Resting
  BY DEF Pass, Verify, RecordLock, RecordPublished, PassFails, sources, Resting
<1>2. Recorded'
  BY <1>1, Untouched, PublishedRecorded
  DEF Pass, Verify, RecordLock, PassFails, sources
<1>3. CASE Ends(p)
  BY <1>1, <1>2, <1>3, EndsShape, Untouched DEF Shape
<1>4. CASE ~Ends(p)
  <2>1. /\ UNCHANGED <<targets, scheduler>>
        /\ pass[p].at # "write"
        /\ \E step \in {"record", "write"} :
             /\ pass' = [pass EXCEPT ![p].at = step]
             /\ lock' = lock \/ (lock' = p /\ step = "write")
    BY <1>4 DEF Pass, Verify, RecordLock, RecordPublished, PassFails
  <2>2. Passing' /\ Locking'
    BY <1>1, <2>1, PassGoes
  <2> QED
    BY <1>1, <1>2, <2>1, <2>2, Untouched DEF Shape
<1> QED
  BY <1>3, <1>4

-----------------------------------------------------------------------------
(* The environment, and the type invariant. *)

LEMMA StartingTyped == \A w : Starting \in Watchers(w) /\ Starting.known = None
BY DEF Starting, Watchers, WatcherSteps

LEMMA EditShape ==
  ASSUME Shape, NEW s, Edit(s)
  PROVE  Shape'
<1>1. setting' = setting /\ tree' \in [Sources -> Contents]
  BY DEF Edit, Shape, Recorded
<1>2. Profiles' = Profiles /\ \A pr : Records(pr)' = Records(pr)
  BY <1>1, ProfilesStay
<1>3. Staled' = Staled
  BY <1>2 DEF Edit, Staled, Stale, Tracked
<1>4. Recorded'
  BY <1>1, <1>2, <1>3 DEF Edit, Shape, Recorded
<1> QED
  BY <1>1, <1>4, Untouched DEF Shape, Edit, queue, passes

LEMMA RestartShape == ASSUME Shape, Restart PROVE Shape'
<1>1. setting' = setting
  BY DEF Restart
<1>2. /\ Profiles' = Profiles /\ FullPasses' = FullPasses
      /\ \A pr : /\ Records(pr)' = Records(pr) /\ Watchers(pr)' = Watchers(pr)
                 /\ Manifests(pr)' = Manifests(pr)
  BY <1>1, ProfilesStay
<1>3. Recorded'
  <2>1. Staled' = Staled /\ Staled \subseteq Profiles
    BY <1>2 DEF Restart, Staled, Stale, Tracked
  <2> QED
    BY <1>2, <2>1 DEF Restart, Shape, Recorded, sources
<1>4. Watched'
  BY <1>2, StartingTyped DEF Restart, Watched
<1>5. Queued'
  BY <1>2 DEF Restart, Queued, Waiting, SchedulerSteps
<1>6. /\ pass' \in [Passes -> FullPasses]
      /\ \A p \in Passes : /\ pass[p] = Resting => pass'[p] = Resting
                           /\ pass'[p].at = pass[p].at /\ pass'[p].on = pass[p].on
                           /\ pass'[p].manifest = pass[p].manifest /\ pass'[p].child = FALSE
  <2>1. \A p \in Passes : pass'[p] = [pass[p] EXCEPT !.child = FALSE]
    BY DEF Restart
  <2>2. \A p \in Passes : [pass[p] EXCEPT !.child = FALSE] \in FullPasses
    BY DEF Shape, Passing, FullPasses
  <2>3. pass' \in [Passes -> FullPasses]
    BY <2>2 DEF Restart
  <2>4. \A p \in Passes : pass[p] \in FullPasses
    BY DEF Shape, Passing
  <2>5. \A p \in Passes : pass[p] = Resting => pass'[p] = Resting
    BY <2>1 DEF Resting
  <2> QED
    BY <2>1, <2>3, <2>4, <2>5 DEF FullPasses
<1>7. Passing'
  <2>1. \A p \in Passes : pass[p] # Resting => pass'[p] # Resting
    BY <1>6 DEF Shape, Passing, Resting
  <2> QED
    BY <1>2, <1>6, <2>1 DEF Restart, Shape, Passing
<1>8. Locking'
  BY <1>2, <1>6 DEF Restart, Shape, Locking
<1> QED
  BY <1>3, <1>4, <1>5, <1>7, <1>8 DEF Shape

LEMMA InitShape == Init => Shape
<1> SUFFICES ASSUME Init PROVE Shape
  OBVIOUS
<1>1. setting \in Settings /\ tree \in [Sources -> Contents]
  BY DEF Init
<1>2. \A pr \in Profiles : View(pr) \in Manifests(pr)
  BY <1>1, Profiled DEF View, Manifests
<1>3. /\ DOMAIN record = Profiles /\ \A pr \in Profiles : record[pr] \in Records(pr)
      /\ Staled = {} /\ cached = {}
  <2>1. PICK tracked \in SUBSET Profiles :
          record = [pr \in Profiles |-> IF pr \in tracked
                      THEN [manifest |-> View(pr), stale |-> FALSE] ELSE None]
    BY DEF Init
  <2>2. \A pr \in Profiles : [manifest |-> View(pr), stale |-> FALSE] \in Records(pr)
    BY <1>2 DEF Records
  <2>3. \A pr \in Profiles : record[pr] \in Records(pr)
    BY <2>1, <2>2 DEF Records
  <2>4. Staled = {}
    BY <2>1 DEF Staled, Stale, Tracked
  <2> QED
    BY <2>1, <2>3, <2>4 DEF Init
<1>4. Recorded
  BY <1>1, <1>3 DEF Recorded, Init
<1>5. Watched
  BY StartingTyped DEF Init, Watched
<1>6. Queued
  BY DEF Init, Queued, Waiting, SchedulerSteps
<1>7. Passing
  BY DEF Init, Passing, FullPasses, Resting
<1> QED
  BY <1>4, <1>5, <1>6, <1>7 DEF Shape, Locking, Init

LEMMA ShapeStep == Shape /\ [Next]_vars => Shape'
<1> SUFFICES ASSUME Shape, [Next]_vars PROVE Shape'
  OBVIOUS
<1>1. CASE Schedule
  BY <1>1, WakeShape, TakeShape, CheckShape, RebuildShape, RecheckShape DEF Schedule
<1>2. CASE UNCHANGED vars
  BY <1>2, Untouched DEF vars, sources, queue, passes, Shape
<1> QED
  BY <1>1, <1>2, WatchShape, TimerShape, PassShape, UserPassShape, EditShape, RestartShape
  DEF Next

\* What the invariant says of the types.
LEMMA ShapeTyped == Shape => TypeOK
<1> SUFFICES ASSUME Shape PROVE TypeOK
  OBVIOUS
<1>1. \A w \in Profiles :
        /\ watcher[w].at \in {"idle", "observe", "lock", "write", "enqueue", "stopped"}
        /\ watcher[w].known \in {None} \cup Manifests(w)
        /\ watcher[w].seen \in {None} \cup Manifests(w)
        /\ watcher[w].left \subseteq Uses[w]
  BY DEF Shape, Watched, Watchers, WatcherSteps
<1>2. \A p \in Passes : pass[p].at \in {"idle", "verify", "record", "write"}
  BY DEF Shape, Passing, FullPasses
<1>3. /\ scheduler.at \in {"wait", "next", "check", "start", "rebuild", "recheck"}
      /\ scheduler.on \in Profiles \cup {None}
  BY DEF Shape, Queued, SchedulerSteps
<1> QED
  BY <1>1, <1>2, <1>3 DEF Shape, Recorded, Queued, Passing, Locking, TypeOK

(***************************************************************************)
(* Every variable has its type, and whoever holds the state file's lock or *)
(* the analyzer-targets lock is in the section it protects: no way out of  *)
(* a pass or a watcher keeps one (indexing.RunFull, invalidation.mutate).  *)
(***************************************************************************)
THEOREM LoopTyped == Spec => []TypeOK
<1> QED
  BY InitShape, ShapeStep, ShapeTyped, PTL DEF Spec

-----------------------------------------------------------------------------
(* Nobody is forgotten. *)

\* Every stale profile is attended to, and no queued one is slept on.
Attentive == StaleAreAttended /\ (pending # {} => wake \/ ~Scheduled("wait"))

\* What a profile that is not waited for any more has lost.
Attended(pr) == Served(pr) \/ ~Budgeted(pr) \/ \E w \in Profiles : Reporting(w)

\* A step that forgets no profile, marks none stale and queues none.
LEMMA AttentionStays ==
  ASSUME Attentive, setting' = setting, Staled' \subseteq Staled,
         \A pr \in Staled : Attended(pr) => Attended(pr)'
  PROVE  \A pr \in Profiles : Stale(pr)' => Attended(pr)'
<1>1. Profiles' = Profiles
  BY ProfilesStay
<1>2. \A pr \in Profiles : Stale(pr)' => pr \in Staled
  BY <1>1 DEF Staled
<1> QED
  BY <1>2 DEF Attentive, StaleAreAttended, Attended, Staled

\* A watcher on its way attends to every profile.
LEMMA ReportingAttends ==
  ASSUME Shape, setting' = setting, NEW w \in Profiles, NEW v, Turns(w, v),
         v.at \in Busy \/ v.undelivered,
         UNCHANGED <<pending, wake, scheduler>>, Attentive
  PROVE  Attentive'
<1>1. Profiles' = Profiles
  BY ProfilesStay
<1>2. Reporting(w)'
  BY DEF Reporting, Turns, Becomes, Shape, Watched, Busy
<1> QED
  BY <1>1, <1>2 DEF Attentive, StaleAreAttended, Scheduled

LEMMA NoticeForgetsNobody ==
  ASSUME Shape, Attentive, NEW w \in Profiles, Notice(w)
  PROVE  Attentive'
<1>1. Profiles' = Profiles /\ watcher'[w].undelivered = TRUE
  BY ProfilesStay DEF Notice, Becomes, Shape, Watched, Watchers
<1> QED
  BY <1>1 DEF Attentive, StaleAreAttended, Reporting, Notice, queue, Scheduled

LEMMA StopForgetsNobody ==
  ASSUME Shape, Attentive, NEW w \in Profiles, Stop(w)
  PROVE  Attentive'
<1>1. setting' = setting /\ Profiles' = Profiles
  BY ProfilesStay DEF Stop
<1>2. \A u \in Profiles : Reporting(u) => Reporting(u)'
  BY DEF Shape, Watched, Watchers, Stop, At, Becomes, Reporting
<1>3. Staled' = Staled
  BY <1>1 DEF Stop, Staled, Stale, Tracked
<1>4. \A pr \in Staled : Attended(pr) => Attended(pr)'
  BY <1>1, <1>2 DEF Attended, Served, Budgeted, Stop, queue
<1>5. \A pr \in Profiles : Stale(pr)' => Attended(pr)'
  BY <1>1, <1>3, <1>4, AttentionStays
<1> QED
  BY <1>1, <1>5 DEF Attentive, StaleAreAttended, Attended, Stop, queue, Scheduled

\* Every stale profile is queued, not only the watcher's own.
LEMMA EnqueueForgetsNobody ==
  ASSUME Shape, Attentive, NEW w \in Profiles, EnqueueStale(w)
  PROVE  Attentive'
<1>1. setting' = setting /\ Profiles' = Profiles
  BY ProfilesStay DEF EnqueueStale
<1>2. Staled' = Staled /\ Staled \subseteq cached
  BY <1>1 DEF EnqueueStale, Staled, Stale, Tracked, Shape, Recorded
<1>3. \A pr \in Profiles : Stale(pr)' => pr \in pending'
  BY <1>1, <1>2 DEF EnqueueStale, Enqueue, Staled
<1>4. pending' # {} => wake'
  BY DEF EnqueueStale, Enqueue
<1> QED
  BY <1>1, <1>3, <1>4 DEF Attentive, StaleAreAttended, Served

LEMMA WatchForgetsNobody ==
  ASSUME Shape, Attentive, NEW w \in Profiles, Watch(w) \/ Stop(w)
  PROVE  Attentive'
<1>1. CASE Observe(w) \/ TakeLock(w) \/ Invalidate(w) \/ MarkStale(w)
  <2>1. setting' = setting /\ UNCHANGED <<pending, wake, scheduler>>
    BY <1>1 DEF Observe, TakeLock, Invalidate, MarkStale, queue
  <2>2. \E v : Turns(w, v) /\ (v.at \in Busy \/ v.undelivered)
    BY <1>1, ObserveTurns, TakeLockTurns, InvalidateTurns, MarkStaleTurns DEF Busy
  <2> QED
    BY <2>1, <2>2, ReportingAttends
<1> QED
  BY <1>1, NoticeForgetsNobody, StopForgetsNobody, EnqueueForgetsNobody DEF Watch

\* Only what the scheduler lets go can be forgotten, and it lets go of a
\* profile that is not stale, or that has a timer or no budget left.
LEMMA SchedulerForgetsNobody ==
  ASSUME Shape, Attentive, setting' = setting, UNCHANGED <<record, watcher>>,
         \A pr \in Staled : Served(pr) \/ ~Budgeted(pr) => Served(pr)' \/ ~Budgeted(pr)'
  PROVE  \A pr \in Profiles : Stale(pr)' => Attended(pr)'
<1>1. Profiles' = Profiles /\ Staled' = Staled
  <2>1. Profiles' = Profiles
    BY ProfilesStay
  <2> QED
    BY <2>1 DEF Staled, Stale, Tracked
<1>2. \A w : Reporting(w)' = Reporting(w)
  BY DEF Reporting
<1>3. \A pr \in Staled : Attended(pr) => Attended(pr)'
  BY <1>1, <1>2 DEF Attended
<1> QED
  BY <1>1, <1>3, AttentionStays

LEMMA DoneForgetsNobody ==
  ASSUME Shape, Attentive, setting' = setting, NextOne,
         UNCHANGED <<record, watcher, pending>>, scheduler.on \in Profiles,
         \/ Retry(scheduler.on)
         \/ scheduler.on \notin Staled /\ Clear(scheduler.on)
  PROVE  Attentive'
<1>1. /\ \A q \in Profiles \ {scheduler.on} : UNCHANGED <<attempts[q], timers[q]>>
      /\ \/ scheduler.on \notin Staled
         \/ attempts'[scheduler.on] < MaxAttempts => timers'[scheduler.on] > 0
  BY RetryTyped
<1>2. \A pr \in Staled : Served(pr) \/ ~Budgeted(pr) => Served(pr)' \/ ~Budgeted(pr)'
  BY <1>1 DEF Served, Budgeted, Staled
<1>3. \A pr \in Profiles : Stale(pr)' => Attended(pr)'
  BY <1>2, SchedulerForgetsNobody
<1>4. Profiles' = Profiles /\ scheduler'.at = "next"
  BY ProfilesStay DEF NextOne
<1> QED
  BY <1>3, <1>4 DEF Attentive, StaleAreAttended, Attended, Scheduled

LEMMA ScheduleForgetsNobody ==
  ASSUME Shape, Attentive, Schedule
  PROVE  Attentive'
<1>1. setting' = setting /\ Profiles' = Profiles /\ UNCHANGED <<record, watcher>>
  <2>1. setting' = setting /\ UNCHANGED <<record, watcher>>
    BY DEF Schedule, Wake, Take, Check, Rebuild, Recheck
  <2> QED
    BY <2>1, ProfilesStay
<1> DEFINE Idle == scheduler.at \in {"wait", "next"} => \A pr \in Staled : scheduler.on # pr
<1>0. Idle
  BY Profiled DEF Shape, Recorded, Queued, Staled
<1>2. CASE Wake
  <2>1. \A pr \in Staled : Served(pr) \/ ~Budgeted(pr) => Served(pr)' \/ ~Budgeted(pr)'
    BY <1>0, <1>2 DEF Served, Budgeted, Wake, Scheduled
  <2> QED
    BY <1>1, <1>2, <2>1, SchedulerForgetsNobody
    DEF Attentive, StaleAreAttended, Attended, Wake, NextOne, Scheduled
<1>3. CASE Take
  <2>1. \A pr \in Staled : Served(pr) \/ ~Budgeted(pr) => Served(pr)' \/ ~Budgeted(pr)'
    <3>1. scheduler.at = "next" /\ UNCHANGED <<timers, attempts>>
      BY <1>3 DEF Take, Scheduled
    <3>2. \/ pending = {} /\ pending' = {}
          \/ \E pr \in pending : pending' = pending \ {pr} /\ scheduler'.on = pr
      BY <1>3 DEF Take
    <3> QED
      BY <1>0, <3>1, <3>2 DEF Served, Budgeted
  <2>2. pending' # {} => scheduler'.at # "wait"
    BY <1>3 DEF Take, Waiting
  <2> QED
    BY <1>1, <2>1, <2>2, SchedulerForgetsNobody DEF Attentive, StaleAreAttended, Attended, Scheduled
<1>4. ASSUME UNCHANGED <<pending, wake, attempts, timers>>, scheduler'.on = scheduler.on,
             scheduler'.at # "wait"
      PROVE  Attentive'
  <2>1. \A pr \in Staled : Served(pr) \/ ~Budgeted(pr) => Served(pr)' \/ ~Budgeted(pr)'
    BY <1>4 DEF Served, Budgeted
  <2> QED
    BY <1>1, <1>4, <2>1, SchedulerForgetsNobody DEF Attentive, StaleAreAttended, Attended, Scheduled
<1>5. CASE Rebuild
  <2>1. scheduler'.on = scheduler.on /\ scheduler'.at # "wait"
    <3>1. \E step \in {"rebuild", "recheck"} : scheduler' = [at |-> step, on |-> scheduler.on]
      BY <1>5, OnTyped DEF Rebuild, Scheduled
    <3> QED
      BY <3>1
  <2> QED
    BY <1>4, <1>5, <2>1 DEF Rebuild
<1>6. CASE Check \/ Recheck
  <2>1. scheduler.on \in Profiles
    BY <1>6, OnTyped DEF Check, Recheck, Scheduled
  <2>2. CASE NextOne
    BY <1>1, <1>6, <2>1, <2>2, DoneForgetsNobody DEF Check, Recheck, NextOne, Working
  <2>3. CASE ~NextOne
    <3>1. Check /\ Working("start") /\ UNCHANGED <<attempts, timers>>
      BY <1>6, <2>3 DEF Check, Recheck
    <3>2. scheduler'.on = scheduler.on /\ scheduler'.at # "wait"
      BY <3>1, OnTyped DEF Check, Scheduled
    <3> QED
      BY <1>4, <3>1, <3>2 DEF Check
  <2> QED
    BY <2>2, <2>3
<1> QED
  BY <1>2, <1>3, <1>5, <1>6 DEF Schedule

\* A pass leaves the queue and the scheduler's profile alone.
LEMMA PassForgetsNobody ==
  ASSUME Shape, Attentive, setting' = setting, Staled' \subseteq Staled,
         UNCHANGED <<watcher, pending, wake, attempts, timers>>,
         scheduler'.on = scheduler.on, scheduler'.at = "wait" => scheduler.at = "wait"
  PROVE  Attentive'
<1>1. Profiles' = Profiles
  BY ProfilesStay
<1>2. \A pr \in Staled : Attended(pr) => Attended(pr)'
  BY <1>1 DEF Attended, Served, Budgeted, Reporting
<1>3. \A pr \in Profiles : Stale(pr)' => Attended(pr)'
  BY <1>2, AttentionStays
<1> QED
  BY <1>1, <1>3 DEF Attentive, StaleAreAttended, Attended, Scheduled

LEMMA ForgottenStep == Shape /\ Attentive /\ [Next]_vars => Attentive'
<1> SUFFICES ASSUME Shape, Attentive, [Next]_vars PROVE Attentive'
  OBVIOUS
<1>1. setting' = setting /\ Profiles' = Profiles
  BY SettingStays, ProfilesStay
<1>2. UNCHANGED record => Staled' \subseteq Staled
  BY <1>1 DEF Staled, Stale, Tracked
<1>3. ASSUME NEW pr \in Profiles, TimerFires(pr) PROVE Attentive'
  <2>1. /\ \A q \in Profiles : Attended(q) => Attended(q)'
        /\ pending' # {} => wake'
    <3>1. /\ pr \in pending' /\ pending \subseteq pending'
          /\ \A q \in Profiles \ {pr} : timers'[q] = timers[q]
      BY <1>3 DEF TimerFires, Enqueue, Shape, Queued
    <3>2. \A w : Reporting(w)' = Reporting(w)
      BY <1>3 DEF TimerFires, Reporting
    <3> QED
      BY <1>1, <1>3, <3>1, <3>2 DEF TimerFires, Enqueue, Attended, Served, Budgeted
  <2>2. \A q \in Profiles : Stale(q)' => Attended(q)'
    BY <1>1, <1>2, <1>3, <2>1, AttentionStays DEF TimerFires, Staled
  <2> QED
    BY <1>1, <2>1, <2>2 DEF Attentive, StaleAreAttended, Attended
<1>4. ASSUME NEW p \in Passes, Pass(p) \/ PassFails(p) PROVE Attentive'
  <2>1. UNCHANGED <<watcher, pending, wake, attempts, timers>> /\ pass[p] # Resting
    BY <1>4 DEF Pass, Verify, RecordLock, RecordPublished, PassFails, Resting
  <2>2. Staled' \subseteq Staled
    BY <1>2, <1>4, PublishedRecorded DEF Pass, Verify, RecordLock, PassFails
  <2>3. scheduler'.on = scheduler.on /\ (scheduler'.at = "wait" => scheduler.at = "wait")
    <3>1. CASE Ends(p)
      BY <1>1, <2>1, <3>1, EndsShape
    <3>2. CASE ~Ends(p)
      BY <1>4, <3>2 DEF Pass, Verify, RecordLock, RecordPublished, PassFails
    <3> QED
      BY <3>1, <3>2
  <2> QED
    BY <1>1, <2>1, <2>2, <2>3, PassForgetsNobody
<1>5. ASSUME NEW p \in Passes, NEW pr \in Profiles, UserPass(p, pr) PROVE Attentive'
  BY <1>1, <1>2, <1>5, PassForgetsNobody DEF UserPass, queue
<1>6. ASSUME NEW s, Edit(s) PROVE Attentive'
  BY <1>1, <1>2, <1>6, PassForgetsNobody DEF Edit, queue
<1>7. CASE Restart
  <2>1. \A w \in Profiles : Reporting(w)'
    BY <1>1, <1>7 DEF Restart, Starting, Reporting
  <2> QED
    BY <1>1, <1>7, <2>1 DEF Attentive, StaleAreAttended, Restart
<1>8. CASE UNCHANGED vars
  BY <1>1, <1>2, <1>8, PassForgetsNobody DEF vars, queue
<1> QED
  BY <1>3, <1>4, <1>5, <1>6, <1>7, <1>8, WatchForgetsNobody, ScheduleForgetsNobody DEF Next

LEMMA InitForgetsNobody == Init => Attentive
<1> SUFFICES ASSUME Init PROVE Attentive
  OBVIOUS
<1>1. pending = {} /\ \A w \in Profiles : Reporting(w)
  BY DEF Init, Reporting, Starting
<1> QED
  BY <1>1 DEF Attentive, StaleAreAttended

-----------------------------------------------------------------------------
(* No edit is forgotten, unless the watcher was overtaken. *)

\* OnChange has returned, or has only the stale profiles left to queue.
Delivered(w) == At(w, "enqueue") \/ (At(w, "idle") /\ ~watcher[w].undelivered)

\* What a watcher has delivered was compared with the record of its profile.
Compared(w) ==
  Tracked(w) /\ ~Stale(w) /\ ~overtaken[w] /\ Delivered(w) =>
    watcher[w].known \in {None, record[w].manifest}

AllCompared == \A w \in Profiles : Compared(w)

\* What is compared stays so while the watcher delivers nothing else, and the
\* record, unless it is marked, is the same.
LEMMA StillCompared ==
  ASSUME NEW w, Compared(w), overtaken'[w] = overtaken[w],
         Delivered(w)' => Delivered(w) /\ watcher'[w].known = watcher[w].known,
         record'[w] = record[w] \/ record'[w].stale
  PROVE  Compared(w)'
<1> SUFFICES ASSUME Tracked(w)', ~Stale(w)', ~overtaken'[w], Delivered(w)'
             PROVE  watcher'[w].known \in {None, record'[w].manifest}
  BY DEF Compared
<1>1. record'[w] = record[w]
  BY DEF Stale
<1> QED
  BY <1>1 DEF Compared, Tracked, Stale

\* A watcher that has nothing delivered but an untracked or a marked profile,
\* or nothing scanned, has nothing to compare.
LEMMA NothingToCompare ==
  ASSUME NEW w, \/ ~Delivered(w)' \/ ~Tracked(w)' \/ record'[w].stale
                \/ watcher'[w].known = None
  PROVE  Compared(w)'
BY DEF Compared, Stale

\* A step of one watcher, while the records stay or are marked, leaves what the
\* others know as it was.
LEMMA OthersCompared ==
  ASSUME Shape, AllCompared, NEW w \in Profiles, NEW u \in Profiles, u # w,
         \E v : Becomes(w, v), overtaken'[u] = overtaken[u],
         record'[u] = record[u] \/ record'[u].stale
  PROVE  Compared(u)'
<1>1. watcher'[u] = watcher[u]
  BY DEF Becomes, Shape, Watched
<1> QED
  BY <1>1, StillCompared DEF AllCompared, Delivered, At

\* A mark changes nothing else, and reaches each profile that uses the worktree.
LEMMA MarkedOrSame ==
  ASSUME Shape, NEW changed, MarkDependents(changed), NEW u \in Profiles
  PROVE  /\ record'[u] = record[u] \/ record'[u].stale
         /\ Tracked(u) /\ Uses[u] \cap changed # {} => record'[u].stale
         /\ ~Tracked(u) => ~Tracked(u)'
<1>1. record'[u] = IF Tracked(u) /\ Uses[u] \cap changed # {}
                     THEN [record[u] EXCEPT !.stale = TRUE] ELSE record[u]
  BY DEF MarkDependents
<1>2. Tracked(u) => [record[u] EXCEPT !.stale = TRUE].stale
  BY DEF Shape, Recorded, Records, Tracked
<1> QED
  BY <1>1, <1>2 DEF Tracked

\* A change that could not be delivered is kept: an error gives it back.
LEMMA GivenBackIsKept ==
  ASSUME Shape, NEW w \in Profiles, watcher[w].at \in Busy,
         NEW value \in Watchers(w), GiveBack(w, value),
         value.known = watcher[w].known, value.undelivered = watcher[w].undelivered
  PROVE  ~Delivered(w)' \/ watcher'[w].known = None
<1>1. watcher'[w] = Freed(value, IF value.known = None THEN "enqueue" ELSE "idle")
  BY DEF GiveBack, Becomes, Shape, Watched
<1>2. /\ watcher'[w].known = value.known /\ watcher'[w].undelivered = value.undelivered
      /\ watcher'[w].at = IF value.known = None THEN "enqueue" ELSE "idle"
  BY <1>1 DEF Freed, Watchers
<1>3. value.known # None => value.undelivered
  BY DEF Shape, Watched
<1> QED
  BY <1>2, <1>3 DEF Delivered, At

LEMMA NextMarkKeeps ==
  ASSUME Shape, NEW w \in Profiles, watcher[w].at \in Busy,
         NEW s, NEW missed \in BOOLEAN, NextMark(w, s, missed)
  PROVE  ~missed \/ ~Delivered(w)' \/ watcher'[w].known = None
<1> DEFINE value == [watcher[w] EXCEPT !.left = @ \ {s}, !.missed = missed]
<1>1. /\ value \in Watchers(w) /\ value.known = watcher[w].known
      /\ value.undelivered = watcher[w].undelivered
  BY DEF Shape, Watched, Watchers
<1>2. CASE Becomes(w, [value EXCEPT !.at = "lock"])
  <2>1. watcher'[w].at = "lock"
    BY <1>1, <1>2 DEF Becomes, Shape, Watched, Watchers
  <2> QED
    BY <2>1 DEF Delivered, At
<1>3. CASE GiveBack(w, value)
  BY <1>1, <1>3, GivenBackIsKept
<1> QED
  BY <1>2, <1>3 DEF NextMark

LEMMA NoticeCompares ==
  ASSUME Shape, AllCompared, NEW w \in Profiles, Notice(w) \/ Stop(w)
  PROVE  \A u \in Profiles : Compared(u)'
<1>1. watcher[w] \in Watchers(w) /\ w \in DOMAIN watcher
  BY DEF Shape, Watched
<1>a. watcher'[w].at \in {"observe", "stopped"}
  <2>1. CASE Notice(w)
    <3>1. watcher'[w] = [watcher[w] EXCEPT !.at = "observe", !.known = View(w),
                                           !.undelivered = TRUE]
      BY <1>1, <2>1 DEF Notice, Becomes
    <3> QED
      BY <1>1, <3>1 DEF Watchers
  <2>2. CASE Stop(w)
    <3>1. watcher'[w] = [watcher[w] EXCEPT !.at = "stopped"]
      BY <1>1, <2>2 DEF Stop, Becomes
    <3> QED
      BY <1>1, <3>1 DEF Watchers
  <2> QED
    BY <2>1, <2>2
<1>b. ~Delivered(w)'
  BY <1>a DEF Delivered, At
<1>2. \A u \in Profiles \ {w} : overtaken'[u] = overtaken[u]
  BY DEF Notice, Stop, Shape, Recorded
<1>3. (\E v : Becomes(w, v)) /\ record' = record
  BY DEF Notice, Stop
<1> QED
  BY <1>b, <1>2, <1>3, NothingToCompare, OthersCompared

LEMMA ObserveCompares ==
  ASSUME Shape, AllCompared, NEW w \in Profiles, Observe(w)
  PROVE  \A u \in Profiles : Compared(u)'
<1>1. /\ record' = record /\ overtaken' = overtaken /\ \E v : Becomes(w, v)
      /\ \/ ~Tracked(w)
         \/ Becomes(w, [watcher[w] EXCEPT !.at = "lock", !.seen = View(w)])
         \/ Becomes(w, [watcher[w] EXCEPT !.at = "lock", !.left = Uses[w]])
  BY DEF Observe
<1>2. ~Tracked(w)' \/ ~Delivered(w)'
  <2>1. watcher[w] \in Watchers(w) /\ w \in DOMAIN watcher
    BY DEF Shape, Watched
  <2>2. CASE ~Tracked(w)
    BY <1>1, <2>2 DEF Tracked
  <2>3. CASE Becomes(w, [watcher[w] EXCEPT !.at = "lock", !.seen = View(w)])
    <3>1. watcher'[w].at = "lock"
      BY <2>1, <2>3 DEF Becomes, Watchers
    <3> QED
      BY <3>1 DEF Delivered, At
  <2>4. CASE Becomes(w, [watcher[w] EXCEPT !.at = "lock", !.left = Uses[w]])
    <3>1. watcher'[w].at = "lock"
      BY <2>1, <2>4 DEF Becomes, Watchers
    <3> QED
      BY <3>1 DEF Delivered, At
  <2> QED
    BY <1>1, <2>2, <2>3, <2>4
<1> QED
  BY <1>1, <1>2, NothingToCompare, OthersCompared

LEMMA TakeLockCompares ==
  ASSUME Shape, AllCompared, NEW w \in Profiles, TakeLock(w)
  PROVE  \A u \in Profiles : Compared(u)'
<1>1. /\ record' = record /\ overtaken' = overtaken
      /\ watcher[w] \in Watchers(w) /\ watcher[w].at \in Busy
  BY DEF TakeLock, At, Busy, Shape, Watched
<1>2. \E v : Becomes(w, v)
  BY TakeLockTurns DEF Turns
<1>3. ~Delivered(w)' \/ watcher'[w].known = None
  <2>1. CASE Becomes(w, [watcher[w] EXCEPT !.at = "write"])
    BY <2>1 DEF Delivered, At, Becomes, Shape, Watched, Watchers
  <2>2. CASE GiveBack(w, watcher[w])
    BY <1>1, <2>2, GivenBackIsKept
  <2>3. CASE \E s \in watcher[w].left : NextMark(w, s, TRUE)
    BY <1>1, <2>3, NextMarkKeeps
  <2> QED
    BY <2>1, <2>2, <2>3 DEF TakeLock
<1> QED
  BY <1>1, <1>2, <1>3, NothingToCompare, OthersCompared

\* What was observed is compared; a scan of other sources is remembered as such.
LEMMA InvalidateCompares ==
  ASSUME Shape, AllCompared, NEW w \in Profiles, Invalidate(w)
  PROVE  \A u \in Profiles : Compared(u)'
<1> DEFINE changed ==
      IF Tracked(w) THEN {s \in Uses[w] : watcher[w].seen[s] # record[w].manifest[s]} ELSE {}
<1>1. /\ MarkDependents(changed)
      /\ \E v : Becomes(w, v)
      /\ \A u \in Profiles \ {w} : overtaken'[u] = overtaken[u]
  BY DEF Invalidate, Shape, Recorded
<1>2. /\ watcher'[w].known = watcher[w].known
      /\ overtaken'[w] = (watcher[w].known \notin {None, watcher[w].seen})
  <2>1. watcher'[w] = [watcher[w] EXCEPT !.at = "enqueue"]
    BY DEF Invalidate, Becomes, Shape, Watched
  <2>2. watcher'[w].known = watcher[w].known
    BY <2>1 DEF Shape, Watched, Watchers
  <2>3. overtaken'[w] = (watcher[w].known \notin {None, watcher[w].seen})
    BY Zenon DEF Invalidate, Shape, Recorded
  <2> QED
    BY <2>2, <2>3
<1>3. ASSUME Tracked(w)', ~record'[w].stale, ~overtaken'[w], watcher[w].known # None
      PROVE  watcher[w].known = record'[w].manifest
  <2>1. watcher[w].known = watcher[w].seen /\ watcher[w].seen \in Manifests(w)
    BY <1>2, <1>3 DEF Shape, Watched, Watchers
  <2>2. Tracked(w) /\ record'[w] = record[w] /\ Uses[w] \cap changed = {}
    BY <1>1, <1>3, MarkedOrSame
  <2>3. \A s \in Uses[w] : watcher[w].seen[s] = record[w].manifest[s]
    BY <2>2
  <2>4. record[w].manifest \in Manifests(w)
    BY <2>2 DEF Shape, Recorded, Records, Tracked
  <2> QED
    BY <2>1, <2>2, <2>3, <2>4 DEF Manifests
<1>4. Compared(w)'
  BY <1>2, <1>3 DEF Compared, Stale
<1> QED
  BY <1>1, <1>4, MarkedOrSame, OthersCompared

\* A worktree that cannot be observed marks its own profile too.
LEMMA MarkStaleCompares ==
  ASSUME Shape, AllCompared, NEW w \in Profiles, MarkStale(w)
  PROVE  \A u \in Profiles : Compared(u)'
<1>1. PICK s \in watcher[w].left : MarkDependents({s}) /\ NextMark(w, s, watcher[w].missed)
  BY DEF MarkStale
<1>2. /\ overtaken' = overtaken /\ watcher[w].at \in Busy /\ watcher[w].missed \in BOOLEAN
      /\ s \in Uses[w]
  BY DEF MarkStale, At, Busy, Shape, Watched, Watchers
<1>3. \E v : Becomes(w, v)
  BY MarkStaleTurns DEF Turns
<1>4. Tracked(w) => record'[w].stale
  BY <1>1, <1>2, MarkedOrSame
<1>5. ~Tracked(w) => ~Tracked(w)'
  BY <1>1, MarkedOrSame
<1>6. \A u \in Profiles : record'[u] = record[u] \/ record'[u].stale
  BY <1>1, MarkedOrSame
<1> QED
  BY <1>2, <1>3, <1>4, <1>5, <1>6, NothingToCompare, OthersCompared

LEMMA EnqueueCompares ==
  ASSUME Shape, AllCompared, NEW w \in Profiles, EnqueueStale(w)
  PROVE  \A u \in Profiles : Compared(u)'
<1>1. record' = record /\ overtaken' = overtaken /\ (\E v : Becomes(w, v)) /\ Delivered(w)
  BY DEF EnqueueStale, Delivered
<1>2. watcher'[w].known = watcher[w].known
  <2>1. watcher'[w] = Freed([watcher[w] EXCEPT !.undelivered = FALSE], "idle")
    BY DEF EnqueueStale, Becomes, Shape, Watched
  <2> QED
    BY <2>1 DEF Freed, Shape, Watched, Watchers
<1>3. Compared(w)'
  BY <1>1, <1>2, StillCompared DEF AllCompared
<1> QED
  BY <1>1, <1>3, OthersCompared

\* A pass that records what the watcher had moved past overtakes it.
LEMMA PublishedCompares ==
  ASSUME Shape, AllCompared, NEW p \in Passes, RecordPublished(p)
  PROVE  \A u \in Profiles : Compared(u)'
<1>p. PICK pr \in Profiles : pr = pass[p].on
  BY DEF Shape, Passing, RecordPublished, Resting
<1>m. PICK m : m = pass[p].manifest
  OBVIOUS
<1>1. pr = pass[p].on /\ m = pass[p].manifest
  BY <1>p, <1>m
<1>2. /\ record' = [record EXCEPT ![pr] = [manifest |-> m, stale |-> FALSE]]
      /\ overtaken' = [overtaken EXCEPT ![pr] = MovedPast(pr, m)]
      /\ watcher' = watcher
  BY <1>1, Zenon DEF RecordPublished
<1>3. record'[pr] = [manifest |-> m, stale |-> FALSE]
  BY <1>2 DEF Shape, Recorded
<1>4. overtaken'[pr] = MovedPast(pr, m)
  BY <1>2, Zenon DEF Shape, Recorded
<1>5. Compared(pr)'
  <2>1. ~MovedPast(pr, m) /\ Delivered(pr) => watcher[pr].known = m
    BY DEF MovedPast, Delivered
  <2>2. Delivered(pr)' = Delivered(pr)
    BY <1>2 DEF Delivered, At
  <2> QED
    BY <1>2, <1>3, <1>4, <2>1, <2>2 DEF Compared
<1>6. ASSUME NEW u \in Profiles \ {pr} PROVE Compared(u)'
  <2>1. record'[u] = record[u] /\ overtaken'[u] = overtaken[u]
    BY <1>2 DEF Shape, Recorded
  <2> QED
    BY <1>2, <2>1, StillCompared DEF AllCompared, Delivered, At
<1> QED
  BY <1>5, <1>6

LEMMA ComparedStep == Shape /\ AllCompared /\ [Next]_vars => AllCompared'
<1> SUFFICES ASSUME Shape, AllCompared, [Next]_vars PROVE \A u \in Profiles : Compared(u)'
  BY SettingStays, ProfilesStay DEF AllCompared
<1>1. ASSUME UNCHANGED <<record, watcher, overtaken>> PROVE \A u \in Profiles : Compared(u)'
  BY <1>1, StillCompared DEF AllCompared, Delivered, At
<1>2. ASSUME NEW w \in Profiles, Watch(w) \/ Stop(w) \/ TimerFires(w)
      PROVE  \A u \in Profiles : Compared(u)'
  BY <1>1, <1>2, NoticeCompares, ObserveCompares, TakeLockCompares, InvalidateCompares,
     MarkStaleCompares, EnqueueCompares DEF Watch, TimerFires
<1>3. CASE Schedule
  BY <1>1, <1>3 DEF Schedule, Wake, Take, Check, Rebuild, Recheck
<1>4. ASSUME NEW p \in Passes, Pass(p) \/ PassFails(p) PROVE \A u \in Profiles : Compared(u)'
  BY <1>1, <1>4, PublishedCompares DEF Pass, Verify, RecordLock, PassFails
<1>5. CASE Restart
  <2>1. \A u \in Profiles : watcher'[u].at = "observe"
    <3>1. Profiles' = Profiles
      BY <1>5, ProfilesStay DEF Restart
    <3> QED
      BY <1>5, <3>1 DEF Restart, Starting
  <2> QED
    BY <2>1, NothingToCompare DEF Delivered, At
<1>6. CASE UNCHANGED vars
  BY <1>1, <1>6 DEF vars
<1> QED
  BY <1>1, <1>2, <1>3, <1>4, <1>5, <1>6 DEF Next, UserPass, Edit

LEMMA InitCompares == Init => AllCompared
BY DEF Init, Starting, AllCompared, Compared, Delivered, At

\* A watcher that has delivered what is there knows a manifest, not nothing.
LEMMA ComparedFindsTheLost == Shape /\ AllCompared => LostMeansOvertaken
<1> SUFFICES ASSUME Shape, AllCompared, AllDelivered, NEW pr \in Profiles, Tracked(pr),
                    record[pr].manifest # View(pr), ~overtaken[pr]
             PROVE  Stale(pr)
  BY DEF LostMeansOvertaken
<1>1. Delivered(pr) /\ watcher[pr].known = View(pr)
  BY DEF AllDelivered, Delivered
<1>2. View(pr) # None
  BY ViewTyped, Profiled DEF Shape, Recorded, Manifests
<1> QED
  BY <1>1, <1>2 DEF AllCompared, Compared

(***************************************************************************)
(* When every watcher has delivered what it saw, a profile recorded with   *)
(* other sources than the ones there is stale, unless its watcher was      *)
(* overtaken: the only two ways of losing an edit are a pass that records  *)
(* a manifest its watcher had moved past, and an observation of OnChange   *)
(* that sees other sources than the scan that called it.  It delimits      *)
(* NoEditIsLost, which the code breaks (refreshInvalidationForProfile,     *)
(* cmd/kivgraph/invalidation.go; Process, watcher/reconciler.go).          *)
(***************************************************************************)
THEOREM LostEditsWereOvertaken == Spec => []LostMeansOvertaken
<1> QED
  BY InitShape, ShapeStep, InitCompares, ComparedStep, ComparedFindsTheLost, PTL DEF Spec

(***************************************************************************)
(* Nobody is forgotten: a stale profile is queued, being rebuilt, asleep   *)
(* between two attempts, out of budget, or a watcher is on its way to      *)
(* queue it; the scheduler never sleeps on a queue that has something in   *)
(* it (invalidationScheduler, cmd/kivgraph/invalidation.go); and a profile *)
(* that nobody marks is one whose watcher was overtaken.                   *)
(***************************************************************************)
THEOREM NobodyIsForgotten == Spec => []NobodyForgotten
<1>1. Attentive /\ LostMeansOvertaken => NobodyForgotten
  BY DEF Attentive, NobodyForgotten
<1>2. Spec => []Attentive
  BY InitShape, ShapeStep, InitForgetsNobody, ForgottenStep, PTL DEF Spec
<1> QED
  BY <1>1, <1>2, LostEditsWereOvertaken, PTL
=============================================================================
