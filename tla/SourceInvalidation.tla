------------------------- MODULE SourceInvalidation -------------------------
(***************************************************************************)
(* How a server keeps its profiles on the sources they were built from:    *)
(* one source watcher per profile (indexing/sourcewatch.go), the durable   *)
(* invalidation state every process shares (internal/invalidation), the    *)
(* scheduler that rebuilds what is stale (cmd/kivgraph/invalidation.go)    *)
(* and the full passes, its own children or a user's, that analyse,        *)
(* publish and record (indexing/full.go, RunFull).                         *)
(*                                                                         *)
(* A step is one observation of the sources, one attempt to take the lock  *)
(* of the state file, one rewrite of that file, or one critical section of *)
(* the scheduler.  Scan and queue of enqueueStale, and refresh and test of *)
(* reindex, are one step each.  Passes of other processes (a user's index  *)
(* --full) take the same locks; watchers of other servers are left out.    *)
(***************************************************************************)
EXTENDS Integers, FiniteSets

CONSTANTS
  Names,        \* the names of profiles, numbered in name order
  Sources,      \* the worktrees
  Contents,     \* what a worktree may hold
  Passes,       \* full passes that may run at once
  None,         \* nobody, no manifest
  MaxAttempts,  \* profileInvalidationAttempts
  Settings      \* the circumstances to consider, one in each behaviour

Setting ==
  [uses: UNION {[prs -> (SUBSET Sources) \ {{}}] : prs \in SUBSET Names},
                          \* the profiles and the worktrees of each
   mayFail: BOOLEAN,      \* whether an observation or a pass may fail
   edits: Nat,            \* bound: edits of the worktrees
   userPasses: Nat,       \* bound: passes a user starts
   restarts: Nat]         \* bound: restarts of the server

ASSUME NamesAssumption == Names \subseteq Nat
ASSUME NoneAssumption ==
  /\ None \notin Names \cup Passes
  /\ \A worktrees \in SUBSET Sources : None \notin [worktrees -> Contents]
ASSUME ActorsAssumption == Names \cap Passes = {}
ASSUME ContentsAssumption == Contents # {}
ASSUME AttemptsAssumption == MaxAttempts \in Nat \ {0}
ASSUME SettingsAssumption == Settings \subseteq Setting

VARIABLES
  setting,      \* the circumstances of this behaviour; never changes
  tree,         \* what each worktree holds
  record,       \* the state file: the manifest and stale mark of each profile
  lock,         \* who holds the lock of the state file
  targets,      \* the pass that holds analyzer-targets.lock
  watcher,      \* the watcher of each profile
  cached,       \* the profiles the server's manager last saw stale
  pending,      \* invalidationScheduler.pending
  attempts,     \* invalidationScheduler.attempts
  timers,       \* retries asleep, per profile
  wake,         \* the token in the wake channel
  scheduler,    \* the step of the scheduler and the profile it works on
  pass,         \* the full passes
  overtaken,    \* history: what the watcher knows was never compared with the record
  edits, userPasses, restarts  \* what has been used of the bounds

sources == <<tree, edits>>
queue == <<pending, attempts, timers, wake, scheduler>>
passes == <<targets, pass, userPasses>>
vars == <<setting, sources, record, lock, overtaken, watcher, cached, queue, passes, restarts>>

Uses == setting.uses
Profiles == DOMAIN Uses
MayFail == setting.mayFail

View(pr) == [s \in Uses[pr] |-> tree[s]]
Manifests(pr) == [Uses[pr] -> Contents]
Records(pr) == {None} \cup [manifest : Manifests(pr), stale : BOOLEAN]

Tracked(pr) == record[pr] # None
Stale(pr) == Tracked(pr) /\ record[pr].stale
Staled == {pr \in Profiles : Stale(pr)}

\* known: the content cache of the reconciler, None before its first scan.
\* undelivered: OnChange has not returned without an error.
\* seen: the manifest observed; left: the worktrees to mark unavailable;
\* missed: one of those could not be marked.
Starting == [at |-> "observe", known |-> None, undelivered |-> FALSE,
             seen |-> None, left |-> {}, missed |-> FALSE]

Resting == [at |-> "idle", on |-> None, manifest |-> None, child |-> FALSE]
Waiting == [at |-> "wait", on |-> None]

\* A server starts on profiles that were never indexed or are up to date; the
\* worktrees move before its watchers look, and Restart gives every other start.
Init ==
  /\ setting \in Settings
  /\ tree = [s \in Sources |-> CHOOSE c \in Contents : TRUE]
  /\ \E tracked \in SUBSET Profiles :
       record = [pr \in Profiles |-> IF pr \in tracked
                                       THEN [manifest |-> View(pr), stale |-> FALSE] ELSE None]
  /\ lock = None
  /\ overtaken = [pr \in Profiles |-> FALSE]
  /\ watcher = [pr \in Profiles |-> Starting]
  /\ cached = Staled
  /\ pending = {} /\ wake = FALSE /\ scheduler = Waiting
  /\ attempts = [pr \in Profiles |-> 0]
  /\ timers = [pr \in Profiles |-> 0]
  /\ targets = None
  /\ pass = [p \in Passes |-> Resting]
  /\ edits = 0 /\ userPasses = 0 /\ restarts = 0

\* The mutex of the server's manager, which a watcher holds with the lock.
MutexFree == lock \notin Profiles

-----------------------------------------------------------------------------
(* The source watchers. *)

At(w, step) == watcher[w].at = step
Becomes(w, value) == watcher' = [watcher EXCEPT ![w] = value]
Freed(value, step) ==
  [value EXCEPT !.at = step, !.seen = None, !.left = {}, !.missed = FALSE]

\* A batch of events, or the periodic reconciliation, finds new content; the
\* first scan is reported, and a change that was not delivered is retried.
Notice(w) ==
  /\ At(w, "idle")
  /\ watcher[w].known # View(w) \/ watcher[w].undelivered
  /\ Becomes(w, [watcher[w] EXCEPT !.at = "observe", !.known = View(w),
                                   !.undelivered = TRUE])
  /\ overtaken' = [overtaken EXCEPT ![w] = FALSE]
  /\ UNCHANGED <<setting, sources, record, lock, cached, queue, passes, restarts>>

\* The first scan fails, or the registry did: the profile has no watcher.
Stop(w) ==
  /\ MayFail
  /\ At(w, "idle") /\ watcher[w].known = None
  /\ Becomes(w, [watcher[w] EXCEPT !.at = "stopped"])
  /\ UNCHANGED <<setting, sources, record, lock, overtaken, cached, queue, passes, restarts>>

\* ObserveSources, or the worktrees to mark when it fails; then Refresh.
Observe(w) ==
  /\ At(w, "observe")
  /\ MutexFree
  /\ \/ Becomes(w, [watcher[w] EXCEPT !.at = "lock", !.seen = View(w)])
     \/ /\ MayFail /\ Tracked(w)
        /\ Becomes(w, [watcher[w] EXCEPT !.at = "lock", !.left = Uses[w]])
     \/ /\ MayFail /\ ~Tracked(w)
        /\ Becomes(w, [watcher[w] EXCEPT !.at = "enqueue"])
  /\ cached' = Staled
  /\ UNCHANGED <<setting, sources, record, lock, overtaken, queue, passes, restarts>>

\* An error of the callback keeps the change undelivered; at the start of the
\* watcher it is only logged.
GiveBack(w, value) ==
  Becomes(w, Freed(value, IF value.known = None THEN "enqueue" ELSE "idle"))

\* What follows a worktree that was marked, or could not be.
NextMark(w, s, missed) ==
  LET value == [watcher[w] EXCEPT !.left = @ \ {s}, !.missed = missed] IN
    \/ value.left # {} /\ Becomes(w, [value EXCEPT !.at = "lock"])
    \/ value.left = {} /\ missed /\ GiveBack(w, value)
    \/ value.left = {} /\ ~missed /\ Becomes(w, [value EXCEPT !.at = "enqueue"])

\* mutate: the watchers queue for the mutex; another process in the state
\* file makes it ErrStateBusy.
TakeLock(w) ==
  /\ At(w, "lock")
  /\ MutexFree
  /\ \/ lock = None /\ lock' = w /\ Becomes(w, [watcher[w] EXCEPT !.at = "write"])
     \/ /\ lock # None
        /\ UNCHANGED lock
        /\ \/ watcher[w].left = {} /\ GiveBack(w, watcher[w])
           \/ \E s \in watcher[w].left : NextMark(w, s, TRUE)
  /\ UNCHANGED <<setting, sources, record, overtaken, cached, queue, passes, restarts>>

\* Every profile that uses one of the changed worktrees is marked.
MarkDependents(changed) ==
  LET dependents == {pr \in Profiles : Tracked(pr) /\ Uses[pr] \cap changed # {}} IN
    /\ record' = [pr \in Profiles |->
                    IF pr \in dependents THEN [record[pr] EXCEPT !.stale = TRUE]
                                         ELSE record[pr]]
    /\ cached' = Staled \cup dependents

\* Invalidate compares with the manifest of the profile's own record; an edit
\* between the scan and this observation leaves the watcher knowing other sources.
Invalidate(w) ==
  /\ At(w, "write") /\ watcher[w].left = {}
  /\ MarkDependents(IF Tracked(w)
       THEN {s \in Uses[w] : watcher[w].seen[s] # record[w].manifest[s]} ELSE {})
  /\ lock' = None
  /\ Becomes(w, [watcher[w] EXCEPT !.at = "enqueue"])
  /\ overtaken' = [overtaken EXCEPT ![w] = watcher[w].known \notin {None, watcher[w].seen}]
  /\ UNCHANGED <<setting, sources, queue, passes, restarts>>

\* MarkStale, for one worktree that could not be observed.
MarkStale(w) ==
  /\ At(w, "write")
  /\ \E s \in watcher[w].left :
       /\ MarkDependents({s})
       /\ NextMark(w, s, watcher[w].missed)
  /\ lock' = None
  /\ UNCHANGED <<setting, sources, overtaken, queue, passes, restarts>>

\* enqueue: a token is left in the channel unless there is one.
Enqueue(prs) ==
  /\ pending' = pending \cup prs
  /\ wake' = (wake \/ pending' # {})

\* MUTANT: the watcher queues its own profile only.
EnqueueOwn(w) ==
  /\ At(w, "enqueue")
  /\ MutexFree
  /\ Enqueue(cached \cap {w})
  /\ attempts' = [pr \in Profiles |-> IF pr = w THEN 0 ELSE attempts[pr]]
  /\ Becomes(w, Freed([watcher[w] EXCEPT !.undelivered = FALSE], "idle"))
  /\ UNCHANGED <<setting, sources, record, lock, overtaken, cached, timers, scheduler, passes, restarts>>

\* enqueueStale: every stale profile is queued with a fresh budget.
EnqueueStale(w) ==
  /\ At(w, "enqueue")
  /\ MutexFree
  /\ Enqueue(cached)
  /\ attempts' = [pr \in Profiles |-> IF pr \in cached THEN 0 ELSE attempts[pr]]
  /\ Becomes(w, Freed([watcher[w] EXCEPT !.undelivered = FALSE], "idle"))
  /\ UNCHANGED <<setting, sources, record, lock, overtaken, cached, timers, scheduler, passes, restarts>>

-----------------------------------------------------------------------------
(* The scheduler. *)

Scheduled(step) == scheduler.at = step
Working(step) == scheduler' = [scheduler EXCEPT !.at = step]
NextOne == scheduler' = [at |-> "next", on |-> None]

\* run receives the token of the wake channel.
Wake ==
  /\ Scheduled("wait") /\ wake
  /\ wake' = FALSE
  /\ NextOne
  /\ UNCHANGED <<setting, sources, record, lock, overtaken, watcher, cached, pending, attempts,
                 timers, passes, restarts>>

\* next: the pending profile that is first by name, if there is one.
Take ==
  /\ Scheduled("next")
  /\ \/ pending = {} /\ scheduler' = Waiting /\ UNCHANGED pending
     \/ \E pr \in pending :
          /\ \A other \in pending : pr <= other
          /\ pending' = pending \ {pr}
          /\ scheduler' = [at |-> "check", on |-> pr]
  /\ UNCHANGED <<setting, sources, record, lock, overtaken, watcher, cached, attempts, timers, wake,
                 passes, restarts>>

Clear(pr) ==
  /\ attempts' = [attempts EXCEPT ![pr] = 0]
  /\ UNCHANGED timers

\* MUTANT: the budget only limits the count.
RetryForever(pr) ==
  /\ attempts' = [attempts EXCEPT ![pr] = IF @ < MaxAttempts THEN @ + 1 ELSE @]
  /\ timers' = [timers EXCEPT ![pr] = @ + 1]

\* MUTANT: a failed rebuild waits for the next event.
RetryNever(pr) ==
  /\ attempts' = [attempts EXCEPT ![pr] = @ + 1]
  /\ UNCHANGED timers

\* retry: one more failure, and a timer while the budget lasts.
Retry(pr) ==
  /\ attempts' = [attempts EXCEPT ![pr] = @ + 1]
  /\ timers' = [timers EXCEPT ![pr] = IF attempts'[pr] < MaxAttempts THEN @ + 1 ELSE @]

\* reindex starts with Refresh; a profile that is not stale is done.
Check ==
  /\ Scheduled("check")
  /\ MutexFree
  /\ \/ /\ cached' = Staled
        /\ \/ scheduler.on \in Staled /\ Working("start") /\ UNCHANGED <<attempts, timers>>
           \/ scheduler.on \notin Staled /\ Clear(scheduler.on) /\ NextOne
     \/ MayFail /\ Retry(scheduler.on) /\ NextOne /\ UNCHANGED cached
  /\ UNCHANGED <<setting, sources, record, lock, overtaken, watcher, pending, wake, passes, restarts>>

Launch(p, pr, isChild) ==
  /\ targets = None /\ targets' = p
  /\ pass[p] = Resting
  /\ pass' = [pass EXCEPT ![p] = [at |-> "verify", on |-> pr, manifest |-> View(pr),
                                  child |-> isChild]]

\* ReindexProfile starts a child pass, which gives up when another pass holds
\* analyzer-targets.lock.
Rebuild ==
  /\ Scheduled("start")
  /\ \/ \E p \in Passes : Launch(p, scheduler.on, TRUE) /\ Working("rebuild")
     \/ targets # None /\ Working("recheck") /\ UNCHANGED <<targets, pass>>
  /\ UNCHANGED <<setting, sources, record, lock, overtaken, watcher, cached, pending, attempts, timers,
                 wake, userPasses, restarts>>

\* reindex refreshes again: whatever the pass answered, a profile that is
\* still stale is retried.
Recheck ==
  /\ Scheduled("recheck")
  /\ MutexFree
  /\ \/ /\ cached' = Staled
        /\ \/ scheduler.on \in Staled /\ Retry(scheduler.on)
           \/ scheduler.on \notin Staled /\ Clear(scheduler.on)
     \/ MayFail /\ Retry(scheduler.on) /\ UNCHANGED cached
  /\ NextOne
  /\ UNCHANGED <<setting, sources, record, lock, overtaken, watcher, pending, wake, passes, restarts>>

\* The timer of a retry: queued again, with what is left of the budget.
TimerFires(pr) ==
  /\ timers[pr] > 0
  /\ timers' = [timers EXCEPT ![pr] = @ - 1]
  /\ Enqueue({pr})
  /\ UNCHANGED <<setting, sources, record, lock, overtaken, watcher, cached, attempts, scheduler, passes,
                 restarts>>

-----------------------------------------------------------------------------
(* The full passes. *)

\* MUTANT: a pass that ends keeps the lock of the analyzer targets.
EndsHolding(p) ==
  /\ pass' = [pass EXCEPT ![p] = Resting]
  /\ UNCHANGED targets
  /\ lock' = IF lock = p THEN None ELSE lock
  /\ IF pass[p].child THEN Working("recheck") ELSE UNCHANGED scheduler

\* A pass that ends lets go of its locks, and the scheduler stops waiting.
Ends(p) ==
  /\ pass' = [pass EXCEPT ![p] = Resting]
  /\ targets' = None
  /\ lock' = IF lock = p THEN None ELSE lock
  /\ IF pass[p].child THEN Working("recheck") ELSE UNCHANGED scheduler

\* A user's pass; one that finds the lock taken changes nothing.
UserPass(p, pr) ==
  /\ userPasses < setting.userPasses
  /\ userPasses' = userPasses + 1
  /\ Launch(p, pr, FALSE)
  /\ UNCHANGED <<setting, sources, record, lock, overtaken, watcher, cached, queue, restarts>>

\* The sources are observed again inside the publication; a pass they moved
\* under publishes nothing.
Verify(p) ==
  /\ pass[p].at = "verify"
  /\ \/ /\ View(pass[p].on) = pass[p].manifest
        /\ pass' = [pass EXCEPT ![p].at = "record"]
        /\ UNCHANGED <<lock, targets, scheduler>>
     \/ View(pass[p].on) # pass[p].manifest /\ Ends(p)
  /\ UNCHANGED <<setting, sources, record, overtaken, watcher, cached, pending, attempts, timers, wake,
                 userPasses, restarts>>

\* The generation is published; recording it may find the state file busy,
\* which is a RecordingError of a pass that succeeded.
RecordLock(p) ==
  /\ pass[p].at = "record"
  /\ \/ /\ lock = None /\ lock' = p
        /\ pass' = [pass EXCEPT ![p].at = "write"]
        /\ UNCHANGED <<targets, scheduler>>
     \/ lock # None /\ Ends(p)
  /\ UNCHANGED <<setting, sources, record, overtaken, watcher, cached, pending, attempts, timers, wake,
                 userPasses, restarts>>

\* The watcher has delivered something newer than the manifest m.
MovedPast(w, m) ==
  /\ watcher[w].known # m
  /\ At(w, "enqueue") \/ At(w, "stopped") \/ (At(w, "idle") /\ ~watcher[w].undelivered)

\* RecordPublished replaces the record, its stale mark included.
RecordPublished(p) ==
  /\ pass[p].at = "write"
  /\ LET pr == pass[p].on  m == pass[p].manifest IN
       /\ record' = [record EXCEPT ![pr] = [manifest |-> m, stale |-> FALSE]]
       /\ overtaken' = [overtaken EXCEPT ![pr] = MovedPast(pr, m)]
  /\ Ends(p)
  /\ UNCHANGED <<setting, sources, watcher, cached, pending, attempts, timers, wake, userPasses, restarts>>

\* The pass fails or is killed, before the publication or after it.
PassFails(p) ==
  /\ MayFail
  /\ pass[p] # Resting
  /\ Ends(p)
  /\ UNCHANGED <<setting, sources, record, overtaken, watcher, cached, pending, attempts, timers, wake,
                 userPasses, restarts>>

-----------------------------------------------------------------------------
(* The environment. *)

Edit(s) ==
  /\ edits < setting.edits
  /\ edits' = edits + 1
  /\ \E c \in Contents \ {tree[s]} : tree' = [tree EXCEPT ![s] = c]
  /\ UNCHANGED <<setting, record, lock, overtaken, watcher, cached, queue, passes, restarts>>

\* The server is killed and started again: a child pass it leaves behind runs
\* on, its watchers begin with an observation and its queue is empty.
Restart ==
  /\ restarts < setting.restarts
  /\ restarts' = restarts + 1
  /\ watcher' = [pr \in Profiles |-> Starting]
  /\ lock' = IF lock \in Profiles THEN None ELSE lock
  /\ cached' = Staled
  /\ pending' = {} /\ wake' = FALSE /\ scheduler' = Waiting
  /\ attempts' = [pr \in Profiles |-> 0]
  /\ timers' = [pr \in Profiles |-> 0]
  /\ pass' = [p \in Passes |-> [pass[p] EXCEPT !.child = FALSE]]
  /\ overtaken' = [pr \in Profiles |-> FALSE]
  /\ UNCHANGED <<setting, sources, record, targets, userPasses>>

Watch(w) ==
  \/ Notice(w) \/ Observe(w) \/ TakeLock(w)
  \/ Invalidate(w) \/ MarkStale(w) \/ EnqueueStale(w)

Schedule == Wake \/ Take \/ Check \/ Rebuild \/ Recheck

Pass(p) == Verify(p) \/ RecordLock(p) \/ RecordPublished(p)

Next ==
  \/ \E w \in Profiles : Watch(w) \/ Stop(w) \/ TimerFires(w)
  \/ Schedule
  \/ \E p \in Passes : Pass(p) \/ PassFails(p)
  \/ \E p \in Passes, pr \in Profiles : UserPass(p, pr)
  \/ \E s \in UNION {Uses[pr] : pr \in Profiles} : Edit(s)
  \/ Restart

Spec == Init /\ [][Next]_vars

\* The goroutines and the processes are scheduled, the reconciliation is
\* periodic and the timers ring; nothing has to fail, and nobody has to edit.
FairSpec ==
  /\ Spec
  /\ \A w \in Names :
       /\ WF_vars(w \in Profiles /\ Watch(w))
       /\ WF_vars(w \in Profiles /\ TimerFires(w))
  /\ WF_vars(Schedule)
  /\ \A p \in Passes : WF_vars(Pass(p))

-----------------------------------------------------------------------------
(* Properties. *)

\* Every variable has its type, and a lock is only held by someone who is in
\* the section it protects: no path out of a pass or a watcher keeps one.
TypeOK ==
  /\ setting \in Settings
  /\ tree \in [Sources -> Contents]
  /\ \A pr \in Profiles : record[pr] \in Records(pr)
  /\ DOMAIN record = Profiles
  /\ \/ lock = None
     \/ lock \in Profiles /\ watcher[lock].at = "write"
     \/ lock \in Passes /\ pass[lock].at = "write"
  /\ targets = None \/ (targets \in Passes /\ pass[targets] # Resting)
  /\ \A w \in Profiles :
       /\ watcher[w].at \in {"idle", "observe", "lock", "write", "enqueue", "stopped"}
       /\ watcher[w].known \in {None} \cup Manifests(w)
       /\ watcher[w].seen \in {None} \cup Manifests(w)
       /\ watcher[w].left \subseteq Uses[w]
  /\ cached \subseteq Profiles /\ pending \subseteq Profiles
  /\ attempts \in [Profiles -> Nat] /\ timers \in [Profiles -> Nat]
  /\ wake \in BOOLEAN
  /\ scheduler.at \in {"wait", "next", "check", "start", "rebuild", "recheck"}
  /\ scheduler.on \in Profiles \cup {None}
  /\ \A p \in Passes : pass[p].at \in {"idle", "verify", "record", "write"}
  /\ overtaken \in [Profiles -> BOOLEAN]

Budgeted(pr) == attempts[pr] < MaxAttempts

Served(pr) == pr \in pending \/ scheduler.on = pr \/ timers[pr] > 0
Reporting(w) == watcher[w].at \in {"observe", "lock", "write", "enqueue"} \/ watcher[w].undelivered

AllDelivered ==
  \A w \in Profiles : At(w, "idle") /\ watcher[w].known = View(w) /\ ~watcher[w].undelivered
NothingToDo ==
  targets = None /\ Scheduled("wait") /\ ~wake /\ \A pr \in Profiles : timers[pr] = 0

\* A stale profile is queued, being rebuilt, asleep between two attempts or
\* out of budget, or a watcher is still on its way to queue it.
StaleAreAttended ==
  \A pr \in Profiles :
    Stale(pr) => Served(pr) \/ ~Budgeted(pr) \/ \E w \in Profiles : Reporting(w)

\* When every watcher has delivered what it saw, a profile recorded with other
\* sources than the ones there is stale, unless what its watcher knows was
\* never compared with the record: a pass recorded a manifest it had moved
\* past, or Invalidate observed other sources than the scan that called it.
LostMeansOvertaken ==
  AllDelivered =>
    \A pr \in Profiles :
      Tracked(pr) /\ record[pr].manifest # View(pr) => Stale(pr) \/ overtaken[pr]

\* Nobody is forgotten: stale profiles are attended to, the scheduler never
\* sleeps on a queue that has something in it, and the profiles nobody marks
\* are those whose watcher was overtaken.  Queues that take the stale profiles
\* of every watcher, budgets and tokens of cmd/kivgraph/invalidation.go, and
\* the two observations behind a change, have to agree for this.
NobodyForgotten ==
  /\ StaleAreAttended
  /\ pending # {} => wake \/ ~Scheduled("wait")
  /\ LostMeansOvertaken

\* A source that cannot be rebuilt does not keep the server busy for ever: once
\* the edits stop, the retries end (the budget of profileInvalidationAttempts).
Settles == <>[](Scheduled("wait") /\ pending = {} /\ \A pr \in Profiles : timers[pr] = 0)

\* Every tracked profile ends up recorded with the sources as they are, unless
\* its budget is spent, its watcher stopped, or it was overtaken: see
\* LostMeansOvertaken, and NoEditIsLost for what the repository promises.
Converges ==
  \A pr \in Names :
    <>[](\/ pr \notin Profiles \/ ~Tracked(pr)
         \/ record[pr].manifest = View(pr)
         \/ ~Budgeted(pr) \/ At(pr, "stopped") \/ overtaken[pr])

\* When every watcher has delivered what it saw and no rebuild is running or
\* due, a profile recorded with other sources than the ones there is marked
\* stale (ADR 0099: dirty edits reach every dependent profile).
NoEditIsLost ==
  AllDelivered /\ NothingToDo =>
    \A pr \in Profiles : Tracked(pr) /\ record[pr].manifest # View(pr) => Stale(pr)

=============================================================================
