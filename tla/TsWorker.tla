------------------------------ MODULE TsWorker ------------------------------
(***************************************************************************)
(* internal/tsworker/supervisor.go: the owner of the TypeScript worker's    *)
(* process.  Start and the watch goroutine bring sessions up, calls wait    *)
(* for one, register, write and wait for their answer, and Close ends it    *)
(* all; they meet in the fields that supervisor.mu guards.                  *)
(*                                                                         *)
(* Only who is told what is kept of the protocol: a request is its call.    *)
(***************************************************************************)
EXTENDS Naturals, FiniteSets

CONSTANTS
  Calls,           \* calls of Call, one request each
  RestartLimit,    \* Options.RestartLimit
  MaxSessions,     \* bound: worker processes in one behaviour
  WorkerSettings   \* the circumstances one run covers

Sessions    == 1 .. MaxSessions
NoSession   == 0
SuperStates == {"STOPPED", "STARTING", "READY", "RESTARTING", "FAILED", "CLOSED"}

(***************************************************************************)
(* How often Start is called and whether Close is (overlap: also while a    *)
(* Start is under way), how often the restart window passes, whether        *)
(* workers may fail at all, may break the framing without exiting, may      *)
(* answer what nobody asked them, who calls and which callers may give up,  *)
(* and whether request timers may fire.                                     *)
(***************************************************************************)
WorkerSetting ==
  [starts: 0 .. MaxSessions, closes: BOOLEAN, overlap: BOOLEAN, windows: Nat,
   failures: BOOLEAN, garbage: BOOLEAN, strays: BOOLEAN, callers: SUBSET Calls,
   hasty: SUBSET Calls, timers: BOOLEAN]

ASSUME RestartLimitAssumption == RestartLimit \in Nat /\ MaxSessions \in Nat
ASSUME WorkerSettingsAssumption ==
  /\ WorkerSettings \subseteq WorkerSetting
  /\ \A s \in WorkerSettings :
       s.starts + RestartLimit * (s.windows + 1) <= MaxSessions

VARIABLES
  workerSetting,   \* constant in a behaviour
  supervisor,      \* state, closed, current, readiness gate, restarts in the window
  sessions,        \* the worker processes
  watch,           \* the watch goroutine
  starting,        \* the Start under way, if any
  closing,         \* Close
  calls,           \* every call
  pending,         \* the calls registered for an answer
  windowsLeft      \* bound: restart windows still to pass

workerVars == <<workerSetting, supervisor, sessions, watch, starting, closing,
                calls, pending, windowsLeft>>

-----------------------------------------------------------------------------
(* What the mutex guards. *)

(* markReadyLocked closes the channel the waiters of waitReady block on; a    *)
(* channel closed twice is a panic.                                          *)
ReadyWith(g) ==
  LET opens == supervisor.state # "READY"
  IN  [supervisor EXCEPT !.state = "READY", !.current = g,
         !.gateClosed = @ \/ opens,
         !.panicked = @ \/ (opens /\ supervisor.gateClosed)]

(* Mutant: the channel that was closed stays. *)
NotReadyWithOldGate(super, state) == [super EXCEPT !.state = state]

(* markNotReadyLocked: a new channel, only if the old one was closed. *)
NotReady(super, state) ==
  [super EXCEPT !.state = state,
                !.gateClosed = IF super.state = "READY" THEN FALSE ELSE @]

(* Everybody blocked on the channel looks again. *)
Woken == [c \in Calls |-> IF calls[c].phase = "blocked"
                          THEN [calls[c] EXCEPT !.phase = "asking"] ELSE calls[c]]

(* Mutant: off by one, the session itself is left out. *)
AbortedBefore(g) == {c \in pending : calls[c].sess < g}

(* failPendingLocked: the registered calls of one session are told it is lost. *)
Aborted(g) == {c \in pending : calls[c].sess = g}
Told(aborted) ==
  [c \in Calls |-> IF c \in aborted THEN [calls[c] EXCEPT !.answer = "lost"]
                                    ELSE calls[c]]

RestartAllowed == supervisor.log < RestartLimit

Killed(g) == [sessions EXCEPT ![g].proc = IF @ = "alive" THEN "exited" ELSE @]

-----------------------------------------------------------------------------
(* startSession: spawn and handshake, for Start and for restart. *)

(* A HELLO that fails, in whatever way, discards the process. *)
HandshakeFails(g) == workerSetting.failures \/ sessions[g].proc = "exited"
Discarded(g) == [Killed(g) EXCEPT ![g].expect = TRUE]

StartRefused ==
  supervisor.closed \/ supervisor.state \in {"READY", "STARTING", "RESTARTING"}

BeginStart ==
  /\ starting.left > 0 /\ starting.sess = NoSession /\ ~StartRefused
  /\ supervisor' = [supervisor EXCEPT !.state = "STARTING", !.generation = @ + 1]
  /\ sessions' = [sessions EXCEPT ![supervisor.generation + 1].proc = "alive"]
  /\ starting' = [left |-> starting.left - 1, sess |-> supervisor.generation + 1]
  /\ UNCHANGED <<workerSetting, watch, closing, calls, pending, windowsLeft>>

FailStart ==
  /\ starting.sess # NoSession /\ HandshakeFails(starting.sess)
  /\ sessions' = Discarded(starting.sess)
  /\ supervisor' = [supervisor EXCEPT !.state = "STOPPED"]
  /\ starting' = [starting EXCEPT !.sess = NoSession]
  /\ UNCHANGED <<workerSetting, watch, closing, calls, pending, windowsLeft>>

FinishStart ==
  /\ starting.sess # NoSession /\ sessions[starting.sess].proc = "alive"
  /\ supervisor' = ReadyWith(starting.sess)
  /\ calls' = Woken
  /\ watch' = [phase |-> "reading", sess |-> starting.sess]
  /\ starting' = [starting EXCEPT !.sess = NoSession]
  /\ UNCHANGED <<workerSetting, sessions, closing, pending, windowsLeft>>

-----------------------------------------------------------------------------
(* The watch goroutine. *)

Watching(phase) == watch.phase = phase
WatchGoes(phase) == watch' = [watch EXCEPT !.phase = phase]

(* Mutant: the id alone identifies a call. *)
RoutedById(c) == c \in pending

(* dispatch: an answer reaches a registered call of this very session. *)
Routed(c) == c \in pending /\ calls[c].sess = watch.sess

(* The worker answers what it was asked, or any id whatever. *)
Dispatch(c) ==
  /\ Watching("reading")
  /\ \/ calls[c].phase = "sent" /\ calls[c].sess = watch.sess
     \/ workerSetting.strays /\ sessions[watch.sess].proc = "alive"
  /\ Routed(c)
  /\ calls' = [calls EXCEPT ![c].answer = "reply", ![c].by = watch.sess]
  /\ pending' = pending \ {c}
  /\ UNCHANGED <<workerSetting, supervisor, sessions, watch, starting, closing, windowsLeft>>

(* readLoop ends at the end of the stream, or at a frame that breaks it. *)
ReadEnds ==
  /\ Watching("reading")
  /\ sessions[watch.sess].proc = "exited" \/ workerSetting.garbage
  /\ WatchGoes("lost")
  /\ UNCHANGED <<workerSetting, supervisor, sessions, starting, closing, calls, pending,
                 windowsLeft>>

(* Waited for: the exit of the process, or the end of the grace period. *)
ExitAwaited ==
  sessions[watch.sess].proc = "exited" \/ workerSetting.garbage

AfterLoss ==
  /\ Watching("lost") /\ ExitAwaited
  /\ LET g == watch.sess
         expected == sessions[g].expect
         restarts == ~expected /\ ~supervisor.closed /\ RestartAllowed
         left     == [supervisor EXCEPT !.current = IF @ = g THEN NoSession ELSE @]
         state    == IF restarts THEN "RESTARTING" ELSE IF expected THEN "STOPPED"
                                                                    ELSE "FAILED"
     IN  /\ calls' = Told(Aborted(g))
         /\ pending' = pending \ Aborted(g)
         /\ supervisor' = IF supervisor.closed THEN left ELSE NotReady(left, state)
         /\ watch' = [phase |-> IF restarts THEN "deciding" ELSE "done", sess |-> NoSession]
  /\ UNCHANGED <<workerSetting, sessions, starting, closing, windowsLeft>>

(* Mutant: beyond the budget as well. *)
RestartSpawnsAnyway ==
  /\ Watching("deciding") /\ ~supervisor.closed
  /\ supervisor' = [supervisor EXCEPT !.log = @ + 1, !.generation = @ + 1]
  /\ sessions' = [sessions EXCEPT ![supervisor.generation + 1].proc = "alive"]
  /\ watch' = [phase |-> "spawning", sess |-> supervisor.generation + 1]
  /\ UNCHANGED <<workerSetting, starting, closing, calls, pending, windowsLeft>>

(* restart: within the budget another process, beyond it FAILED. *)
RestartSpawns ==
  /\ Watching("deciding") /\ ~supervisor.closed /\ RestartAllowed
  /\ supervisor' = [supervisor EXCEPT !.log = @ + 1, !.generation = @ + 1]
  /\ sessions' = [sessions EXCEPT ![supervisor.generation + 1].proc = "alive"]
  /\ watch' = [phase |-> "spawning", sess |-> supervisor.generation + 1]
  /\ UNCHANGED <<workerSetting, starting, closing, calls, pending, windowsLeft>>

RestartGivesUp ==
  /\ Watching("deciding") /\ (supervisor.closed \/ ~RestartAllowed)
  /\ supervisor' = IF supervisor.closed THEN supervisor ELSE NotReady(supervisor, "FAILED")
  /\ WatchGoes("done")
  /\ UNCHANGED <<workerSetting, sessions, starting, closing, calls, pending, windowsLeft>>

RestartFails ==
  /\ Watching("spawning") /\ HandshakeFails(watch.sess)
  /\ sessions' = Discarded(watch.sess)
  /\ watch' = [phase |-> "deciding", sess |-> NoSession]
  /\ UNCHANGED <<workerSetting, supervisor, starting, closing, calls, pending, windowsLeft>>

RestartSucceeds ==
  /\ Watching("spawning") /\ sessions[watch.sess].proc = "alive" /\ ~supervisor.closed
  /\ supervisor' = ReadyWith(watch.sess)
  /\ calls' = Woken
  /\ WatchGoes("reading")
  /\ UNCHANGED <<workerSetting, sessions, starting, closing, pending, windowsLeft>>

(* Mutant: the new session is only forgotten. *)
RestartForgets ==
  /\ Watching("spawning") /\ supervisor.closed
  /\ watch' = [phase |-> "done", sess |-> NoSession]
  /\ UNCHANGED <<workerSetting, supervisor, sessions, starting, closing, calls, pending,
                 windowsLeft>>

(* Close came during the handshake: the new session is discarded. *)
RestartDiscards ==
  /\ Watching("spawning") /\ supervisor.closed
  /\ sessions' = Discarded(watch.sess)
  /\ watch' = [phase |-> "done", sess |-> NoSession]
  /\ UNCHANGED <<workerSetting, supervisor, starting, closing, calls, pending, windowsLeft>>

(* The oldest restarts fall out of the window (pruneRestartsLocked). *)
WindowPasses ==
  /\ windowsLeft > 0 /\ supervisor.log > 0
  /\ windowsLeft' = windowsLeft - 1
  /\ supervisor' = [supervisor EXCEPT !.log = 0]
  /\ UNCHANGED <<workerSetting, sessions, watch, starting, closing, calls, pending>>

(* The worker's process ends by itself. *)
WorkerExits(g) ==
  /\ workerSetting.failures /\ sessions[g].proc = "alive"
  /\ sessions' = Killed(g)
  /\ UNCHANGED <<workerSetting, supervisor, watch, starting, closing, calls, pending,
                 windowsLeft>>

-----------------------------------------------------------------------------
(* Call. *)

CallGoes(c, phase) == calls' = [calls EXCEPT ![c].phase = phase]

Returns(c) ==
  /\ CallGoes(c, "ended")
  /\ pending' = pending \ {c}

Asks(c) ==
  /\ calls[c].phase \in {"new", "asking"}
  /\ UNCHANGED <<workerSetting, supervisor, sessions, watch, starting, closing, pending,
                 windowsLeft>>

(* waitReady: hopeless, served, or blocked until the channel closes. *)
Hopeless == supervisor.closed \/ supervisor.state \in {"CLOSED", "FAILED", "STOPPED"}
Servable == ~Hopeless /\ supervisor.state = "READY" /\ supervisor.current # NoSession

AskRefused(c) == Asks(c) /\ Hopeless /\ CallGoes(c, "ended")
AskServed(c) ==
  /\ Asks(c) /\ Servable
  /\ calls' = [calls EXCEPT ![c].phase = "holding", ![c].sess = supervisor.current]
AskBlocks(c) == Asks(c) /\ ~Hopeless /\ ~Servable /\ CallGoes(c, "blocked")

(* The caller's context ends while it waits for a session. *)
StopWaiting(c) ==
  /\ c \in workerSetting.hasty /\ calls[c].phase = "blocked"
  /\ CallGoes(c, "ended")
  /\ UNCHANGED <<workerSetting, supervisor, sessions, watch, starting, closing, pending,
                 windowsLeft>>

(* register, on the session waitReady returned, whatever became of it. *)
Register(c) ==
  /\ calls[c].phase = "holding"
  /\ pending' = pending \cup {c}
  /\ CallGoes(c, "registered")
  /\ UNCHANGED <<workerSetting, supervisor, sessions, watch, starting, closing, windowsLeft>>

(* WriteFrame: into a live process; into a dead one it fails (invalidate). *)
Write(c) ==
  /\ calls[c].phase = "registered"
  /\ IF sessions[calls[c].sess].proc = "alive"
     THEN CallGoes(c, "sent") /\ UNCHANGED pending
     ELSE Returns(c)
  /\ UNCHANGED <<workerSetting, supervisor, sessions, watch, starting, closing, windowsLeft>>

Receive(c) ==
  /\ calls[c].phase = "sent" /\ calls[c].answer # "none"
  /\ Returns(c)
  /\ UNCHANGED <<workerSetting, supervisor, sessions, watch, starting, closing, windowsLeft>>

(* The caller's context ends: CANCEL is sent, the session is kept. *)
CancelCall(c) ==
  /\ c \in workerSetting.hasty /\ calls[c].phase = "sent"
  /\ Returns(c)
  /\ UNCHANGED <<workerSetting, supervisor, sessions, watch, starting, closing, windowsLeft>>

(* The request timer fires: the session is not trusted any more. *)
TimeOut(c) ==
  /\ workerSetting.timers /\ calls[c].phase = "sent"
  /\ Returns(c)
  /\ sessions' = Killed(calls[c].sess)
  /\ UNCHANGED <<workerSetting, supervisor, watch, starting, closing, windowsLeft>>

-----------------------------------------------------------------------------
(* Close. *)

BeginClose ==
  /\ workerSetting.closes /\ closing.phase = "no"
  /\ starting.sess = NoSession \/ workerSetting.overlap
  /\ LET g == supervisor.current
         hit == IF g = NoSession THEN {} ELSE Aborted(g)
     IN  /\ closing' = [phase |-> "shutting", sess |-> g,
                        waits |-> watch.phase \notin {"none", "done"}]
         /\ calls' = Told(hit)
         /\ pending' = pending \ hit
         /\ sessions' = IF g = NoSession THEN sessions
                        ELSE [sessions EXCEPT ![g].expect = TRUE]
         /\ supervisor' = NotReady([supervisor EXCEPT !.closed = TRUE], "CLOSED")
  /\ UNCHANGED <<workerSetting, watch, starting, windowsLeft>>

(* shutdownSession: SHUTDOWN, SIGTERM or SIGKILL, the process is gone. *)
ShutDown ==
  /\ closing.phase = "shutting"
  /\ sessions' = IF closing.sess = NoSession THEN sessions ELSE Killed(closing.sess)
  /\ closing' = [closing EXCEPT !.phase = "waiting"]
  /\ UNCHANGED <<workerSetting, supervisor, watch, starting, calls, pending, windowsLeft>>

FinishClose ==
  /\ closing.phase = "waiting" /\ (closing.waits => Watching("done"))
  /\ supervisor' = [supervisor EXCEPT !.state = "CLOSED", !.current = NoSession]
  /\ closing' = [closing EXCEPT !.phase = "closed"]
  /\ UNCHANGED <<workerSetting, sessions, watch, starting, calls, pending, windowsLeft>>

-----------------------------------------------------------------------------

WorkerInit ==
  /\ workerSetting \in WorkerSettings
  /\ supervisor = [state |-> "STOPPED", closed |-> FALSE, current |-> NoSession,
                   gateClosed |-> FALSE, panicked |-> FALSE, log |-> 0, generation |-> 0]
  /\ sessions = [g \in Sessions |-> [proc |-> "unborn", expect |-> FALSE]]
  /\ watch = [phase |-> "none", sess |-> NoSession]
  /\ starting = [left |-> workerSetting.starts, sess |-> NoSession]
  /\ closing = [phase |-> "no", sess |-> NoSession, waits |-> FALSE]
  /\ calls = [c \in Calls |->
                [phase |-> IF c \in workerSetting.callers THEN "new" ELSE "ended",
                 sess |-> NoSession, answer |-> "none", by |-> NoSession]]
  /\ pending = {}
  /\ windowsLeft = workerSetting.windows

WatchStep ==
  \/ ReadEnds
  \/ AfterLoss
  \/ RestartSpawns
  \/ RestartGivesUp
  \/ RestartFails
  \/ RestartSucceeds
  \/ RestartDiscards

CallStep(c) ==
  \/ AskRefused(c)
  \/ AskServed(c)
  \/ AskBlocks(c)
  \/ Register(c)
  \/ Write(c)
  \/ Receive(c)

WorkerNext ==
  \/ BeginStart
  \/ FailStart
  \/ FinishStart
  \/ \E c \in Calls : Dispatch(c)
  \/ WatchStep
  \/ WindowPasses
  \/ \E g \in Sessions : WorkerExits(g)
  \/ \E c \in Calls : CallStep(c)
  \/ \E c \in Calls : StopWaiting(c)
  \/ \E c \in Calls : CancelCall(c)
  \/ \E c \in Calls : TimeOut(c)
  \/ BeginClose
  \/ ShutDown
  \/ FinishClose

(* The goroutines go on, a worker that lives answers, and a handshake ends by *)
(* its timeout; nobody has to call Start or Close, and no request timer is    *)
(* counted on.                                                                *)
WorkerFairness ==
  /\ WF_workerVars(FailStart \/ FinishStart)
  /\ WF_workerVars(WatchStep)
  /\ WF_workerVars(ShutDown) /\ WF_workerVars(FinishClose)
  /\ \A c \in Calls : WF_workerVars(CallStep(c)) /\ WF_workerVars(Dispatch(c))

WorkerSpec == WorkerInit /\ [][WorkerNext]_workerVars /\ WorkerFairness

-----------------------------------------------------------------------------

WorkerTypeOK ==
  /\ workerSetting \in WorkerSettings
  /\ supervisor \in [state: SuperStates, closed: BOOLEAN, current: {NoSession} \cup Sessions,
                     gateClosed: BOOLEAN, panicked: BOOLEAN, log: 0 .. RestartLimit,
                     generation: 0 .. MaxSessions]
  /\ sessions \in [Sessions -> [proc: {"unborn", "alive", "exited"}, expect: BOOLEAN]]
  /\ watch \in [phase: {"none", "reading", "lost", "deciding", "spawning", "done"},
                sess: {NoSession} \cup Sessions]
  /\ starting \in [left: 0 .. MaxSessions, sess: {NoSession} \cup Sessions]
  /\ closing \in [phase: {"no", "shutting", "waiting", "closed"},
                  sess: {NoSession} \cup Sessions, waits: BOOLEAN]
  /\ calls \in [Calls -> [phase: {"new", "asking", "blocked", "holding", "registered",
                                  "sent", "ended"},
                          sess: {NoSession} \cup Sessions, answer: {"none", "reply", "lost"},
                          by: {NoSession} \cup Sessions]]
  /\ pending \subseteq Calls /\ windowsLeft \in 0 .. workerSetting.windows

(***************************************************************************)
(* The readiness channel is never closed twice (a panic of the process),   *)
(* and it is closed exactly while the state says READY, through any order  *)
(* of Start, restarts, exhausted budgets, another Start and Close: no      *)
(* caller stays blocked on a supervisor that is ready.  One exception: a    *)
(* Start that ends after Close began closes the channel once more, and     *)
(* Close, when it returns, says CLOSED without a new one (supervisor.go,   *)
(* Close); waitReady looks at closed before it looks at the channel.       *)
(***************************************************************************)
ReadinessIsTold ==
  /\ ~supervisor.panicked
  /\ supervisor.state = "READY" =>
       supervisor.gateClosed /\ \A c \in Calls : calls[c].phase # "blocked"
  /\ supervisor.gateClosed =>
       supervisor.state = "READY" \/ (workerSetting.overlap /\ closing.phase = "closed")

(***************************************************************************)
(* A call gets an answer of the session it was sent to, or is told that    *)
(* this one is lost: never an answer another worker made up, and never the *)
(* loss of a session that still serves it.                                  *)
(***************************************************************************)
AnswersStayInTheirSession ==
  \A c \in Calls :
    /\ calls[c].answer = "reply" => calls[c].by = calls[c].sess
    /\ calls[c].answer = "lost" =>
         \/ sessions[calls[c].sess].proc = "exited" \/ sessions[calls[c].sess].expect
         \/ workerSetting.garbage

(***************************************************************************)
(* When Close has returned, no worker it knew of or that came up meanwhile  *)
(* is left running: also when it came in the middle of a restart.  A Start  *)
(* that overlaps Close, and a worker that broke the framing and lives on,    *)
(* are left running by the code.                                            *)
(***************************************************************************)
NothingOutlivesClose ==
  closing.phase = "closed" /\ ~workerSetting.overlap /\ ~workerSetting.garbage
    => \A g \in Sessions : sessions[g].proc # "alive"

(***************************************************************************)
(* A call that has a session ends without its timer: with an answer, with   *)
(* the loss of its session, or with a failing write if it registered after  *)
(* the loss was told.  A worker that breaks the framing and does not exit    *)
(* leaves it to the timer.                                                  *)
(***************************************************************************)
LostCallsEnd ==
  \A c \in Calls :
    []<>(calls[c].phase \in {"holding", "registered", "sent"} => workerSetting.garbage)

(***************************************************************************)
(* "A crash loop must stop, not spin" (supervisor.go:144): workers may die  *)
(* at any moment, in the handshake too, and the watch goroutine still comes  *)
(* to rest, reading a session or done.                                      *)
(***************************************************************************)
CrashLoopsEnd == <>[](watch.phase \in {"none", "reading", "done"})

(* However calls, losses and restarts meet, both hold: neither a caller nor  *)
(* the watch goroutine is left in the middle.                                *)
WorkerSettles == LostCallsEnd /\ CrashLoopsEnd

=============================================================================
