--------------------------- MODULE TsWorker_proofs ---------------------------
(***************************************************************************)
(* Theorems about TsWorker, for any number of callers, any restart budget  *)
(* and any circumstances: the type invariant, that the readiness channel   *)
(* is closed once and at the right moment, that no call is given another   *)
(* session's answer, and that Close leaves no process behind.              *)
(***************************************************************************)
EXTENDS TsWorker, TLAPS

USE RestartLimitAssumption, WorkerSettingsAssumption

-----------------------------------------------------------------------------
(* The inductive invariant. *)

Supervisors ==
  [state: SuperStates, closed: BOOLEAN, current: {NoSession} \cup Sessions, gateClosed: BOOLEAN,
   panicked: BOOLEAN, log: 0 .. RestartLimit, generation: 0 .. MaxSessions]
Processes == [proc: {"unborn", "alive", "exited"}, expect: BOOLEAN]
Watches == [phase: {"none", "reading", "lost", "deciding", "spawning", "done"},
            sess: {NoSession} \cup Sessions]
Readies == [left: 0 .. MaxSessions, sess: {NoSession} \cup Sessions]
Closings == [phase: {"no", "shutting", "waiting", "closed"}, sess: {NoSession} \cup Sessions,
             waits: BOOLEAN]
Asking == [phase: {"new", "asking", "blocked", "holding", "registered", "sent", "ended"},
           sess: {NoSession} \cup Sessions, answer: {"none", "reply", "lost"},
           by: {NoSession} \cup Sessions]

WorkerTyped ==
  /\ workerSetting \in WorkerSettings /\ windowsLeft \in 0 .. workerSetting.windows
  /\ supervisor \in Supervisors /\ sessions \in [Sessions -> Processes]
  /\ watch \in Watches /\ starting \in Readies /\ closing \in Closings
  /\ calls \in [Calls -> Asking] /\ pending \subseteq Calls

\* The restarts of the windows to come.
Later == RestartLimit * windowsLeft

\* The restarts still allowed are within the bound.
Affordable ==
  supervisor.generation + starting.left + RestartLimit + Later <= MaxSessions + supervisor.log

\* A session that was not spawned yet is nobody's.
Numbered ==
  /\ \A g \in Sessions : g > supervisor.generation => sessions[g].proc = "unborn"
  /\ supervisor.current <= supervisor.generation
  /\ watch.sess <= supervisor.generation
  /\ starting.sess <= supervisor.generation
  /\ closing.sess <= supervisor.generation
  /\ \A c \in Calls : calls[c].sess <= supervisor.generation

\* Who is at work on a session knows which.
Busy == {"reading", "lost", "spawning"}
Attached ==
  /\ watch.phase \in Busy => watch.sess # NoSession
  /\ \A c \in Calls :
       calls[c].phase \in {"holding", "registered", "sent"} \/ calls[c].answer # "none"
         => calls[c].sess # NoSession

\* Start, the watch goroutine and Close take turns: the state says whose it is.
Turns ==
  /\ supervisor.closed <=> closing.phase # "no"
  /\ starting.sess # NoSession => watch.phase \in {"none", "done"}
  /\ ~supervisor.closed =>
       /\ starting.sess # NoSession <=> supervisor.state = "STARTING"
       /\ watch.phase \in {"reading", "lost"} => supervisor.state = "READY"
       /\ watch.phase \in {"deciding", "spawning"} => supervisor.state = "RESTARTING"
       /\ supervisor.state = "READY" => supervisor.current # NoSession

\* The channel is closed while the state is READY; after Close the Start it
\* overlapped may still close it, once.
Gate ==
  /\ ~supervisor.closed => (supervisor.gateClosed <=> supervisor.state = "READY")
  /\ starting.sess # NoSession => ~supervisor.gateClosed
  /\ supervisor.closed /\ (starting.sess # NoSession \/ supervisor.gateClosed) =>
       workerSetting.overlap

\* A call that is registered has no answer yet, and one without is not.
Waiting ==
  \A c \in Calls :
    /\ c \in pending => /\ calls[c].phase \in {"registered", "sent"}
                        /\ calls[c].answer = "none"
    /\ calls[c].answer # "none" => calls[c].phase \in {"registered", "sent", "ended"}

\* A process that lives is in somebody's hands.
Held ==
  /\ ~workerSetting.garbage =>
       \A g \in Sessions : sessions[g].proc = "alive" =>
         starting.sess = g \/ (watch.phase \in Busy /\ watch.sess = g)
  /\ closing.phase # "no" /\ ~workerSetting.overlap =>
       /\ starting.sess = NoSession
       /\ ~closing.waits \/ closing.phase = "closed" => watch.phase \in {"none", "done"}

WorkerShape == WorkerTyped /\ Affordable /\ Numbered /\ Attached /\ Turns

\* The names of the types.
LEMMA TypedMeans == WorkerTyped <=> WorkerTypeOK
BY DEF WorkerTyped, WorkerTypeOK, Supervisors, Processes, Watches, Readies, Closings, Asking

\* The circumstances are bounded, and so are the processes.
LEMMA Bounds ==
  ASSUME WorkerTyped
  PROVE  /\ windowsLeft \in Nat /\ workerSetting.windows \in Nat /\ Later \in Nat
         /\ workerSetting.starts + RestartLimit * (workerSetting.windows + 1) <= MaxSessions
         /\ workerSetting.starts \in 0 .. MaxSessions
         /\ supervisor.generation \in Nat /\ supervisor.log \in Nat /\ starting.left \in Nat
         /\ NoSession = 0 /\ Sessions \subseteq Nat /\ NoSession \notin Sessions
<1>1. /\ windowsLeft \in Nat /\ workerSetting.windows \in Nat
      /\ workerSetting.starts + RestartLimit * (workerSetting.windows + 1) <= MaxSessions
      /\ workerSetting.starts \in 0 .. MaxSessions
  BY DEF WorkerTyped, WorkerSetting
<1>2. Later \in Nat
  BY <1>1 DEF Later
<1> QED
  BY <1>1, <1>2 DEF WorkerTyped, Supervisors, Readies, NoSession, Sessions

\* A part of the state that is left alone keeps its shape.
LEMMA LaterStays == UNCHANGED windowsLeft => Later' = Later
BY DEF Later

\* A spawn takes a number that is free.
LEMMA NextSessionFits ==
  ASSUME WorkerShape, starting.left > 0 \/ RestartAllowed
  PROVE  /\ supervisor.generation + 1 \in Sessions
         /\ supervisor.generation + 1 \in 0 .. MaxSessions
<1>1. /\ supervisor.generation \in Nat /\ starting.left \in Nat /\ Later \in Nat
      /\ supervisor.log \in 0 .. RestartLimit
      /\ starting.left > 0 \/ supervisor.log < RestartLimit
  BY Bounds DEF WorkerShape, WorkerTyped, Supervisors, RestartAllowed
<1>2. supervisor.generation + 1 <= MaxSessions
  BY <1>1 DEF WorkerShape, Affordable
<1> QED
  BY <1>1, <1>2 DEF Sessions

LEMMA InitShape == WorkerInit => WorkerShape
<1> SUFFICES ASSUME WorkerInit PROVE WorkerShape
  OBVIOUS
<1>1. WorkerTyped
  <2>1. /\ workerSetting \in WorkerSettings /\ workerSetting.windows \in Nat
        /\ workerSetting.starts \in 0 .. MaxSessions
    BY DEF WorkerInit, WorkerSetting
  <2>2. supervisor \in Supervisors
    BY DEF WorkerInit, Supervisors, SuperStates
  <2> QED
    BY <2>1, <2>2 DEF WorkerInit, WorkerTyped, Processes, Watches, Readies, Closings, Asking
<1>2. /\ supervisor.log = 0 /\ supervisor.generation = 0 /\ starting.left = workerSetting.starts
      /\ windowsLeft = workerSetting.windows
  BY DEF WorkerInit
<1>3. RestartLimit * (workerSetting.windows + 1) =
        RestartLimit * workerSetting.windows + RestartLimit
  BY <1>1, Bounds
<1>4. Affordable
  BY <1>1, <1>2, <1>3, Bounds DEF Affordable, Later
<1>5. Numbered
  BY DEF WorkerInit, Numbered, NoSession
<1> QED
  BY <1>1, <1>4, <1>5 DEF WorkerInit, WorkerShape, Attached, Turns, Busy, NoSession

-----------------------------------------------------------------------------
(* What a step makes of the supervisor, the processes and the calls. *)

\* A process that ends, whoever ends it, was there.
LEMMA KilledTyped ==
  ASSUME WorkerTyped, NEW g \in Sessions
  PROVE  /\ Killed(g) \in [Sessions -> Processes] /\ Discarded(g) \in [Sessions -> Processes]
         /\ \A h \in Sessions :
              /\ Killed(g)[h].proc = IF h = g /\ sessions[h].proc = "alive" THEN "exited"
                                                                     ELSE sessions[h].proc
              /\ Killed(g)[h].expect = sessions[h].expect
              /\ Discarded(g)[h].proc = Killed(g)[h].proc
              /\ Discarded(g)[h].expect <=> (sessions[h].expect \/ h = g)
<1>1. sessions \in [Sessions -> Processes]
  BY DEF WorkerTyped
<1>2. Killed(g) \in [Sessions -> Processes]
  BY <1>1 DEF Killed, Processes
<1>3. \A h \in Sessions :
        /\ Killed(g)[h].proc = IF h = g /\ sessions[h].proc = "alive" THEN "exited"
                                                               ELSE sessions[h].proc
        /\ Killed(g)[h].expect = sessions[h].expect
  BY <1>1 DEF Killed, Processes
<1>4. Discarded(g) \in [Sessions -> Processes]
  BY <1>2 DEF Discarded, Processes
<1>5. \A h \in Sessions : /\ Discarded(g)[h].proc = Killed(g)[h].proc
                          /\ Discarded(g)[h].expect <=> (Killed(g)[h].expect \/ h = g)
  BY <1>2 DEF Discarded, Processes
<1> QED
  BY <1>2, <1>3, <1>4, <1>5

\* Where a spawn puts its process.
LEMMA SpawnedTyped ==
  ASSUME WorkerTyped, NEW g \in Sessions, sessions' = [sessions EXCEPT ![g].proc = "alive"]
  PROVE  /\ sessions' \in [Sessions -> Processes]
         /\ \A h \in Sessions : /\ sessions'[h].proc = IF h = g THEN "alive" ELSE sessions[h].proc
                                /\ sessions'[h].expect = sessions[h].expect
BY DEF WorkerTyped, Processes

\* The calls that look again keep what they hold.
LEMMA WokenTyped ==
  ASSUME WorkerTyped
  PROVE  /\ Woken \in [Calls -> Asking]
         /\ \A c \in Calls :
              /\ Woken[c].phase = IF calls[c].phase = "blocked" THEN "asking" ELSE calls[c].phase
              /\ Woken[c].sess = calls[c].sess /\ Woken[c].answer = calls[c].answer
              /\ Woken[c].by = calls[c].by
BY DEF WorkerTyped, Asking, Woken

\* The calls told of a loss keep everything else.
LEMMA ToldTyped ==
  ASSUME WorkerTyped, NEW aborted
  PROVE  /\ Told(aborted) \in [Calls -> Asking]
         /\ \A c \in Calls :
              /\ Told(aborted)[c].phase = calls[c].phase /\ Told(aborted)[c].sess = calls[c].sess
              /\ Told(aborted)[c].by = calls[c].by
              /\ Told(aborted)[c].answer = IF c \in aborted THEN "lost" ELSE calls[c].answer
BY DEF WorkerTyped, Asking, Told

LEMMA ReadyTyped ==
  ASSUME WorkerTyped, NEW g \in Sessions
  PROVE  /\ ReadyWith(g) \in Supervisors
         /\ ReadyWith(g).state = "READY" /\ ReadyWith(g).current = g
         /\ ReadyWith(g).closed = supervisor.closed /\ ReadyWith(g).log = supervisor.log
         /\ ReadyWith(g).generation = supervisor.generation
         /\ ReadyWith(g).gateClosed = (supervisor.gateClosed \/ supervisor.state # "READY")
         /\ ReadyWith(g).panicked = (supervisor.panicked
                                     \/ (supervisor.state # "READY" /\ supervisor.gateClosed))
<1> DEFINE gate == supervisor.gateClosed \/ supervisor.state # "READY"
           panic == supervisor.panicked \/ (supervisor.state # "READY" /\ supervisor.gateClosed)
<1>1. gate \in BOOLEAN /\ panic \in BOOLEAN
  BY Zenon
<1>2. ReadyWith(g) = [supervisor EXCEPT !.state = "READY", !.current = g,
                                        !.gateClosed = gate, !.panicked = panic]
  BY Zenon DEF ReadyWith
<1> HIDE DEF gate, panic
<1>3. /\ ReadyWith(g) \in Supervisors
      /\ ReadyWith(g).state = "READY" /\ ReadyWith(g).current = g
      /\ ReadyWith(g).closed = supervisor.closed /\ ReadyWith(g).log = supervisor.log
      /\ ReadyWith(g).generation = supervisor.generation
      /\ ReadyWith(g).gateClosed = gate /\ ReadyWith(g).panicked = panic
  BY <1>1, <1>2 DEF WorkerTyped, Supervisors, SuperStates
<1> QED
  BY <1>3 DEF gate, panic

LEMMA NotReadyTyped ==
  ASSUME NEW super \in Supervisors, NEW state \in SuperStates
  PROVE  /\ NotReady(super, state) \in Supervisors
         /\ NotReady(super, state).state = state
         /\ NotReady(super, state).current = super.current
         /\ NotReady(super, state).closed = super.closed
         /\ NotReady(super, state).log = super.log
         /\ NotReady(super, state).generation = super.generation
         /\ NotReady(super, state).panicked = super.panicked
         /\ NotReady(super, state).gateClosed = (super.gateClosed /\ super.state # "READY")
<1>1. super = [state |-> super.state, closed |-> super.closed, current |-> super.current,
               gateClosed |-> super.gateClosed, panicked |-> super.panicked,
               log |-> super.log, generation |-> super.generation]
      /\ super.gateClosed \in BOOLEAN
  BY DEF Supervisors
<1>2. NotReady(super, state) = [super EXCEPT !.state = state,
                                  !.gateClosed = super.gateClosed /\ super.state # "READY"]
  BY <1>1 DEF NotReady, Supervisors
<1>3. NotReady(super, state) \in Supervisors
  BY <1>2 DEF Supervisors
<1> QED
  BY <1>2, <1>3 DEF Supervisors

-----------------------------------------------------------------------------
(* Start, the watch goroutine, the calls and Close keep the invariant. *)

LEMMA BeginStartShape == ASSUME WorkerShape, BeginStart PROVE WorkerShape'
<1> DEFINE g == supervisor.generation + 1
<1>1. g \in Sessions /\ g \in 0 .. MaxSessions /\ starting.left \in 0 .. MaxSessions
      /\ starting.left > 0 /\ starting.sess = NoSession
  BY NextSessionFits DEF BeginStart, WorkerShape, WorkerTyped, Readies
<1>2. /\ supervisor' \in Supervisors /\ supervisor'.state = "STARTING"
      /\ supervisor'.generation = g /\ supervisor'.closed = supervisor.closed
      /\ supervisor'.current = supervisor.current /\ supervisor'.log = supervisor.log
  BY <1>1 DEF BeginStart, WorkerShape, WorkerTyped, Supervisors, SuperStates
<1>3. /\ sessions' \in [Sessions -> Processes]
      /\ \A h \in Sessions : sessions'[h].proc = IF h = g THEN "alive" ELSE sessions[h].proc
  BY <1>1, SpawnedTyped DEF BeginStart, WorkerShape
<1>4. starting' \in Readies /\ starting'.left = starting.left - 1 /\ starting'.sess = g
  BY <1>1 DEF BeginStart, Readies
<1>5. WorkerTyped'
  BY <1>2, <1>3, <1>4 DEF BeginStart, WorkerShape, WorkerTyped
<1>6. Affordable'
  BY <1>1, <1>2, <1>4, Bounds, LaterStays DEF BeginStart, WorkerShape, Affordable
<1>7. Numbered'
  BY <1>1, <1>2, <1>3, <1>4, Bounds
  DEF BeginStart, WorkerShape, WorkerTyped, Numbered, Watches, Closings, Asking, Supervisors
<1>8. Attached'
  BY DEF BeginStart, WorkerShape, Attached
<1>9. Turns'
  BY <1>1, <1>2, <1>4, Bounds
  DEF BeginStart, StartRefused, WorkerShape, WorkerTyped, Turns, Watches
<1> QED
  BY <1>5, <1>6, <1>7, <1>8, <1>9 DEF WorkerShape

LEMMA FailStartShape == ASSUME WorkerShape, FailStart PROVE WorkerShape'
<1>1. starting.sess \in Sessions
  BY DEF FailStart, WorkerShape, WorkerTyped, Readies
<1>2. /\ supervisor' \in Supervisors /\ supervisor'.state = "STOPPED"
      /\ supervisor'.generation = supervisor.generation /\ supervisor'.closed = supervisor.closed
      /\ supervisor'.current = supervisor.current /\ supervisor'.log = supervisor.log
  BY DEF FailStart, WorkerShape, WorkerTyped, Supervisors, SuperStates
<1>3. /\ sessions' \in [Sessions -> Processes]
      /\ \A h \in Sessions : sessions[h].proc = "unborn" => sessions'[h].proc = "unborn"
  BY <1>1, KilledTyped DEF FailStart, WorkerShape
<1>4. starting' \in Readies /\ starting'.left = starting.left /\ starting'.sess = NoSession
  BY DEF FailStart, WorkerShape, WorkerTyped, Readies
<1>5. WorkerTyped'
  BY <1>2, <1>3, <1>4 DEF FailStart, WorkerShape, WorkerTyped
<1>6. Affordable'
  BY <1>2, <1>4, Bounds, LaterStays DEF FailStart, WorkerShape, Affordable
<1>7. Numbered'
  BY <1>2, <1>3, <1>4, Bounds DEF FailStart, WorkerShape, Numbered
<1>8. Attached'
  BY DEF FailStart, WorkerShape, Attached
<1>9. Turns'
  BY <1>2, <1>4 DEF FailStart, WorkerShape, Turns
<1> QED
  BY <1>5, <1>6, <1>7, <1>8, <1>9 DEF WorkerShape

LEMMA FinishStartShape == ASSUME WorkerShape, FinishStart PROVE WorkerShape'
<1>1. starting.sess \in Sessions
  BY DEF FinishStart, WorkerShape, WorkerTyped, Readies
<1>2. watch' \in Watches /\ watch'.phase = "reading" /\ watch'.sess = starting.sess
  BY <1>1 DEF FinishStart, Watches
<1>3. starting' \in Readies /\ starting'.left = starting.left /\ starting'.sess = NoSession
  BY DEF FinishStart, WorkerShape, WorkerTyped, Readies
<1>4. WorkerTyped'
  BY <1>1, <1>2, <1>3, ReadyTyped, WokenTyped DEF FinishStart, WorkerShape, WorkerTyped
<1>5. Affordable'
  BY <1>1, <1>3, Bounds, ReadyTyped, LaterStays DEF FinishStart, WorkerShape, Affordable
<1>6. Numbered'
  BY <1>1, <1>2, <1>3, ReadyTyped, WokenTyped, Bounds DEF FinishStart, WorkerShape, Numbered
<1>7. Attached'
  BY <1>1, <1>2, WokenTyped, Bounds DEF FinishStart, WorkerShape, Attached
<1>8. Turns'
  BY <1>1, <1>2, <1>3, ReadyTyped, Bounds DEF FinishStart, WorkerShape, Turns
<1> QED
  BY <1>4, <1>5, <1>6, <1>7, <1>8 DEF WorkerShape

\* The goroutine moves on from one phase to another of the same session.
LEMMA WatchMoves ==
  ASSUME WorkerTyped, NEW phase \in {"none", "reading", "lost", "deciding", "spawning", "done"},
         WatchGoes(phase)
  PROVE  watch' \in Watches /\ watch'.phase = phase /\ watch'.sess = watch.sess
BY DEF WorkerTyped, WatchGoes, Watches

LEMMA ReadEndsShape == ASSUME WorkerShape, ReadEnds PROVE WorkerShape'
<1>1. watch.phase = "reading"
  BY DEF ReadEnds, Watching
<1>2. watch' \in Watches /\ watch'.phase = "lost" /\ watch'.sess = watch.sess
  BY WatchMoves DEF ReadEnds, WorkerShape
<1>3. WorkerTyped' /\ Affordable' /\ Numbered'
  BY <1>2, LaterStays DEF ReadEnds, WorkerShape, WorkerTyped, Affordable, Numbered
<1>4. Attached' /\ Turns'
  BY <1>1, <1>2 DEF ReadEnds, WorkerShape, Attached, Turns, Busy
<1> QED
  BY <1>3, <1>4 DEF WorkerShape

\* AfterLoss: what the supervisor becomes.
LEMMA AfterLossSupervisor ==
  ASSUME WorkerShape, AfterLoss
  PROVE  /\ supervisor' \in Supervisors
         /\ supervisor'.generation = supervisor.generation
         /\ supervisor'.closed = supervisor.closed /\ supervisor'.log = supervisor.log
         /\ supervisor'.current \in {supervisor.current, NoSession}
         /\ supervisor'.panicked = supervisor.panicked
         /\ supervisor.closed => /\ supervisor'.gateClosed = supervisor.gateClosed
                                 /\ supervisor'.state = supervisor.state
         /\ ~supervisor.closed =>
              /\ supervisor'.gateClosed = (supervisor.gateClosed /\ supervisor.state # "READY")
              /\ supervisor'.state \in {"RESTARTING", "STOPPED", "FAILED"}
              /\ watch'.phase = "deciding" => supervisor'.state = "RESTARTING"
         /\ watch' \in Watches /\ watch'.phase \in {"deciding", "done"}
         /\ supervisor.closed => watch'.phase = "done"
         /\ watch'.sess = NoSession
<1> DEFINE g        == watch.sess
           expected == sessions[g].expect
           restarts == ~expected /\ ~supervisor.closed /\ RestartAllowed
           left     == [supervisor EXCEPT !.current = IF @ = g THEN NoSession ELSE @]
           state    == IF restarts THEN "RESTARTING" ELSE IF expected THEN "STOPPED" ELSE "FAILED"
<1>1. /\ supervisor' = IF supervisor.closed THEN left ELSE NotReady(left, state)
      /\ watch' = [phase |-> IF restarts THEN "deciding" ELSE "done", sess |-> NoSession]
  BY Zenon DEF AfterLoss
<1>2. /\ left \in Supervisors /\ left.generation = supervisor.generation
      /\ left.closed = supervisor.closed /\ left.log = supervisor.log
      /\ left.current \in {supervisor.current, NoSession} /\ left.panicked = supervisor.panicked
      /\ left.gateClosed = supervisor.gateClosed /\ left.state = supervisor.state
  BY DEF WorkerShape, WorkerTyped, Supervisors
<1>3. state \in SuperStates /\ state \in {"RESTARTING", "STOPPED", "FAILED"}
  BY DEF SuperStates
<1>4. /\ restarts => state = "RESTARTING" /\ ~supervisor.closed
      /\ watch' \in Watches /\ watch'.sess = NoSession
      /\ watch'.phase = IF restarts THEN "deciding" ELSE "done"
  BY <1>1 DEF Watches
<1> HIDE DEF left, state, restarts
<1> QED
  BY <1>1, <1>2, <1>3, <1>4, NotReadyTyped

LEMMA AfterLossShape == ASSUME WorkerShape, AfterLoss PROVE WorkerShape'
<1>1. watch.phase = "lost" /\ watch.sess # NoSession
  BY DEF AfterLoss, Watching, WorkerShape, Attached, Busy
<1>2. /\ calls' = Told(Aborted(watch.sess)) /\ pending' \subseteq pending
      /\ UNCHANGED <<workerSetting, sessions, starting, closing, windowsLeft>>
  BY DEF AfterLoss
<1>3. WorkerTyped' /\ Affordable' /\ Numbered'
  BY <1>2, AfterLossSupervisor, ToldTyped, LaterStays, Bounds
  DEF WorkerShape, WorkerTyped, Affordable, Numbered
<1>4. Attached'
  <2>1. \A c \in Aborted(watch.sess) : calls[c].sess # NoSession
    BY <1>1 DEF Aborted
  <2> QED
    BY <1>2, <2>1, AfterLossSupervisor, ToldTyped DEF WorkerShape, Attached, Busy
<1>5. Turns'
  BY <1>1, <1>2, AfterLossSupervisor DEF WorkerShape, Turns
<1> QED
  BY <1>3, <1>4, <1>5 DEF WorkerShape

LEMMA RestartSpawnsShape == ASSUME WorkerShape, RestartSpawns PROVE WorkerShape'
<1> DEFINE g == supervisor.generation + 1
<1>1. /\ g \in Sessions /\ g \in 0 .. MaxSessions /\ watch.phase = "deciding"
      /\ ~supervisor.closed /\ supervisor.log < RestartLimit
  BY NextSessionFits DEF RestartSpawns, Watching, RestartAllowed
<1>2. /\ supervisor' \in Supervisors /\ supervisor'.state = supervisor.state
      /\ supervisor'.generation = g /\ supervisor'.closed = supervisor.closed
      /\ supervisor'.current = supervisor.current /\ supervisor'.log = supervisor.log + 1
  <2>1. supervisor' = [supervisor EXCEPT !.log = supervisor.log + 1, !.generation = g]
    BY DEF RestartSpawns
  <2>2. supervisor \in Supervisors /\ supervisor.log + 1 \in 0 .. RestartLimit
    BY <1>1 DEF WorkerShape, WorkerTyped, Supervisors
  <2> HIDE DEF g
  <2> QED
    BY <1>1, <2>1, <2>2 DEF Supervisors
<1>3. /\ sessions' \in [Sessions -> Processes]
      /\ \A h \in Sessions : sessions'[h].proc = IF h = g THEN "alive" ELSE sessions[h].proc
  BY <1>1, SpawnedTyped DEF RestartSpawns, WorkerShape
<1>4. watch' \in Watches /\ watch'.phase = "spawning" /\ watch'.sess = g
  BY <1>1 DEF RestartSpawns, Watches
<1>5. WorkerTyped'
  BY <1>2, <1>3, <1>4 DEF RestartSpawns, WorkerShape, WorkerTyped
<1>6. Affordable'
  BY <1>1, <1>2, Bounds, LaterStays DEF RestartSpawns, WorkerShape, Affordable
<1>7. Numbered'
  BY <1>1, <1>2, <1>3, <1>4, Bounds
  DEF RestartSpawns, WorkerShape, WorkerTyped, Numbered, Readies, Closings, Asking, Supervisors
<1>8. Attached' /\ Turns'
  BY <1>1, <1>2, <1>4, Bounds DEF RestartSpawns, WorkerShape, Attached, Turns
<1> QED
  BY <1>5, <1>6, <1>7, <1>8 DEF WorkerShape

LEMMA GiveUpSupervisor ==
  ASSUME WorkerShape, RestartGivesUp
  PROVE  /\ supervisor' \in Supervisors
         /\ supervisor'.generation = supervisor.generation
         /\ supervisor'.closed = supervisor.closed /\ supervisor'.log = supervisor.log
         /\ supervisor'.current = supervisor.current
         /\ supervisor'.panicked = supervisor.panicked
         /\ supervisor.closed => supervisor' = supervisor
         /\ ~supervisor.closed =>
              /\ supervisor'.state = "FAILED"
              /\ supervisor'.gateClosed = (supervisor.gateClosed /\ supervisor.state # "READY")
BY NotReadyTyped DEF WorkerShape, WorkerTyped, RestartGivesUp, SuperStates

LEMMA RestartGivesUpShape == ASSUME WorkerShape, RestartGivesUp PROVE WorkerShape'
<1>1. watch.phase = "deciding"
  BY DEF RestartGivesUp, Watching
<1>2. watch' \in Watches /\ watch'.phase = "done" /\ watch'.sess = watch.sess
  BY WatchMoves DEF RestartGivesUp, WorkerShape
<1>3. WorkerTyped' /\ Affordable' /\ Numbered'
  BY <1>2, GiveUpSupervisor, LaterStays, Bounds
  DEF RestartGivesUp, WorkerShape, WorkerTyped, Affordable, Numbered
<1>4. Attached' /\ Turns'
  BY <1>1, <1>2, GiveUpSupervisor DEF RestartGivesUp, WorkerShape, Attached, Turns, Busy
<1> QED
  BY <1>3, <1>4 DEF WorkerShape

\* A handshake that fails, or that Close overtook, discards the process.
LEMMA RestartDiscardedShape ==
  ASSUME WorkerShape, RestartFails \/ RestartDiscards PROVE WorkerShape'
<1>1. watch.phase = "spawning" /\ watch.sess \in Sessions
  BY DEF RestartFails, RestartDiscards, Watching, WorkerShape, Attached, Busy, WorkerTyped, Watches
<1>2. /\ watch' \in Watches /\ watch'.sess = NoSession
      /\ watch'.phase \in {"deciding", "done"}
      /\ watch'.phase = "done" => supervisor.closed
  BY DEF RestartFails, RestartDiscards, Watches
<1>3. /\ sessions' \in [Sessions -> Processes]
      /\ \A h \in Sessions : sessions[h].proc = "unborn" => sessions'[h].proc = "unborn"
  BY <1>1, KilledTyped DEF RestartFails, RestartDiscards, WorkerShape
<1>4. UNCHANGED <<workerSetting, supervisor, starting, closing, calls, pending, windowsLeft>>
  BY DEF RestartFails, RestartDiscards
<1>5. WorkerTyped' /\ Affordable' /\ Numbered'
  BY <1>2, <1>3, <1>4, LaterStays, Bounds DEF WorkerShape, WorkerTyped, Affordable, Numbered
<1>6. Attached' /\ Turns'
  BY <1>1, <1>2, <1>4 DEF WorkerShape, Attached, Turns, Busy
<1> QED
  BY <1>5, <1>6 DEF WorkerShape

LEMMA RestartSucceedsShape == ASSUME WorkerShape, RestartSucceeds PROVE WorkerShape'
<1>1. watch.phase = "spawning" /\ watch.sess \in Sessions /\ ~supervisor.closed
  BY DEF RestartSucceeds, Watching, WorkerShape, Attached, Busy, WorkerTyped, Watches
<1>2. watch' \in Watches /\ watch'.phase = "reading" /\ watch'.sess = watch.sess
  BY WatchMoves DEF RestartSucceeds, WorkerShape
<1>3. WorkerTyped' /\ Affordable' /\ Numbered'
  BY <1>1, <1>2, ReadyTyped, WokenTyped, LaterStays, Bounds
  DEF RestartSucceeds, WorkerShape, WorkerTyped, Affordable, Numbered
<1>4. Attached' /\ Turns'
  BY <1>1, <1>2, ReadyTyped, WokenTyped, Bounds
  DEF RestartSucceeds, WorkerShape, Attached, Turns, Busy
<1> QED
  BY <1>3, <1>4 DEF WorkerShape

\* What the steps of a call do: it goes on, or ends and is not waited for.
CallMoves(c) ==
  /\ UNCHANGED <<workerSetting, supervisor, watch, starting, closing, windowsLeft>>
  /\ calls' \in [Calls -> Asking] /\ pending' \subseteq Calls
  /\ \A d \in Calls \ {c} : calls'[d] = calls[d] /\ (d \in pending' <=> d \in pending)

LEMMA CallGoesTyped ==
  ASSUME WorkerTyped, NEW c \in Calls,
         NEW phase \in {"new", "asking", "blocked", "holding", "registered", "sent", "ended"},
         CallGoes(c, phase)
  PROVE  /\ calls' \in [Calls -> Asking] /\ \A d \in Calls \ {c} : calls'[d] = calls[d]
         /\ calls'[c].phase = phase /\ calls'[c].sess = calls[c].sess
         /\ calls'[c].answer = calls[c].answer /\ calls'[c].by = calls[c].by
BY DEF WorkerTyped, CallGoes, Asking

\* A call that only moves on, from a phase before its write to one after it.
Advances(c) ==
  /\ CallMoves(c) /\ UNCHANGED sessions
  /\ calls'[c].sess = calls[c].sess /\ calls'[c].answer = calls[c].answer
  /\ calls'[c].by = calls[c].by
  /\ \/ /\ calls[c].phase \in {"new", "asking", "blocked"}
        /\ calls'[c].phase \in {"blocked", "ended"}
        /\ (c \in pending' <=> c \in pending)
        /\ calls'[c].phase = "blocked" =>
             supervisor.state # "READY" \/ supervisor.current = NoSession
        /\ calls'[c].phase = "blocked" => ~supervisor.closed
     \/ calls[c].phase = "holding" /\ calls'[c].phase = "registered" /\ c \in pending'
     \/ /\ calls[c].phase = "registered" /\ calls'[c].phase = "sent"
        /\ (c \in pending' <=> c \in pending)

\* A call that is served a session.
Gets(c) ==
  /\ CallMoves(c) /\ UNCHANGED <<sessions, pending>>
  /\ calls[c].phase \in {"new", "asking"} /\ calls'[c].phase = "holding"
  /\ calls'[c].sess = supervisor.current /\ supervisor.current # NoSession
  /\ calls'[c].answer = calls[c].answer

\* A call that returns, whatever it has or has not been told.
Leaves(c) ==
  /\ CallMoves(c)
  /\ \/ UNCHANGED sessions
     \/ calls[c].phase = "sent" /\ sessions' = Killed(calls[c].sess)
  /\ calls[c].phase \in {"registered", "sent"} /\ calls'[c].phase = "ended" /\ c \notin pending'
  /\ calls'[c].sess = calls[c].sess /\ calls'[c].answer = calls[c].answer
  /\ calls'[c].by = calls[c].by

\* A call that the reading goroutine answers.
Answered(c) ==
  /\ CallMoves(c) /\ UNCHANGED sessions
  /\ watch.phase = "reading"
  /\ c \in pending /\ c \notin pending'
  /\ calls[c].sess = watch.sess /\ calls'[c].sess = calls[c].sess
  /\ calls'[c].answer = "reply" /\ calls'[c].by = watch.sess
  /\ calls'[c].phase = calls[c].phase

LEMMA CallSteps ==
  ASSUME WorkerShape, NEW c \in Calls,
         CallStep(c) \/ StopWaiting(c) \/ CancelCall(c) \/ TimeOut(c) \/ Dispatch(c)
  PROVE  Advances(c) \/ Gets(c) \/ Leaves(c) \/ Answered(c)
<1>0. WorkerTyped /\ pending \subseteq Calls
  BY DEF WorkerShape, WorkerTyped
<1>1. CASE AskRefused(c) \/ AskBlocks(c) \/ StopWaiting(c)
  <2>1. \E phase \in {"blocked", "ended"} : CallGoes(c, phase) /\ calls'[c].phase = phase
    BY <1>0, <1>1, CallGoesTyped DEF AskRefused, AskBlocks, StopWaiting
  <2>2. calls'[c].phase = "blocked" =>
          /\ supervisor.state # "READY" \/ supervisor.current = NoSession
          /\ ~supervisor.closed
    <3>1. ~AskBlocks(c) => calls'[c].phase = "ended"
      BY <1>0, <1>1, CallGoesTyped DEF AskRefused, StopWaiting
    <3> QED
      BY <3>1 DEF AskBlocks, Hopeless, Servable
  <2>3. /\ UNCHANGED <<workerSetting, supervisor, watch, starting, closing, windowsLeft, pending,
                       sessions>>
        /\ calls[c].phase \in {"new", "asking", "blocked"}
    BY <1>1 DEF AskRefused, AskBlocks, StopWaiting, Asks
  <2> QED
    BY <1>0, <2>1, <2>2, <2>3, CallGoesTyped DEF Advances, CallMoves
<1>2. CASE AskServed(c)
  <2>1. /\ calls' = [calls EXCEPT ![c].phase = "holding", ![c].sess = supervisor.current]
        /\ UNCHANGED <<workerSetting, supervisor, watch, starting, closing, windowsLeft, pending,
                       sessions>>
        /\ calls[c].phase \in {"new", "asking"} /\ supervisor.current # NoSession
    BY <1>2 DEF AskServed, Asks, Servable
  <2>2. supervisor.current \in {NoSession} \cup Sessions
    BY <1>0 DEF WorkerTyped, Supervisors
  <2>3. /\ calls' \in [Calls -> Asking] /\ \A d \in Calls \ {c} : calls'[d] = calls[d]
        /\ calls'[c].phase = "holding" /\ calls'[c].sess = supervisor.current
        /\ calls'[c].answer = calls[c].answer
    BY <1>0, <2>1, <2>2 DEF WorkerTyped, Asking
  <2> QED
    BY <1>0, <2>1, <2>3 DEF Gets, CallMoves
<1>3. CASE Register(c)
  <2>1. CallGoes(c, "registered") /\ calls[c].phase = "holding" /\ pending' = pending \cup {c}
        /\ UNCHANGED <<workerSetting, supervisor, watch, starting, closing, windowsLeft, sessions>>
    BY <1>3 DEF Register
  <2> QED
    BY <1>0, <2>1, CallGoesTyped DEF Advances, CallMoves
<1>4. CASE Write(c) /\ ~Returns(c)
  <2>1. CallGoes(c, "sent") /\ calls[c].phase = "registered"
        /\ UNCHANGED <<workerSetting, supervisor, watch, starting, closing, windowsLeft, sessions,
                       pending>>
    BY <1>4 DEF Write
  <2> QED
    BY <1>0, <2>1, CallGoesTyped DEF Advances, CallMoves
<1>5. CASE Returns(c) /\ (Write(c) \/ Receive(c) \/ CancelCall(c) \/ TimeOut(c))
  <2>1. /\ CallGoes(c, "ended") /\ pending' = pending \ {c}
        /\ calls[c].phase \in {"registered", "sent"}
        /\ UNCHANGED <<workerSetting, supervisor, watch, starting, closing, windowsLeft>>
        /\ \/ UNCHANGED sessions
           \/ calls[c].phase = "sent" /\ sessions' = Killed(calls[c].sess)
    BY <1>5 DEF Write, Receive, CancelCall, TimeOut, Returns
  <2> QED
    BY <1>0, <2>1, CallGoesTyped DEF Leaves, CallMoves
<1>6. CASE Dispatch(c)
  <2>1. /\ calls' = [calls EXCEPT ![c].answer = "reply", ![c].by = watch.sess]
        /\ pending' = pending \ {c} /\ c \in pending /\ calls[c].sess = watch.sess
        /\ watch.phase = "reading"
        /\ UNCHANGED <<workerSetting, supervisor, watch, starting, closing, windowsLeft, sessions>>
    BY <1>6 DEF Dispatch, Routed, Watching
  <2>2. watch.sess \in {NoSession} \cup Sessions
    BY <1>0 DEF WorkerTyped, Watches
  <2>3. /\ calls' \in [Calls -> Asking] /\ \A d \in Calls \ {c} : calls'[d] = calls[d]
        /\ calls'[c].phase = calls[c].phase /\ calls'[c].sess = calls[c].sess
        /\ calls'[c].answer = "reply" /\ calls'[c].by = watch.sess
    BY <1>0, <2>1, <2>2 DEF WorkerTyped, Asking
  <2> QED
    BY <1>0, <2>1, <2>3 DEF Answered, CallMoves
<1>7. Receive(c) \/ CancelCall(c) \/ TimeOut(c) => Returns(c)
  BY DEF Receive, CancelCall, TimeOut
<1> QED
  BY <1>1, <1>2, <1>3, <1>4, <1>5, <1>6, <1>7 DEF CallStep

LEMMA CallShape ==
  ASSUME WorkerShape, NEW c \in Calls, Advances(c) \/ Gets(c) \/ Leaves(c) \/ Answered(c)
  PROVE  WorkerShape'
<1>1. /\ UNCHANGED <<workerSetting, supervisor, watch, starting, closing, windowsLeft>>
      /\ calls' \in [Calls -> Asking] /\ pending' \subseteq Calls
      /\ \A d \in Calls \ {c} : calls'[d] = calls[d]
  BY DEF Advances, Gets, Leaves, Answered, CallMoves
<1>2. /\ sessions' \in [Sessions -> Processes]
      /\ \A h \in Sessions : sessions[h].proc = "unborn" => sessions'[h].proc = "unborn"
  <2>1. CASE UNCHANGED sessions
    BY <2>1 DEF WorkerShape, WorkerTyped
  <2>2. CASE calls[c].phase = "sent" /\ sessions' = Killed(calls[c].sess)
    <3>1. calls[c].sess \in Sessions
      BY <2>2 DEF WorkerShape, WorkerTyped, Asking, Attached
    <3> QED
      BY <2>2, <3>1, KilledTyped DEF WorkerShape
  <2> QED
    BY <2>1, <2>2 DEF Advances, Gets, Leaves, Answered
<1>3. WorkerTyped' /\ Affordable' /\ Turns'
  BY <1>1, <1>2, LaterStays DEF WorkerShape, WorkerTyped, Affordable, Turns
<1>4. Numbered'
  BY <1>1, <1>2 DEF Advances, Gets, Leaves, Answered, WorkerShape, Numbered
<1>5. calls'[c].phase \in {"holding", "registered", "sent"} \/ calls'[c].answer # "none"
        => calls'[c].sess # NoSession
  BY DEF Advances, Gets, Leaves, Answered, WorkerShape, Attached, Busy
<1>6. Attached'
  BY <1>1, <1>5 DEF WorkerShape, Attached
<1> QED
  BY <1>3, <1>4, <1>6 DEF WorkerShape

LEMMA BeginCloseFacts ==
  ASSUME WorkerShape, BeginClose
  PROVE  /\ supervisor' \in Supervisors /\ supervisor'.state = "CLOSED"
         /\ supervisor'.closed = TRUE /\ supervisor'.current = supervisor.current
         /\ supervisor'.log = supervisor.log /\ supervisor'.generation = supervisor.generation
         /\ supervisor'.panicked = supervisor.panicked
         /\ supervisor'.gateClosed = (supervisor.gateClosed /\ supervisor.state # "READY")
         /\ closing' \in Closings /\ closing'.phase = "shutting"
         /\ closing'.sess = supervisor.current
         /\ closing'.waits = (watch.phase \notin {"none", "done"})
         /\ \E hit \in SUBSET pending :
              /\ hit = IF supervisor.current = NoSession THEN {} ELSE Aborted(supervisor.current)
              /\ calls' = Told(hit) /\ pending' = pending \ hit
         /\ sessions' \in [Sessions -> Processes]
         /\ \A h \in Sessions :
              /\ sessions'[h].proc = sessions[h].proc
              /\ sessions'[h].expect <=> (sessions[h].expect \/ h = supervisor.current)
<1> DEFINE left == [supervisor EXCEPT !.closed = TRUE]
<1>1. /\ left \in Supervisors /\ left.generation = supervisor.generation
      /\ left.closed = TRUE /\ left.log = supervisor.log
      /\ left.current = supervisor.current /\ left.panicked = supervisor.panicked
      /\ left.gateClosed = supervisor.gateClosed /\ left.state = supervisor.state
      /\ supervisor.current \in {NoSession} \cup Sessions
  BY DEF WorkerShape, WorkerTyped, Supervisors
<1>2. supervisor' = NotReady(left, "CLOSED") /\ "CLOSED" \in SuperStates
  BY DEF BeginClose, SuperStates
<1>3. /\ supervisor' \in Supervisors /\ supervisor'.state = "CLOSED"
      /\ supervisor'.closed = TRUE /\ supervisor'.current = supervisor.current
      /\ supervisor'.log = supervisor.log /\ supervisor'.generation = supervisor.generation
      /\ supervisor'.panicked = supervisor.panicked
      /\ supervisor'.gateClosed = (supervisor.gateClosed /\ supervisor.state # "READY")
  <2> HIDE DEF left
  <2> QED
    BY <1>1, <1>2, NotReadyTyped
<1>4. /\ closing' \in Closings /\ closing'.phase = "shutting"
      /\ closing'.sess = supervisor.current
      /\ closing'.waits = (watch.phase \notin {"none", "done"})
  <2> DEFINE waits == watch.phase \notin {"none", "done"}
  <2>1. closing' = [phase |-> "shutting", sess |-> supervisor.current, waits |-> waits]
    BY Zenon DEF BeginClose
  <2>2. waits \in BOOLEAN
    BY Zenon
  <2> HIDE DEF waits
  <2>3. /\ closing' \in Closings /\ closing'.phase = "shutting"
        /\ closing'.sess = supervisor.current /\ closing'.waits = waits
    BY <1>1, <2>1, <2>2 DEF Closings
  <2> QED
    BY <2>3 DEF waits
<1>5. /\ sessions' \in [Sessions -> Processes]
      /\ \A h \in Sessions :
           /\ sessions'[h].proc = sessions[h].proc
           /\ sessions'[h].expect <=> (sessions[h].expect \/ h = supervisor.current)
  <2>1. CASE supervisor.current = NoSession
    BY <2>1, Bounds DEF BeginClose, WorkerShape, WorkerTyped, Processes
  <2>2. CASE supervisor.current # NoSession
    <3>1. sessions' = [sessions EXCEPT ![supervisor.current].expect = TRUE]
      BY <2>2 DEF BeginClose
    <3> QED
      BY <1>1, <2>2, <3>1 DEF WorkerShape, WorkerTyped, Processes
  <2> QED
    BY <2>1, <2>2
<1>6. \E hit \in SUBSET pending :
        /\ hit = IF supervisor.current = NoSession THEN {} ELSE Aborted(supervisor.current)
        /\ calls' = Told(hit) /\ pending' = pending \ hit
  BY DEF BeginClose, Aborted
<1> QED
  BY <1>3, <1>4, <1>5, <1>6

LEMMA BeginCloseShape == ASSUME WorkerShape, BeginClose PROVE WorkerShape'
<1>1. /\ UNCHANGED <<workerSetting, watch, starting, windowsLeft>> /\ closing.phase = "no"
  BY DEF BeginClose
<1>2. PICK hit \in SUBSET pending :
        /\ hit = IF supervisor.current = NoSession THEN {} ELSE Aborted(supervisor.current)
        /\ calls' = Told(hit) /\ pending' = pending \ hit
  BY BeginCloseFacts
<1>3. WorkerTyped' /\ Affordable' /\ Numbered'
  <2>1. /\ calls' \in [Calls -> Asking] /\ pending' \subseteq Calls
        /\ \A c \in Calls : calls'[c].sess = calls[c].sess
    BY <1>2, ToldTyped DEF WorkerShape, WorkerTyped
  <2>2. WorkerTyped' /\ Affordable'
    BY <1>1, <2>1, BeginCloseFacts, LaterStays DEF WorkerShape, WorkerTyped, Affordable
  <2>3. Numbered'
    BY <1>1, <2>1, BeginCloseFacts DEF WorkerShape, Numbered
  <2> QED
    BY <2>2, <2>3
<1>4. Attached'
  <2>1. \A c \in hit : calls[c].sess # NoSession
    BY <1>2 DEF Aborted
  <2> QED
    BY <1>1, <1>2, <2>1, ToldTyped DEF WorkerShape, Attached
<1>5. Turns'
  BY <1>1, BeginCloseFacts DEF WorkerShape, Turns
<1> QED
  BY <1>3, <1>4, <1>5 DEF WorkerShape

LEMMA ShutDownShape == ASSUME WorkerShape, ShutDown PROVE WorkerShape'
<1>1. /\ closing' \in Closings /\ closing'.phase = "waiting" /\ closing'.sess = closing.sess
      /\ closing.sess \in {NoSession} \cup Sessions /\ closing.phase = "shutting"
  BY DEF ShutDown, WorkerShape, WorkerTyped, Closings
<1>2. /\ sessions' \in [Sessions -> Processes]
      /\ \A h \in Sessions : sessions[h].proc = "unborn" => sessions'[h].proc = "unborn"
  <2>1. CASE closing.sess = NoSession
    BY <2>1 DEF ShutDown, WorkerShape, WorkerTyped
  <2>2. CASE closing.sess # NoSession
    BY <1>1, <2>2, KilledTyped DEF ShutDown, WorkerShape
  <2> QED
    BY <2>1, <2>2
<1>3. WorkerTyped' /\ Affordable' /\ Numbered'
  BY <1>1, <1>2, LaterStays DEF ShutDown, WorkerShape, WorkerTyped, Affordable, Numbered
<1>4. Attached' /\ Turns'
  BY <1>1 DEF ShutDown, WorkerShape, Attached, Turns
<1> QED
  BY <1>3, <1>4 DEF WorkerShape

LEMMA FinishCloseShape == ASSUME WorkerShape, FinishClose PROVE WorkerShape'
<1>1. /\ closing' \in Closings /\ closing'.phase = "closed" /\ closing'.sess = closing.sess
      /\ closing.phase = "waiting"
  BY DEF FinishClose, WorkerShape, WorkerTyped, Closings
<1>2. /\ supervisor' \in Supervisors /\ supervisor'.current = NoSession
      /\ supervisor'.closed = supervisor.closed /\ supervisor'.log = supervisor.log
      /\ supervisor'.generation = supervisor.generation
  BY DEF FinishClose, WorkerShape, WorkerTyped, Supervisors, SuperStates
<1>3. WorkerTyped' /\ Affordable' /\ Numbered'
  BY <1>1, <1>2, LaterStays, Bounds DEF FinishClose, WorkerShape, WorkerTyped, Affordable, Numbered
<1>4. Attached' /\ Turns'
  BY <1>1, <1>2 DEF FinishClose, WorkerShape, Attached, Turns
<1> QED
  BY <1>3, <1>4 DEF WorkerShape

\* The budget of a window that passes is paid for by the bound.
LEMMA WindowPassesShape == ASSUME WorkerShape, WindowPasses PROVE WorkerShape'
<1>1. windowsLeft' = windowsLeft - 1 /\ windowsLeft' \in 0 .. workerSetting.windows
      /\ windowsLeft \in Nat /\ windowsLeft > 0
  BY Bounds DEF WindowPasses, WorkerShape, WorkerTyped
<1>2. Later = Later' + RestartLimit
  BY <1>1 DEF Later
<1>3. /\ supervisor' \in Supervisors /\ supervisor'.log = 0 /\ supervisor'.state = supervisor.state
      /\ supervisor'.current = supervisor.current /\ supervisor'.closed = supervisor.closed
      /\ supervisor'.generation = supervisor.generation
  BY DEF WindowPasses, WorkerShape, WorkerTyped, Supervisors
<1>4. WorkerTyped' /\ Numbered' /\ Attached' /\ Turns'
  BY <1>1, <1>3 DEF WindowPasses, WorkerShape, WorkerTyped, Numbered, Attached, Turns
<1>5. Affordable'
  <2>1. supervisor.log \in 0 .. RestartLimit /\ Later' \in Nat
    BY <1>1, Bounds DEF WorkerShape, WorkerTyped, Supervisors, Later
  <2> QED
    BY <1>2, <1>3, <2>1, Bounds DEF WindowPasses, WorkerShape, Affordable
<1> QED
  BY <1>4, <1>5 DEF WorkerShape

LEMMA WorkerExitsShape == ASSUME WorkerShape, NEW g \in Sessions, WorkerExits(g) PROVE WorkerShape'
<1>1. /\ sessions' \in [Sessions -> Processes]
      /\ \A h \in Sessions : sessions[h].proc = "unborn" => sessions'[h].proc = "unborn"
  BY KilledTyped DEF WorkerExits, WorkerShape
<1> QED
  BY <1>1, LaterStays
  DEF WorkerExits, WorkerShape, WorkerTyped, Affordable, Numbered, Attached, Turns

LEMMA ShapeStep == WorkerShape /\ [WorkerNext]_workerVars => WorkerShape'
<1> SUFFICES ASSUME WorkerShape, [WorkerNext]_workerVars PROVE WorkerShape'
  OBVIOUS
<1>1. CASE UNCHANGED workerVars
  BY <1>1, LaterStays
  DEF workerVars, WorkerShape, WorkerTyped, Affordable, Numbered, Attached, Turns
<1>2. CASE WatchStep
  BY <1>2, ReadEndsShape, AfterLossShape, RestartSpawnsShape, RestartGivesUpShape,
     RestartDiscardedShape, RestartSucceedsShape DEF WatchStep
<1>3. ASSUME NEW c \in Calls,
             CallStep(c) \/ StopWaiting(c) \/ CancelCall(c) \/ TimeOut(c) \/ Dispatch(c)
      PROVE  WorkerShape'
  BY <1>3, CallSteps, CallShape
<1> QED
  BY <1>1, <1>2, <1>3, BeginStartShape, FailStartShape, FinishStartShape, WindowPassesShape,
     WorkerExitsShape, BeginCloseShape, ShutDownShape, FinishCloseShape DEF WorkerNext

(***************************************************************************)
(* Every variable has its type: the restarts of a window stay within the   *)
(* budget, and no more workers are spawned than Readies and budgets allow   *)
(* (supervisor.go, restart and pruneRestartsLocked).                       *)
(***************************************************************************)
THEOREM SupervisorTyped == WorkerSpec => []WorkerTypeOK
<1>1. WorkerShape => WorkerTypeOK
  BY TypedMeans DEF WorkerShape
<1> QED
  BY <1>1, InitShape, ShapeStep, PTL DEF WorkerSpec

-----------------------------------------------------------------------------
(* The readiness channel. *)

Ready == Gate /\ ReadinessIsTold

LEMMA InitReady == WorkerInit => Ready
BY DEF WorkerInit, Ready, Gate, ReadinessIsTold

\* The state becomes READY with everybody woken.
LEMMA OpensReady ==
  ASSUME WorkerShape, Ready, NEW g \in Sessions, supervisor' = ReadyWith(g), calls' = Woken,
         starting'.sess = NoSession, ~supervisor.closed \/ starting.sess # NoSession,
         UNCHANGED <<workerSetting, closing>>
  PROVE  Ready'
<1>1. ~(supervisor.state # "READY" /\ supervisor.gateClosed)
  BY DEF Ready, Gate, WorkerShape, Turns
<1>2. ReadinessIsTold'
  BY <1>1, ReadyTyped, WokenTyped DEF Ready, ReadinessIsTold, WorkerShape
<1>3. Gate'
  BY ReadyTyped DEF Ready, Gate, ReadinessIsTold, WorkerShape
<1> QED
  BY <1>2, <1>3 DEF Ready

\* The channel is replaced when the state stops being READY.
LEMMA ClosesReady ==
  ASSUME WorkerShape, Ready, supervisor'.panicked = supervisor.panicked,
         supervisor'.state # "READY",
         supervisor'.gateClosed = (supervisor.gateClosed /\ supervisor.state # "READY"),
         ~supervisor.closed, starting'.sess = starting.sess, workerSetting' = workerSetting,
         supervisor'.closed => starting.sess = NoSession \/ workerSetting.overlap
  PROVE  Ready'
<1>1. ~supervisor'.gateClosed
  BY DEF Ready, Gate
<1> QED
  BY <1>1 DEF Ready, Gate, ReadinessIsTold

\* No step of a call blocks it while the state is READY.
LEMMA CallsReady ==
  ASSUME WorkerShape, Ready, NEW c \in Calls, Advances(c) \/ Gets(c) \/ Leaves(c) \/ Answered(c)
  PROVE  Ready'
<1>1. /\ UNCHANGED <<supervisor, starting, workerSetting, closing>>
      /\ \A d \in Calls \ {c} : calls'[d] = calls[d]
  BY DEF Advances, Gets, Leaves, Answered, CallMoves
<1>2. calls'[c].phase = "blocked" => calls[c].phase = "blocked" \/ supervisor.state # "READY"
  BY DEF Advances, Gets, Leaves, Answered, WorkerShape, Turns
<1> QED
  BY <1>1, <1>2 DEF Ready, Gate, ReadinessIsTold

LEMMA ReadyStep == WorkerShape /\ Ready /\ [WorkerNext]_workerVars => Ready'
<1> SUFFICES ASSUME WorkerShape, Ready, [WorkerNext]_workerVars PROVE Ready'
  OBVIOUS
\* A step that leaves the state, the channel and the phases of the calls alone.
<1>1. ASSUME UNCHANGED <<supervisor, starting, workerSetting>>,
             closing'.phase = closing.phase \/ closing.phase # "closed",
             \A c \in Calls : calls'[c].phase = calls[c].phase
      PROVE  Ready'
  BY <1>1 DEF Ready, Gate, ReadinessIsTold
<1>2. CASE BeginStart
  <2>1. supervisor'.state = "STARTING" /\ supervisor'.gateClosed = supervisor.gateClosed
        /\ supervisor'.panicked = supervisor.panicked /\ supervisor'.closed = supervisor.closed
        /\ ~supervisor.closed /\ supervisor.state # "READY"
    BY <1>2 DEF BeginStart, StartRefused, WorkerShape, WorkerTyped, Supervisors
  <2> QED
    BY <1>2, <2>1 DEF Ready, Gate, ReadinessIsTold
<1>3. CASE FailStart
  <2>1. supervisor'.state = "STOPPED" /\ supervisor'.gateClosed = supervisor.gateClosed
        /\ supervisor'.panicked = supervisor.panicked /\ supervisor'.closed = supervisor.closed
        /\ starting.sess # NoSession /\ starting'.sess = NoSession
    BY <1>3 DEF FailStart, WorkerShape, WorkerTyped, Supervisors, Readies
  <2> QED
    BY <2>1 DEF Ready, Gate, ReadinessIsTold
<1>4. CASE FinishStart
  <2>1. starting.sess \in Sessions /\ starting'.sess = NoSession
    BY <1>4 DEF FinishStart, WorkerShape, WorkerTyped, Readies
  <2> QED
    BY <1>4, <2>1, OpensReady DEF FinishStart
<1>5. CASE WatchStep
  <2>1. CASE AfterLoss
    <3>1. /\ UNCHANGED <<starting, workerSetting, closing>>
          /\ \A c \in Calls : calls'[c].phase = calls[c].phase
      BY <2>1, ToldTyped DEF AfterLoss, WorkerShape
    <3> QED
      BY <2>1, <3>1, AfterLossSupervisor, ClosesReady DEF Ready, Gate, ReadinessIsTold
  <2>2. CASE RestartSucceeds
    <3>1. watch.sess \in Sessions /\ watch.phase = "spawning" /\ ~supervisor.closed
      BY <2>2 DEF RestartSucceeds, Watching, WorkerShape, Attached, Busy, WorkerTyped, Watches
    <3>2. starting.sess = NoSession /\ UNCHANGED <<starting, workerSetting, closing>>
      BY <2>2, <3>1 DEF RestartSucceeds, WorkerShape, Turns
    <3> QED
      BY <2>2, <3>1, <3>2, OpensReady DEF RestartSucceeds
  <2>3. CASE RestartGivesUp
    <3>1. UNCHANGED <<calls, starting, workerSetting, closing>>
      BY <2>3 DEF RestartGivesUp
    <3>2. CASE supervisor.closed
      BY <1>1, <2>3, <3>1, <3>2, GiveUpSupervisor
    <3>3. CASE ~supervisor.closed
      BY <2>3, <3>1, <3>3, GiveUpSupervisor, ClosesReady
    <3> QED
      BY <3>2, <3>3
  <2>4. CASE RestartSpawns
    <3>1. supervisor'.state = supervisor.state /\ supervisor'.gateClosed = supervisor.gateClosed
          /\ supervisor'.panicked = supervisor.panicked /\ supervisor'.closed = supervisor.closed
          /\ UNCHANGED <<calls, starting, workerSetting, closing>>
      BY <2>4 DEF RestartSpawns, WorkerShape, WorkerTyped, Supervisors
    <3> QED
      BY <3>1 DEF Ready, Gate, ReadinessIsTold
  <2>5. CASE ReadEnds \/ RestartFails \/ RestartDiscards
    BY <1>1, <2>5 DEF ReadEnds, RestartFails, RestartDiscards
  <2> QED
    BY <1>5, <2>1, <2>2, <2>3, <2>4, <2>5 DEF WatchStep
<1>6. ASSUME NEW c \in Calls,
             CallStep(c) \/ StopWaiting(c) \/ CancelCall(c) \/ TimeOut(c) \/ Dispatch(c)
      PROVE  Ready'
  BY <1>6, CallSteps, CallsReady
<1>7. CASE WindowPasses
  <2>1. supervisor'.state = supervisor.state /\ supervisor'.gateClosed = supervisor.gateClosed
        /\ supervisor'.panicked = supervisor.panicked /\ supervisor'.closed = supervisor.closed
        /\ UNCHANGED <<calls, starting, workerSetting, closing>>
    BY <1>7 DEF WindowPasses, WorkerShape, WorkerTyped, Supervisors
  <2> QED
    BY <2>1 DEF Ready, Gate, ReadinessIsTold
<1>8. CASE BeginClose
  <2>1. /\ ~supervisor.closed /\ UNCHANGED <<starting, workerSetting>>
        /\ starting.sess = NoSession \/ workerSetting.overlap
    BY <1>8 DEF BeginClose, WorkerShape, Turns
  <2> QED
    BY <1>8, <2>1, BeginCloseFacts, ClosesReady
<1>9. CASE FinishClose
  <2>1. supervisor'.state = "CLOSED" /\ supervisor'.gateClosed = supervisor.gateClosed
        /\ supervisor'.panicked = supervisor.panicked /\ supervisor'.closed = supervisor.closed
        /\ closing.phase # "no" /\ closing'.phase = "closed"
        /\ UNCHANGED <<calls, starting, workerSetting>>
    BY <1>9 DEF FinishClose, WorkerShape, WorkerTyped, Supervisors, Closings
  <2> QED
    BY <2>1 DEF Ready, Gate, ReadinessIsTold, WorkerShape, Turns
<1>10. CASE ShutDown \/ (\E g \in Sessions : WorkerExits(g)) \/ UNCHANGED workerVars
  BY <1>1, <1>10 DEF ShutDown, WorkerExits, workerVars, WorkerShape, WorkerTyped, Closings
<1> QED
  BY <1>2, <1>3, <1>4, <1>5, <1>6, <1>7, <1>8, <1>9, <1>10 DEF WorkerNext

(***************************************************************************)
(* The readiness channel is never closed twice, which would end the        *)
(* process.  It is closed whenever the state says READY, with nobody left  *)
(* blocked on it, and otherwise only once a Close that overlapped a Start  *)
(* has returned: in every order of Start, restarts, exhausted budgets and  *)
(* Close (supervisor.go, markReadyLocked, waitReady, Close).               *)
(***************************************************************************)
THEOREM ReadinessIsAlwaysTold == WorkerSpec => []ReadinessIsTold
<1>1. Ready => ReadinessIsTold
  BY DEF Ready
<1> QED
  BY <1>1, InitShape, ShapeStep, InitReady, ReadyStep, PTL DEF WorkerSpec

-----------------------------------------------------------------------------
(* The answers of a session. *)

\* What a process was, or was told, stays.
SessionEnded(procs, g) == procs[g].proc = "exited" \/ procs[g].expect

Sorted ==
  /\ Waiting
  /\ \A c \in Calls : calls[c].answer = "reply" => calls[c].by = calls[c].sess
  /\ \A c \in Calls :
       calls[c].answer = "lost" => SessionEnded(sessions, calls[c].sess) \/ workerSetting.garbage

LEMMA EndingStays ==
  ASSUME WorkerShape, [WorkerNext]_workerVars, NEW h \in Sessions, h <= supervisor.generation
  PROVE  SessionEnded(sessions, h) => SessionEnded(sessions', h)
<1>1. CASE UNCHANGED sessions
  BY <1>1 DEF SessionEnded
<1>2. ASSUME NEW g \in Sessions, sessions' = Killed(g) \/ sessions' = Discarded(g)
      PROVE  SessionEnded(sessions, h) => SessionEnded(sessions', h)
  <2>1. /\ sessions[h].proc = "exited" => sessions'[h].proc = "exited"
        /\ sessions[h].expect => sessions'[h].expect
    <3>1. CASE sessions' = Killed(g)
      BY <3>1, KilledTyped DEF WorkerShape
    <3>2. CASE sessions' = Discarded(g)
      BY <3>2, KilledTyped DEF WorkerShape
    <3> QED
      BY <1>2, <3>1, <3>2
  <2> QED
    BY <2>1 DEF SessionEnded
<1>3. CASE sessions' = [sessions EXCEPT ![supervisor.generation + 1].proc = "alive"]
  <2>1. h # supervisor.generation + 1
    BY Bounds DEF WorkerShape
  <2> QED
    BY <1>3, <2>1 DEF WorkerShape, WorkerTyped, Processes, SessionEnded
<1>4. CASE BeginClose
  BY <1>4, BeginCloseFacts DEF SessionEnded
<1>5. CASE BeginStart \/ RestartSpawns
  BY <1>3, <1>5 DEF BeginStart, RestartSpawns
<1>6. CASE FailStart
  BY <1>2, <1>6 DEF FailStart, WorkerShape, WorkerTyped, Readies
<1>7. CASE RestartFails \/ RestartDiscards
  BY <1>2, <1>7
  DEF RestartFails, RestartDiscards, Watching, WorkerShape, Attached, Busy, WorkerTyped, Watches
<1>8. ASSUME NEW c \in Calls,
             CallStep(c) \/ StopWaiting(c) \/ CancelCall(c) \/ TimeOut(c) \/ Dispatch(c)
      PROVE  SessionEnded(sessions, h) => SessionEnded(sessions', h)
  <2>1. \/ UNCHANGED sessions
        \/ calls[c].phase = "sent" /\ sessions' = Killed(calls[c].sess)
    BY <1>8, CallSteps DEF Advances, Gets, Leaves, Answered
  <2>2. calls[c].phase = "sent" => calls[c].sess \in Sessions
    BY DEF WorkerShape, Attached, WorkerTyped, Asking
  <2> QED
    BY <1>1, <1>2, <2>1, <2>2
<1>9. CASE ShutDown
  BY <1>1, <1>2, <1>9 DEF ShutDown, WorkerShape, WorkerTyped, Closings
<1>10. ASSUME NEW g \in Sessions, WorkerExits(g)
       PROVE  SessionEnded(sessions, h) => SessionEnded(sessions', h)
  BY <1>2, <1>10 DEF WorkerExits
<1>11. CASE UNCHANGED workerVars
  BY <1>1, <1>11 DEF workerVars
<1> QED
  BY <1>1, <1>4, <1>5, <1>6, <1>7, <1>8, <1>9, <1>10, <1>11
  DEF WorkerNext, WatchStep, FinishStart, ReadEnds, AfterLoss, RestartGivesUp, RestartSucceeds,
      WindowPasses, FinishClose

LEMMA WorkerSettingStays == [WorkerNext]_workerVars => workerSetting' = workerSetting
BY DEF WorkerNext, WatchStep, BeginStart, FailStart, FinishStart, Dispatch, ReadEnds, AfterLoss,
       RestartSpawns, RestartGivesUp, RestartFails, RestartSucceeds, RestartDiscards,
       WindowPasses, WorkerExits, CallStep, AskRefused, AskServed, AskBlocks, Asks, Register,
       Write, Receive, StopWaiting, CancelCall, TimeOut, BeginClose, ShutDown, FinishClose,
       workerVars

\* The registered calls of a session that is lost are told so.
LEMMA LossSorted ==
  ASSUME WorkerShape, Sorted, [WorkerNext]_workerVars, NEW g \in Sessions,
         calls' = Told(Aborted(g)),
         pending' = pending \ Aborted(g), SessionEnded(sessions', g) \/ workerSetting.garbage
  PROVE  Sorted'
<1>1. /\ \A c \in Calls : /\ calls'[c].phase = calls[c].phase /\ calls'[c].sess = calls[c].sess
                          /\ calls'[c].by = calls[c].by
                          /\ calls'[c].answer = IF c \in Aborted(g) THEN "lost"
                                                                    ELSE calls[c].answer
      /\ Aborted(g) \subseteq Calls /\ workerSetting' = workerSetting
  BY ToldTyped, WorkerSettingStays DEF WorkerShape, Aborted, WorkerTyped
<1>2. Waiting'
  BY <1>1 DEF Sorted, Waiting, Aborted
<1>3. ASSUME NEW c \in Calls, calls'[c].answer = "lost"
      PROVE  SessionEnded(sessions', calls[c].sess) \/ workerSetting.garbage
  <2>1. CASE c \in Aborted(g)
    BY <2>1 DEF Aborted
  <2>2. CASE c \notin Aborted(g)
    <3>1. calls[c].answer = "lost"
      BY <1>1, <1>3, <2>2
    <3>2. calls[c].sess \in Sessions /\ calls[c].sess <= supervisor.generation
      BY <3>1 DEF WorkerShape, WorkerTyped, Asking, Attached, Numbered
    <3>3. SessionEnded(sessions, calls[c].sess) \/ workerSetting.garbage
      BY <3>1 DEF Sorted
    <3> QED
      BY <3>2, <3>3, EndingStays
  <2> QED
    BY <2>1, <2>2
<1>4. \A c \in Calls : calls'[c].answer = "lost"
                        => SessionEnded(sessions', calls'[c].sess) \/ workerSetting'.garbage
  BY <1>1, <1>3
<1>5. \A c \in Calls : calls'[c].answer = "reply" => calls'[c].by = calls'[c].sess
  BY <1>1 DEF Sorted
<1> QED
  BY <1>2, <1>4, <1>5 DEF Sorted

\* No step but a loss or an answer changes what a call has been told.
LEMMA QuietSorted ==
  ASSUME WorkerShape, Sorted, [WorkerNext]_workerVars, pending' \subseteq pending,
         \A c \in Calls : /\ calls'[c].sess = calls[c].sess /\ calls'[c].answer = calls[c].answer
                          /\ calls'[c].by = calls[c].by
                          /\ \/ calls'[c].phase = calls[c].phase
                             \/ c \notin pending /\ calls[c].answer = "none"
  PROVE  Sorted'
<1>1. Waiting'
  BY DEF Sorted, Waiting
<1>2. ASSUME NEW c \in Calls, calls'[c].answer = "lost"
      PROVE  SessionEnded(sessions', calls'[c].sess) \/ workerSetting'.garbage
  <2>1. /\ calls[c].answer = "lost" /\ calls'[c].sess = calls[c].sess
        /\ calls[c].sess \in Sessions /\ calls[c].sess <= supervisor.generation
    BY <1>2 DEF WorkerShape, WorkerTyped, Asking, Attached, Numbered
  <2> QED
    BY <2>1, EndingStays, WorkerSettingStays DEF Sorted
<1> QED
  BY <1>1, <1>2 DEF Sorted

LEMMA CallsSorted ==
  ASSUME WorkerShape, Sorted, [WorkerNext]_workerVars, NEW c \in Calls,
         Advances(c) \/ Gets(c) \/ Leaves(c) \/ Answered(c)
  PROVE  Sorted'
<1>1. \A d \in Calls \ {c} : calls'[d] = calls[d] /\ (d \in pending' <=> d \in pending)
  BY DEF Advances, Gets, Leaves, Answered, CallMoves
<1>2. workerSetting' = workerSetting
  BY WorkerSettingStays
<1>3. /\ c \in pending' => calls'[c].phase \in {"registered", "sent"} /\ calls'[c].answer = "none"
      /\ calls'[c].answer # "none" => calls'[c].phase \in {"registered", "sent", "ended"}
      /\ calls'[c].answer = "reply" => calls'[c].by = calls'[c].sess
      /\ calls'[c].answer = "lost" => /\ calls[c].answer = "lost"
                                      /\ calls'[c].sess = calls[c].sess
  BY DEF Advances, Gets, Leaves, Answered, Sorted, Waiting
<1>4. Waiting'
  BY <1>1, <1>3 DEF Sorted, Waiting
<1>5. ASSUME NEW d \in Calls, calls'[d].answer = "lost"
      PROVE  SessionEnded(sessions', calls'[d].sess) \/ workerSetting'.garbage
  <2>1. calls[d].answer = "lost" /\ calls'[d].sess = calls[d].sess
    BY <1>1, <1>3, <1>5
  <2>2. calls[d].sess \in Sessions /\ calls[d].sess <= supervisor.generation
    BY <2>1 DEF WorkerShape, WorkerTyped, Asking, Attached, Numbered
  <2> QED
    BY <1>2, <2>1, <2>2, EndingStays DEF Sorted
<1>6. \A d \in Calls : calls'[d].answer = "reply" => calls'[d].by = calls'[d].sess
  BY <1>1, <1>3 DEF Sorted
<1> QED
  BY <1>4, <1>5, <1>6 DEF Sorted

LEMMA SortedStep == WorkerShape /\ Sorted /\ [WorkerNext]_workerVars => Sorted'
<1> SUFFICES ASSUME WorkerShape, Sorted, [WorkerNext]_workerVars PROVE Sorted'
  OBVIOUS
<1>1. CASE UNCHANGED <<calls, pending>>
  BY <1>1, QuietSorted
<1>2. CASE calls' = Woken /\ UNCHANGED pending
  <2>1. \A c \in Calls : calls[c].phase = "blocked" => c \notin pending /\ calls[c].answer = "none"
    BY DEF WorkerShape, WorkerTyped, Asking, Sorted, Waiting
  <2> QED
    BY <1>2, <2>1, WokenTyped, QuietSorted DEF WorkerShape
<1>3. CASE AfterLoss
  <2>1. watch.sess \in Sessions
    BY <1>3 DEF AfterLoss, Watching, WorkerShape, Attached, Busy, WorkerTyped, Watches
  <2>2. /\ calls' = Told(Aborted(watch.sess)) /\ pending' = pending \ Aborted(watch.sess)
        /\ UNCHANGED sessions
        /\ sessions[watch.sess].proc = "exited" \/ workerSetting.garbage
    BY <1>3 DEF AfterLoss, ExitAwaited
  <2> QED
    BY <2>1, <2>2, LossSorted DEF SessionEnded
<1>4. CASE BeginClose
  <2>1. PICK hit \in SUBSET pending :
          /\ hit = IF supervisor.current = NoSession THEN {} ELSE Aborted(supervisor.current)
          /\ calls' = Told(hit) /\ pending' = pending \ hit
    BY <1>4, BeginCloseFacts
  <2>2. CASE supervisor.current = NoSession
    BY <2>1, <2>2, ToldTyped, QuietSorted DEF WorkerShape
  <2>3. CASE supervisor.current # NoSession
    <3>1. supervisor.current \in Sessions
      BY <2>3 DEF WorkerShape, WorkerTyped, Supervisors
    <3>2. SessionEnded(sessions', supervisor.current)
      BY <1>4, <3>1, BeginCloseFacts DEF SessionEnded
    <3> QED
      BY <2>1, <2>3, <3>1, <3>2, LossSorted
  <2> QED
    BY <2>2, <2>3
<1>5. ASSUME NEW c \in Calls,
             CallStep(c) \/ StopWaiting(c) \/ CancelCall(c) \/ TimeOut(c) \/ Dispatch(c)
      PROVE  Sorted'
  BY <1>5, CallSteps, CallsSorted
<1> QED
  BY <1>1, <1>2, <1>3, <1>4, <1>5
  DEF WorkerNext, WatchStep, BeginStart, FailStart, FinishStart, ReadEnds, RestartSpawns,
      RestartGivesUp, RestartFails, RestartSucceeds, RestartDiscards, WindowPasses, WorkerExits,
      ShutDown, FinishClose, workerVars

LEMMA InitSorted == WorkerInit => Sorted
BY DEF WorkerInit, Sorted, Waiting

(***************************************************************************)
(* A call is answered by the session it was sent to, or told that this one *)
(* is lost: never with another worker's answer, never with the loss of a   *)
(* session that still serves it (supervisor.go, dispatch and               *)
(* failPendingLocked), whatever worker answers, dies or is restarted.      *)
(***************************************************************************)
THEOREM AnswersStay == WorkerSpec => []AnswersStayInTheirSession
<1>1. Sorted => AnswersStayInTheirSession
  BY DEF Sorted, AnswersStayInTheirSession, SessionEnded
<1> QED
  BY <1>1, InitShape, ShapeStep, InitSorted, SortedStep, PTL DEF WorkerSpec

-----------------------------------------------------------------------------
(* Close. *)

\* A part of Held that a step leaves alone.
LEMMA HeldStays ==
  ASSUME Held, UNCHANGED <<workerSetting, starting, watch, closing>>,
         \A g \in Sessions : sessions'[g].proc = "alive" => sessions[g].proc = "alive"
  PROVE  Held'
BY DEF Held

LEMMA KilledNotBorn ==
  ASSUME WorkerShape, NEW g \in Sessions, sessions' = Killed(g) \/ sessions' = Discarded(g)
  PROVE  /\ \A h \in Sessions : sessions'[h].proc = "alive" => sessions[h].proc = "alive"
         /\ sessions'[g].proc # "alive"
<1>1. CASE sessions' = Killed(g)
  BY <1>1, KilledTyped DEF WorkerShape, Processes
<1>2. CASE sessions' = Discarded(g)
  BY <1>2, KilledTyped DEF WorkerShape, Processes
<1> QED
  BY <1>1, <1>2

LEMMA HeldStep == WorkerShape /\ Held /\ [WorkerNext]_workerVars => Held'
<1> SUFFICES ASSUME WorkerShape, Held, [WorkerNext]_workerVars PROVE Held'
  OBVIOUS
<1>1. workerSetting' = workerSetting
  BY WorkerSettingStays
<1>2. CASE BeginStart
  <2>1. /\ starting'.sess = supervisor.generation + 1 /\ UNCHANGED <<watch, closing>>
        /\ closing.phase = "no" /\ starting.sess = NoSession
        /\ supervisor.generation + 1 \in Sessions
    BY <1>2, NextSessionFits DEF BeginStart, StartRefused, WorkerShape, Turns
  <2>2. \A g \in Sessions :
          sessions'[g].proc = "alive" => g = supervisor.generation + 1 \/ sessions[g].proc = "alive"
    BY <1>2, <2>1, SpawnedTyped DEF BeginStart, WorkerShape
  <2> QED
    BY <1>1, <2>1, <2>2, Bounds DEF Held, WorkerShape
<1>3. CASE FailStart
  <2>1. /\ starting.sess \in Sessions /\ sessions' = Discarded(starting.sess)
        /\ starting'.sess = NoSession /\ UNCHANGED <<watch, closing>>
    BY <1>3 DEF FailStart, WorkerShape, WorkerTyped, Readies
  <2> QED
    BY <1>1, <2>1, KilledNotBorn DEF Held
<1>4. CASE FinishStart
  <2>1. /\ starting.sess # NoSession /\ starting'.sess = NoSession
        /\ watch'.phase = "reading" /\ watch'.sess = starting.sess
        /\ UNCHANGED <<sessions, closing>>
        /\ watch.phase \in {"none", "done"}
    BY <1>4 DEF FinishStart, WorkerShape, WorkerTyped, Readies, Turns
  <2> QED
    BY <1>1, <2>1 DEF Held, Busy
<1>5. CASE ReadEnds
  <2>1. /\ watch.phase = "reading" /\ watch'.phase = "lost" /\ watch'.sess = watch.sess
        /\ UNCHANGED <<sessions, closing, starting>>
    BY <1>5, WatchMoves DEF ReadEnds, Watching, WorkerShape
  <2> QED
    BY <1>1, <2>1 DEF Held, Busy
<1>6. CASE AfterLoss
  <2>1. /\ watch.phase = "lost" /\ watch'.phase \in {"deciding", "done"}
        /\ watch'.phase = "done" \/ ~supervisor.closed
        /\ sessions[watch.sess].proc = "exited" \/ workerSetting.garbage
        /\ UNCHANGED <<sessions, closing, starting>>
    BY <1>6, AfterLossSupervisor DEF AfterLoss, Watching, ExitAwaited
  <2> QED
    BY <1>1, <2>1 DEF Held, Busy, WorkerShape, Turns
<1>7. CASE RestartSpawns
  <2>1. /\ watch'.phase = "spawning" /\ watch'.sess = supervisor.generation + 1
        /\ watch.phase = "deciding" /\ ~supervisor.closed
        /\ UNCHANGED <<starting, closing>> /\ supervisor.generation + 1 \in Sessions
    BY <1>7, NextSessionFits DEF RestartSpawns, Watching
  <2>2. \A g \in Sessions :
          sessions'[g].proc = "alive" => g = supervisor.generation + 1 \/ sessions[g].proc = "alive"
    BY <1>7, <2>1, SpawnedTyped DEF RestartSpawns, WorkerShape
  <2> QED
    BY <1>1, <2>1, <2>2 DEF Held, Busy, WorkerShape, Turns
<1>8. CASE RestartGivesUp
  <2>1. /\ watch.phase = "deciding" /\ watch'.phase = "done"
        /\ UNCHANGED <<sessions, starting, closing>>
    BY <1>8, WatchMoves DEF RestartGivesUp, Watching, WorkerShape
  <2> QED
    BY <1>1, <2>1 DEF Held, Busy
<1>9. CASE RestartFails \/ RestartDiscards
  <2>1. /\ watch.phase = "spawning" /\ watch.sess \in Sessions
        /\ sessions' = Discarded(watch.sess) /\ UNCHANGED <<starting, closing>>
        /\ watch'.phase \in {"deciding", "done"}
    BY <1>9
    DEF RestartFails, RestartDiscards, Watching, WorkerShape, Attached, Busy, WorkerTyped, Watches
  <2> QED
    BY <1>1, <2>1, KilledNotBorn DEF Held, Busy
<1>10. CASE RestartSucceeds
  <2>1. /\ watch.phase = "spawning" /\ watch'.phase = "reading" /\ watch'.sess = watch.sess
        /\ UNCHANGED <<sessions, starting, closing>>
    BY <1>10, WatchMoves DEF RestartSucceeds, Watching, WorkerShape
  <2> QED
    BY <1>1, <2>1 DEF Held, Busy
<1>11. ASSUME NEW c \in Calls,
              CallStep(c) \/ StopWaiting(c) \/ CancelCall(c) \/ TimeOut(c) \/ Dispatch(c)
       PROVE  Held'
  <2>1. /\ UNCHANGED <<starting, watch, closing>>
        /\ \/ UNCHANGED sessions
           \/ calls[c].phase = "sent" /\ sessions' = Killed(calls[c].sess)
    <3>1. Advances(c) \/ Gets(c) \/ Leaves(c) \/ Answered(c)
      BY <1>11, CallSteps
    <3>2. closing' = closing
      BY <3>1 DEF Advances, Gets, Leaves, Answered, CallMoves
    <3> QED
      BY <3>1, <3>2 DEF Advances, Gets, Leaves, Answered, CallMoves
  <2>2. calls[c].phase = "sent" => calls[c].sess \in Sessions
    BY DEF WorkerShape, Attached, WorkerTyped, Asking
  <2> QED
    BY <1>1, <2>1, <2>2, KilledNotBorn, HeldStays
<1>12. CASE BeginClose
  <2>1. /\ UNCHANGED <<watch, starting>> /\ closing'.phase = "shutting"
        /\ closing'.waits = (watch.phase \notin {"none", "done"})
        /\ starting.sess = NoSession \/ workerSetting.overlap
        /\ \A g \in Sessions : sessions'[g].proc = sessions[g].proc
    BY <1>12, BeginCloseFacts DEF BeginClose
  <2> QED
    BY <1>1, <2>1 DEF Held
<1>13. CASE ShutDown
  <2>1. /\ closing.phase = "shutting" /\ closing'.phase = "waiting"
        /\ closing'.waits = closing.waits /\ UNCHANGED <<starting, watch>>
        /\ closing.sess \in {NoSession} \cup Sessions
        /\ \/ closing.sess = NoSession /\ sessions' = sessions
           \/ sessions' = Killed(closing.sess)
    BY <1>13 DEF ShutDown, WorkerShape, WorkerTyped, Closings
  <2>2. \A g \in Sessions : sessions'[g].proc = "alive" => sessions[g].proc = "alive"
    BY <1>13, <2>1, KilledNotBorn DEF ShutDown
  <2> QED
    BY <1>1, <2>1, <2>2 DEF Held
<1>14. CASE FinishClose
  <2>1. /\ closing.phase = "waiting" /\ closing'.phase = "closed"
        /\ closing.waits => watch.phase = "done"
        /\ UNCHANGED <<starting, watch, sessions>>
    BY <1>14 DEF FinishClose, Watching, WorkerShape, WorkerTyped, Closings
  <2> QED
    BY <1>1, <2>1 DEF Held
<1>15. ASSUME NEW g \in Sessions, WorkerExits(g) PROVE Held'
  BY <1>1, <1>15, KilledNotBorn, HeldStays DEF WorkerExits
<1>16. CASE WindowPasses \/ UNCHANGED workerVars
  BY <1>16, HeldStays DEF WindowPasses, workerVars
<1> QED
  BY <1>2, <1>3, <1>4, <1>5, <1>6, <1>7, <1>8, <1>9, <1>10, <1>11, <1>12, <1>13, <1>14, <1>15,
     <1>16 DEF WorkerNext, WatchStep

LEMMA InitHeld == WorkerInit => Held
BY DEF WorkerInit, Held

(***************************************************************************)
(* When Close has returned, no worker is left running, though it came in   *)
(* the middle of a restart, of a loss or of nothing (supervisor.go, Close).*)
(***************************************************************************)
THEOREM CloseLeavesNobody == WorkerSpec => []NothingOutlivesClose
<1>1. WorkerShape /\ Held => NothingOutlivesClose
  <2> SUFFICES ASSUME WorkerShape, Held, closing.phase = "closed", ~workerSetting.overlap,
                      ~workerSetting.garbage, NEW g \in Sessions, sessions[g].proc = "alive"
               PROVE  FALSE
    BY DEF NothingOutlivesClose
  <2> QED
    BY Bounds DEF WorkerShape, Held, Busy
<1> QED
  BY <1>1, InitShape, ShapeStep, InitHeld, HeldStep, PTL DEF WorkerSpec
=============================================================================
