----------------------------- MODULE MCTsWorker -----------------------------
(* The circumstances the TypeScript worker's supervisor is checked under. *)
EXTENDS TsWorker

AnyCall == {CHOOSE c \in Calls : TRUE}

WorkerQuiet == [starts |-> 0, closes |-> FALSE, overlap |-> FALSE, windows |-> 0,
                failures |-> FALSE, garbage |-> FALSE, strays |-> FALSE, callers |-> {},
                hasty |-> {}, timers |-> FALSE]
Crashing == [WorkerQuiet EXCEPT !.starts = 1, !.closes = TRUE, !.failures = TRUE,
                                !.callers = Calls]

MCWorkerSettings ==
  {WorkerQuiet,
   \* A worker that crashes and answers at random, timers, a caller who leaves.
   [Crashing EXCEPT !.strays = TRUE, !.timers = TRUE, !.hasty = AnyCall],
   \* Two Starts, Close over one of them, and a worker that breaks the framing.
   [Crashing EXCEPT !.starts = 2, !.overlap = TRUE, !.garbage = TRUE, !.timers = TRUE,
                    !.callers = AnyCall],
   \* The restart window passes once.
   [Crashing EXCEPT !.windows = 1, !.closes = FALSE]}

=============================================================================
