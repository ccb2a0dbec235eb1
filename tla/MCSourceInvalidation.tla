------------------------ MODULE MCSourceInvalidation ------------------------
(* Circumstances for the runs of SourceInvalidation.                         *)
EXTENDS SourceInvalidation, TLC

CONSTANT s1, s2

\* A profile on two worktrees; observations and passes fail, a user indexes,
\* the server is restarted once.
Troubled == [uses |-> (2 :> {s1, s2}), mayFail |-> TRUE, edits |-> 1,
             userPasses |-> 1, restarts |-> 1]

\* Two profiles that share a worktree, and nothing fails.
Shared == [uses |-> (1 :> {s1} @@ 2 :> {s1}), mayFail |-> FALSE, edits |-> 1,
           userPasses |-> 0, restarts |-> 0]

\* One profile that a user indexes as well.
Indexed == [uses |-> (1 :> {s1}), mayFail |-> FALSE, edits |-> 1,
            userPasses |-> 1, restarts |-> 0]

\* One profile whose worktree is edited, reverted and edited again: what was
\* scanned, what was observed and what was recorded all differ.
Edited == [uses |-> (1 :> {s1}), mayFail |-> FALSE, edits |-> 3,
           userPasses |-> 0, restarts |-> 0]

WatchedSources == {Troubled, Shared, Edited}
OnlyIndexed == {Indexed}
==============================================================================
