-------------------------- MODULE MCGenerationStore --------------------------
(* Model values, circumstances and symmetry for the runs of GenerationStore. *)
EXTENDS GenerationStore, TLC

CONSTANTS p1, p2

\* One process and every command, two failures or deaths.
Restarts == [procs |-> {p1}, operations |-> Commands, power |-> FALSE, faults |-> 2]

\* One process, and a machine that may lose power.
PowerCuts == [procs |-> {p1}, operations |-> Commands \ {"discard"}, power |-> TRUE,
              faults |-> 1]

\* Two publishers at once.
Publishers == [procs |-> {p1, p2}, operations |-> {"publish"}, power |-> TRUE,
               faults |-> 1]
UndisturbedPublishers == [Publishers EXCEPT !.power = FALSE, !.faults = 0]

RestartsAndPowerCuts == {Restarts, PowerCuts}
OnlyPublishers == {Publishers}
OnlyUndisturbedPublishers == {UndisturbedPublishers}

Symmetry == Permutations({p1, p2})

=============================================================================
