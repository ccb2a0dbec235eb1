-------------------------- MODULE PublishedSnapshot --------------------------
(***************************************************************************)
(* What a snapshot store that unloads nothing promises: what a profile     *)
(* serves only ever moves to a newer generation, and a profile that is     *)
(* shut serves nothing any more.                                           *)
(***************************************************************************)
EXTENDS Integers

CONSTANTS Profiles, Generations, Nil

VARIABLES
  served,  \* the generation of each profile, or Nil
  shut     \* whether the profile is shut

vars == <<served, shut>>

Init ==
  /\ served = [pr \in Profiles |-> Nil]
  /\ shut = [pr \in Profiles |-> FALSE]

Advance(pr, g) ==
  /\ ~shut[pr] /\ g > served[pr]
  /\ served' = [served EXCEPT ![pr] = g]
  /\ UNCHANGED shut

Shut(pr) ==
  /\ ~shut[pr]
  /\ shut' = [shut EXCEPT ![pr] = TRUE]
  /\ served' = [served EXCEPT ![pr] = Nil]

Next == \E pr \in Profiles : Shut(pr) \/ \E g \in Generations : Advance(pr, g)

Spec == Init /\ [][Next]_vars

=============================================================================
