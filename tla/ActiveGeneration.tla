-------------------------- MODULE ActiveGeneration --------------------------
(***************************************************************************)
(* What the generation store promises its readers: there is at most one    *)
(* active generation, it is whole at every instant, and it changes in one  *)
(* step from one whole generation to another.  Nothing is said of how many *)
(* others are kept.                                                        *)
(***************************************************************************)
CONSTANTS Ids, None

VARIABLES
  active,  \* the generation readers open, or None
  whole    \* the generations that are complete and validated

vars == <<active, whole>>

Init == active = None /\ whole = {}

\* A publication retains one; a power loss may bring removed ones back.
Retain(found) ==
  /\ found # {} /\ found \cap whole = {}
  /\ whole' = whole \cup found
  /\ UNCHANGED active

Activate(g) ==
  /\ g \in whole \ {active}
  /\ active' = g
  /\ UNCHANGED whole

\* The undo of a first publication, and a discard.
Deactivate ==
  /\ active # None
  /\ active' = None
  /\ UNCHANGED whole

\* The active generation is never among the dropped.
Drop(lost) ==
  /\ lost # {} /\ lost \subseteq whole \ {active}
  /\ whole' = whole \ lost
  /\ UNCHANGED active

Next ==
  \/ \E g \in Ids : Activate(g)
  \/ Deactivate
  \/ \E some \in SUBSET Ids : Retain(some) \/ Drop(some)

Spec == Init /\ [][Next]_vars

=============================================================================
