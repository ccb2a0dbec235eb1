--------------------------- MODULE MCProfileLayout ---------------------------
(* Circumstances for profiles. *)
EXTENDS ProfileLayout

ProfileQuiet == [kinds |-> {}, together |-> FALSE, shrinks |-> FALSE, commands |-> 0,
                 edits |-> 0, failures |-> 0, deaths |-> 0]
Orderly == [ProfileQuiet EXCEPT !.kinds = {"register", "create", "use", "remove"},
                                !.commands = 5]

MCProfileSettings ==
  {ProfileQuiet,
   \* One command after another, with three profiles or two.
   Orderly,
   [Orderly EXCEPT !.commands = 3, !.failures = 1, !.edits = 1, !.deaths = 1],
   \* One profile only, as every installation starts.
   [ProfileQuiet EXCEPT !.kinds = {"init", "register"}, !.commands = 3, !.edits = 1,
                        !.deaths = 1],
   \* Commands of one moment meet an installation without profiles.
   [ProfileQuiet EXCEPT !.kinds = {"list"}, !.together = TRUE, !.commands = 3,
                        !.edits = 2, !.deaths = 2],
   [ProfileQuiet EXCEPT !.kinds = {"create", "use"}, !.together = TRUE,
                        !.commands = 3, !.deaths = 1]}

\* The last profile beside the default is removed.
ShrinkingSettings == {[Orderly EXCEPT !.shrinks = TRUE, !.deaths = 1]}

=============================================================================
