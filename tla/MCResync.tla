------------------------------ MODULE MCResync ------------------------------
(* The circumstances the resynchroniser is checked under. *)
EXTENDS Resync

One(S) == {CHOOSE x \in S : TRUE}

\* Commits 2 and 3 record one tree.
MCTreeOf == <<"old", "new", "new", "newer">>

ResyncQuiet == [servers |-> {}, follows |-> {}, revisits |-> FALSE, failures |-> 0,
                forever |-> FALSE, deaths |-> 0, outside |-> FALSE, unreadable |-> FALSE]
TwoServers == [ResyncQuiet EXCEPT !.servers = Servers, !.follows = One(Repositories)]
OneServer  == [ResyncQuiet EXCEPT !.servers = One(Servers), !.follows = Repositories]

MCResyncSettings ==
  {ResyncQuiet,
   \* Two servers on one repository, and one on two; a pass fails.
   [TwoServers EXCEPT !.failures = 1],
   [OneServer EXCEPT !.failures = 1],
   \* No pass succeeds, and one of two servers dies.
   [OneServer EXCEPT !.forever = TRUE],
   [TwoServers EXCEPT !.forever = TRUE, !.deaths = 1],
   \* Two servers see a HEAD that comes back.
   [TwoServers EXCEPT !.revisits = TRUE],
   \* Everything else that may disturb one server.
   [OneServer EXCEPT !.follows = One(Repositories), !.revisits = TRUE, !.outside = TRUE,
                     !.unreadable = TRUE, !.failures = 2]}

-----------------------------------------------------------------------------
(* A commit that reverts another one, and one failure. *)

RevertTreeOf == <<"old", "new", "new", "old">>

RevertSettings ==
  {[OneServer EXCEPT !.follows = One(Repositories), !.failures = 1]}

=============================================================================
