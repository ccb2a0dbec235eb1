-------------------------- MODULE MCDaemonEndpoint --------------------------
(* The circumstances the daemon and its clients are checked under. *)
EXTENDS DaemonEndpoint

DaemonQuiet == [supervised |-> FALSE, byHand |-> {}, serves |-> {}, deaths |-> 0,
                stops |-> 0, strangers |-> FALSE]
Supervised == [DaemonQuiet EXCEPT !.supervised = TRUE]

MCDaemonSettings ==
  {DaemonQuiet,
   \* Deaths, and another program on the port.
   [Supervised EXCEPT !.deaths = 2, !.strangers = TRUE],
   \* A burst of clients.
   [Supervised EXCEPT !.serves = Serves, !.deaths = 1],
   \* The user stops, restarts and removes it.
   [Supervised EXCEPT !.deaths = 1, !.stops = 2, !.strangers = TRUE],
   \* A daemon started by hand beside it.
   [Supervised EXCEPT !.byHand = Daemons \ {UnitDaemon}]}

\* Two daemons, and nothing else goes wrong.
SecondDaemon == {[Supervised EXCEPT !.byHand = Daemons \ {UnitDaemon}]}

=============================================================================
