--------------------------- MODULE MCSnapshotStore ---------------------------
(* Model values, followers and the settings of the runs of SnapshotStore. *)
EXTENDS SnapshotStore

CONSTANTS r1, r2, f1, x1, a, b

\* Every follower follows the first profile.
FollowsFirst == [f \in Followers |-> a]

\* Two readers, one profile and a follower; nothing goes wrong.
Following == [profiles |-> {a}, readers |-> {r1, r2}, indexers |-> {}, ids |-> 3,
              rewind |-> FALSE, fail |-> FALSE, close |-> FALSE]

\* An indexer publishes as well: to two readers, and more than once.
Shared  == [Following EXCEPT !.indexers = {x1}, !.ids = 2]
Indexed == [Following EXCEPT !.readers = {r1}, !.indexers = {x1}]

\* CURRENT is rolled back and loads fail: with two generations, and with three
\* for a reader or a publisher; or loads fail and the server closes.
Disturbed == [Indexed EXCEPT !.ids = 2, !.rewind = TRUE, !.fail = TRUE]
DisturbedReader    == [Disturbed EXCEPT !.ids = 3, !.indexers = {}]
DisturbedPublisher == [Disturbed EXCEPT !.ids = 3, !.readers = {}]
Closed == [Disturbed EXCEPT !.rewind = FALSE, !.close = TRUE]

\* Two profiles and room for one: for two readers, and for a publisher.
Crowded  == [Following EXCEPT !.profiles = {a, b}, !.ids = 1]
Replaced == [Crowded EXCEPT !.readers = {r1}, !.ids = 2]

\* A stale publisher and an eviction.
Overtaken == [Indexed EXCEPT !.profiles = {a, b}]

\* A load that fails once.
Refused == [Following EXCEPT !.readers = {r1}, !.ids = 2, !.fail = TRUE]

Promising == {Following, Shared, Indexed, Disturbed, DisturbedReader, DisturbedPublisher,
              Closed, Crowded, Replaced}
OvertakenOnly == {Overtaken}
RefusedOnly   == {Refused}

=============================================================================
