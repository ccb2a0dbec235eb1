------------------------------- MODULE Resync -------------------------------
(***************************************************************************)
(* internal/indexing/resync.go: the loop, one per server and profile, that *)
(* follows HEAD of the registered repositories and rebuilds the graph when *)
(* a checkout moved it; with what cmd/kivgraph/main.go injects into it and *)
(* what internal/watcher/githead.go lets it see of a checkout.             *)
(*                                                                         *)
(* Several servers follow the same repositories.  Their ticks read HEAD,   *)
(* never the files; the pass they start reads the files, never HEAD.       *)
(***************************************************************************)
EXTENDS Naturals, FiniteSets, Sequences

CONSTANTS
  Servers,          \* the servers that follow one profile
  NoServer,         \* nobody holds resync.lock
  Repositories,     \* the registered repositories
  MaxCommit,        \* bound: the commits are 1..MaxCommit
  NoCommit,         \* no checkout under way; a HEAD nobody could read yet
  TreeOf,           \* the tree each commit records
  Torn,             \* the files of a tree git is still writing
  ResyncAttempts,   \* resync.go:49
  MaxMoves,         \* bound: checkouts in one behaviour
  ResyncSettings    \* the circumstances one run covers

Commits == 1..MaxCommit
Trees   == {TreeOf[c] : c \in Commits}
NoPass  == [r \in {} |-> Torn]

(***************************************************************************)
(* What a behaviour has to live with: which servers run, whether HEAD may  *)
(* come back to a commit it left, how many passes fail for a reason of the *)
(* machine (failures; forever means all of them may), whether servers die  *)
(* and start again, whether an `index --full` outside the loop publishes,  *)
(* and whether a HEAD may be unreadable for a moment.                      *)
(***************************************************************************)
ResyncSetting ==
  [servers: SUBSET Servers, follows: SUBSET Repositories, revisits: BOOLEAN,
   failures: Nat, forever: BOOLEAN, deaths: Nat, outside: BOOLEAN,
   unreadable: BOOLEAN]

ASSUME ResyncAttemptsAssumption == ResyncAttempts \in Nat \ {0}
ASSUME ResyncTreesAssumption    == Torn \notin Trees /\ NoCommit \notin Commits
ASSUME ResyncCommitsAssumption  == MaxCommit \in Nat \ {0}
ASSUME ResyncSettingsAssumption == ResyncSettings \subseteq ResyncSetting

VARIABLES
  resyncSetting,    \* constant in a behaviour
  head,             \* the commit HEAD names, per repository
  checkout,         \* the commit a running checkout writes, or NoCommit
  files,            \* the tree on disk
  graph,            \* the tree the published generation describes
  resyncLock,       \* the holder of resync.lock
  server,           \* the loop's state in each server
  outsidePass,      \* what an `index --full` of somebody else has observed
  tries,            \* history: the failures in a row of each loop, latest last
  budget            \* checkouts, machine failures and deaths still to come

world      == <<head, checkout, files>>
resyncVars == <<resyncSetting, head, checkout, files, graph, resyncLock,
                server, outsidePass, tries, budget>>

Follows == resyncSetting.follows
NoBatch == [r \in {} |-> [from |-> NoCommit, to |-> NoCommit]]

(* What may be read of the repositories' HEADs in one go. *)
Readable == IF resyncSetting.unreadable THEN SUBSET Follows ELSE {Follows}

-----------------------------------------------------------------------------
(* The loop's state and its helpers. *)

(* newHeadTracker and prime: where every HEAD is now, no move reported. *)
Primed(readable) ==
  [phase |-> "polling",
   heads |-> [r \in Follows |-> IF r \in readable THEN head[r] ELSE NoCommit],
   pending |-> NoBatch, batch |-> NoBatch,
   failed |-> NoBatch, count |-> 0, built |-> NoPass]

Stopped == [Primed({}) EXCEPT !.phase = "stopped"]

(* poll: the repositories whose HEAD left the commit last seen. *)
Moved(s, readable) ==
  {r \in readable : server[s].heads[r] \notin {NoCommit, head[r]}}

Seen(s, readable) ==
  [r \in Follows |-> IF r \in readable THEN head[r] ELSE server[s].heads[r]]

(* A repository that moves twice keeps the commit it started from. *)
MergedPending(s, moved) ==
  LET pending == server[s].pending
  IN  [r \in DOMAIN pending \cup moved |->
         IF r \notin moved THEN pending[r]
         ELSE [from |-> IF r \in DOMAIN pending THEN pending[r].from
                                                ELSE server[s].heads[r],
               to   |-> head[r]]]

(* anyBusy: git still holds the index lock of a repository of the batch. *)
AnyBusy(batch) == \E r \in DOMAIN batch : checkout[r] # NoCommit

(* commitChangedNothing over CommitsHaveIdenticalTrees. *)
ContentUnchanged(batch) ==
  \A r \in DOMAIN batch : TreeOf[batch[r].from] = TreeOf[batch[r].to]

(* Mutant: failures of another movement count too. *)
RecordAnyFailure(loop) == [loop EXCEPT !.failed = loop.batch, !.count = loop.count + 1]

(* repeatedFailures.record: a new movement starts the count over. *)
RecordFailure(loop) ==
  [loop EXCEPT !.failed = loop.batch,
               !.count  = IF loop.failed = loop.batch THEN loop.count + 1 ELSE 1]

(* repeatedFailures.clear *)
ClearFailures(loop) == [loop EXCEPT !.failed = NoBatch, !.count = 0]

(* Mutant: the move of a failed batch is forgotten. *)
RewindNothing(loop) == loop

(* rewind: the next poll sees the move of a failed batch again. *)
Rewind(loop) ==
  [loop EXCEPT !.heads = [r \in DOMAIN loop.heads |->
     IF r \in DOMAIN loop.batch THEN loop.batch[r].from ELSE loop.heads[r]]]

BackToPolling(loop) ==
  [loop EXCEPT !.phase = "polling", !.batch = NoBatch, !.built = NoPass]

(* Mutant: a retry forgets the failures before it. *)
RetryAfresh(loop) == BackToPolling(Rewind(ClearFailures(loop)))

(* The error branch of the loop: count, then retry or give up. *)
AfterFailure(loop) ==
  LET counted == RecordFailure(loop)
  IN  BackToPolling(IF counted.count < ResyncAttempts THEN Rewind(counted)
                                                      ELSE counted)

GivesUp(loop) == RecordFailure(loop).count >= ResyncAttempts

Remember(s, batch) ==
  LET extended == Append(tries[s], batch)
  IN  IF Len(extended) < ResyncAttempts THEN extended ELSE Tail(extended)

-----------------------------------------------------------------------------
(* The world: git.  HEAD moves before or after the files are rewritten, and  *)
(* the index lock is held in between.                                        *)

BeginCheckout(r, c, headFirst) ==
  /\ budget.moves > 0 /\ checkout[r] = NoCommit /\ c # head[r]
  /\ ~resyncSetting.revisits => c > head[r]
  /\ checkout' = [checkout EXCEPT ![r] = c]
  /\ head' = IF headFirst THEN [head EXCEPT ![r] = c] ELSE head
  /\ files' = [files EXCEPT ![r] = IF TreeOf[c] = @ THEN @ ELSE Torn]
  /\ budget' = [budget EXCEPT !.moves = @ - 1]
  /\ UNCHANGED <<resyncSetting, graph, resyncLock, server, outsidePass, tries>>

EndCheckout(r) ==
  /\ checkout[r] # NoCommit
  /\ checkout' = [checkout EXCEPT ![r] = NoCommit]
  /\ head' = [head EXCEPT ![r] = checkout[r]]
  /\ files' = [files EXCEPT ![r] = TreeOf[checkout[r]]]
  /\ UNCHANGED <<resyncSetting, graph, resyncLock, server, outsidePass, tries, budget>>

-----------------------------------------------------------------------------
(* The ticks of one loop. *)

(* A tick that sees a move: it is merged into the pending ones. *)
Poll(s, readable) ==
  LET moved == Moved(s, readable)
      seen  == Seen(s, readable)
  IN  /\ server[s].phase = "polling" /\ seen # server[s].heads
      /\ server' = [server EXCEPT ![s].heads = seen,
                                  ![s].pending = MergedPending(s, moved)]
      /\ UNCHANGED <<resyncSetting, world, graph, resyncLock, outsidePass, tries, budget>>

(* A tick that sees none, after the debounce, with git out of every pending *)
(* repository: the batch is taken.  How many quiet ticks came first is time. *)
TakeBatch(s, readable) ==
  /\ server[s].phase = "polling" /\ server[s].pending # NoBatch
  /\ Moved(s, readable) = {}
  /\ ~AnyBusy(server[s].pending)
  /\ server' = [server EXCEPT ![s].phase = "comparing",
                              ![s].heads = Seen(s, readable),
                              ![s].batch = server[s].pending,
                              ![s].pending = NoBatch]
  /\ UNCHANGED <<resyncSetting, world, graph, resyncLock, outsidePass, tries, budget>>

(* Leaving a batch without a rebuild, an outcome the loop takes for good. *)
Skip(s) ==
  /\ server' = [server EXCEPT ![s] = BackToPolling(ClearFailures(@))]
  /\ tries' = [tries EXCEPT ![s] = <<>>]

(* The content did not change between the two commits: no rebuild. *)
SkipUnchanged(s) ==
  /\ server[s].phase = "comparing" /\ ContentUnchanged(server[s].batch)
  /\ Skip(s)
  /\ UNCHANGED <<resyncSetting, world, graph, resyncLock, outsidePass, budget>>

(* resync.lock is held: another process is rebuilding, the batch is dropped. *)
LoseLock(s) ==
  /\ server[s].phase = "comparing" /\ ~ContentUnchanged(server[s].batch)
  /\ resyncLock # NoServer
  /\ Skip(s)
  /\ UNCHANGED <<resyncSetting, world, graph, resyncLock, outsidePass, budget>>

(* The lock is taken and the pass observes the sources it will index. *)
StartPass(s) ==
  /\ server[s].phase = "comparing" /\ ~ContentUnchanged(server[s].batch)
  /\ resyncLock = NoServer
  /\ resyncLock' = s
  /\ server' = [server EXCEPT ![s].phase = "rebuilding", ![s].built = files]
  /\ UNCHANGED <<resyncSetting, world, graph, outsidePass, tries, budget>>

(* The pass publishes: its sources are still what it observed. *)
Publish(s) ==
  /\ server[s].phase = "rebuilding" /\ server[s].built = files
  /\ graph' = server[s].built
  /\ resyncLock' = NoServer
  /\ Skip(s)
  /\ UNCHANGED <<resyncSetting, world, outsidePass, budget>>

(* The pass fails: its sources changed meanwhile, or the machine is at fault. *)
FailPass(s) ==
  /\ server[s].phase = "rebuilding"
  /\ \/ server[s].built # files /\ UNCHANGED budget
     \/ resyncSetting.forever /\ UNCHANGED budget
     \/ budget.failures > 0 /\ budget' = [budget EXCEPT !.failures = @ - 1]
  /\ resyncLock' = NoServer
  /\ server' = [server EXCEPT ![s] = AfterFailure(@)]
  /\ tries' = [tries EXCEPT ![s] =
       IF GivesUp(server[s]) THEN <<>> ELSE Remember(s, server[s].batch)]
  /\ UNCHANGED <<resyncSetting, world, graph, outsidePass>>

(* The pass published, and the server failed to serve what it published:     *)
(* Reindex returns that error, and the loop takes it for a failed rebuild.   *)
FailAttach(s) ==
  /\ server[s].phase = "rebuilding" /\ server[s].built = files
  /\ budget.failures > 0 /\ budget' = [budget EXCEPT !.failures = @ - 1]
  /\ graph' = server[s].built
  /\ resyncLock' = NoServer
  /\ server' = [server EXCEPT ![s] = AfterFailure(@)]
  /\ tries' = [tries EXCEPT ![s] =
       IF GivesUp(server[s]) THEN <<>> ELSE Remember(s, server[s].batch)]
  /\ UNCHANGED <<resyncSetting, world, outsidePass>>

(* Somebody else is publishing into the store: ErrPublishInProgress, taken  *)
(* for the lock's doing.                                                    *)
YieldToPublisher(s) ==
  /\ server[s].phase = "rebuilding" /\ outsidePass # NoPass
  /\ resyncLock' = NoServer
  /\ Skip(s)
  /\ UNCHANGED <<resyncSetting, world, graph, outsidePass, budget>>

(* A server ends; the system releases its lock. *)
Die(s) ==
  /\ budget.deaths > 0 /\ server[s].phase # "stopped"
  /\ budget' = [budget EXCEPT !.deaths = @ - 1]
  /\ server' = [server EXCEPT ![s] = Stopped]
  /\ resyncLock' = IF resyncLock = s THEN NoServer ELSE resyncLock
  /\ tries' = [tries EXCEPT ![s] = <<>>]
  /\ UNCHANGED <<resyncSetting, world, graph, outsidePass>>

(* A server starts and primes: what moved before is no move to it. *)
Start(s, readable) ==
  /\ s \in resyncSetting.servers /\ server[s].phase = "stopped"
  /\ server' = [server EXCEPT ![s] = Primed(readable)]
  /\ UNCHANGED <<resyncSetting, world, graph, resyncLock, outsidePass, tries, budget>>

-----------------------------------------------------------------------------
(* An `index --full` in a terminal: it takes no resync.lock. *)

OutsideStarts ==
  /\ resyncSetting.outside /\ outsidePass = NoPass
  /\ outsidePass' = files
  /\ UNCHANGED <<resyncSetting, world, graph, resyncLock, server, tries, budget>>

OutsideEnds ==
  /\ outsidePass # NoPass
  /\ graph' = IF outsidePass = files THEN outsidePass ELSE graph
  /\ outsidePass' = NoPass
  /\ UNCHANGED <<resyncSetting, world, resyncLock, server, tries, budget>>

-----------------------------------------------------------------------------

ResyncInit ==
  /\ resyncSetting \in ResyncSettings
  /\ head = [r \in Follows |-> 1]
  /\ checkout = [r \in Follows |-> NoCommit]
  /\ files = [r \in Follows |-> TreeOf[1]]
  /\ graph = files
  /\ resyncLock = NoServer
  /\ server = [s \in Servers |->
                 IF s \in resyncSetting.servers THEN Primed(Follows) ELSE Stopped]
  /\ outsidePass = NoPass
  /\ tries = [s \in Servers |-> <<>>]
  /\ budget = [moves |-> MaxMoves, failures |-> resyncSetting.failures,
               deaths |-> resyncSetting.deaths]

LoopStep(s) ==
  \/ \E readable \in Readable : Poll(s, readable)
  \/ \E readable \in Readable : TakeBatch(s, readable)
  \/ SkipUnchanged(s)
  \/ LoseLock(s)
  \/ StartPass(s)
  \/ Publish(s)
  \/ FailPass(s)
  \/ FailAttach(s)
  \/ YieldToPublisher(s)

ResyncNext ==
  \/ \E r \in Follows, c \in Commits, b \in BOOLEAN : BeginCheckout(r, c, b)
  \/ \E r \in Follows : EndCheckout(r)
  \/ \E s \in Servers : LoopStep(s)
  \/ \E s \in Servers : Die(s)
  \/ \E s \in Servers, readable \in Readable : Start(s, readable)
  \/ OutsideStarts
  \/ OutsideEnds

(* The ticker keeps ticking, a HEAD that can be read is read, and a pass or a *)
(* checkout under way ends.                                                   *)
ResyncFairness ==
  /\ \A r \in Repositories : WF_resyncVars(r \in Follows /\ EndCheckout(r))
  /\ \A s \in Servers :
       /\ WF_resyncVars(Poll(s, Follows))
       /\ WF_resyncVars(TakeBatch(s, Follows))
       /\ WF_resyncVars(SkipUnchanged(s) \/ LoseLock(s) \/ StartPass(s))
       /\ WF_resyncVars(Publish(s) \/ FailPass(s))
       /\ WF_resyncVars(Start(s, Follows))
  /\ WF_resyncVars(OutsideEnds)

ResyncSpec == ResyncInit /\ [][ResyncNext]_resyncVars /\ ResyncFairness

-----------------------------------------------------------------------------

Movement == [from: Commits, to: Commits]
Batches  == UNION {[D -> Movement] : D \in SUBSET Follows}
Checkouts == [Follows -> Trees \cup {Torn}]

ResyncTypeOK ==
  /\ resyncSetting \in ResyncSettings
  /\ head \in [Follows -> Commits]
  /\ checkout \in [Follows -> Commits \cup {NoCommit}]
  /\ files \in Checkouts /\ graph \in Checkouts
  /\ resyncLock \in Servers \cup {NoServer}
  /\ server \in [Servers ->
       [phase: {"stopped", "polling", "comparing", "rebuilding"},
        heads: [Follows -> Commits \cup {NoCommit}],
        pending: Batches, batch: Batches, failed: Batches,
        count: 0..ResyncAttempts, built: Checkouts \cup {NoPass}]]
  /\ outsidePass \in Checkouts \cup {NoPass}
  /\ \A s \in Servers : Len(tries[s]) < ResyncAttempts

(* A movement is abandoned only after ResyncAttempts failures in a row of    *)
(* that very movement: failures of another one never count against it       *)
(* (resync.go:290, "it can only ever suppress a repeat of the identical      *)
(* failing work, never work nobody has attempted yet").                     *)
AbandonsOnlyRepeats ==
  [][\A s \in Servers :
       LET loop == server[s]
           failedNow == loop.phase = "rebuilding" /\ server'[s].phase = "polling"
                          /\ server'[s].failed = loop.batch
           abandons  == failedNow /\ \E r \in DOMAIN loop.batch :
                                       server'[s].heads[r] # loop.batch[r].from
       IN  abandons => /\ Len(tries[s]) = ResyncAttempts - 1
                       /\ \A i \in DOMAIN tries[s] : tries[s][i] = loop.batch]_resyncVars

(* A loop that cannot succeed ends rather than burns the machine: once HEAD  *)
(* holds still nobody rebuilds any more, though every pass may fail.         *)
LoopsSettle ==
  <>[](\A s \in Servers : server[s].phase \in {"stopped", "polling"})

(* Several servers, passes that fail less often in a row than the loop       *)
(* tolerates, checkouts in the middle of a pass: in the end the published     *)
(* graph describes what is checked out.  It needs a HEAD that does not come   *)
(* back to a commit or a tree it left, servers that live and no publisher     *)
(* outside: a movement is compared by the trees at its ends, not the graph's. *)
TreesNeverReturn ==
  \A c, d, e \in Commits :
    c < d /\ d < e /\ TreeOf[c] = TreeOf[e] => TreeOf[d] = TreeOf[c]

GraphFollowsHead ==
  LET undisturbed ==
        /\ ~resyncSetting.revisits /\ TreesNeverReturn
        /\ ~resyncSetting.forever /\ ~resyncSetting.unreadable
        /\ resyncSetting.failures < ResyncAttempts
        /\ resyncSetting.deaths = 0 /\ ~resyncSetting.outside
  IN  <>[](undisturbed => graph = files)

(* Both of them: the loops come to rest, and where they should. *)
ResyncSettles == LoopsSettle /\ GraphFollowsHead

(* "OnSkipped reports a movement that needed no rebuild: the content is what  *)
(* the graph already describes, or another process is rebuilding it"         *)
(* (resync.go:90): the first half, for a batch skipped as unchanged.         *)
SkippedIsDescribed ==
  [][\A s \in Servers : SkipUnchanged(s) =>
       \A r \in DOMAIN server[s].batch : graph[r] = TreeOf[server[s].batch[r].to]]_resyncVars

=============================================================================
