# KivGraph: a TLA+ verification of its publication, serving, indexing and upkeep

KivGraph is a local server that answers coding agents from a graph of the
user's repositories. A *full pass* analyses every repository of a *profile*,
writes a candidate database, checks it and publishes it as a numbered
*generation*; every server on the machine follows the `CURRENT` pointer of that
store, keeps the generation in memory as a *hot snapshot* and serves readers
from it. Watchers of files and of Git heads, index jobs and users decide when a
profile is rebuilt; a supervised daemon hosts all of it for the clients.

This directory holds TLA+ models of these protocols, the TLC runs that check
them on small instances, and TLAPS proofs of the safety properties those runs check, for
any instance. Paths below are
relative to the repository (`src/`); line numbers are those of the modelled
commit.

## 1. Inventory

```
  serve (one per client) --relay/provision--> daemon <--starts-- supervisor
                                                | hosts
      +-----------------------+-----------------+--------------+-------------+
      v                       v                 v              v             v
 source monitors      resynchroniser      index jobs     freshness     TS worker
 (watcher, batcher)   (HEAD of repos)     (MCP tools)    monitor+cache (TypeScript)
      |                       |                 |              ^
      v                       |                 v              |
 invalidation state,          |         registry saved, pass,  |
 scheduler                    |         registry restored      |
      |                       v                 |              |
      +-------> full pass (child process): observe, analyse, verify
                              |  rebuild.Run: Publish, Prune
                              v
             generations/<id>, CURRENT, BACKUP  (rollback, clean)
                              |  followers of CURRENT in every server
                              v
      SnapshotStore (one per profile) <-- Load <-- MCP tools, web API
```

| Component | State it keeps | Operations | What is hard about it |
|---|---|---|---|
| **Generation store** (`internal/storage/generation`) | `generations/<id>` and `<id>.tmp`, `CURRENT`, `BACKUP`, the `.next` files, `publish.lock`, the space reserve, `LAST_FAILURE.json` | Publish, Restore, Prune, Discard, DiscardExcept | several processes on one directory, most operations without a lock; failure, death or power loss between any two system calls; undo that may fail too |
| **Rebuild and rollback** (`internal/rebuild`, `internal/upgrade`) | none of its own | Run (gates, Publish, Prune), Roles (which id comes next), Rollback | the id is planned before the lock; retention runs after it |
| **Snapshot store** (`internal/hotsnapshot/publication.go`) | active snapshot, known generation, deferred loader, refusal, closed flag, the LRU of materialised profiles | Load, Publish, AddProfile, ActiveID, Close | lock-free compare-and-swap between readers, followers and indexers; eviction; shutdown |
| **Follower** (`internal/indexing/follow.go`) | nothing between ticks | Follow, followOnce | must converge although others publish and CURRENT may go back |
| **Indexing service** (`internal/indexing/service.go`, `subprocess.go`) | the repository registry, one gate | IndexProjects, Reindex | registry saved before a child pass of minutes and restored when it fails |
| **MCP index jobs** (`internal/mcp/tools/index_jobs.go`) | job table of 32, one active job | start, run, status, Close | history limit against polling clients; cancellation |
| **Full pass** (`internal/indexing/full.go`) | `analyzer-targets.lock` | RunFull | sources move while they are analysed; recording may fail after publishing |
| **Invalidation state** (`internal/invalidation`) | one JSON file: per profile the manifest it was built from and a stale mark; a mutex and a file lock | Refresh, Invalidate, MarkStale, RecordPublished | shared by every process; a busy lock is an error |
| **Scheduler and source watchers** (`cmd/kivgraph/invalidation.go`) | pending set, attempts, sleeping retries, one wake token; per watcher an undelivered change | enqueueStale, run, reindex, retry; observation, redelivery | fan-out over shared worktrees, bounded retries, restart of the server |
| **Filesystem watcher and batcher** (`internal/watcher`, `internal/indexing/sourcewatch.go`) | tree of watches, event channel, batch under collection, content hashes, pending result | Run, Process, Reconcile, deliver | events taken later than they happened, overflow, directories that come and go, a consumer that refuses |
| **Profile indexer** (`cmd/kivgraph/profile_indexer.go`) | gate, freshness caches, profiles created while running | IndexProjects, ReindexProfile | one pass at a time for all profiles |
| **Content freshness** (`internal/freshness`) | a cached status, a monitor | Store, StoreIfUnverified, MarkStale, MarkUnavailable, verification | a pass, a verification, a watch and a follower that overtake each other |
| **Resynchroniser** (`internal/indexing/resync.go`) | last HEADs, pending movements, failure budget | poll, batch, skip, rebuild, rewind | movements while a batch is rebuilt; a lost lock taken for success |
| **TypeScript worker** (`internal/tsworker`) | a child process, a readiness channel, pending requests, restarts in a window | Start, Call, restart, Close | sessions lost in every position; a handshake that fails; late answers |
| **Daemon and relay** (`internal/daemon`, `internal/relay`, `cmd/kivgraph/daemon.go`, `endpoint.go`) | socket, port, `daemon.port`, `daemon.json`, provisioning lock | listen, publish, serve, withdraw; probe, provision, await | what a killed daemon leaves; several daemons and many clients over one directory |
| **Daemon supervisor** (`internal/supervisor`) | the unit | install, restart, remove; restart on failure | external, limited restarts |
| **Fact cache** (`internal/indexer/factcache.go`) | the cache directory; per pass a memo of fingerprints and a staging directory | analyse (load, store), commit, discard, prune | fingerprints are taken at other moments than the analysis, and entries are admitted only after the gates of the caller |
| **Profiles on disk** (`internal/config/profiles.go`) | the registry `config.yaml` names, `profiles/<name>`, `profiles.default`, the backup of the migration | migrate, list, load and register, create, use, remove | a registry that changes its place when a second profile is created; commands of several processes, mostly without a lock; death between two renames |
| **Self update** (`internal/update`) | the installed bundle and its `.previous` | download, swap, roll back | death, or another update, between two renames |

What makes each correct: the store never names a generation that is not whole,
undoes what it could not finish and can always publish again; the snapshot
store never takes readers back, loads once, stays within its limit and ends up
on `CURRENT`; the invalidation loop forgets no stale profile, ends its retries
and leaves every profile recorded with the sources as they are; the
resynchroniser ends with the graph of what is checked out, and gives up only
what failed again and again; a status never says fresh of a graph nobody
compared; a failed registration leaves the registry the graph was built from;
a request to the worker is answered by its own session or told of its loss;
what the source monitor tells is in the end what is on disk; the daemon
comes back on the URL its clients hold; what the fact cache serves is what a new
analysis would find; a profile's registry is its own; and neither an update nor
the upgrade to profiles costs the user what was installed.

The rest of the repository (language loaders, the rest of the indexer, syntax and fact
types, workspace discovery, the LadybugDB bindings, the indexes of a snapshot,
MCP and web queries, client integrations, observability, the viewer,
benchmarks, build files) is computation or input and output without a protocol
between actors; `PROJECT.json` lists each part with the reason it is left out.

## 2. Modules

| Module | Role |
|---|---|
| `ActiveGeneration` | abstract: one active generation, whole at every instant, switched in one step |
| `GenerationStore` | the generation store and the operations that reach it |
| `GenerationStore_proofs` | its theorems, for any processes |
| `LoneProcess_proofs` | theorems about the store when its operations do not overlap, and its refinement |
| `PublishedSnapshot` | abstract: what a profile serves only moves to newer generations until it is shut |
| `SnapshotStore` | the snapshot store, followers and in-server indexers |
| `SnapshotStore_proofs` | its theorems, and its refinement |
| `SourceInvalidation` | watchers, state file, scheduler and passes |
| `SourceInvalidation_proofs` | its theorems |
| `Resync` | the loops that follow HEAD, of several servers |
| `ContentFreshness` | cache, monitor and passes of one server and profile |
| `ProjectIndexing` | index jobs, gates, registry and child passes of several processes |
| `TsWorker` | the supervisor of the TypeScript worker |
| `TsWorker_proofs` | its theorems |
| `SourceWatch` | watcher, batcher, hasher and loop of one source monitor |
| `DaemonEndpoint` | daemons, supervisor, clients and the files they share |
| `FactCache` | the cache of analyses, full passes and graph upgrades over it |
| `Sources_proofs` | theorems about SourceWatch, FactCache and ContentFreshness |
| `BundleUpdate` | the swap of the installed bundle by several updates |
| `ProfileLayout` | the migration to profiles and the commands on them |
| `Operations_proofs` | theorems about BundleUpdate, ProfileLayout, DaemonEndpoint, Resync and ProjectIndexing |
| `MCGenerationStore`, `MCSnapshotStore`, `MCSourceInvalidation`, `MCResync`, `MCTsWorker`, `MCDaemonEndpoint`, `MCProfileLayout` | model values and circumstances |
| `MCServer` | the components a server hosts beside its stores, for one run |
| `Server_proofs` | the theorems about them, carried over to the server that hosts them all |

**Circumstances.** Every module has a variable `...Setting` that `Init` chooses
from a constant set and no action changes: which actors exist, what may go
wrong and how often. One run so covers several circumstances, each exhaustively,
and a property may say under which of them it holds. The MC modules name the sets.

**MCServer.** Its nine components share no variable, and their interleavings
would only multiply states. `ServerInit` therefore lets exactly one of them run
and gives the others their *quiet* setting, under which nothing happens; the
disjuncts of `ServerNext` repeat this, so that TLC need not try what is quiet. The
run checks each component by itself; what one component does to another is in the
environment of each module (a pass of somebody else, a follower, a publisher).

### GenerationStore

A process has a program counter `pc[p]` and the locals of its operation,
`local[p]`, named as in the code (`prev` is `previousID`, `switched` holds
`currentChanged` and `backupChanged`, `renamed` is `finalCreated`). One action is one call
that reaches the disk, so every place where another process may run, where the
fault injector of the tests may strike, or where the process may die is a state
of the model. A publisher walks

    Plan -> Acquire -> Open -> Create -> Build -> Validate -> Seal -> Rename -> SyncGens
         -> (BACKUP.next, rename, CURRENT.next, rename) -> SyncRoot -> Clear -> prune

`Fail` sends an operation from any of these steps into `Undo`
(`abortPublication`, or the deferred function of Restore), whose parts may
break as well without stopping the later ones. `Crash` frees the lock (it is an
`flock`) and leaves the disk alone. `PowerLoss` ends every process and keeps of
each directory entry either the flushed or the current state; a directory whose
removal was under way may come back half empty.

Abstractions. A candidate is good or bad, which stands for the digest,
integrity and probe gates; it is `ready` only when `syncTree` ran after the
gates. Numbers wrap at `MaxId`, which stands for the search of NextID over a bounded range. The
in-process mutex `store.mu` is left out, for every caller opens a `Store` of its own. The
processes are the CLI, a server's child pass and a user's `clean`; each runs
one operation at a time.

`ActiveGeneration` is implemented under `active <- CURRENT` and
`whole <-` the directories that are ready.

### SnapshotStore

Each profile has `active`, `generation`, `failure`, `mutex` (`deferredOnce`) and
`closed`; `lru` is `profileLRU`. A reader walks Look, Lock, Recheck, Resolve,
Materialise, Install, Learn, Touch; a publisher (a follower after `Poll` and `Compare`, or
an indexer after `Produce` and `Attach`) walks CheckOpen, ReadCurrent, ReadKnown,
CompareAndSwap, RecheckOpen, Retire, RecordGeneration, Touch. One step is one atomic load,
store or compare-and-swap, or one critical section of `profilesMu`. `MoveCurrent` is
the rest of the world: passes of other processes, and rollbacks.

Abstractions. A snapshot is its generation number. `ActiveID`, which reads two
atomics, is one step. Closing walks the profiles in any order.

`PublishedSnapshot` is implemented, where nothing is evicted, under
`served <-` the active snapshot of a profile that is not closed.

### SourceInvalidation

`record` is the state file, `lock` its file lock, `targets` the lock of the
analyzer targets; `watcher[pr]` holds the content cache (`known`), what was
observed (`seen`) and whether the last change was delivered. A watcher goes
Notice, Observe, TakeLock, then Invalidate or MarkStale, then EnqueueStale. The
scheduler goes Wake, Take, Check, Rebuild, (the child pass), Recheck; `Retry`
counts an attempt and starts a timer while the budget lasts. A pass observes
the sources when it takes `targets`, verifies them, and records; `Restart` kills
the server and leaves its child pass running.

Abstractions. A worktree holds a content; a manifest is a function from the
worktrees of a profile to contents, and which worktrees a profile uses does not
change. The analysis is the time between the two observations. Verify includes
the publication itself, which `GenerationStore` models. The passes of a user
are processes of their own; watchers of a second server on the same
installation are left out, and so are passes started through the server's own
tools, which wait at a gate instead of failing. What the watcher does between
the file system and `Notice` is `SourceWatch`.

### Resync

`head[r]` is the commit HEAD names, `files[r]` the tree on disk and `TreeOf` the
tree a commit records; a checkout moves HEAD first and leaves the files `Torn`
until it ends, and the loop does not poll a repository in between
(`GitOperationInProgress`). Per server, `server[s]` holds the tracker's heads, the pending
movements, the batch under way, and the batch that failed last with its count.
A loop goes Poll, TakeBatch, then SkipUnchanged (the trees of the two commits
are equal), LoseLock (`resync.lock` is held) or StartPass, then Publish or
FailPass with the rewind. `FailAttach` is a pass that published and was then
refused by the server; `YieldToPublisher` is one that found another publisher. `Die` and `Start`
are the server, `OutsideStarts` a user's `index --full`.

Abstractions. Interval and debounce are nondeterminism. A pass reads the files
when it starts: what moves later is what its own verification catches, and that
fails the pass.

### ContentFreshness

A version number of the sources stands for their inventory digest; `builtFrom`
and `record` are what each generation was built from and what its attestation
says. The cache is the pair of a generation and a state; `Reported` is what
`graph_status` answers, which is nothing about any other generation than the one
served. The monitor goes from its setup to watching, hears of edits some time
after them, and verifies once. A pass goes indexing, recording, attaching,
rechecking, storing and, for `index_project`, replaces the monitor.

### ProjectIndexing

Operations are numbered in the order they are asked for; each is a call or a job
of a host, waits at the gate of its host, saves the candidate registry, runs a
child pass that reads the registry and publishes, and completes, fails and
restores, or fails to be served. `jobs[h]` has the retained ids in order, the
active one and whether the table is closed. A host that dies leaves the
registry as it is and its child running (`orphan`).

### TsWorker

`supervisor` is what the mutex guards: state, current session, the readiness
channel (`gateClosed`, and `panicked` if it were closed twice) and the restarts
in the window. `watch` is the goroutine that reads a session, waits for its exit
and restarts; `starting` and `closing` are one Start and Close; each call goes
asking, blocked, holding, registered, sent, ended. A worker process may die at
any moment, answer, answer what nobody asked, or break the framing and live on.

### SourceWatch

Events go `raw` (the system's queue), `emitting`, `events`, `collecting`,
`batches`; the loop compares what a batch names with `known`, keeps in `unsent`
what the consumer has not taken, and `told` is what the consumer knows. The
meaning of an event is read from the disk when it is processed. One directory
stands for every directory that comes and goes; `subWatch` says whether the
watcher believes it watches it and whether that watch is on the directory that
is there.

### DaemonEndpoint

A daemon goes starting, bound, persisted, published, then checks, removes and
binds the socket, and serves; or it is refused at the socket, withdraws and
fails. Shutting down closes the socket and HTTP in any order, and removes
`daemon.json` after HTTP. `unit` is the supervisor: installed or not, a start
due, and the starts left in its limit. A `serve` probes the endpoint, relays if
something answers, and otherwise installs the unit where there is none, waits,
or serves in its own process.

Abstractions. One port of `Ports` is bound or not by one process; a probe
succeeds when anybody listens, as in `relay.reachable`. Tokens, `--addr` and
what a session says are left out. The window of the start limit does not pass.

### FactCache

`entries` is the cache directory; per kind of pass there is `cachePass` (how far
it is and which sources it observed), `memo` (`fingerprintMemo`), `analysis` (per
unit, what was read so far) and `staged`. A full pass goes idle, analysing, merged,
checked, committing; an upgrade goes from analysing to committing, for it calls
`indexer.Full` and that commits by itself. A unit is looked up, read
input by input unless an entry serves it, and stored (staged), not loaded, or, in the verify
mode, compared. `EditInput` may come between any two steps; a pass may end
anywhere (`Abandon`).

Abstractions. A content is a revision, a fingerprint is that revision, and the facts of a
unit are the revisions its analysis read. A unit's own tree stands for all its
local inputs; the fingerprints of one look are taken at one moment. Which providers a unit asks
for does not change, so `registry_changed` does not happen. `unseen`
records that an edit slipped past the gates: an input was put back to what a
running pass had observed, or was edited during an upgrade.

### BundleUpdate

`installed` and `previous` are each none, torn (a removal has begun) or whole. A process
goes staged, clearing, cleared, moved, and either removing, or undoing and
restoring, as `replaceBundle` and its deferred rollback do. A rename is refused
if its target exists. Nothing locks the directory, so several may do so at once.

Abstractions. Download, digests and extraction are before `Stage`; which release a
bundle holds makes no difference.

### ProfileLayout

`legacy` is the registry `config.yaml` names, `directory[p]` what is under
`profiles/p` (a registry, no registry, or nothing), `kept` the backup of the migration and
`pointer` is `profiles.default`. A command reads the configuration, resolves or
migrates the default profile (copied, backed), lists, and goes on: `register` loads a
registry and saves it with an entry more; `create` adopts, claims, makes and
saves; `remove` accepts and removes in two steps; `use` looks and points under
the lock of the configuration, which `init` holds too until it registers. `registered` is a history
variable: what was registered in each profile. The two file locks are read off the
processes, since they go with them.

Abstractions. A registry is a set of entries; the graph beside it is copied and
removed with it. The migration also refuses while an older daemon or writer is
at work, which is a command that was not given. `index_project` with a new
profile is `create` followed by `register`; the pass after a registration is
`ProjectIndexing`.

## 3. Runs

| Run | Instance | Checks |
|---|---|---|
| `store_faults` | one process at a time, 4 ids; all four commands with 2 failures or deaths, and all but discard with 1 failure, death or power loss; fair | TypeOK, CurrentResolves, BackupWasActive, UndoneMeansUntouched, RetainsActiveAndBackup, RollbackCanBeRolledForward, ImplementsActiveGeneration, RetrySucceeds |
| `store_publishers` | two publishers, 4 ids, 1 fault or power loss | SwitchIsExclusive, CandidateIsDebris |
| `store_prune_race` | two publishers, no fault | violation of PruneSparesPublications |
| `snapshot_promise` | up to 2 readers, a follower, an indexer, 3 generations; rollbacks, failing loads, Close; 2 profiles with room for one; fair | TypeOK, LoadsOnce, ReadersNeverGoBack, OpenProfilesBounded, FollowsPublished, ImplementsPublishedSnapshot |
| `snapshot_stale_publisher` | 2 profiles and room for one, with an indexer, 3 generations | violation of StalePublisherLoses |
| `snapshot_stuck_refusal` | reader, follower, failing loads | violation of RefusalMeansServed |
| `invalidation_loop` | a profile on two worktrees with failing observations and passes, a user's pass, an edit, a restart; two profiles on one worktree; a profile whose worktree is edited three times (there, back and there again); fair | TypeOK, NobodyForgotten, Settles, Converges |
| `invalidation_lost` | one profile, a user's pass, an edit | violation of NoEditIsLost |
| `server` | the nine components of MCServer one at a time, in up to six circumstances each; fair | the twenty properties below |
| `resync_skip` | one server, one repository, a revert, one failure | violation of SkippedIsDescribed |
| `profile_shrink` | one process, two profiles, the second or the first removed | violation of ProfilesKeepTheirRegistry |
| `daemon_second` | a supervised daemon and one started by hand | violation of SocketImpliesEndpoint |

The properties of `server`:

| Component | Properties | What they say |
|---|---|---|
| all | ServerTypeOK | the type invariants |
| Resync | AbandonsOnlyRepeats, ResyncSettles | a movement is given up only after it failed itself, that often in a row; the loops come to rest even if no pass succeeds; otherwise the graph ends up as what is checked out |
| ContentFreshness | FreshWasCompared, FreshnessSettles | fresh is only said of a graph that was compared, not for good of one that was not built from the sources, and what is attested does not stay unverified |
| ProjectIndexing | AcceptedIsPollable, RegistryIsKept | an accepted job can be polled until enough newer ones came; graph and registry agree when nobody is inside; a registration that succeeded survives the failure of others |
| TsWorker | ReadinessIsTold, AnswersStayInTheirSession, NothingOutlivesClose, WorkerSettles | the readiness channel is closed exactly while the state says READY, and never twice; the one exception is named in the property: a Start that ends while Close is under way leaves it closed behind CLOSED; an answer reaches a call of its own session only; no worker outlives Close; the calls of a lost session and a loop of crashes end |
| SourceWatch | PendingCoversTheGap, WatchFollowsTree, ChangesReachTheConsumer | what is known and not yet told is pending; the watches follow the tree; the consumer learns what is on disk |
| DaemonEndpoint | DaemonRecovers, UrlMovesOnlyIfTaken | the supervised daemon comes back on both doors; the URL moves only off a port somebody took |
| FactCache | FactsAreReproducible | an entry has the facts of the contents it names, and what a full pass publishes has those of the sources its manifest says |
| BundleUpdate | BundleSurvives | a whole bundle is always somewhere, and under its name once the updates are over |
| ProfileLayout | ProfilesKeepTheirRegistry, UpgradeIsWhole | a command finds in a profile what was registered there, wherever its registry lies; at most one state is ever migrated, and it is the one that was kept |

Why the bounds are enough to meet the interesting cases. Four ids are an active
generation, its backup, the one being published and one left over, so every
retention and every reuse of a number happens. Two faults let a failure be
followed by a failure of its undo, or by a death inside it; a power loss after
a fault needs two, which section 6 tells. Two publishers are what one lock
separates. In the snapshot store three
generations give an old, a current and a newer one, and a profile beyond
`MaxOpen` gives eviction. In the invalidation loop three edits
let a worktree be changed, be put back before the watcher has observed it, and be
changed again before the next scan; two attempts are a retry and a
giving up; the second pass slot is what a child left behind by a restart needs.
Two checkouts are one that starts a pass and one that comes during it; four
commits of which two have the same tree give a movement that changes nothing;
two attempts are the smallest budget that can be counted wrong. A tree that comes
back takes a third checkout, and `GraphFollowsHead` leaves it out (section 6). Two generations
and two edits let a status be about an older graph and an edit come after the
verification of another. Three operations of one host are one inside the gate
and two that wait, or a job beyond a history of one. One restart in the window,
four sessions and two calls reach the exhausted budget, the restart after the
window and a call of an old session under a new one. One slot in each channel of
the source monitor blocks the batcher and the watcher with three events. Three
ports are the preferred one, one of a stranger and a free one; two deaths reach
the start limit of two. Two units are a provider and its consumer; two edits
move an input away and back, two passes are one that stages and one that is served. Two
failures break a swap and then its rollback; three updates find what the one
before left behind. Three profiles let one be removed and two be left; five commands
are two creations, a registration, a change of the pointer and a removal.

Troubles that multiply each other's states are divided among circumstances. A failure,
a death and an edit of the user's meet within three commands on profiles, and the
five go undisturbed; freshness has every trouble with one edit, and all
but failing watches with two; three operations of one host follow each other
undisturbed, two fail or are cancelled, and two hosts may die; the source monitor
has three changes alone or with a directory that comes and goes, two where a
consumer refuses or events are lost; two servers meet a failing pass, passes that never
succeed with a death, or a HEAD that comes back, and one server has
failures and such a HEAD with a publisher outside and HEADs that cannot be read. In the snapshot store, rollbacks of
CURRENT among failing loads have two generations where a reader and a publisher are both there, and
three where one of them is.

Deadlock is checked where something can always run. It is switched off where a
system really stops: two publishers of which one found the store unreadable
(`store_publishers`, `store_prune_race`), a server that was closed
(`snapshot_promise`), an installation nobody edits any more (the
invalidation runs, `resync_skip`), and the components of `server`, `profile_shrink` and
`daemon_second`, which rest when their bounded troubles are over.

### Fairness

- `GenerationStore`: weak fairness of each process's progress, since an
  operation that has started goes on; none of the faults, nor of the start of
  an operation except the publication RetrySucceeds speaks of.
- `SnapshotStore`: weak fairness of each worker's own steps (goroutines) and of
  the follower's poll (a ticker). CURRENT need not move, nobody has to ask.
- `SourceInvalidation`: weak fairness of each watcher (events, a periodic
  reconciliation and a retry ticker), of the scheduler, of the timers and of a
  pass that has started. Nothing has to fail, nobody has to edit.
- `Resync`: weak fairness of the ticker with heads that can be read, of the loop
  and its pass, of a checkout and of another's pass, which end. A pass that may
  fail need not; that failures are finite is in the setting, not in the fairness.
- `ContentFreshness`: the goroutines of monitor, verification, pass and follower.
- `TsWorker`: the goroutines, a worker that lives answers, a handshake ends by
  its timeout. No request timer is counted on, nobody has to call Close.
- `SourceWatch`: the three goroutines and the timers; the reconciliation where
  the setting has it.
- `DaemonEndpoint`: a daemon that lives goes on, and the supervisor starts what
  is due. No client has to come or go.

## 4. Proofs

The theorems hold for every value of the constants and every circumstance,
except where a hypothesis is named; TLC has checked each property, and the
larger inductive invariants, on the runs' instances before. What is assumed of the constants is
named in the modules (`...Assumption`), and TLC evaluates it: names are distinct from the
markers beside them (None is no manifest, either), settings have their types, budgets and limits are natural numbers
(at least one attempt, one commit), and where a cardinality is taken the set
is finite (`Hosts`, `Profiles` of ProfileLayout). The first conjunct of most invariants
is a type with the roles of the actors (who may be at which step); the rest is
what the property needs beyond itself.

### The generation store

`GenerationStore_proofs`, for any processes, operations, `MaxId` and faults:

- `TypeCorrect` (TypeOK), one lemma per group of actions. `FieldsTyped` states
  once that every update of a process's locals keeps them typed.
- `BackupNeverInvented` (BackupWasActive). The value that reaches BACKUP comes
  from a local, from a `.next` file or, after a power loss, from the flushed copy;
  `BackupSources` says that each of those only ever holds a generation that
  was CURRENT, or none.
- `OnlyDebrisIsRemoved` (CandidateIsDebris). `CandidateUnderLock`: whoever is between
  opening the store and renaming its candidate holds the lock.
- `PublishersDoNotMix` (SwitchIsExclusive), for any number of publishers and faults, if
  nothing but publications uses the store (`OnlyPublishers`). The lock is
  extended to the switch and the undo, and the pointers are where the step of its
  holder says. The hypothesis is needed: rollback and clean take no lock.
- `ListingApartSpares`: PruneSparesPublications, which `store_prune_race` refutes, for any
  processes running any operations, and any failures, deaths and power losses, if the step
  in which a prune or a clean lists what it will remove is taken while no other process
  has a renamed publication under way, nor anything left to remove (`ListsApart`). Only
  that step is held back: the pointers may have been read before a publication, the
  removals may meet the next one at any step, and ids come back. Both halves are needed:
  `store_prune_race` breaks the first, and without the second two removers list one id,
  one removes it, a publication takes it again, and the other removes it. Taking
  publish.lock from the list to the last removal would give both. The invariant is
  `Sparing`: an id that a publication holds is there exactly when it was renamed and is
  on no list (`Kept`), and what is listed is there, on one list (`ListsTrue`).

`LoneProcess_proofs` is about a store whose operations do not overlap (`Alone`): one
process, any operations, any number of failures and deaths; or one power
loss as the only fault, in a store nobody empties. Beyond it `CurrentResolves` is
false of the code: two processes meet in `store_prune_race`, and section 6 tells
what a second fault or a discard does to a power loss.

- `CurrentNeverDangles` (CurrentResolves), `FailureLeavesNoTrace` (UndoneMeansUntouched),
  `RetentionIsExact` (RetainsActiveAndBackup) and `RollbackIsReversible`
  (RollbackCanBeRolledForward) follow from one invariant, `Inv`. It says for the
  operation under way what it remembers of the pointers (`Remembered`), how far
  the switch or the undo has brought them (`Switched`, `HowFar`), how far the
  candidate is (`CandidateStage`, `Own`), that a pointer only differs from what an undo
  promises after a fault (`Faulted`), that removers spare what the pointers name
  (`Removing`, `Spared`), and, until a machine has lost its power, that what the pointers name is flushed
  before they are (`Flushed`). None of the four properties is inductive: each
  is about the end of an operation whose middle breaks it.
- `StoreImplementsActive` (ImplementsActiveGeneration): under the same hypothesis
  every step is a step of `ActiveGeneration` or a stutter. No step, not even a power
  loss, moves CURRENT and a generation at once, nor loses one generation and brings back another
  (`Separate`); what a publication adds or a power loss returns is `Retain`, what a prune, a
  clean or a power loss takes is `Drop`.

### The snapshot store

`SnapshotStore_proofs`, for any profiles, readers, publishers and `MaxOpen`:

- `StoreTyped` (TypeOK), with who may be at which step, and that whoever is in the
  load's critical section holds `mutex` (`Locked`). `RefreshedShape` and its companions say
  what moving a profile to the end of the LRU, and cutting the list, keep.
- `RoomIsKept` (OpenProfilesBounded). `Covered`: a materialised profile is on the list, or some worker
  that installed it has yet to touch it.
- `PromiseKept` (ImplementsPublishedSnapshot), the refinement, where nothing is
  evicted (`NeverEvicts`). `Newest`: what is active is the newest the profile has ever
  served, so that a compare-and-swap against what was read can only move forward.
- `NoReaderGoesBack` (ReadersNeverGoBack). `Floors`: what a reader was promised when it
  called is behind the newest its profile has served, and behind what it is about to answer.
- `RoomMakesTheStaleLose` (StalePublisherLoses), from `Newest`: with room for every profile, what an
  open store serves is the newest it ever served. Without that room
  `snapshot_stale_publisher` refutes it; while a store is being closed a late
  publisher may put its snapshot there for a moment, and takes it back.
- `FaithfulRefusals` (RefusalMeansServed). `Answered` follows a refusal back to the publication or load that
  made the refused generation known; it needs that CURRENT only goes forward and that loads
  do not fail (`Faithful`), not that profiles stay materialised. `snapshot_stuck_refusal` has a
  load that fails.
- `LoadedOnce` (LoadsOnce), with room for every profile and nothing going wrong (`Calm`). `Once`: a second load finds the first under the
  mutex, or what it published. It needs that CURRENT is ahead of what is known (`Behind`) and
  that nothing published is taken back (`Published`).

### Sources, freshness and the cache

`SourceInvalidation_proofs`, for any profiles, worktrees, passes and attempts:

- `LoopTyped` (TypeOK, with the holders of both locks).
- `NobodyIsForgotten` (NobodyForgotten). A stale profile is attended (`Attended`); the delicate steps
  are those of the scheduler between its two looks at the record and of a watcher between
  its write and its enqueue. It includes the next theorem.
- `LostEditsWereOvertaken` (LostMeansOvertaken, a part of NobodyForgotten). When every watcher has
  delivered what it saw, a profile that is recorded with other sources than there are is
  stale or `overtaken`. `Compared`: what a watcher has delivered was compared with the
  record, and agreed with it or marked the profile. So an edit is lost in two ways only: a pass records a
  manifest its watcher had moved past (`invalidation_lost`), or the observation
  that follows a scan sees other sources than the scan (section 6).

`Sources_proofs`, for any files, units, revisions, generations and edits:

- `FactsReproduced` (FactsAreReproducible). `Honest` says that what a pass has in its memo, its
  facts and its staging is true of the sources it stands for, as long as no
  edit went unseen; `Others` that the two kinds of passes leave each other's notes alone.
- `NothingUntold` (PendingCoversTheGap), which is inductive with its types, one case per
  step of the monitor.
- `WatchIsFresh` (WatchFollowsTree). The events of a directory come and go in turn, the last one
  agrees with the tree, and before the first of them is taken the watch is what
  that one expects (`Queue`).
- `MonitorTyped` (WatchTypeOK) and `CacheIsTyped` (CacheTypeOK), the types, with the capacity of
  the channels and one entry at an address.
- `FreshnessTyped`: `FreshnessTypeOK`, which also says that what is served never runs ahead of
  CURRENT.
- `FreshMeansCompared` (FreshWasCompared). `FreshIsBacked` covers the cache, a verification that
  has read and not stored, and a pass that has seen itself served.

### The worker

`TsWorker_proofs`, for any calls, restart limit and circumstances:

- `SupervisorTyped` (the types). The number of sessions is bounded by the Starts and restarts
  that are left (`Affordable`).
- `ReadinessIsAlwaysTold` (ReadinessIsTold). Start, the watch goroutine and Close take turns, and
  the state says whose turn it is (`Turns`); the channel is closed while it is READY, and
  once Close has begun only by a Start that overlapped it, once (`Gate`). Only that
  Start can leave the channel closed behind CLOSED.
- `AnswersStay` (AnswersStayInTheirSession). `Sorted`, with `Waiting`: a registered call has no answer, and an
  answer that comes belongs to the session that sends it.
- `CloseLeavesNobody` (NothingOutlivesClose). `Held`: a process that lives is in the hands of
  Start, of the watch goroutine or of Close.

### The operations around a graph

`Operations_proofs`, for any processes, commands, hosts, repositories and faults:

- `UpdateKeepsABundle` (BundleSurvives), from one invariant for updates that come one at a time
  (`LoneUpdate`) and one for those that overlap with nothing going wrong (`QuietUpdates`).
- `MigrationIsWhole` (UpgradeIsWhole). `CopyIsKept`: what is about to be published is what the
  backup holds.
- `RegistriesAreKept` (ProfilesKeepTheirRegistry) for commands given in turn (`InTurn`: one
  at a time, none of which takes the last profile beside the default, and no `init` where there is
  a `create`) and for commands that overlap while an installation is being founded
  (`Founding`). Each part of the hypothesis excludes a behaviour that is shown by `profile_shrink` or
  told in section 6. `LayoutSound`: the legacy registry is the default's while it is
  alone, and the directories are everybody's from then on; `create` passes through a state where
  both are, and may die in it. `CommandSound`: what a command has read still holds. Commands die
  between any two steps.
- `UrlIsStable` (UrlMovesOnlyIfTaken). `UrlIsKept`: the saved port follows the published one.
- `AbandonedOnlyRepeats` (AbandonsOnlyRepeats). The count belongs to the last failures, all of
  one movement (`LoopSound`); it rests on `CannotRepeat`, that a movement that was given up
  cannot be the next one, because the repositories are where it led.
- `UndisturbedSkips` (SkippedIsDescribed, which `resync_skip` refutes), where one server follows one
  repository, HEAD goes forward through trees that do not come back, passes fail less often than
  the loop tolerates and nobody else publishes. `LoopDescribes`: where a movement starts is
  described if HEAD is to stay on that tree, what a batch leads to is on disk when it
  is taken, and only failures of the machine count against a movement HEAD has not left, so that such a
  one is never given up. TLC finds the promise broken as soon as any one of these hypotheses is dropped
  (`Undisturbed`, `TreesNeverReturn`).
- `AcceptedStaysPollable` (AcceptedIsPollable). A table lists its jobs in the order they
  came and its active one is the latest (`OrderSound`); of a forgotten job a whole history is
  newer (`JobSound`).
- `LoneSocketImpliesEndpoint` (SocketImpliesEndpoint), where no second daemon is started by hand
  (`daemon_second` has one). `OpenDoors`: what a daemon has bound, saved and published, step by
  step of its start, and that nobody else touches it.
- `EndpointTyped`, `ResyncTyped`, `JobsTyped`, `BundlesTyped`, `ProfilesTyped`: the types of the five
  components. That of the jobs needs how long a history grows (`JobsBounded`), and takes
  a bound on operations that is a natural number.
- `RegistryStaysKept` (RegistryIsKept). What the one operation inside the gate has done to
  registry and graph (`InsideSound`), and that what completed is in any copy that it may
  restore (`CompletedKept`).

### The server

`Server_proofs`, for the nine components of `MCServer`:

- `ServerHostsComponents`: a behaviour of the server, seen from the variables of one component,
  is a behaviour of that component, with its fairness. `ServerSteps` is the step: what
  `ServerNext` does is a step of one of them and a stutter of the others.
- `ServerTyped` (ServerTypeOK), from that and the types of the components.
- `ServerIsSafe`: every safety property of the run `server`, with the circumstances of
  profiles that `MCServer` has, of which each is `InTurn` or `Founding`.

### What delimits a broken promise

Of each promise that section 5 refutes, a theorem says where it does hold:
`ListingApartSpares`, `RoomMakesTheStaleLose`, `FaithfulRefusals`, `LostEditsWereOvertaken`,
`UndisturbedSkips`, `RegistriesAreKept`, `LoneSocketImpliesEndpoint`.

### Only model-checked

- All that is liveness, which is out of the prover's reach: RetrySucceeds, FollowsPublished,
  Settles, Converges, ResyncSettles, FreshnessSettles, WorkerSettles,
  ChangesReachTheConsumer, DaemonRecovers.

Safety beyond the hypotheses named above is refuted by a run, told in section 6, or
left open in section 8.

No module declares a RECURSIVE operator.

## 5. Where the code and what it says of itself differ

Each has a run that shows the behaviour.

- `store_prune_race`: Prune runs after the publication lock is released and takes
  none. It reads the pointers, a second publisher renames its generation into place,
  prune lists it and removes it, and the publisher makes CURRENT name it.
- `snapshot_stale_publisher`: between a publisher's checks and its
  compare-and-swap from nil, a newer generation can be published *and evicted*; the
  swap succeeds and the older generation is served and becomes the known one.
- `snapshot_stuck_refusal`: after a deferred load failed, the follower rebuilds the
  generation CURRENT names at every tick and Publish refuses it as not newer
  than the known one, although nobody serves it; the follower takes the refusal
  for another publisher's success.
- `invalidation_lost`: an edit after the last verification of a pass and before
  its RecordPublished is observed and marked by the watcher; the record wipes the mark and
  the queued rebuild is dropped. The watcher knows the content already, so only
  the next edit or a restart brings the profile back. `Converges` exempts this, and an observation
  that sees other sources than its scan (`overtaken`).
- `resync_skip`: a pass publishes and then fails to be served, so the tracker is
  rewound to the commit before; HEAD goes back to a commit with that commit's
  tree, and the movement is skipped as changing nothing, while the graph
  describes the tree in between.
- `profile_shrink`: while the default profile is the only one, the legacy registry
  stands for its own (`loadProfile`, `profiles.go:446`); a second profile makes it
  diverge, and nothing copies it back. Create a profile, move the pointer to it and
  remove the first: the one that is left has the repositories of the one removed.
  Register in the default profile while there are two, and remove the other: the
  registration is gone, and the next `create` overwrites the registry that had it.
  The pass run leaves the last profile beside the default alone (`shrinks`).
- `daemon_second`: a second daemon finds the port taken, binds another, writes it to
  `daemon.port` and over `daemon.json`, is refused at the socket, and withdraws the
  endpoint as it leaves. The first daemon serves on, unnamed by any file, and its
  next life comes up on the other port.

## 6. Other behaviours met while modelling

They follow from the modules with other settings, and no run is kept for them.

Store and snapshots:

- `clean --keep-active` (`cmd/kivgraph/main.go:2031`) reads CURRENT and removes the
  others later without the lock: a publication in between loses the generation it made
  active (`operations |-> {"publish", "discardExcept"}`, two processes).
- Discard unlinks the pointers first but flushes after removing; a power loss
  may keep CURRENT and lose its generation, though the comment in `backup.go:88-93`
  promises a store that reads as empty (`"discard"` with `power |-> TRUE`).
- With two faults: Restore of a generation whose rename was never flushed,
  followed by a power loss, leaves CURRENT dangling and no operation but a
  discard goes on.
- A deferred load refused because a publication overtook it stores its refusal
  after that publication cleared it (`publication.go:343`, against the comment at 450-452).
  It does no harm while the newer snapshot is active; but once that is
  evicted, the refusal keeps readers from loading the profile and the known
  generation keeps the follower from publishing it, until a newer generation
  comes. `FollowsPublished` therefore takes room for every profile.
- A deferred load that passed its check of `closed` installs its snapshot after
  Close cleared the store (`publication.go:357`, against the comment at 463).
- A reader that lost the compare-and-swap answers the snapshot it built.

Invalidation, heads and freshness:

- A retry asleep while an event resets its budget makes a second chain of
  retries, so a failing profile may be rebuilt more than five times for one
  event (`invalidation.go:190-216`); `Settles` holds nevertheless.
- An edit reverted between two looks of a watcher, with a pass of a user in
  between, leaves a record that differs from the sources and is never marked.
- Even with no pass in between: a scan sees an edit and `OnChange` observes the sources by itself
  later (`cmd/kivgraph/invalidation.go:332`), when the edit is reverted, so nothing is marked;
  redone before the next scan, the edit is what the cache knows already.
- A watcher whose registry or first scan failed ends for the life of the server.
- A HEAD that comes back to a commit it left, the death of a server with a batch
  under way, and a publisher outside the loop can each leave the graph behind
  HEAD until the next movement; `GraphFollowsHead` exempts them by name.
- So can a tree that comes back, though nothing fails. The batch from a to b is taken, HEAD moves on to c
  before the pass observes the sources, and the pass publishes c. HEAD moves to d, whose tree is
  b's: the loop compares b with d (its tracker's commits, `resync.go:238`) and skips, and the
  graph describes c. `GraphFollowsHead` takes that no tree comes back (`TreesNeverReturn`).
- A directory of sources moved into a repository raises one event, for the
  directory, which `monitoredInput` (`freshness/monitor.go:225`) ignores: the graph stays
  fresh. So does an edit between the last check of a server's own pass and its
  `Store`. `ChangesAreReported` exempts both.

Indexing, worker, monitor and daemon:

- A child pass killed after it published leaves its graph active, and the parent
  restores the registry without the project. Two processes that register
  overwrite each other's entries. A host that dies keeps the candidate registry.
- A Start that overlaps Close marks the supervisor READY, or STOPPED, after
  CLOSED and leaves a worker running. A worker that breaks the framing and does
  not exit is never killed, and its calls wait for their timers. The repository
  wires this supervisor into no command yet.
- A full queue of batches stops the batcher without a look at its context
  (`debounce.go:94`). An event lost when a directory was created leaves it
  unwatched for good; only the reconciliation sees what is in it. A batch of
  which one file cannot be read is dropped whole, until the reconciliation.
- Two daemons that start over a stale socket may each remove the other's live
  one: both then serve, on one socket file. The comment at
  `daemon.go:113-116` rests on a dial that was made before.
- A `serve` that read "no unit" before another one installed it, and before the
  user stopped that daemon, installs it again and starts it
  (`provisionDaemon` reads the status before it takes the lock).
- A supervised daemon that fails because one started by hand is live withdraws
  the endpoint at each of its restarts.
- The probe is satisfied by any program that answers on the port, which
  `relay.go:169-172` declares.

- A call that waits for a restart blocks on the readiness channel
  (`tsworker/supervisor.go:671`); when the restart budget is spent the supervisor goes to
  FAILED without waking it, against the comment at line 30 (`closes |-> FALSE`, callers without a
  deadline).

Profiles:

- `init --repository` writes the legacy registry always (`main.go:1506`): once there are two
  profiles, none of them sees what it registered (`kinds |-> {"init", "create"}`).
- A registration that chose the legacy registry before another process created
  the second profile is saved where nobody reads it any more (`{"register", "create"}`, `together`).
- RemoveProfile reads the pointer without the lock UseProfile holds: both succeed, and
  the pointer names no profile, though `docs/adr/0087-profiles-many-graphs-behind-one-entry.md:283-285`
  says it never does (`{"create", "use", "remove"}`, `together`).
- A `create` or `remove` that dies leaves a directory without a registry, whose name
  `create` refuses as existing and `remove` and `list` do not find.
- A migration that dies after its backup, followed by an edit of the legacy registry,
  refuses at every later command until the backup is removed by hand. `UpgradeIsWhole` is
  the other side of it.

Fact cache and bundle:

- The graph upgrade (`internal/upgrade/upgrade.go:120`) calls `indexer.Full`, which admits what it
  staged at its end (`full.go:400`) with no look at the sources. The comment at `full.go:325-328`
  asks for a verification first and takes Full to have no publication above it; the upgrade is one. A provider edited between the
  analysis of its consumer and `describeInputs` then makes an entry whose facts
  are of the old provider and whose fingerprint is of the new one; the next full pass
  is served it, and its gates, which look at the sources only, let it publish
  (`kinds |-> Kinds` with edits).
- The same entry comes of a full pass in which a provider is edited and put back:
  the gates see the sources they observed.
- A lockfile above the repositories is fingerprinted but not observed by the
  gates. The module has it as part of the unit's own tree.
- An update that dies between its two renames leaves the program under `.previous` only,
  and none under its name, though `README.md:195` calls the replacement atomic.
- Two updates that overlap lose the bundle altogether when one of them fails or
  dies there: each removes what the other keeps as its backup (`rivals |-> TRUE` with failures).

## 7. Not modelled

- Most of the code by lines is computation or input and output: the language
  loaders and the indexer (what a pass makes of sources), fact and
  snapshot indexes, the queries of the MCP tools and of the web API,
  configuration parsing, client integrations, layout and the viewer. A model of
  them would repeat a function, not a protocol; the mapped share of the lines is small for that
  reason, and covers the files where actors meet.
- The download and verification of a release, and of the graph upgrade the
  diagnosis of a schema and the backup copy: neither has a second actor. What they do to the store, to the cache,
  to the bundle and to the daemon is in `GenerationStore`, `FactCache`, `BundleUpdate` and
  in `RestartUnit`.
- Watchers of several servers on one installation; the event stream of a child
  pass; progress counters; rename detection; Windows' and macOS' locks and
  supervisors; bearer tokens and explicit addresses of the daemon; sessions of
  its clients. `Describe` and `Space`, which only read.

## 8. Plan

The modules of the first plan are there. What is left, most important first:

1. Theorems: ProfilesKeepTheirRegistry where commands overlap otherwise than in `Founding`;
   which parts of `CurrentResolves` publishers keep that overlap, short of the prune of another.
2. An abstract specification of the invalidation loop, in which a profile is
   either fresh or owed a rebuild.
3. Composition: `MoveCurrent` of SnapshotStore and `OthersPublish` of
   ContentFreshness replaced by the abstract store; the source monitor and the
   scheduler joined at `told`; the pass of ProjectIndexing over FactCache.
