----------------------------- MODULE SourceWatch -----------------------------
(***************************************************************************)
(* The source monitor of one profile: internal/watcher (the watch over the  *)
(* tree, the batcher, the content hasher and the reconciler) as the loop of *)
(* internal/indexing/sourcewatch.go drives them.  Three goroutines pass     *)
(* events on through bounded channels; what a filesystem event means is     *)
(* always read from the disk, and later than the event.                     *)
(*                                                                         *)
(* One directory below the root stands for every directory that may come    *)
(* and go while it is watched.                                              *)
(***************************************************************************)
EXTENDS Naturals, Sequences, FiniteSets

CONSTANTS
  TopFiles,        \* source files directly below the root
  SubFiles,        \* source files in the directory
  Sub,             \* the directory
  Contents,        \* what a file may hold
  Absent,          \* a file that does not exist
  EventBuffer,     \* the capacity of Watcher.events (watcher.go:132)
  BatchBuffer,     \* debounce.go:14
  WatchSettings    \* the circumstances one run covers

Files == TopFiles \cup SubFiles
Disks == [Files -> Contents \cup {Absent}]

(***************************************************************************)
(* Whether the monitor runs at all, reports its first scan, and reconciles  *)
(* from time to time; how often the tree changes, whether the directory is  *)
(* moved out and in as well; and how many events the system loses, scans or *)
(* batches fail on an unreadable file, and deliveries the consumer refuses. *)
(***************************************************************************)
WatchSetting ==
  [runs: BOOLEAN, initial: BOOLEAN, reconciles: BOOLEAN, moves: BOOLEAN,
   changes: Nat, losses: Nat, errors: Nat, refusals: Nat]

ASSUME BuffersAssumption == EventBuffer \in Nat \ {0} /\ BatchBuffer \in Nat \ {0}
ASSUME FilesAssumption ==
  Sub \notin Files /\ Absent \notin Contents /\ TopFiles \cap SubFiles = {}
ASSUME WatchSettingsAssumption == WatchSettings \subseteq WatchSetting

VARIABLES
  watchSetting,   \* constant in a behaviour
  disk,           \* the files
  subExists,      \* whether the directory is there
  subWatch,       \* watched: Watcher.watched has it; live: its watch is on this directory
  raw,            \* what the system has queued for the watcher
  emitting,       \* the event the watcher is about to emit, at most one
  events,         \* Watcher.events
  collecting,     \* the batcher: what it collects, and whether it is flushing
  batches,        \* the batcher's output
  loop,           \* WatchSources: how far it is
  known,          \* ContentHasher.known
  unsent,         \* the pending result, by file; empty when there is none
  told,           \* history: the files as the delivered results describe them
  watchBudget     \* bound: changes, losses, errors and refusals still to come

treeVars  == <<disk, subExists, subWatch>>
pipeVars  == <<raw, emitting, events, collecting, batches>>
cacheVars == <<known, unsent, told>>
watchVars == <<watchSetting, treeVars, pipeVars, loop, cacheVars, watchBudget>>

Event(path, op) == [path |-> path, op |-> op]
Spend(trouble) ==
  /\ watchBudget[trouble] > 0
  /\ watchBudget' = [watchBudget EXCEPT ![trouble] = @ - 1]

-----------------------------------------------------------------------------
(* The tree, and what the system reports of it.  A loss is an overflow of its *)
(* queue.                                                                     *)

Installed == loop \in {"watched", "running"}

Reports(event, seen) ==
  IF ~(Installed /\ seen) THEN Spend("changes") /\ UNCHANGED raw
  ELSE \/ Spend("changes") /\ raw' = Append(raw, event)
       \/ /\ watchBudget.losses > 0 /\ watchBudget.changes > 0
          /\ watchBudget' = [watchBudget EXCEPT !.losses = @ - 1, !.changes = @ - 1]
          /\ UNCHANGED raw

ChangeFile(f, content) ==
  /\ content # disk[f]
  /\ f \in SubFiles => subExists
  /\ disk' = [disk EXCEPT ![f] = content]
  /\ Reports(Event(f, "write"), f \in TopFiles \/ subWatch.live)
  /\ UNCHANGED <<watchSetting, subExists, subWatch, emitting, events, collecting,
                 batches, loop, cacheVars>>

(* The directory leaves: its files leave with it, and its watch is on what   *)
(* left.                                                                     *)
MoveOut ==
  /\ watchSetting.moves /\ subExists
  /\ subExists' = FALSE
  /\ disk' = [f \in Files |-> IF f \in SubFiles THEN Absent ELSE disk[f]]
  /\ subWatch' = [subWatch EXCEPT !.live = FALSE]
  /\ Reports(Event(Sub, "rename"), TRUE)
  /\ UNCHANGED <<watchSetting, emitting, events, collecting, batches, loop, cacheVars>>

(* A directory of that name comes, with whatever files. *)
MoveIn(content) ==
  /\ watchSetting.moves /\ ~subExists
  /\ subExists' = TRUE
  /\ disk' = [f \in Files |-> IF f \in SubFiles THEN content[f] ELSE disk[f]]
  /\ Reports(Event(Sub, "create"), TRUE)
  /\ UNCHANGED <<watchSetting, subWatch, emitting, events, collecting, batches, loop,
                 cacheVars>>

-----------------------------------------------------------------------------
(* internal/watcher/watcher.go *)

(* addTree from the root. *)
InstallWatch ==
  /\ loop = "setup"
  /\ loop' = "watched"
  /\ subWatch' = [watched |-> subExists, live |-> subExists]
  /\ UNCHANGED <<watchSetting, disk, subExists, pipeVars, cacheVars, watchBudget>>

(* addTree looks at what is there by now; addDirectory trusts its own map. *)
AddTree ==
  IF subExists /\ ~subWatch.watched THEN [watched |-> TRUE, live |-> TRUE] ELSE subWatch

(* Mutant: what left stays in the map. *)
RemoveNothing == subWatch

(* removeTree takes the path off the map, and whatever watch it has. *)
RemoveTree == [watched |-> FALSE, live |-> FALSE]

(* processEvent, up to the channel: the tree of watches follows the event. *)
TakeRaw ==
  /\ loop = "running" /\ raw # <<>> /\ emitting = <<>>
  /\ raw' = Tail(raw)
  /\ emitting' = <<Head(raw).path>>
  /\ subWatch' = CASE Head(raw).op = "create" -> AddTree
                   [] Head(raw).op = "rename" -> RemoveTree
                   [] OTHER -> subWatch
  /\ UNCHANGED <<watchSetting, disk, subExists, events, collecting, batches, loop,
                 cacheVars, watchBudget>>

(* emit blocks while the channel is full. *)
Emit ==
  /\ emitting # <<>> /\ Len(events) < EventBuffer
  /\ events' = events \o emitting
  /\ emitting' = <<>>
  /\ UNCHANGED <<watchSetting, treeVars, raw, collecting, batches, loop, cacheVars,
                 watchBudget>>

-----------------------------------------------------------------------------
(* internal/watcher/debounce.go: events of one path become one. *)

Collect ==
  /\ events # <<>> /\ ~collecting.flushing
  /\ collecting' = [collecting EXCEPT !.paths = @ \cup {Head(events)}]
  /\ events' = Tail(events)
  /\ UNCHANGED <<watchSetting, treeVars, raw, emitting, batches, loop, cacheVars,
                 watchBudget>>

(* The quiet period or the batch's time is over. *)
TimerFires ==
  /\ collecting.paths # {} /\ ~collecting.flushing
  /\ collecting' = [collecting EXCEPT !.flushing = TRUE]
  /\ UNCHANGED <<watchSetting, treeVars, raw, emitting, events, batches, loop, cacheVars,
                 watchBudget>>

(* flush blocks while the output is full, and collects nothing meanwhile. *)
Flush ==
  /\ collecting.flushing /\ Len(batches) < BatchBuffer
  /\ batches' = Append(batches, collecting.paths)
  /\ collecting' = [paths |-> {}, flushing |-> FALSE]
  /\ UNCHANGED <<watchSetting, treeVars, raw, emitting, events, loop, cacheVars, watchBudget>>

-----------------------------------------------------------------------------
(* internal/watcher/hash.go and reconcile.go: what became of some paths. *)

(* Process: every tracked path is compared with the last content seen. *)
Compared(paths) ==
  [f \in paths \cap Files |->
     CASE disk[f] = known[f] -> [change |-> FALSE, content |-> disk[f]]
       [] OTHER              -> [change |-> TRUE, content |-> disk[f]]]

HasSourceChanges(result) == \E f \in DOMAIN result : result[f].change

(* The cache after it: whole, or untouched when one file cannot be read. *)
KnownAfter(result) ==
  [f \in Files |-> IF f \in DOMAIN result THEN result[f].content ELSE known[f]]

(* Mutant: the latest state of each path. *)
CoalescedLatest(previous, next) == [f \in DOMAIN previous \cup DOMAIN next |->
  IF f \in DOMAIN next THEN next[f] ELSE previous[f]]

(* coalesceReconciliationResults: the latest state of each path, except that *)
(* what changed is not overwritten by what did not.                          *)
Coalesced(previous, next) ==
  [f \in DOMAIN previous \cup DOMAIN next |->
     IF f \in DOMAIN next /\ ~(f \in DOMAIN previous /\ previous[f].change /\ ~next[f].change)
     THEN next[f] ELSE previous[f]]

(* A consumer that takes over what a result says changed. *)
TakesOver(result) ==
  [f \in Files |-> IF f \in DOMAIN result /\ result[f].change THEN result[f].content
                                                              ELSE told[f]]

(* deliverPending: the consumer takes it, or it stays for the next time. *)
Deliver(result) ==
  \/ /\ told' = TakesOver(result)
     /\ unsent' = <<>>
     /\ UNCHANGED watchBudget
  \/ /\ Spend("refusals")
     /\ unsent' = result
     /\ UNCHANGED told

(* queuePending and deliverPending, if there is something to tell. *)
Report(result) ==
  /\ known' = KnownAfter(result)
  /\ IF HasSourceChanges(result) THEN Deliver(Coalesced(unsent, result))
                                 ELSE UNCHANGED <<unsent, told, watchBudget>>

-----------------------------------------------------------------------------
(* internal/indexing/sourcewatch.go *)

(* The watches are there first; then the first scan fills the cache, and is   *)
(* told only if the consumer asked for it.                                    *)
Seed ==
  /\ loop = "watched"
  /\ loop' = "running"
  /\ IF watchSetting.initial
     THEN Report(Compared(Files))
     ELSE known' = disk /\ told' = disk /\ UNCHANGED <<unsent, watchBudget>>
  /\ UNCHANGED <<watchSetting, treeVars, pipeVars>>

(* WatchSources returns an error: nobody starts it again. *)
SeedFails ==
  /\ loop = "watched" /\ Spend("errors")
  /\ loop' = "stopped"
  /\ UNCHANGED <<watchSetting, treeVars, pipeVars, cacheVars>>

ProcessBatch ==
  /\ loop = "running" /\ batches # <<>>
  /\ batches' = Tail(batches)
  /\ Report(Compared(Head(batches)))
  /\ UNCHANGED <<watchSetting, treeVars, raw, emitting, events, collecting, loop>>

(* Mutant: the cache keeps what was read of a batch that failed. *)
BatchFailsHalfway ==
  /\ loop = "running" /\ batches # <<>> /\ Spend("errors")
  /\ batches' = Tail(batches)
  /\ known' = KnownAfter(Compared(Head(batches)))
  /\ UNCHANGED <<watchSetting, treeVars, raw, emitting, events, collecting, loop, unsent,
                 told>>

(* One unreadable file: the error is reported, and the batch is gone. *)
BatchFails ==
  /\ loop = "running" /\ batches # <<>> /\ Spend("errors")
  /\ batches' = Tail(batches)
  /\ UNCHANGED <<watchSetting, treeVars, raw, emitting, events, collecting, loop, cacheVars>>

(* The ticker: every source file and every known one is looked at. *)
Reconcile ==
  /\ loop = "running" /\ watchSetting.reconciles
  /\ Report(Compared(Files))
  /\ UNCHANGED <<watchSetting, treeVars, pipeVars, loop>>

Redeliver ==
  /\ loop = "running" /\ unsent # <<>>
  /\ Deliver(unsent)
  /\ UNCHANGED <<watchSetting, treeVars, pipeVars, loop, known>>

-----------------------------------------------------------------------------

(* A monitor starts on a tree that has whatever files; its cache is empty. *)
WatchInit ==
  /\ watchSetting \in WatchSettings
  /\ \E content \in Contents : disk = [f \in Files |-> content]
  /\ subExists = TRUE
  /\ subWatch = [watched |-> FALSE, live |-> FALSE]
  /\ raw = <<>> /\ emitting = <<>> /\ events = <<>> /\ batches = <<>>
  /\ collecting = [paths |-> {}, flushing |-> FALSE]
  /\ loop = IF watchSetting.runs THEN "setup" ELSE "stopped"
  /\ known = [f \in Files |-> Absent]
  /\ unsent = <<>>
  /\ told = [f \in Files |-> Absent]
  /\ watchBudget = [changes |-> watchSetting.changes, losses |-> watchSetting.losses,
                    errors |-> watchSetting.errors, refusals |-> watchSetting.refusals]

TreeStep ==
  \/ \E f \in Files, content \in Contents \cup {Absent} : ChangeFile(f, content)
  \/ MoveOut
  \/ \E content \in [SubFiles -> Contents] : MoveIn(content)

PipeStep ==
  \/ TakeRaw
  \/ Emit
  \/ Collect
  \/ TimerFires
  \/ Flush

LoopTurn ==
  \/ InstallWatch
  \/ Seed
  \/ SeedFails
  \/ ProcessBatch
  \/ BatchFails
  \/ Reconcile
  \/ Redeliver

WatchNext == TreeStep \/ PipeStep \/ LoopTurn

(* The three goroutines run on, and the timers fire. *)
WatchFairness ==
  /\ WF_watchVars(TakeRaw) /\ WF_watchVars(Emit)
  /\ WF_watchVars(Collect) /\ WF_watchVars(TimerFires) /\ WF_watchVars(Flush)
  /\ WF_watchVars(InstallWatch \/ Seed \/ SeedFails)
  /\ WF_watchVars(ProcessBatch \/ BatchFails)
  /\ WF_watchVars(Reconcile) /\ WF_watchVars(Redeliver)

WatchSpec == WatchInit /\ [][WatchNext]_watchVars /\ WatchFairness

-----------------------------------------------------------------------------

Paths   == Files \cup {Sub}
Results == UNION {[D -> [change: BOOLEAN, content: Contents \cup {Absent}]] : D \in SUBSET Files}

WatchTypeOK ==
  /\ watchSetting \in WatchSettings
  /\ disk \in Disks /\ known \in Disks /\ told \in Disks
  /\ subExists \in BOOLEAN /\ subWatch \in [watched: BOOLEAN, live: BOOLEAN]
  /\ raw \in Seq([path: Paths, op: {"write", "create", "rename"}])
  /\ emitting \in {<<>>} \cup {<<p>> : p \in Paths}
  /\ events \in Seq(Paths) /\ Len(events) <= EventBuffer
  /\ collecting \in [paths: SUBSET Paths, flushing: BOOLEAN]
  /\ batches \in Seq(SUBSET Paths) /\ Len(batches) <= BatchBuffer
  /\ loop \in {"setup", "watched", "running", "stopped"}
  /\ unsent \in Results \cup {<<>>}
  /\ watchBudget \in [changes: 0 .. watchSetting.changes, losses: 0 .. watchSetting.losses,
                      errors: 0 .. watchSetting.errors, refusals: 0 .. watchSetting.refusals]

(***************************************************************************)
(* The cache runs ahead of the consumer by exactly what is waiting to be    *)
(* delivered: a change the hasher has taken note of, and will not see       *)
(* again, is never lost to a consumer that refuses for a while, however     *)
(* results pile up meanwhile.                                               *)
(***************************************************************************)
PendingCoversTheGap == known = TakesOver(unsent)

(***************************************************************************)
(* Once the queued events are taken, the directory is watched if it is      *)
(* there, and watched afresh if it left and came back: the events of both,  *)
(* taken later than they happened, leave no watch on what is gone.  It      *)
(* takes a system that loses no event: nothing rebuilds the watches.        *)
(***************************************************************************)
WatchFollowsTree ==
  watchSetting.losses = 0 /\ loop = "running" /\ raw = <<>>
    => subWatch = [watched |-> subExists, live |-> subExists]

(***************************************************************************)
(* What the consumer was told is in the end what is on disk: with the       *)
(* reconciliation whatever is lost, unreadable or refused in between (it is  *)
(* "the recovery path for dropped or missed notifications", reconcile.go:   *)
(* 36), and by the events alone if nothing is lost and only files change.   *)
(***************************************************************************)
ChangesReachTheConsumer ==
  LET recovers == \/ watchSetting.reconciles
                  \/ watchSetting.losses = 0 /\ watchSetting.errors = 0 /\ ~watchSetting.moves
  IN  <>[](recovers /\ loop = "running" => told = disk)

=============================================================================
