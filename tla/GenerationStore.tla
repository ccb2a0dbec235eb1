--------------------------- MODULE GenerationStore ---------------------------
(***************************************************************************)
(* The on-disk store of published graph generations                        *)
(* (internal/storage/generation), as every invocation over one state       *)
(* directory uses it at once: `index --full` in a terminal, the            *)
(* resynchroniser of a server, `rollback`, `clean`.                        *)
(*                                                                         *)
(* A process runs one operation at a time.  The in-process mutex store.mu  *)
(* is not modelled: every caller opens a Store of its own, so it orders    *)
(* nothing between two operations.  A step is a call that reaches the      *)
(* disk; between two steps another process may run, the process may die,   *)
(* and the machine may lose power and keep any subset of the directory     *)
(* entries that were not flushed yet.                                      *)
(***************************************************************************)
EXTENDS Integers, FiniteSets

CONSTANTS
  Procs,         \* processes that open the store
  MaxId,         \* the largest generation number (999999 in the code)
  None,          \* an absent pointer, an unset id, a free lock
  Settings,      \* the circumstances to consider, one in each behaviour
  MaxFaults      \* bound: failures, deaths and power losses in a behaviour

Ids == 1 .. MaxId
Pointers == {"CURRENT", "BACKUP"}
Commands == {"publish", "restore", "discard", "discardExcept"}

Setting == [procs: SUBSET Procs,          \* the processes that start operations
            operations: SUBSET Commands,  \* the operations they start
            power: BOOLEAN,               \* whether the machine may lose power
            faults: 0 .. MaxFaults]       \* the faults of the behaviour

ASSUME MaxIdAssumption == MaxId \in Nat \ {0}
ASSUME NoneAssumption == None \notin Ids /\ None \notin Procs
ASSUME FaultsAssumption == MaxFaults \in Nat
ASSUME SettingsAssumption == Settings \subseteq Setting

VARIABLES
  setting,         \* the circumstances of this behaviour; never changes
  pointer,         \* CURRENT and BACKUP as a process reads them
  durablePointer,  \* what of them is certain to survive a power loss
  next,            \* the CURRENT.next and BACKUP.next files
  gens,            \* generations/<id>
  durableGens,     \* what of it is certain to survive a power loss
  cand,            \* generations/<id>.tmp
  lock,            \* the holder of publish.lock
  reserve,         \* the space reserve is allocated
  failure,         \* LAST_FAILURE.json is present
  pc,              \* the next step of each process
  local,           \* the local variables of its operation
  activated,       \* history: the ids CURRENT has named
  budget           \* failures, deaths and power losses still to come

diskVars == <<pointer, durablePointer, next, gens, durableGens, cand, lock,
              reserve, failure, activated>>
vars == <<setting, pointer, durablePointer, next, gens, durableGens, cand, lock,
          reserve, failure, pc, local, activated, budget>>

(***************************************************************************)
(* A directory is absent, partial (a removal stopped half way, or a power  *)
(* loss kept unflushed files), or as far as Publish has taken it: open,    *)
(* built (bad when its facts will not pass the gates), valid (the gates    *)
(* passed) and ready (flushed after the gates passed).                     *)
(***************************************************************************)
DirState == {"absent", "partial", "open", "built", "bad", "valid", "ready"}

UndoSteps == {"undoCurrent", "undoBackup", "undoCandidate", "undoFinal",
              "undoSync", "record"}
CandidateSteps == {"build", "validate", "seal", "rename"}
SwitchSteps == {"nextBackup", "renameBackup", "nextCurrent", "renameCurrent",
                "syncRoot", "clear"}
LockedSteps == {"open", "create", "syncGens", "undoCandidate", "undoFinal",
                "undoSync"} \cup CandidateSteps
RemoverSteps == {"pruneRead", "pruneList", "list", "unlinkCurrent",
                 "unlinkBackup", "remove", "syncRemoved"}
Steps == {"idle", "acquire", "gate"}
           \cup UndoSteps \cup SwitchSteps \cup LockedSteps \cup RemoverSteps

Local == [op: Commands \cup {"prune", None},
          id: Ids \cup {None},          \* published, restored or kept id
          prev: Ids \cup {None},        \* CURRENT when the operation read it
          prevBackup: Ids \cup {None},  \* BACKUP when the operation read it
          switched: SUBSET Pointers,    \* currentChanged, backupChanged
          renamed: BOOLEAN,             \* finalCreated
          stuck: BOOLEAN,               \* CURRENT could not be restored
          doomed: SUBSET Ids]           \* generations still to remove

Fresh == [op |-> None, id |-> None, prev |-> None, prevBackup |-> None,
          switched |-> {}, renamed |-> FALSE, stuck |-> FALSE, doomed |-> {}]

Init ==
  /\ setting \in Settings
  /\ pointer = [f \in Pointers |-> None]
  /\ durablePointer = pointer
  /\ next = [f \in Pointers |-> None]
  /\ gens = [g \in Ids |-> "absent"]
  /\ durableGens = gens
  /\ cand = [g \in Ids |-> "absent"]
  /\ lock = None
  /\ reserve = FALSE
  /\ failure = FALSE
  /\ pc = [p \in Procs |-> "idle"]
  /\ local = [p \in Procs |-> Fresh]
  /\ activated = {}
  /\ budget = setting.faults

-----------------------------------------------------------------------------
(* What the store reads off the disk. *)

Current == pointer["CURRENT"]

Listed == {g \in Ids : gens[g] # "absent"}

\* generationByID: the directory is there and holds a regular database file.
Resolves(g) == g \in Ids /\ gens[g] \notin {"absent", "partial"}

\* currentGeneration answers an id or ErrNoCurrent, and no other error.
CurrentReadable == Current = None \/ Resolves(Current)

\* backupGeneration folds every inconsistent BACKUP into "no backup".
Backups == {g \in Ids : /\ g = pointer["BACKUP"] /\ g # Current
                        /\ Resolves(Current) /\ Resolves(g)}

Successor(g) == IF g = MaxId THEN 1 ELSE g + 1

\* How far past `from` the numbering meets g.
Distance(from, g) == IF g >= from THEN g - from ELSE g - from + MaxId

\* NextID: the first id after CURRENT that no published directory occupies.
IsNextID(g) ==
  LET from == IF Current = None THEN 1 ELSE Successor(Current)
      free == Ids \ Listed
  IN  g \in free /\ \A h \in free : Distance(from, g) <= Distance(from, h)

-----------------------------------------------------------------------------
(* Moves shared by the operations. *)

At(p, step) == pc[p] = step
Goto(p, step) == pc' = [pc EXCEPT ![p] = step]
Finish(p) == Goto(p, "idle") /\ local' = [local EXCEPT ![p] = Fresh]
Unlock(p) == lock' = IF lock = p THEN None ELSE lock

\* prepare: the layout, and the reserve, whose allocation flushes the root.
Prepare ==
  /\ reserve' = TRUE
  /\ durablePointer' = IF reserve THEN durablePointer ELSE pointer

Start(p, op) == /\ pc[p] = "idle" /\ p \in setting.procs /\ op \in setting.operations
Begin(p, op, step, record) ==
  Goto(p, step) /\ local' = [local EXCEPT ![p] = [record EXCEPT !.op = op]]

-----------------------------------------------------------------------------
(* Publish, under publish.lock. *)

\* MUTANT: the number after the active one, without a wrap.
PlanUnwrapped(p) ==
  /\ Start(p, "publish")
  /\ CurrentReadable
  /\ Begin(p, "publish", "acquire",
           [Fresh EXCEPT !.id = IF Current = None THEN 1 ELSE Current + 1])
  /\ UNCHANGED <<setting, diskVars, budget>>

\* rebuild.Roles picks the id before the lock is taken.
Plan(p) ==
  /\ Start(p, "publish")
  /\ CurrentReadable
  /\ \E g \in Ids : IsNextID(g) /\ Begin(p, "publish", "acquire", [Fresh EXCEPT !.id = g])
  /\ UNCHANGED <<setting, diskVars, budget>>

\* MUTANT: the lock is taken without asking whether it is free.
AcquireUnguarded(p) ==
  /\ At(p, "acquire")
  /\ Prepare
  /\ lock' = p /\ Goto(p, "open") /\ UNCHANGED local
  /\ UNCHANGED <<setting, pointer, next, gens, durableGens, cand, failure, activated, budget>>

\* A publisher that finds the lock taken gets ErrPublishInProgress.
Acquire(p) ==
  /\ At(p, "acquire")
  /\ Prepare
  /\ \/ lock = None /\ lock' = p /\ Goto(p, "open") /\ UNCHANGED local
     \/ lock # None /\ Finish(p) /\ UNCHANGED lock
  /\ UNCHANGED <<setting, pointer, next, gens, durableGens, cand, failure, activated, budget>>

\* checkSpace and the reads of CURRENT and BACKUP.
Open(p) ==
  /\ At(p, "open")
  /\ \/ /\ CurrentReadable
        /\ local' = [local EXCEPT ![p].prev = Current,
                                  ![p].prevBackup = pointer["BACKUP"]]
        /\ Goto(p, "create")
        /\ UNCHANGED lock
     \/ ~CurrentReadable /\ Unlock(p) /\ Finish(p)
  /\ UNCHANGED <<setting, pointer, durablePointer, next, gens, durableGens, cand, reserve,
                 failure, activated, budget>>

\* MUTANT: debris of an earlier attempt is refused like a published id.
CreateRefusingDebris(p) ==
  /\ At(p, "create")
  /\ LET g == local[p].id IN
       \/ /\ gens[g] = "absent" /\ cand[g] = "absent"
          /\ cand' = [cand EXCEPT ![g] = "open"]
          /\ Goto(p, "build")
          /\ UNCHANGED <<local, lock>>
       \/ /\ gens[g] # "absent" \/ cand[g] # "absent"
          /\ Unlock(p) /\ Finish(p)
          /\ UNCHANGED cand
  /\ UNCHANGED <<setting, pointer, durablePointer, next, gens, durableGens, reserve,
                 failure, activated, budget>>

\* Debris under the candidate's name is removed; a published id is refused.
Create(p) ==
  /\ At(p, "create")
  /\ LET g == local[p].id IN
       \/ /\ gens[g] = "absent"
          /\ cand' = [cand EXCEPT ![g] = "open"]
          /\ Goto(p, "build")
          /\ UNCHANGED <<local, lock>>
       \/ /\ gens[g] # "absent"
          /\ cand' = [cand EXCEPT ![g] = "absent"]
          /\ Unlock(p) /\ Finish(p)
  /\ UNCHANGED <<setting, pointer, durablePointer, next, gens, durableGens, reserve,
                 failure, activated, budget>>

\* request.Build, and the first flush; a bad candidate is one of the faults.
Build(p) ==
  /\ At(p, "build")
  /\ \/ cand' = [cand EXCEPT ![local[p].id] = "built"] /\ UNCHANGED budget
     \/ /\ budget > 0 /\ budget' = budget - 1
        /\ cand' = [cand EXCEPT ![local[p].id] = "bad"]
  /\ Goto(p, "validate")
  /\ UNCHANGED <<setting, pointer, durablePointer, next, gens, durableGens, lock, reserve,
                 failure, local, activated>>

\* request.Validate opens the database, so what it leaves is not flushed yet.
Validate(p) ==
  /\ At(p, "validate")
  /\ LET g == local[p].id IN
       \/ /\ cand[g] = "built"
          /\ cand' = [cand EXCEPT ![g] = "valid"]
          /\ Goto(p, "seal")
       \/ cand[g] # "built" /\ Goto(p, "undoCurrent") /\ UNCHANGED cand
  /\ UNCHANGED <<setting, pointer, durablePointer, next, gens, durableGens, lock, reserve,
                 failure, local, activated, budget>>

\* The second syncTree.
Seal(p) ==
  /\ At(p, "seal")
  /\ cand' = [cand EXCEPT ![local[p].id] = IF @ = "valid" THEN "ready" ELSE @]
  /\ Goto(p, "rename")
  /\ UNCHANGED <<setting, pointer, durablePointer, next, gens, durableGens, lock, reserve,
                 failure, local, activated, budget>>

Rename(p) ==
  /\ At(p, "rename")
  /\ LET g == local[p].id IN
       /\ gens' = [gens EXCEPT ![g] = cand[g]]
       /\ cand' = [cand EXCEPT ![g] = "absent"]
  /\ local' = [local EXCEPT ![p].renamed = TRUE]
  /\ Goto(p, "syncGens")
  /\ UNCHANGED <<setting, pointer, durablePointer, next, durableGens, lock, reserve,
                 failure, activated, budget>>

\* MUTANT: the rename of the candidate is not flushed.
SyncGensUnflushed(p) ==
  /\ At(p, "syncGens")
  /\ Goto(p, IF local[p].prev # None THEN "nextBackup" ELSE "nextCurrent")
  /\ UNCHANGED <<setting, diskVars, local, budget>>

\* A first publication displaces nothing and leaves BACKUP alone.
SyncGens(p) ==
  /\ At(p, "syncGens")
  /\ durableGens' = gens
  /\ Goto(p, IF local[p].prev # None THEN "nextBackup" ELSE "nextCurrent")
  /\ UNCHANGED <<setting, pointer, durablePointer, next, gens, cand, lock, reserve,
                 failure, local, activated, budget>>

-----------------------------------------------------------------------------
(* The pointer switch, shared by Publish and Restore. *)

\* MUTANTS: the generation about to be active as its own backup; a rollback
\* that keeps the backup it came from.
WantedItself(p, f) == local[p].id
WantedOldBackup(p, f) ==
  IF f = "CURRENT" THEN local[p].id
  ELSE IF local[p].op = "restore" THEN local[p].prevBackup ELSE local[p].prev

\* BACKUP takes the displaced generation, CURRENT the new one.
Wanted(p, f) == IF f = "BACKUP" THEN local[p].prev ELSE local[p].id

\* writePointer up to the rename: the .next file is written and flushed.
WriteNext(p, f, step, after) ==
  /\ At(p, step)
  /\ next' = [next EXCEPT ![f] = Wanted(p, f)]
  /\ Goto(p, after)
  /\ UNCHANGED <<setting, pointer, durablePointer, gens, durableGens, cand, lock, reserve,
                 failure, local, activated, budget>>

\* Restore leaves the pointers to the undo only when it changed one.
Undone(p) == local[p].op = "publish" \/ local[p].switched # {}

\* Leaves a failed operation: into its undo, or straight out.
GiveUp(p) ==
  IF Undone(p) THEN Goto(p, "undoCurrent") /\ UNCHANGED local ELSE Finish(p)

\* The rename moves whatever the .next file holds, whoever wrote it.
RenameNext(p, f, step, after) ==
  /\ At(p, step)
  /\ \/ /\ next[f] # None
        /\ pointer' = [pointer EXCEPT ![f] = next[f]]
        /\ next' = [next EXCEPT ![f] = None]
        /\ activated' = IF f = "CURRENT" THEN activated \cup {next[f]} ELSE activated
        /\ local' = [local EXCEPT ![p].switched = @ \cup {f}]
        /\ Goto(p, after)
     \/ next[f] = None /\ GiveUp(p) /\ UNCHANGED <<pointer, next, activated>>
  /\ UNCHANGED <<setting, durablePointer, gens, durableGens, cand, lock, reserve, failure, budget>>

Switch(p) ==
  \/ WriteNext(p, "BACKUP", "nextBackup", "renameBackup")
  \/ RenameNext(p, "BACKUP", "renameBackup", "nextCurrent")
  \/ WriteNext(p, "CURRENT", "nextCurrent", "renameCurrent")
  \/ RenameNext(p, "CURRENT", "renameCurrent", "syncRoot")

SyncRoot(p) ==
  /\ At(p, "syncRoot")
  /\ durablePointer' = pointer
  /\ Goto(p, "clear")
  /\ UNCHANGED <<setting, pointer, next, gens, durableGens, cand, lock, reserve, failure,
                 local, activated, budget>>

\* The operation has succeeded; a publisher unlocks and goes on to prune.
Clear(p) ==
  /\ At(p, "clear")
  /\ failure' = FALSE
  /\ Unlock(p)
  /\ \/ /\ local[p].op = "publish"
        /\ Begin(p, "prune", "pruneRead", Fresh)
     \/ local[p].op # "publish" /\ Finish(p)
  /\ UNCHANGED <<setting, pointer, durablePointer, next, gens, durableGens, cand, reserve,
                 activated, budget>>

-----------------------------------------------------------------------------
(* The undo: abortPublication, and the deferred function of Restore.  It    *)
(* bypasses the fault injector; an operating system error still stops one  *)
(* of its parts and never the ones after it.                               *)

\* Whether this part of the undo works; a failure is one of the faults.
Works == UNCHANGED budget
Breaks == budget > 0 /\ budget' = budget - 1

\* releaseReserve, which flushes the root, and restoreCurrent.
UndoCurrent(p) ==
  /\ At(p, "undoCurrent")
  /\ reserve' = FALSE
  /\ \/ /\ Works
        /\ pointer' = IF "CURRENT" \in local[p].switched
                        THEN [pointer EXCEPT !["CURRENT"] = local[p].prev]
                        ELSE pointer
        /\ UNCHANGED local
     \/ /\ Breaks /\ "CURRENT" \in local[p].switched
        /\ local' = [local EXCEPT ![p].stuck = TRUE]
        /\ UNCHANGED pointer
  /\ durablePointer' = pointer'
  /\ Goto(p, "undoBackup")
  /\ UNCHANGED <<setting, next, gens, durableGens, cand, lock, failure, activated>>

\* MUTANT: BACKUP is restored only when CURRENT had been switched too.
UndoBackupWithCurrent(p) ==
  /\ At(p, "undoBackup")
  /\ Works
  /\ pointer' = IF local[p].switched = Pointers
                  THEN [pointer EXCEPT !["BACKUP"] = local[p].prevBackup]
                  ELSE pointer
  /\ durablePointer' = pointer'
  /\ Goto(p, IF local[p].op = "publish" THEN "undoCandidate" ELSE "record")
  /\ UNCHANGED <<setting, next, gens, durableGens, cand, lock, reserve, failure, local, activated>>

UndoBackup(p) ==
  /\ At(p, "undoBackup")
  /\ \/ /\ Works
        /\ pointer' = IF "BACKUP" \in local[p].switched
                        THEN [pointer EXCEPT !["BACKUP"] = local[p].prevBackup]
                        ELSE pointer
     \/ Breaks /\ "BACKUP" \in local[p].switched /\ UNCHANGED pointer
  /\ durablePointer' = pointer'
  /\ Goto(p, IF local[p].op = "publish" THEN "undoCandidate" ELSE "record")
  /\ UNCHANGED <<setting, next, gens, durableGens, cand, lock, reserve, failure, local, activated>>

\* MUTANT: the generation is removed even when CURRENT could not be restored.
UndoCandidateStuck(p) ==
  /\ At(p, "undoCandidate")
  /\ Works
  /\ cand' = [cand EXCEPT ![local[p].id] = "absent"]
  /\ Goto(p, IF local[p].renamed THEN "undoFinal" ELSE "undoSync")
  /\ UNCHANGED <<setting, pointer, durablePointer, next, gens, durableGens, lock, reserve,
                 failure, local, activated>>

\* A generation CURRENT may still name is not removed.
UndoCandidate(p) ==
  /\ At(p, "undoCandidate")
  /\ \/ Works /\ cand' = [cand EXCEPT ![local[p].id] = "absent"]
     \/ Breaks /\ UNCHANGED cand
  /\ Goto(p, IF local[p].renamed /\ ~local[p].stuck THEN "undoFinal" ELSE "undoSync")
  /\ UNCHANGED <<setting, pointer, durablePointer, next, gens, durableGens, lock, reserve,
                 failure, local, activated>>

UndoFinal(p) ==
  /\ At(p, "undoFinal")
  /\ LET g == local[p].id IN
       \/ Works /\ gens' = [gens EXCEPT ![g] = "absent"]
       \/ Breaks /\ gens' = [gens EXCEPT ![g] = IF @ = "absent" THEN @ ELSE "partial"]
  /\ Goto(p, "undoSync")
  /\ UNCHANGED <<setting, pointer, durablePointer, next, durableGens, cand, lock, reserve,
                 failure, local, activated>>

UndoSync(p) ==
  /\ At(p, "undoSync")
  /\ durableGens' = gens
  /\ Goto(p, "record")
  /\ UNCHANGED <<setting, pointer, durablePointer, next, gens, cand, lock, reserve, failure,
                 local, activated, budget>>

\* recordFailure flushes the root; the operation then returns its error.
Record(p) ==
  /\ At(p, "record")
  /\ failure' = TRUE
  /\ durablePointer' = pointer
  /\ Unlock(p) /\ Finish(p)
  /\ UNCHANGED <<setting, pointer, next, gens, durableGens, cand, reserve, activated, budget>>

Undo(p) == \/ UndoCurrent(p) \/ UndoBackup(p) \/ UndoCandidate(p)
           \/ UndoFinal(p) \/ UndoSync(p) \/ Record(p)

-----------------------------------------------------------------------------
(* Restore (a rollback), which takes no lock. *)

RestoreOpen(p) ==
  /\ Start(p, "restore")
  /\ Prepare
  /\ Resolves(Current)
  /\ \E g \in Ids \ {Current} :
       /\ Resolves(g)
       /\ Begin(p, "restore", "gate", [Fresh EXCEPT !.id = g, !.prev = Current])
  /\ UNCHANGED <<setting, pointer, next, gens, durableGens, cand, lock, failure, activated, budget>>

\* The digest and integrity gates, then the read of BACKUP.
RestoreGate(p) ==
  /\ At(p, "gate")
  /\ \/ /\ gens[local[p].id] = "ready"
        /\ local' = [local EXCEPT ![p].prevBackup = pointer["BACKUP"]]
        /\ Goto(p, "nextBackup")
     \/ gens[local[p].id] # "ready" /\ Finish(p)
  /\ UNCHANGED <<setting, diskVars, budget>>

-----------------------------------------------------------------------------
(* The removers: Prune after a publication, and `clean` with Discard or    *)
(* DiscardExcept.  None of them takes publish.lock.                        *)

\* Prune refuses without a CURRENT that resolves.
PruneRead(p) ==
  /\ At(p, "pruneRead")
  /\ \/ /\ Resolves(Current)
        /\ local' = [local EXCEPT ![p].id = Current,
                       ![p].prevBackup = IF Backups = {} THEN None ELSE pointer["BACKUP"]]
        /\ Goto(p, "pruneList")
     \/ ~Resolves(Current) /\ Finish(p)
  /\ UNCHANGED <<setting, diskVars, budget>>

\* MUTANT: only CURRENT is spared.
PruneListSparingCurrent(p) ==
  /\ At(p, "pruneList")
  /\ local' = [local EXCEPT ![p].doomed = Listed \ {local[p].id}]
  /\ Goto(p, "remove")
  /\ UNCHANGED <<setting, diskVars, budget>>

PruneList(p) ==
  /\ At(p, "pruneList")
  /\ local' = [local EXCEPT ![p].doomed = Listed \ {local[p].id, local[p].prevBackup}]
  /\ Goto(p, "remove")
  /\ UNCHANGED <<setting, diskVars, budget>>

\* `clean` answers "nothing to remove" to an empty store and refuses one
\* whose CURRENT does not resolve.
DiscardOpen(p) ==
  /\ Start(p, "discard")
  /\ Listed # {} /\ CurrentReadable
  /\ Begin(p, "discard", "list", Fresh)
  /\ UNCHANGED <<setting, diskVars, budget>>

\* `clean --keep-active` keeps the generation CURRENT named when it asked.
DiscardExceptOpen(p) ==
  /\ Start(p, "discardExcept")
  /\ Resolves(Current) /\ Listed # {Current}
  /\ Begin(p, "discardExcept", "list", [Fresh EXCEPT !.id = Current])
  /\ UNCHANGED <<setting, diskVars, budget>>

DiscardList(p) ==
  /\ At(p, "list")
  /\ LET g == local[p].id IN
       \/ /\ g = None \/ g \in Listed
          /\ local' = [local EXCEPT ![p].doomed = Listed \ {g}]
          /\ Goto(p, IF g = None THEN "unlinkCurrent" ELSE "unlinkBackup")
       \/ g # None /\ g \notin Listed /\ Finish(p)
  /\ UNCHANGED <<setting, diskVars, budget>>

Unlink(p, f, step, after) ==
  /\ At(p, step)
  /\ pointer' = [pointer EXCEPT ![f] = None]
  /\ Goto(p, after)
  /\ UNCHANGED <<setting, durablePointer, next, gens, durableGens, cand, lock, reserve,
                 failure, local, activated, budget>>

\* Generations go in the order of their ids.
Remove(p) ==
  /\ At(p, "remove")
  /\ \/ \E g \in local[p].doomed :
          /\ \A h \in local[p].doomed : g <= h
          /\ gens' = [gens EXCEPT ![g] = "absent"]
          /\ local' = [local EXCEPT ![p].doomed = @ \ {g}]
          /\ UNCHANGED pc
     \/ /\ local[p].doomed = {}
        /\ Goto(p, "syncRemoved")
        /\ UNCHANGED <<gens, local>>
  /\ UNCHANGED <<setting, pointer, durablePointer, next, durableGens, cand, lock, reserve,
                 failure, activated, budget>>

\* Discard also releases the reserve and clears the failure record; Prune
\* flushes the generations only.
SyncRemoved(p) ==
  /\ At(p, "syncRemoved")
  /\ LET discards == local[p].op = "discard" IN
       /\ reserve' = (reserve /\ ~discards)
       /\ failure' = (failure /\ ~discards)
  /\ durablePointer' = IF local[p].op = "prune" THEN durablePointer ELSE pointer
  /\ durableGens' = gens
  /\ Finish(p)
  /\ UNCHANGED <<setting, pointer, next, gens, cand, lock, activated, budget>>

Removal(p) ==
  \/ PruneRead(p) \/ PruneList(p) \/ DiscardList(p)
  \/ Unlink(p, "CURRENT", "unlinkCurrent", "unlinkBackup")
  \/ Unlink(p, "BACKUP", "unlinkBackup", "remove")
  \/ Remove(p) \/ SyncRemoved(p)

-----------------------------------------------------------------------------
(* Failures. *)

\* A removal that stops half way leaves part of the tree behind.
Gutted(g, dirs) == {dirs, [dirs EXCEPT ![g] = IF @ = "absent" THEN @ ELSE "partial"]}

HalfRemoved(p) ==
  IF At(p, "remove") /\ local[p].doomed # {}
    THEN UNION {Gutted(g, gens) : g \in {m \in local[p].doomed :
                                           \A h \in local[p].doomed : m <= h}}
    ELSE IF At(p, "undoFinal") THEN Gutted(local[p].id, gens) ELSE {gens}

\* The call the process is about to make returns an error.
Fail(p) ==
  /\ Breaks
  /\ pc[p] \notin {"idle"} \cup UndoSteps
  /\ \/ /\ pc[p] \in CandidateSteps \cup SwitchSteps \cup {"syncGens"}
        /\ GiveUp(p)
        /\ lock' = lock
     \/ /\ pc[p] \notin CandidateSteps \cup SwitchSteps \cup {"syncGens"}
        /\ Unlock(p) /\ Finish(p)
  \* writePointer removes an old .next before it can fail.
  /\ next' = [f \in Pointers |->
                IF pc[p] = (IF f = "BACKUP" THEN "nextBackup" ELSE "nextCurrent")
                  THEN None ELSE next[f]]
  /\ gens' \in HalfRemoved(p)
  /\ UNCHANGED <<setting, pointer, durablePointer, durableGens, cand, reserve, failure, activated>>

\* The process dies; the kernel drops its lock.
Crash(p) ==
  /\ Breaks
  /\ pc[p] # "idle"
  /\ gens' \in HalfRemoved(p)
  /\ Unlock(p) /\ Finish(p)
  /\ UNCHANGED <<setting, pointer, durablePointer, next, durableGens, cand, reserve, failure, activated>>

\* What the disk may hold of directory g: either side of the unflushed
\* change, an unflushed content torn, a removal half done.
Survivors(g) ==
  IF gens[g] = durableGens[g] THEN {gens[g]}
  ELSE {durableGens[g],
        CASE gens[g] = "absent" -> "partial"
          [] gens[g] = "valid" -> "partial"
          [] OTHER -> gens[g],
        IF gens[g] = "valid" THEN "partial" ELSE gens[g]}

PowerLoss ==
  /\ setting.power
  /\ Breaks
  /\ \E kept \in [Ids -> UNION {Survivors(g) : g \in Ids}] :
       /\ \A g \in Ids : kept[g] \in Survivors(g)
       /\ gens' = kept
       /\ durableGens' = kept
       \* An undone rename brings the candidate back; its content is debris.
       /\ cand' = [g \in Ids |->
                     IF cand[g] # "absent" \/ (kept[g] = "absent" /\ gens[g] # "absent")
                       THEN "open" ELSE "absent"]
  /\ \E kept \in SUBSET Pointers :
       /\ pointer' = [f \in Pointers |-> IF f \in kept THEN pointer[f] ELSE durablePointer[f]]
       /\ durablePointer' = pointer'
  /\ lock' = None
  /\ pc' = [p \in Procs |-> "idle"]
  /\ local' = [p \in Procs |-> Fresh]
  /\ UNCHANGED <<setting, next, reserve, failure, activated>>

-----------------------------------------------------------------------------

Publication(p) ==
  \/ Acquire(p) \/ Open(p) \/ Create(p) \/ Build(p) \/ Validate(p)
  \/ Seal(p) \/ Rename(p) \/ SyncGens(p)

\* What a process that has started an operation does of its own accord.
Proceed(p) ==
  \/ Publication(p) \/ Switch(p) \/ SyncRoot(p) \/ Clear(p)
  \/ Undo(p) \/ RestoreGate(p) \/ Removal(p)

Begins(p) ==
  \/ Plan(p) \/ RestoreOpen(p) \/ DiscardOpen(p) \/ DiscardExceptOpen(p)

Next ==
  \/ \E p \in Procs : Begins(p) \/ Proceed(p) \/ Fail(p) \/ Crash(p)
  \/ PowerLoss

Spec == Init /\ [][Next]_vars

\* A process runs its operation to the end or dies; nobody has to start one.
FairSpec == Spec /\ \A p \in Procs : WF_vars(Proceed(p))

-----------------------------------------------------------------------------
(* Properties. *)

StateTyped ==
  /\ pointer \in [Pointers -> Ids \cup {None}]
  /\ durablePointer \in [Pointers -> Ids \cup {None}]
  /\ next \in [Pointers -> Ids \cup {None}]
  /\ gens \in [Ids -> DirState]
  /\ durableGens \in [Ids -> DirState]
  /\ cand \in [Ids -> DirState]
  /\ lock \in Procs \cup {None}
  /\ reserve \in BOOLEAN
  /\ failure \in BOOLEAN
  /\ pc \in [Procs -> Steps]
  /\ local \in [Procs -> Local]
  /\ activated \subseteq Ids
  /\ budget \in 0 .. MaxFaults

TypeOK == setting \in Settings /\ StateTyped

(***************************************************************************)
(* CURRENT names a directory that holds a whole, validated and flushed     *)
(* generation: Publish, Restore and Prune order their renames, flushes and *)
(* removals so that no failure, death or power loss between them can make  *)
(* it dangle.                                                              *)
(***************************************************************************)
CurrentResolves == Current # None => gens[Current] = "ready"

(***************************************************************************)
(* BACKUP never names a generation that was never active: every value that *)
(* reaches it, through a switch, an undo or a flushed copy, was CURRENT    *)
(* before (store.go, Publish: why BACKUP is written before CURRENT).       *)
(***************************************************************************)
BackupWasActive == pointer["BACKUP"] \in activated \cup {None}

(***************************************************************************)
(* A candidate that exists when a publisher is about to make its own is    *)
(* debris: no live process is still writing it (store.go, Publish).        *)
(***************************************************************************)
CandidateIsDebris ==
  \A p \in Procs : At(p, "create") /\ cand[local[p].id] # "absent" =>
    \A q \in Procs \ {p} : pc[q] \notin CandidateSteps

(***************************************************************************)
(* Two publishers never mix their switches: one that has got as far as     *)
(* clearing the failure record sees its own id in CURRENT and the          *)
(* generation it displaced in BACKUP.                                      *)
(***************************************************************************)
SwitchIsExclusive ==
  \A p \in Procs : At(p, "clear") /\ local[p].op = "publish" =>
    /\ Current = local[p].id
    /\ local[p].prev # None => pointer["BACKUP"] = local[p].prev

(***************************************************************************)
(* A publication or a rollback that failed, and whose undo met no error of *)
(* its own, left both pointers as it found them and no directory of its    *)
(* id.                                                                     *)
(***************************************************************************)
UndoneMeansUntouched ==
  \A p \in Procs : At(p, "record") /\ budget = setting.faults - 1 =>
    /\ pointer["CURRENT"] = local[p].prev
    /\ pointer["BACKUP"] = local[p].prevBackup
    /\ local[p].op = "publish" => gens[local[p].id] = "absent"

(***************************************************************************)
(* Retention: when a prune has removed what it had to, the store holds the *)
(* active generation, its backup and nothing else (rebuild.go, Run).       *)
(***************************************************************************)
RetainsActiveAndBackup ==
  \A p \in Procs : At(p, "syncRemoved") /\ local[p].op = "prune" =>
    Listed = {Current, pointer["BACKUP"]} \ {None}

(***************************************************************************)
(* A completed rollback can be rolled forward: the generation it displaced *)
(* is the backup that the next rollback would resolve (rollback.go).       *)
(***************************************************************************)
RollbackCanBeRolledForward ==
  \A p \in Procs : At(p, "clear") /\ local[p].op = "restore" =>
    Current = local[p].id /\ Backups = {local[p].prev}

(***************************************************************************)
(* A killed or failed operation never bricks the store: a publication that *)
(* starts when nothing else goes wrong is published.                       *)
(***************************************************************************)
RetrySucceeds ==
  \A p \in Procs : At(p, "acquire") /\ budget = 0 ~> At(p, "pruneRead")

(***************************************************************************)
(* A prune spares what a live publication has renamed into place and is    *)
(* about to make CURRENT: a retained generation too many is a disk cost,   *)
(* but one too few is the graph itself (rebuild.go, Run: "CURRENT is       *)
(* durable before anything is removed").                                   *)
(***************************************************************************)
PruneSparesPublications ==
  \A p \in Procs : pc[p] \in SwitchSteps /\ local[p].op = "publish" =>
    gens[local[p].id] # "absent"

(***************************************************************************)
(* The store implements one atomically switched active generation.         *)
(***************************************************************************)
Abstract == INSTANCE ActiveGeneration
              WITH active <- Current, whole <- {g \in Ids : gens[g] = "ready"}

ImplementsActiveGeneration == Abstract!Spec

=============================================================================
