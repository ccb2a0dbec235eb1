-------------------------- MODULE LoneProcess_proofs --------------------------
(***************************************************************************)
(* Theorems about GenerationStore when its operations do not overlap: what *)
(* no failure, death or power loss inside one of them can break.  With     *)
(* two at once CurrentResolves is false, since Prune takes no lock         *)
(* (PruneSparesPublications).                                              *)
(***************************************************************************)
EXTENDS GenerationStore_proofs

(***************************************************************************)
(* One process at a time, any operations and any number of failures and    *)
(* deaths; or a machine that loses its power once, nothing else going      *)
(* wrong, in a store nobody empties.  Beyond either of the two the code    *)
(* lets CURRENT dangle.                                                    *)
(***************************************************************************)
Alone ==
  /\ \A p, q \in setting.procs : p = q
  /\ setting.power => setting.faults <= 1 /\ "discard" \notin setting.operations

\* Only a process of the setting runs, and no fault is ever given back.
Running ==
  /\ \A p \in Procs : pc[p] = "idle" => local[p] = Fresh
  /\ \A p \in Procs : pc[p] # "idle" => p \in setting.procs
  /\ budget <= setting.faults

-----------------------------------------------------------------------------
(* Which operation a process is in. *)

PublishSteps == {"acquire", "open", "create", "syncGens", "undoCandidate", "undoFinal",
                 "undoSync"} \cup CandidateSteps
PruneSteps == {"pruneRead", "pruneList"}
DiscardSteps == {"list", "unlinkCurrent", "unlinkBackup"}
RemoveSteps == {"remove", "syncRemoved"}
\* The steps of an operation that has read both pointers, until it gives up
\* and after.
ForwardSteps == {"create", "syncGens"} \cup CandidateSteps \cup SwitchSteps
ReadSteps == ForwardSteps \cup UndoSteps

InOperation(p) ==
  /\ pc[p] \in PublishSteps => local[p].op = "publish"
  /\ pc[p] = "gate" => local[p].op = "restore"
  /\ pc[p] \in SwitchSteps \cup {"undoCurrent", "undoBackup", "record"} =>
       local[p].op \in {"publish", "restore"}
  /\ pc[p] \in PruneSteps => local[p].op = "prune"
  /\ pc[p] \in DiscardSteps => local[p].op \in {"discard", "discardExcept"}
  /\ pc[p] \in RemoveSteps => local[p].op \in {"prune", "discard", "discardExcept"}
  /\ pc[p] \in DiscardSteps \cup RemoveSteps /\ local[p].op = "discard" =>
       "discard" \in setting.operations
  /\ pc[p] = "list" => (local[p].op = "discard" <=> local[p].id = None)
  /\ pc[p] = "unlinkCurrent" => local[p].op = "discard"

-----------------------------------------------------------------------------
(* The pointers, and what an operation remembers of them. *)

\* After a power loss BACKUP may name a generation that `clean --keep-active`
\* removed, while CURRENT names another; nothing else goes wrong then.
Loose(current) == setting.power /\ budget = 0 /\ current # None

Ready(g) == gens[g] = "ready"

PointersReady ==
  /\ Current # None => Ready(Current)
  /\ pointer["BACKUP"] # None /\ ~Loose(Current) => Ready(pointer["BACKUP"])

Remembered(p) ==
  /\ pc[p] \in ReadSteps \cup {"gate"} /\ local[p].prev # None => Ready(local[p].prev)
  /\ pc[p] \in ReadSteps /\ local[p].prevBackup # None /\ ~Loose(local[p].prev) =>
       Ready(local[p].prevBackup)
  /\ pc[p] = "gate" => Current = local[p].prev
  /\ pc[p] \in ReadSteps \cup {"gate"} /\ local[p].op = "restore" => local[p].prev # None
  /\ pc[p] \in {"nextBackup", "renameBackup"} => local[p].prev # None

\* The pointers are where the switch, or the undo, has brought them.
Switched(p) ==
  /\ pc[p] \in ForwardSteps \cup {"undoCurrent"} =>
       Current = IF "CURRENT" \in local[p].switched THEN local[p].id ELSE local[p].prev
  /\ pc[p] \in ForwardSteps \cup {"undoCurrent", "undoBackup"} =>
       pointer["BACKUP"] = IF "BACKUP" \in local[p].switched THEN local[p].prev
                                                             ELSE local[p].prevBackup
  /\ pc[p] \in UndoSteps \ {"undoCurrent"} =>
       Current = IF local[p].stuck THEN local[p].id ELSE local[p].prev
  /\ pc[p] \in UndoSteps => pointer["BACKUP"] \in {local[p].prev, local[p].prevBackup}

HowFar(p) ==
  /\ pc[p] \in {"acquire", "open", "gate", "create", "syncGens", "nextBackup", "renameBackup"}
               \cup CandidateSteps =>
       local[p].switched = {}
  /\ pc[p] \in {"nextCurrent", "renameCurrent"} =>
       local[p].switched = IF local[p].prev = None THEN {} ELSE {"BACKUP"}
  /\ pc[p] \in {"syncRoot", "clear"} =>
       local[p].switched = IF local[p].prev = None THEN {"CURRENT"} ELSE Pointers
  /\ pc[p] = "renameBackup" => next["BACKUP"] = local[p].prev
  /\ pc[p] = "renameCurrent" => next["CURRENT"] = local[p].id
  /\ pc[p] \in ForwardSteps \cup {"acquire", "open", "gate", "undoCurrent"} => ~local[p].stuck

-----------------------------------------------------------------------------
(* The generation an operation is about. *)

\* The candidate is as far as Publish has taken it.
CandidateStage(p) ==
  /\ pc[p] = "build" => cand[local[p].id] = "open"
  /\ pc[p] = "validate" => \/ cand[local[p].id] = "built"
                           \/ cand[local[p].id] = "bad" /\ budget < setting.faults
  /\ pc[p] = "seal" => cand[local[p].id] = "valid"
  /\ pc[p] = "rename" => cand[local[p].id] = "ready"

\* It is neither the active generation nor, when that matters, its backup.
Distinct(p) ==
  /\ pc[p] \in ReadSteps \cup {"acquire", "open", "gate"} => local[p].id \in Ids
  /\ pc[p] \in (ReadSteps \ {"create"}) \cup {"gate"} => local[p].id # local[p].prev
  /\ pc[p] \in ReadSteps \ {"create"} /\ local[p].op = "publish" /\ ~Loose(local[p].prev) =>
       local[p].id # local[p].prevBackup

Own(p) ==
  /\ pc[p] \in {"acquire", "open", "create", "gate"} \cup CandidateSteps => ~local[p].renamed
  /\ pc[p] \in CandidateSteps => gens[local[p].id] = "absent"
  /\ pc[p] \in SwitchSteps \cup {"syncGens"} => Ready(local[p].id)
  /\ pc[p] \in SwitchSteps \cup {"syncGens"} /\ local[p].op = "publish" => local[p].renamed
  /\ pc[p] \in {"undoCurrent", "undoBackup", "undoCandidate", "undoFinal"} =>
       gens[local[p].id] = IF local[p].op = "restore" \/ local[p].renamed THEN "ready"
                                                                          ELSE "absent"
  /\ pc[p] = "undoFinal" => local[p].renamed /\ ~local[p].stuck
  /\ pc[p] \in UndoSteps /\ local[p].stuck => Ready(local[p].id)

-----------------------------------------------------------------------------
(* What a fault costs, and what an undo without one has put back. *)

Faulted(p) ==
  /\ pc[p] \in UndoSteps => budget < setting.faults
  /\ pc[p] \in UndoSteps /\ local[p].stuck => budget < setting.faults - 1
  /\ pc[p] \in UndoSteps \ {"undoCurrent", "undoBackup"} /\ budget = setting.faults - 1 =>
       pointer["BACKUP"] = local[p].prevBackup
  /\ pc[p] \in {"undoSync", "record"} /\ local[p].op = "publish"
       /\ budget = setting.faults - 1 => gens[local[p].id] = "absent"

-----------------------------------------------------------------------------
(* The removers. *)

Spared == {Current, pointer["BACKUP"]} \ {None}

Removing(p) ==
  /\ pc[p] \in PruneSteps => Current # None /\ \A g \in Spared : Ready(g)
  /\ pc[p] = "pruneList" => /\ local[p].id = Current
                            /\ {local[p].id, local[p].prevBackup} \ {None} = Spared
  /\ pc[p] \in RemoveSteps /\ local[p].op = "prune" =>
       Current # None /\ Listed = Spared \cup local[p].doomed
  /\ pc[p] = "remove" => Spared \cap local[p].doomed = {}
  /\ pc[p] = "syncRemoved" => local[p].doomed = {}

Discarding(p) ==
  /\ pc[p] \in DiscardSteps \cup RemoveSteps /\ local[p].op = "discardExcept" =>
       local[p].id = Current /\ Current # None
  /\ pc[p] \in {"unlinkBackup"} \cup RemoveSteps /\ local[p].op = "discard" => Current = None
  /\ pc[p] \in RemoveSteps /\ local[p].op \in {"discard", "discardExcept"} =>
       pointer["BACKUP"] = None
  /\ pc[p] = "unlinkBackup" => Current \notin local[p].doomed

-----------------------------------------------------------------------------
(* What a machine that has yet to lose its power has flushed. *)

GensFlushed ==
  \A g \in Ids :
    \/ durableGens[g] = gens[g]
    \/ durableGens[g] = "absent" /\ \E p \in Procs : pc[p] = "syncGens" /\ g = local[p].id
    \/ gens[g] = "absent" /\ \E p \in Procs : pc[p] \in RemoveSteps

PointersFlushed ==
  /\ \/ durablePointer["CURRENT"] = Current
     \/ \E p \in Procs : pc[p] = "syncRoot" /\ durablePointer["CURRENT"] = local[p].prev
  /\ durablePointer["CURRENT"] = None => durablePointer["BACKUP"] = pointer["BACKUP"]

Flushed == setting.power /\ budget > 0 => GensFlushed /\ PointersFlushed

-----------------------------------------------------------------------------

Sound(p) ==
  /\ InOperation(p)
  /\ Remembered(p)
  /\ Switched(p)
  /\ HowFar(p)
  /\ CandidateStage(p)
  /\ Distinct(p)
  /\ Own(p)
  /\ Faulted(p)
  /\ Removing(p)
  /\ Discarding(p)

Inv ==
  /\ TypeOK
  /\ Running
  /\ PointersReady
  /\ Flushed
  /\ \A p \in Procs : Sound(p)

\* A process that runs nothing disturbs nothing.
LEMMA IdleSound ==
  ASSUME NEW p \in Procs, pc'[p] = "idle", local'[p] = Fresh
  PROVE  Sound(p)'
<1> USE DEF Fresh, CandidateSteps, SwitchSteps, UndoSteps, ForwardSteps, ReadSteps, PublishSteps,
            PruneSteps, DiscardSteps, RemoveSteps
<1>1. InOperation(p)' /\ Remembered(p)' /\ Switched(p)'
  BY DEF InOperation, Remembered, Switched
<1>2. HowFar(p)' /\ CandidateStage(p)' /\ Distinct(p)' /\ Own(p)'
  BY DEF HowFar, CandidateStage, Distinct, Own
<1>3. Faulted(p)' /\ Removing(p)' /\ Discarding(p)'
  BY DEF Faulted, Removing, Discarding
<1> QED
  BY <1>1, <1>2, <1>3 DEF Sound

\* While one process runs, every other one is idle.
LEMMA OthersIdle ==
  ASSUME Alone, Running, NEW p \in Procs, p \in setting.procs
  PROVE  \A q \in Procs \ {p} : pc[q] = "idle" /\ local[q] = Fresh
BY DEF Alone, Running

\* What is left to show of a step of one process.
LEMMA StepKeepsInv ==
  ASSUME Alone, Inv, NEW p \in Procs, p \in setting.procs, UNCHANGED setting, StateTyped',
         \A q \in Procs \ {p} : pc'[q] = pc[q] /\ local'[q] = local[q],
         pc'[p] = "idle" => local'[p] = Fresh,
         budget' \in {budget, budget - 1},
         pc'[p] # "idle" => Sound(p)',
         PointersReady', Flushed'
  PROVE  Inv'
<1>1. \A q \in Procs \ {p} : pc'[q] = "idle" /\ local'[q] = Fresh
  BY OthersIdle DEF Inv
<1>2. \A q \in Procs : Sound(q)'
  BY <1>1, IdleSound
<1>3. budget \in Nat /\ budget' \in Nat
  BY FaultsAssumption DEF Inv, TypeOK, StateTyped
<1>4. budget' <= setting.faults
  <2>1. setting.faults \in Int
    BY SettingsAssumption DEF Inv, TypeOK, Setting
  <2> QED
  BY <1>3, <2>1 DEF Inv, Running
<1>5. Running'
  BY <1>1, <1>4 DEF Running
<1>6. TypeOK'
  BY DEF Inv, TypeOK
<1> QED
  BY <1>2, <1>5, <1>6 DEF Inv

-----------------------------------------------------------------------------
(* What is flushed. *)

\* A step that moves nothing on the disk, or flushes the pointers.
LEMMA FlushedKept ==
  ASSUME Flushed, budget' = budget, UNCHANGED <<setting, pointer, gens, durableGens>>,
         durablePointer' \in {durablePointer, pointer},
         \A q \in Procs :
           pc[q] \in {"syncGens", "syncRoot"} \cup RemoveSteps =>
             pc'[q] = pc[q] /\ local'[q].id = local[q].id /\ local'[q].prev = local[q].prev
  PROVE  Flushed'
<1> SUFFICES ASSUME setting.power, budget > 0 PROVE GensFlushed' /\ PointersFlushed'
  BY DEF Flushed
<1>1. GensFlushed'
  BY DEF Flushed, GensFlushed
<1>2. PointersFlushed'
  BY DEF Flushed, PointersFlushed, Current
<1> QED
  BY <1>1, <1>2

\* A machine that may lose its power has its one fault left or none.
LEMMA FlushedSpent ==
  ASSUME Alone, Inv, UNCHANGED setting, budget' = budget - 1
  PROVE  Flushed'
BY SettingsAssumption DEF Alone, Inv, Running, TypeOK, StateTyped, Setting, Flushed

-----------------------------------------------------------------------------
(* An operation begins. *)

LEMMA BeginsInv ==
  ASSUME Alone, Inv, NEW p \in Procs, Begins(p)
  PROVE  Inv'
<1> USE DEF CandidateSteps, SwitchSteps, UndoSteps, ForwardSteps, ReadSteps, PublishSteps,
            PruneSteps, DiscardSteps, RemoveSteps
<1>a. /\ pc \in [Procs -> Steps] /\ local \in [Procs -> Local] /\ StateTyped
      /\ PointersReady /\ Flushed
  BY DEF Inv, TypeOK, StateTyped
<1>b. StateTyped' /\ UNCHANGED setting
  BY BeginsTyped, SettingKept, <1>a DEF Next
<1>c. ASSUME NEW step \in Steps, NEW record \in Local, NEW op,
             Begin(p, op, step, record), Start(p, op), step # "idle",
             UNCHANGED <<pointer, gens, durableGens, budget>>,
             durablePointer' \in {durablePointer, pointer},
             Sound(p)'
      PROVE  Inv'
  <2>1. \A q \in Procs \ {p} : pc'[q] = pc[q] /\ local'[q] = local[q]
    BY <1>a, <1>c DEF Begin, Goto
  <2>2. pc[p] = "idle" /\ p \in setting.procs /\ pc'[p] = step
    BY <1>a, <1>c DEF Begin, Goto, Start
  <2>3. PointersReady'
    BY <1>a, <1>b, <1>c DEF PointersReady, Current, Ready, Loose
  <2>4. Flushed'
    BY <1>a, <1>b, <1>c, <2>1, <2>2, FlushedKept
  <2> QED
    BY <1>b, <1>c, <2>1, <2>2, <2>3, <2>4, StepKeepsInv
<1>1. CASE Plan(p)
  <2>1. PICK g \in Ids : /\ Begin(p, "publish", "acquire", [Fresh EXCEPT !.id = g])
                         /\ Start(p, "publish")
    BY <1>1 DEF Plan
  <2>2. pc'[p] = "acquire" /\ local'[p] = [[Fresh EXCEPT !.id = g] EXCEPT !.op = "publish"]
    BY <1>a, <2>1 DEF Begin, Goto
  <2>3. /\ local'[p].op = "publish" /\ local'[p].id = g
        /\ ~local'[p].stuck /\ ~local'[p].renamed /\ local'[p].switched = {}
    BY <2>2 DEF Fresh
  <2>4. InOperation(p)' /\ Remembered(p)' /\ Switched(p)' /\ HowFar(p)' /\ CandidateStage(p)'
    BY <2>2, <2>3 DEF InOperation, Remembered, Switched, HowFar, CandidateStage
  <2>5. Distinct(p)' /\ Own(p)' /\ Faulted(p)' /\ Removing(p)' /\ Discarding(p)'
    BY <2>2, <2>3 DEF Distinct, Own, Faulted, Removing, Discarding
  <2> QED
    BY <1>1, <1>c, <2>1, <2>4, <2>5, FreshTyped, FieldsTyped
    DEF Plan, Sound, diskVars, Steps, LockedSteps
<1>2. CASE RestoreOpen(p)
  <2>1. PICK g \in Ids \ {Current} :
          /\ Begin(p, "restore", "gate", [Fresh EXCEPT !.id = g, !.prev = Current])
          /\ Start(p, "restore")
    BY <1>2 DEF RestoreOpen
  <2>2. Current \in Ids /\ durablePointer' \in {durablePointer, pointer}
    BY <1>2 DEF RestoreOpen, Resolves, Prepare
  <2>3. /\ pc'[p] = "gate"
        /\ local'[p] = [[Fresh EXCEPT !.id = g, !.prev = Current] EXCEPT !.op = "restore"]
    BY <1>a, <2>1 DEF Begin, Goto
  <2>4. /\ local'[p].op = "restore" /\ local'[p].id = g /\ local'[p].prev = Current
        /\ ~local'[p].stuck /\ ~local'[p].renamed /\ local'[p].switched = {}
    BY <2>3 DEF Fresh
  <2>5. UNCHANGED <<pointer, gens, budget>> /\ Ready(Current)
    BY <1>2, <1>a, <2>2, NoneAssumption DEF RestoreOpen, PointersReady
  <2>6. InOperation(p)' /\ Remembered(p)' /\ Switched(p)' /\ HowFar(p)' /\ CandidateStage(p)'
    BY <2>2, <2>3, <2>4, <2>5, NoneAssumption
    DEF InOperation, Remembered, Switched, HowFar, CandidateStage, Current, Ready
  <2>7. Distinct(p)' /\ Own(p)' /\ Faulted(p)' /\ Removing(p)' /\ Discarding(p)'
    BY <2>3, <2>4 DEF Distinct, Own, Faulted, Removing, Discarding
  <2>8. [Fresh EXCEPT !.id = g, !.prev = Current] \in Local
    BY <2>2, FreshTyped, FieldsTyped
  <2> QED
    BY <1>2, <1>c, <2>1, <2>2, <2>6, <2>7, <2>8 DEF RestoreOpen, Sound, Steps
<1>3. CASE DiscardOpen(p)
  <2>1. Begin(p, "discard", "list", Fresh) /\ Start(p, "discard")
    BY <1>3 DEF DiscardOpen
  <2>2. pc'[p] = "list" /\ local'[p] = [Fresh EXCEPT !.op = "discard"]
    BY <1>a, <2>1 DEF Begin, Goto
  <2>3. local'[p].op = "discard" /\ local'[p].id = None
    BY <2>2 DEF Fresh
  <2>4. InOperation(p)' /\ Remembered(p)' /\ Switched(p)' /\ HowFar(p)' /\ CandidateStage(p)'
    BY <1>b, <2>1, <2>2, <2>3
    DEF InOperation, Remembered, Switched, HowFar, CandidateStage, Start
  <2>5. Distinct(p)' /\ Own(p)' /\ Faulted(p)' /\ Removing(p)' /\ Discarding(p)'
    BY <2>2, <2>3 DEF Distinct, Own, Faulted, Removing, Discarding
  <2> QED
    BY <1>3, <1>c, <2>1, <2>4, <2>5, FreshTyped DEF DiscardOpen, Sound, diskVars, Steps,
                                                  RemoverSteps
<1>4. CASE DiscardExceptOpen(p)
  <2>1. /\ Begin(p, "discardExcept", "list", [Fresh EXCEPT !.id = Current])
        /\ Start(p, "discardExcept") /\ Current \in Ids
    BY <1>4 DEF DiscardExceptOpen, Resolves
  <2>2. /\ pc'[p] = "list"
        /\ local'[p] = [[Fresh EXCEPT !.id = Current] EXCEPT !.op = "discardExcept"]
    BY <1>a, <2>1 DEF Begin, Goto
  <2>3. local'[p].op = "discardExcept" /\ local'[p].id = Current /\ Current' = Current
    BY <1>4, <2>2 DEF DiscardExceptOpen, Fresh, diskVars, Current
  <2>4. InOperation(p)' /\ Remembered(p)' /\ Switched(p)' /\ HowFar(p)' /\ CandidateStage(p)'
    BY <2>1, <2>2, <2>3, NoneAssumption
    DEF InOperation, Remembered, Switched, HowFar, CandidateStage
  <2>5. Distinct(p)' /\ Own(p)' /\ Faulted(p)' /\ Removing(p)' /\ Discarding(p)'
    BY <2>1, <2>2, <2>3, NoneAssumption DEF Distinct, Own, Faulted, Removing, Discarding
  <2> QED
    BY <1>4, <1>c, <2>1, <2>4, <2>5, FreshTyped, FieldsTyped
    DEF DiscardExceptOpen, Sound, diskVars, Steps, RemoverSteps
<1> QED
  BY <1>1, <1>2, <1>3, <1>4 DEF Begins

-----------------------------------------------------------------------------
(* The steps that move nothing a reader sees. *)

LEMMA QuietStep ==
  ASSUME Alone, Inv, NEW p \in Procs, pc[p] # "idle",
         pc[p] \notin {"syncGens", "syncRoot"} \cup RemoveSteps,
         StateTyped', UNCHANGED <<setting, pointer, gens, durableGens>>,
         durablePointer' \in {durablePointer, pointer},
         budget' \in {budget, budget - 1},
         \A q \in Procs \ {p} : pc'[q] = pc[q] /\ local'[q] = local[q],
         pc'[p] = "idle" => local'[p] = Fresh,
         pc'[p] # "idle" => Sound(p)'
  PROVE  Inv'
<1>1. p \in setting.procs
  BY DEF Inv, Running
<1>2. PointersReady'
  BY FaultsAssumption DEF Inv, TypeOK, StateTyped, PointersReady, Current, Ready, Loose
<1>3. Flushed'
  <2>1. CASE budget' = budget
    BY <2>1, FlushedKept DEF Inv
  <2> QED
    BY <2>1, FlushedSpent
<1> QED
  BY <1>1, <1>2, <1>3, StepKeepsInv

LEMMA PublicationSound ==
  ASSUME Alone, Inv, NEW p \in Procs,
         Acquire(p) \/ Open(p) \/ Create(p) \/ Build(p) \/ Validate(p) \/ Seal(p),
         pc'[p] # "idle"
  PROVE  Sound(p)'
<1> USE DEF CandidateSteps, SwitchSteps, UndoSteps, ForwardSteps, ReadSteps, PublishSteps,
            PruneSteps, DiscardSteps, RemoveSteps, At, Goto
<1>a. /\ pc \in [Procs -> Steps] /\ local \in [Procs -> Local] /\ StateTyped /\ Sound(p)
      /\ PointersReady
  BY DEF Inv, TypeOK, StateTyped
<1>b. cand \in [Ids -> DirState] /\ gens \in [Ids -> DirState] /\ local[p] \in Local
      /\ setting.faults \in Int /\ budget \in Int /\ budget <= setting.faults
  BY <1>a, SettingsAssumption DEF StateTyped, Inv, TypeOK, Setting, Running
<1>1. CASE Acquire(p)
  <2>1. pc[p] = "acquire" /\ pc'[p] = "open" /\ UNCHANGED local
    BY <1>a, <1>1 DEF Acquire, Finish
  <2>2. InOperation(p)' /\ Remembered(p)' /\ Switched(p)' /\ HowFar(p)' /\ CandidateStage(p)'
    BY <1>a, <2>1
    DEF Sound, InOperation, Remembered, Switched, HowFar, CandidateStage
  <2>3. Distinct(p)' /\ Own(p)' /\ Faulted(p)' /\ Removing(p)' /\ Discarding(p)'
    BY <1>a, <2>1 DEF Sound, Distinct, Own, Faulted, Removing, Discarding
  <2> QED
    BY <2>2, <2>3 DEF Sound
<1>2. CASE Open(p)
  <2>1. /\ pc[p] = "open" /\ pc'[p] = "create"
        /\ local'[p] = [local[p] EXCEPT !.prev = Current, !.prevBackup = pointer["BACKUP"]]
        /\ UNCHANGED <<setting, pointer, gens, cand, budget>>
    BY <1>a, <1>2 DEF Open, Finish
  <2>2. /\ local'[p].op = local[p].op /\ local'[p].id = local[p].id
        /\ local'[p].stuck = local[p].stuck /\ local'[p].renamed = local[p].renamed
        /\ local'[p].switched = local[p].switched
        /\ local'[p].prev = Current /\ local'[p].prevBackup = pointer["BACKUP"]
    BY <1>b, <2>1 DEF Local
  <2>3. local[p].op = "publish"
    BY <1>a, <2>1 DEF Sound, InOperation
  <2>4. InOperation(p)' /\ Remembered(p)' /\ CandidateStage(p)'
    BY <1>a, <2>1, <2>2, <2>3
    DEF Sound, InOperation, Remembered, CandidateStage, PointersReady, Loose, Ready, Current
  <2>5. Switched(p)' /\ HowFar(p)'
    BY <1>a, <2>1, <2>2, <2>3 DEF Sound, Switched, HowFar, Current
  <2>6. Distinct(p)' /\ Own(p)' /\ Faulted(p)' /\ Removing(p)' /\ Discarding(p)'
    BY <1>a, <2>1, <2>2, <2>3 DEF Sound, Distinct, Own, Faulted, Removing, Discarding
  <2> QED
    BY <2>4, <2>5, <2>6 DEF Sound
<1>3. CASE Create(p)
  <2>1. /\ pc[p] = "create" /\ pc'[p] = "build" /\ UNCHANGED local
        /\ UNCHANGED <<setting, pointer, gens, budget>>
        /\ gens[local[p].id] = "absent" /\ cand' = [cand EXCEPT ![local[p].id] = "open"]
    BY <1>a, <1>3 DEF Create, Finish
  <2>2. local[p].op = "publish" /\ local[p].id \in Ids
    BY <1>a, <2>1 DEF Sound, InOperation, Distinct
  <2>3. InOperation(p)' /\ Remembered(p)' /\ CandidateStage(p)'
    BY <1>a, <1>b, <2>1, <2>2
    DEF Sound, InOperation, Remembered, CandidateStage, Loose, Ready
  <2>4. Switched(p)' /\ HowFar(p)'
    BY <1>a, <2>1, <2>2 DEF Sound, Switched, HowFar, Current
  <2>5. Distinct(p)' /\ Own(p)'
    BY <1>a, <2>1, <2>2, NoneAssumption
    DEF Sound, Distinct, Own, Remembered, Ready, Loose
  <2>6. Faulted(p)' /\ Removing(p)' /\ Discarding(p)'
    BY <1>a, <2>1, <2>2 DEF Sound, Faulted, Removing, Discarding
  <2> QED
    BY <2>3, <2>4, <2>5, <2>6 DEF Sound
<1>4. CASE Build(p)
  <2>1. /\ pc[p] = "build" /\ pc'[p] = "validate" /\ UNCHANGED local
        /\ UNCHANGED <<setting, pointer, gens>>
    BY <1>a, <1>4 DEF Build
  <2>2. local[p].op = "publish" /\ local[p].id \in Ids
    BY <1>a, <2>1 DEF Sound, InOperation, Distinct
  <2>3. \/ cand'[local[p].id] = "built" /\ budget' = budget
        \/ cand'[local[p].id] = "bad" /\ budget' = budget - 1 /\ budget > 0
    BY <1>b, <1>4, <2>2 DEF Build
  <2>4. InOperation(p)' /\ CandidateStage(p)' /\ Switched(p)' /\ HowFar(p)'
    BY <1>a, <1>b, <2>1, <2>2, <2>3
    DEF Sound, InOperation, CandidateStage, Switched, HowFar, Current
  <2>5. Loose(local[p].prev) => Loose(local[p].prev)'
    BY <2>1, <2>3, <1>b DEF Loose
  <2>6. Remembered(p)' /\ Distinct(p)' /\ Own(p)'
    BY <1>a, <2>1, <2>2, <2>5 DEF Sound, Remembered, Ready, Distinct, Own
  <2>7. Faulted(p)' /\ Removing(p)' /\ Discarding(p)'
    BY <1>a, <2>1, <2>2 DEF Sound, Faulted, Removing, Discarding
  <2> QED
    BY <2>4, <2>6, <2>7 DEF Sound
<1>5. CASE Validate(p) \/ Seal(p)
  <2>1. /\ \/ pc[p] = "validate" /\ cand[local[p].id] = "built" /\ pc'[p] = "seal"
              /\ cand' = [cand EXCEPT ![local[p].id] = "valid"]
           \/ pc[p] = "validate" /\ cand[local[p].id] # "built" /\ pc'[p] = "undoCurrent"
              /\ UNCHANGED cand
           \/ pc[p] = "seal" /\ pc'[p] = "rename"
              /\ cand' = [cand EXCEPT ![local[p].id] = IF @ = "valid" THEN "ready" ELSE @]
        /\ UNCHANGED <<setting, pointer, gens, budget, local>>
    BY <1>a, <1>5 DEF Validate, Seal
  <2>2. local[p].op = "publish" /\ local[p].id \in Ids
    BY <1>a, <2>1 DEF Sound, InOperation, Distinct
  <2>3. InOperation(p)' /\ CandidateStage(p)' /\ Faulted(p)'
    BY <1>a, <1>b, <2>1, <2>2 DEF Sound, InOperation, CandidateStage, Faulted, HowFar
  <2>4. Switched(p)' /\ HowFar(p)'
    BY <1>a, <2>1, <2>2 DEF Sound, Switched, HowFar, Current
  <2>5. Remembered(p)' /\ Distinct(p)' /\ Own(p)'
    BY <1>a, <2>1, <2>2 DEF Sound, Remembered, Ready, Loose, Distinct, Own, HowFar
  <2>6. Removing(p)' /\ Discarding(p)'
    BY <1>a, <2>1, <2>2 DEF Sound, Removing, Discarding
  <2> QED
    BY <2>3, <2>4, <2>5, <2>6 DEF Sound
<1> QED
  BY <1>1, <1>2, <1>3, <1>4, <1>5

LEMMA PublicationInv ==
  ASSUME Alone, Inv, NEW p \in Procs,
         Acquire(p) \/ Open(p) \/ Create(p) \/ Build(p) \/ Validate(p) \/ Seal(p)
  PROVE  Inv'
<1>1. StateTyped /\ pc \in [Procs -> Steps] /\ local \in [Procs -> Local]
  BY DEF Inv, TypeOK, StateTyped
<1>2. StateTyped'
  BY <1>1, PublicationTyped DEF Publication
<1>3. /\ pc[p] \notin {"idle", "syncGens", "syncRoot"} \cup RemoveSteps
      /\ UNCHANGED <<setting, pointer, gens, durableGens>>
      /\ durablePointer' \in {durablePointer, pointer}
      /\ budget' \in {budget, budget - 1}
  BY DEF Acquire, Open, Create, Build, Validate, Seal, At, Prepare, RemoveSteps
<1>4. /\ \A q \in Procs \ {p} : pc'[q] = pc[q] /\ local'[q] = local[q]
      /\ pc'[p] = "idle" => local'[p] = Fresh
  BY <1>1 DEF Acquire, Open, Create, Build, Validate, Seal, Goto, Finish
<1> QED
  BY <1>2, <1>3, <1>4, PublicationSound, QuietStep

-----------------------------------------------------------------------------
(* The candidate becomes a generation. *)

LEMMA RenameInv ==
  ASSUME Alone, Inv, NEW p \in Procs, Rename(p)
  PROVE  Inv'
<1> USE DEF CandidateSteps, SwitchSteps, UndoSteps, ForwardSteps, ReadSteps, PublishSteps,
            PruneSteps, DiscardSteps, RemoveSteps
<1>a. /\ pc \in [Procs -> Steps] /\ local \in [Procs -> Local] /\ StateTyped /\ Sound(p)
      /\ PointersReady /\ cand \in [Ids -> DirState] /\ gens \in [Ids -> DirState]
      /\ local[p] \in Local
  BY DEF Inv, TypeOK, StateTyped
<1> DEFINE g == local[p].id
<1>1. /\ pc[p] = "rename" /\ pc' = [pc EXCEPT ![p] = "syncGens"]
      /\ local' = [local EXCEPT ![p].renamed = TRUE]
      /\ gens' = [gens EXCEPT ![g] = cand[g]] /\ cand' = [cand EXCEPT ![g] = "absent"]
      /\ UNCHANGED <<setting, pointer, durablePointer, durableGens, budget>>
  BY DEF Rename, At, Goto
<1>2. local[p].op = "publish" /\ g \in Ids /\ cand[g] = "ready" /\ gens[g] = "absent"
  BY <1>a, <1>1 DEF Sound, InOperation, Distinct, CandidateStage, Own
<1>3. /\ local'[p].op = "publish" /\ local'[p].id = g /\ local'[p].prev = local[p].prev
      /\ local'[p].prevBackup = local[p].prevBackup /\ local'[p].stuck = local[p].stuck
      /\ local'[p].switched = local[p].switched /\ local'[p].renamed
  BY <1>a, <1>1, <1>2 DEF Local
<1> HIDE DEF g
<1>4. /\ gens'[g] = "ready" /\ \A h \in Ids : h # g => gens'[h] = gens[h]
      /\ \A h \in Ids : Ready(h) => Ready(h)'
  BY <1>a, <1>1, <1>2 DEF Ready
<1>5. \A f \in Pointers : pointer[f] # None => pointer[f] \in Ids
  BY <1>a DEF StateTyped
<1>6. /\ local[p].prev # None => local[p].prev \in Ids
      /\ local[p].prevBackup # None => local[p].prevBackup \in Ids
  BY <1>a DEF Local
<1>7. PointersReady'
  BY <1>a, <1>1, <1>4, <1>5 DEF PointersReady, Current, Loose, Pointers
<1>8. Sound(p)'
  <2>1. pc'[p] = "syncGens"
    BY <1>a, <1>1
  <2>2. InOperation(p)' /\ CandidateStage(p)' /\ Faulted(p)' /\ Removing(p)' /\ Discarding(p)'
    BY <2>1, <1>3 DEF InOperation, CandidateStage, Faulted, Removing, Discarding
  <2>3. Remembered(p)'
    BY <1>a, <1>1, <1>3, <1>4, <1>6, <2>1 DEF Sound, Remembered, Loose
  <2>4. Switched(p)' /\ HowFar(p)'
    BY <1>a, <1>1, <1>3, <2>1 DEF Sound, Switched, HowFar, Current
  <2>5. Distinct(p)' /\ Own(p)'
    BY <1>a, <1>1, <1>2, <1>3, <1>4, <2>1 DEF Sound, Distinct, Own, Loose, Ready, g
  <2> QED
    BY <2>2, <2>3, <2>4, <2>5 DEF Sound
<1>9. p \in setting.procs /\ \A q \in Procs \ {p} : pc[q] = "idle"
  BY <1>1, OthersIdle DEF Inv, Running
<1>10. Flushed'
  <2> SUFFICES ASSUME setting.power, budget > 0 PROVE GensFlushed' /\ PointersFlushed'
    BY <1>1 DEF Flushed
  <2>1. GensFlushed /\ PointersFlushed
    BY DEF Inv, Flushed
  <2>2. durableGens = gens
    <3>1. \A q \in Procs : pc[q] \notin {"syncGens"} \cup RemoveSteps
      BY <1>1, <1>9
    <3> QED
      BY <3>1, <2>1, <1>a DEF GensFlushed, StateTyped
  <2>3. GensFlushed'
    BY <1>a, <1>1, <1>2, <1>3, <1>4, <2>2 DEF GensFlushed
  <2>4. PointersFlushed'
    BY <1>1, <1>9, <2>1 DEF PointersFlushed, Current
  <2> QED
    BY <2>3, <2>4
<1>11. StateTyped'
  BY <1>a, PublicationTyped DEF Publication
<1> QED
  BY <1>a, <1>1, <1>7, <1>8, <1>9, <1>10, <1>11, StepKeepsInv

LEMMA SyncGensInv ==
  ASSUME Alone, Inv, NEW p \in Procs, SyncGens(p)
  PROVE  Inv'
<1> USE DEF CandidateSteps, SwitchSteps, UndoSteps, ForwardSteps, ReadSteps, PublishSteps,
            PruneSteps, DiscardSteps, RemoveSteps
<1>a. /\ pc \in [Procs -> Steps] /\ StateTyped /\ Sound(p) /\ PointersReady
  BY DEF Inv, TypeOK, StateTyped
<1>1. /\ pc[p] = "syncGens"
      /\ pc' = [pc EXCEPT ![p] = IF local[p].prev # None THEN "nextBackup" ELSE "nextCurrent"]
      /\ durableGens' = gens
      /\ UNCHANGED <<setting, pointer, durablePointer, gens, cand, local, budget>>
  BY DEF SyncGens, At, Goto
<1>2. pc'[p] = IF local[p].prev # None THEN "nextBackup" ELSE "nextCurrent"
  BY <1>a, <1>1
<1>3. local[p].op = "publish"
  BY <1>a, <1>1 DEF Sound, InOperation
<1>4. Sound(p)'
  <2>1. InOperation(p)' /\ CandidateStage(p)' /\ Faulted(p)' /\ Removing(p)' /\ Discarding(p)'
    BY <1>1, <1>2, <1>3 DEF InOperation, CandidateStage, Faulted, Removing, Discarding
  <2>2. Remembered(p)' /\ Switched(p)' /\ HowFar(p)'
    BY <1>a, <1>1, <1>2, <1>3
    DEF Sound, Remembered, Switched, HowFar, Current, Loose, Ready
  <2>3. Distinct(p)' /\ Own(p)'
    BY <1>a, <1>1, <1>2, <1>3 DEF Sound, Distinct, Own, Loose, Ready
  <2> QED
    BY <2>1, <2>2, <2>3 DEF Sound
<1>5. p \in setting.procs /\ \A q \in Procs \ {p} : pc[q] = "idle"
  BY <1>1, OthersIdle DEF Inv, Running
<1>6. PointersReady'
  BY <1>a, <1>1 DEF PointersReady, Current, Loose, Ready
<1>7. Flushed'
  BY <1>1, <1>5 DEF Inv, Flushed, GensFlushed, PointersFlushed, Current
<1>8. StateTyped'
  BY <1>a, PublicationTyped DEF Publication
<1> QED
  BY <1>a, <1>1, <1>4, <1>5, <1>6, <1>7, <1>8, StepKeepsInv

-----------------------------------------------------------------------------
(* The pointers are switched. *)

LEMMA WriteNextInv ==
  ASSUME Alone, Inv, NEW p \in Procs,
         \/ WriteNext(p, "BACKUP", "nextBackup", "renameBackup")
         \/ WriteNext(p, "CURRENT", "nextCurrent", "renameCurrent")
  PROVE  Inv'
<1> USE DEF CandidateSteps, SwitchSteps, UndoSteps, ForwardSteps, ReadSteps, PublishSteps,
            PruneSteps, DiscardSteps, RemoveSteps
<1>a. /\ pc \in [Procs -> Steps] /\ StateTyped /\ Sound(p)
      /\ next \in [Pointers -> Ids \cup {None}]
  BY DEF Inv, TypeOK, StateTyped
<1>1. /\ \/ /\ pc[p] = "nextBackup" /\ pc' = [pc EXCEPT ![p] = "renameBackup"]
            /\ next' = [next EXCEPT !["BACKUP"] = local[p].prev]
         \/ /\ pc[p] = "nextCurrent" /\ pc' = [pc EXCEPT ![p] = "renameCurrent"]
            /\ next' = [next EXCEPT !["CURRENT"] = local[p].id]
      /\ UNCHANGED <<setting, pointer, durablePointer, gens, durableGens, cand, local, budget>>
  BY DEF WriteNext, Wanted, At, Goto
<1>2. \/ pc[p] = "nextBackup" /\ pc'[p] = "renameBackup" /\ next'["BACKUP"] = local[p].prev
      \/ pc[p] = "nextCurrent" /\ pc'[p] = "renameCurrent" /\ next'["CURRENT"] = local[p].id
  BY <1>a, <1>1 DEF Pointers
<1>3. Sound(p)'
  <2>1. InOperation(p)' /\ CandidateStage(p)' /\ Faulted(p)' /\ Removing(p)' /\ Discarding(p)'
    BY <1>a, <1>1, <1>2
    DEF Sound, InOperation, CandidateStage, Faulted, Removing, Discarding
  <2>2. Remembered(p)' /\ Switched(p)'
    BY <1>a, <1>1, <1>2 DEF Sound, Remembered, Switched, Current, Loose, Ready
  <2>3. HowFar(p)'
    BY <1>a, <1>1, <1>2 DEF Sound, HowFar
  <2>4. Distinct(p)' /\ Own(p)'
    BY <1>a, <1>1, <1>2 DEF Sound, Distinct, Own, Loose, Ready
  <2> QED
    BY <2>1, <2>2, <2>3, <2>4 DEF Sound
<1>4. StateTyped'
  BY <1>a, SwitchTyped DEF Switch
<1> QED
  BY <1>a, <1>1, <1>2, <1>3, <1>4, QuietStep

\* BACKUP takes the displaced generation.
LEMMA RenameBackupInv ==
  ASSUME Alone, Inv, NEW p \in Procs, RenameNext(p, "BACKUP", "renameBackup", "nextCurrent")
  PROVE  Inv'
<1> USE DEF CandidateSteps, SwitchSteps, UndoSteps, ForwardSteps, ReadSteps, PublishSteps,
            PruneSteps, DiscardSteps, RemoveSteps
<1>a. /\ pc \in [Procs -> Steps] /\ local \in [Procs -> Local] /\ StateTyped /\ Sound(p)
      /\ PointersReady /\ local[p] \in Local /\ pointer \in [Pointers -> Ids \cup {None}]
  BY DEF Inv, TypeOK, StateTyped
<1>1. /\ pc[p] = "renameBackup"
      /\ next["BACKUP"] = local[p].prev /\ local[p].prev # None /\ local[p].switched = {}
      /\ Ready(local[p].prev)
  BY <1>a DEF RenameNext, At, Sound, HowFar, Remembered
<1>2. /\ pc' = [pc EXCEPT ![p] = "nextCurrent"]
      /\ pointer' = [pointer EXCEPT !["BACKUP"] = local[p].prev]
      /\ local' = [local EXCEPT ![p].switched = @ \cup {"BACKUP"}]
      /\ UNCHANGED <<setting, durablePointer, gens, durableGens, cand, budget>>
  BY <1>1 DEF RenameNext, Goto
<1>3. /\ pc'[p] = "nextCurrent" /\ Current' = Current /\ pointer'["BACKUP"] = local[p].prev
      /\ local'[p].op = local[p].op /\ local'[p].id = local[p].id
      /\ local'[p].prev = local[p].prev /\ local'[p].prevBackup = local[p].prevBackup
      /\ local'[p].stuck = local[p].stuck /\ local'[p].renamed = local[p].renamed
      /\ local'[p].switched = {"BACKUP"}
  BY <1>a, <1>1, <1>2 DEF Local, Pointers, Current
<1>4. Sound(p)'
  <2>1. InOperation(p)' /\ CandidateStage(p)' /\ Faulted(p)' /\ Removing(p)' /\ Discarding(p)'
    BY <1>a, <1>1, <1>2, <1>3
    DEF Sound, InOperation, CandidateStage, Faulted, Removing, Discarding
  <2>2. Remembered(p)' /\ Switched(p)' /\ HowFar(p)'
    BY <1>a, <1>1, <1>2, <1>3 DEF Sound, Remembered, Switched, HowFar, Loose, Ready
  <2>3. Distinct(p)' /\ Own(p)'
    BY <1>a, <1>1, <1>2, <1>3 DEF Sound, Distinct, Own, Loose, Ready
  <2> QED
    BY <2>1, <2>2, <2>3 DEF Sound
<1>5. PointersReady'
  BY <1>a, <1>1, <1>2, <1>3 DEF PointersReady, Loose, Ready
<1>6. p \in setting.procs /\ \A q \in Procs \ {p} : pc[q] = "idle"
  BY <1>1, OthersIdle DEF Inv, Running
<1>7. Flushed'
  <2>1. Current = local[p].prev
    BY <1>a, <1>1 DEF Sound, Switched
  <2>2. GensFlushed /\ PointersFlushed => GensFlushed' /\ PointersFlushed'
    BY <1>1, <1>2, <1>3, <1>6, <2>1 DEF GensFlushed, PointersFlushed
  <2> QED
    BY <1>2, <2>2 DEF Inv, Flushed
<1>8. StateTyped'
  BY <1>a, SwitchTyped DEF Switch
<1>9. \A q \in Procs \ {p} : pc'[q] = pc[q] /\ local'[q] = local[q]
  BY <1>a, <1>2
<1> QED
  BY <1>2, <1>3, <1>4, <1>5, <1>6, <1>7, <1>8, <1>9, StepKeepsInv

\* CURRENT takes the new one: the switch itself.
LEMMA RenameCurrentInv ==
  ASSUME Alone, Inv, NEW p \in Procs, RenameNext(p, "CURRENT", "renameCurrent", "syncRoot")
  PROVE  Inv'
<1> USE DEF CandidateSteps, SwitchSteps, UndoSteps, ForwardSteps, ReadSteps, PublishSteps,
            PruneSteps, DiscardSteps, RemoveSteps
<1>a. /\ pc \in [Procs -> Steps] /\ local \in [Procs -> Local] /\ StateTyped /\ Sound(p)
      /\ PointersReady /\ local[p] \in Local /\ pointer \in [Pointers -> Ids \cup {None}]
  BY DEF Inv, TypeOK, StateTyped
<1>1. /\ pc[p] = "renameCurrent" /\ next["CURRENT"] = local[p].id
      /\ local[p].id \in Ids /\ local[p].id # local[p].prev /\ Ready(local[p].id)
      /\ local[p].switched = IF local[p].prev = None THEN {} ELSE {"BACKUP"}
      /\ Current = local[p].prev
      /\ pointer["BACKUP"] = IF local[p].prev = None THEN local[p].prevBackup ELSE local[p].prev
  <2>1. pc[p] = "renameCurrent"
    BY DEF RenameNext, At
  <2>2. /\ next["CURRENT"] = local[p].id
        /\ local[p].switched = IF local[p].prev = None THEN {} ELSE {"BACKUP"}
    BY <1>a, <2>1 DEF Sound, HowFar
  <2>3. local[p].id \in Ids /\ local[p].id # local[p].prev /\ Ready(local[p].id)
    BY <1>a, <2>1 DEF Sound, Distinct, Own
  <2> QED
    BY <1>a, <2>1, <2>2, <2>3 DEF Sound, Switched
<1>2. /\ pc' = [pc EXCEPT ![p] = "syncRoot"]
      /\ pointer' = [pointer EXCEPT !["CURRENT"] = local[p].id]
      /\ local' = [local EXCEPT ![p].switched = @ \cup {"CURRENT"}]
      /\ UNCHANGED <<setting, durablePointer, gens, durableGens, cand, budget>>
  BY <1>1, NoneAssumption DEF RenameNext, Goto
<1>3. /\ pc'[p] = "syncRoot" /\ Current' = local[p].id
      /\ pointer'["BACKUP"] = pointer["BACKUP"]
      /\ local'[p].op = local[p].op /\ local'[p].id = local[p].id
      /\ local'[p].prev = local[p].prev /\ local'[p].prevBackup = local[p].prevBackup
      /\ local'[p].stuck = local[p].stuck /\ local'[p].renamed = local[p].renamed
      /\ local'[p].switched = IF local[p].prev = None THEN {"CURRENT"} ELSE Pointers
  BY <1>a, <1>1, <1>2 DEF Local, Pointers, Current
<1>4. Sound(p)'
  <2>1. InOperation(p)' /\ CandidateStage(p)' /\ Faulted(p)' /\ Removing(p)' /\ Discarding(p)'
    BY <1>a, <1>1, <1>2, <1>3
    DEF Sound, InOperation, CandidateStage, Faulted, Removing, Discarding
  <2>2. Remembered(p)' /\ HowFar(p)'
    BY <1>a, <1>1, <1>2, <1>3 DEF Sound, Remembered, HowFar, Loose, Ready
  <2>3. Switched(p)'
    BY <1>1, <1>3 DEF Switched, Pointers
  <2>4. Distinct(p)' /\ Own(p)'
    BY <1>a, <1>1, <1>2, <1>3 DEF Sound, Distinct, Own, Loose, Ready
  <2> QED
    BY <2>1, <2>2, <2>3, <2>4 DEF Sound
<1>5. PointersReady'
  <2>1. pointer["BACKUP"] # None /\ ~Loose(local[p].prev) => Ready(pointer["BACKUP"])
    BY <1>a, <1>1 DEF PointersReady
  <2>2. local[p].prev # None => Ready(local[p].prev)
    BY <1>a, <1>1 DEF Sound, Remembered
  <2> QED
    BY <1>1, <1>2, <1>3, <2>1, <2>2 DEF PointersReady, Loose, Ready
<1>6. p \in setting.procs /\ \A q \in Procs \ {p} : pc[q] = "idle"
  BY <1>1, OthersIdle DEF Inv, Running
<1>7. Flushed'
  <2>1. GensFlushed /\ PointersFlushed => GensFlushed' /\ PointersFlushed'
    <3>1. GensFlushed => GensFlushed'
      BY <1>1, <1>2, <1>3, <1>6 DEF GensFlushed
    <3>2. PointersFlushed => PointersFlushed'
      BY <1>1, <1>2, <1>3, <1>6 DEF PointersFlushed
    <3> QED
      BY <3>1, <3>2
  <2> QED
    BY <1>2, <2>1 DEF Inv, Flushed
<1>8. StateTyped'
  BY <1>a, SwitchTyped DEF Switch
<1>9. \A q \in Procs \ {p} : pc'[q] = pc[q] /\ local'[q] = local[q]
  BY <1>a, <1>2
<1> QED
  BY <1>1, <1>2, <1>3, <1>4, <1>5, <1>6, <1>7, <1>8, <1>9, StepKeepsInv

LEMMA SyncRootInv ==
  ASSUME Alone, Inv, NEW p \in Procs, SyncRoot(p)
  PROVE  Inv'
<1> USE DEF CandidateSteps, SwitchSteps, UndoSteps, ForwardSteps, ReadSteps, PublishSteps,
            PruneSteps, DiscardSteps, RemoveSteps
<1>a. pc \in [Procs -> Steps] /\ StateTyped /\ Sound(p) /\ PointersReady
  BY DEF Inv, TypeOK, StateTyped
<1>1. /\ pc[p] = "syncRoot" /\ pc' = [pc EXCEPT ![p] = "clear"] /\ durablePointer' = pointer
      /\ UNCHANGED <<setting, pointer, gens, durableGens, cand, local, budget>>
  BY DEF SyncRoot, At, Goto
<1>2. pc'[p] = "clear"
  BY <1>a, <1>1
<1>3. Sound(p)'
  <2>1. InOperation(p)' /\ CandidateStage(p)' /\ Faulted(p)' /\ Removing(p)' /\ Discarding(p)'
    BY <1>a, <1>1, <1>2
    DEF Sound, InOperation, CandidateStage, Faulted, Removing, Discarding
  <2>2. Remembered(p)' /\ Switched(p)' /\ HowFar(p)'
    BY <1>a, <1>1, <1>2
    DEF Sound, Remembered, Switched, HowFar, Current, Loose, Ready
  <2>3. Distinct(p)' /\ Own(p)'
    BY <1>a, <1>1, <1>2 DEF Sound, Distinct, Own, Loose, Ready
  <2> QED
    BY <2>1, <2>2, <2>3 DEF Sound
<1>4. p \in setting.procs /\ \A q \in Procs \ {p} : pc[q] = "idle"
  BY <1>1, OthersIdle DEF Inv, Running
<1>5. PointersReady'
  BY <1>a, <1>1 DEF PointersReady, Current, Loose, Ready
<1>6. Flushed'
  <2>1. GensFlushed => GensFlushed'
    BY <1>1, <1>2, <1>4 DEF GensFlushed
  <2>2. PointersFlushed'
    BY <1>1 DEF PointersFlushed, Current
  <2> QED
    BY <1>1, <2>1, <2>2 DEF Inv, Flushed
<1>7. StateTyped'
  BY <1>a, SwitchTyped
<1> QED
  BY <1>a, <1>1, <1>2, <1>3, <1>4, <1>5, <1>6, <1>7, StepKeepsInv

\* A prune finds what the publication before it has switched to.
LEMMA ClearInv ==
  ASSUME Alone, Inv, NEW p \in Procs, Clear(p)
  PROVE  Inv'
<1> USE DEF CandidateSteps, SwitchSteps, UndoSteps, ForwardSteps, ReadSteps, PublishSteps,
            PruneSteps, DiscardSteps, RemoveSteps
<1>a. /\ pc \in [Procs -> Steps] /\ local \in [Procs -> Local] /\ StateTyped /\ Sound(p)
  BY DEF Inv, TypeOK, StateTyped
<1>1. /\ pc[p] = "clear"
      /\ UNCHANGED <<setting, pointer, durablePointer, gens, durableGens, budget>>
  BY DEF Clear, At
<1>2. \/ pc'[p] = "pruneRead" /\ local'[p] = [Fresh EXCEPT !.op = "prune"]
      \/ pc'[p] = "idle" /\ local'[p] = Fresh
  BY <1>a DEF Clear, Begin, Goto, Finish
<1>3. \A q \in Procs \ {p} : pc'[q] = pc[q] /\ local'[q] = local[q]
  BY <1>a DEF Clear, Begin, Goto, Finish
<1>4. Current # None /\ \A g \in Spared : Ready(g)
  <2>1. local[p].switched = IF local[p].prev = None THEN {"CURRENT"} ELSE Pointers
    BY <1>a, <1>1 DEF Sound, HowFar
  <2>2. Current = local[p].id /\ Ready(local[p].id) /\ local[p].id # None
    BY <1>a, <1>1, <2>1, NoneAssumption DEF Sound, Switched, Own, Distinct, Pointers
  <2>3. /\ local[p].prev = None => pointer["BACKUP"] = local[p].prevBackup
        /\ local[p].prev # None => pointer["BACKUP"] = local[p].prev
    BY <1>a, <1>1, <2>1 DEF Sound, Switched, Pointers
  <2>4. pointer["BACKUP"] # None => Ready(pointer["BACKUP"])
    BY <1>a, <1>1, <2>3 DEF Sound, Remembered, Loose
  <2> QED
    BY <2>2, <2>4 DEF Spared
<1>5. ASSUME pc'[p] = "pruneRead", local'[p] = [Fresh EXCEPT !.op = "prune"]
      PROVE  Sound(p)'
  <2>1. local'[p].op = "prune"
    BY <1>5 DEF Fresh
  <2>2. InOperation(p)' /\ Remembered(p)' /\ Switched(p)' /\ HowFar(p)'
    BY <1>5, <2>1 DEF InOperation, Remembered, Switched, HowFar
  <2>3. CandidateStage(p)' /\ Distinct(p)' /\ Own(p)' /\ Faulted(p)' /\ Discarding(p)'
    BY <1>5, <2>1 DEF CandidateStage, Distinct, Own, Faulted, Discarding
  <2>4. Removing(p)'
    BY <1>1, <1>4, <1>5, <2>1 DEF Removing, Spared, Current, Ready
  <2> QED
    BY <2>2, <2>3, <2>4 DEF Sound
<1>6. StateTyped'
  BY <1>a, SwitchTyped
<1> QED
  BY <1>1, <1>2, <1>3, <1>5, <1>6, QuietStep

-----------------------------------------------------------------------------
(* The undo. *)

\* Whoever undoes has met a fault: power is lost no more.
LEMMA UndoFlushed ==
  ASSUME Alone, Inv, NEW p \in Procs, pc[p] \in UndoSteps, UNCHANGED setting,
         budget' \in {budget, budget - 1}
  PROVE  Flushed'
<1>1. budget < setting.faults
  BY DEF Inv, Sound, Faulted
<1> QED
  BY <1>1, SettingsAssumption DEF Alone, Inv, TypeOK, StateTyped, Setting, Flushed

LEMMA UndoCurrentInv ==
  ASSUME Alone, Inv, NEW p \in Procs, UndoCurrent(p)
  PROVE  Inv'
<1> USE DEF CandidateSteps, SwitchSteps, UndoSteps, ForwardSteps, ReadSteps, PublishSteps,
            PruneSteps, DiscardSteps, RemoveSteps
<1>a. /\ pc \in [Procs -> Steps] /\ local \in [Procs -> Local] /\ StateTyped /\ Sound(p)
      /\ PointersReady /\ local[p] \in Local /\ pointer \in [Pointers -> Ids \cup {None}]
      /\ setting.faults \in Int /\ budget \in Int
  BY SettingsAssumption DEF Inv, TypeOK, StateTyped, Setting
<1>1. /\ pc[p] = "undoCurrent" /\ pc' = [pc EXCEPT ![p] = "undoBackup"]
      /\ UNCHANGED <<setting, gens, durableGens, cand>>
  BY DEF UndoCurrent, At, Goto
<1>2. /\ pc'[p] = "undoBackup" /\ \A q \in Procs \ {p} : pc'[q] = pc[q]
      /\ Current = IF "CURRENT" \in local[p].switched THEN local[p].id ELSE local[p].prev
      /\ pointer["BACKUP"] = IF "BACKUP" \in local[p].switched THEN local[p].prev
                                                               ELSE local[p].prevBackup
      /\ ~local[p].stuck /\ budget < setting.faults
      /\ local[p].id \in Ids /\ local[p].id # None
  BY <1>a, <1>1, NoneAssumption DEF Sound, Switched, HowFar, Faulted, Distinct
<1>3. \/ /\ Current' = local[p].prev /\ UNCHANGED local /\ budget' = budget
         /\ pointer'["BACKUP"] = pointer["BACKUP"]
      \/ /\ UNCHANGED pointer /\ budget > 0 /\ budget' = budget - 1 /\ Current = local[p].id
         /\ local' = [local EXCEPT ![p].stuck = TRUE]
  BY <1>a, <1>2 DEF UndoCurrent, Works, Breaks, Current, Pointers
<1>4. /\ local'[p].op = local[p].op /\ local'[p].id = local[p].id
      /\ local'[p].prev = local[p].prev /\ local'[p].prevBackup = local[p].prevBackup
      /\ local'[p].switched = local[p].switched /\ local'[p].renamed = local[p].renamed
      /\ pointer'["BACKUP"] = pointer["BACKUP"]
      /\ \A q \in Procs \ {p} : local'[q] = local[q]
  BY <1>a, <1>3 DEF Local
<1>5. \/ ~local'[p].stuck /\ Current' = local[p].prev /\ budget' = budget
      \/ /\ local'[p].stuck /\ Current' = local[p].id /\ Current = local[p].id
         /\ budget' = budget - 1
  BY <1>a, <1>2, <1>3 DEF Local, Current
<1>6. /\ local[p].prev # None => Ready(local[p].prev)
      /\ local[p].prevBackup # None /\ ~Loose(local[p].prev) => Ready(local[p].prevBackup)
      /\ local[p].op = "restore" => local[p].prev # None
  BY <1>a, <1>1 DEF Sound, Remembered
<1>b. Loose(local[p].prev) => Loose(local[p].prev)'
  <2>1. UNCHANGED setting /\ (budget = 0 => budget' = 0)
    BY <1>a, <1>1, <1>3
  <2> QED
    BY <1>4, <2>1, Zenon DEF Loose
<1>7. Sound(p)'
  <2>1. InOperation(p)' /\ CandidateStage(p)' /\ Removing(p)' /\ Discarding(p)' /\ HowFar(p)'
    BY <1>a, <1>1, <1>2, <1>4
    DEF Sound, InOperation, CandidateStage, Removing, Discarding, HowFar
  <2>2. Remembered(p)'
    BY <1>1, <1>2, <1>4, <1>6, <1>b DEF Remembered, Ready
  <2>6. Switched(p)'
    BY <1>2, <1>4, <1>5 DEF Switched
  <2>3. Faulted(p)'
    BY <1>a, <1>1, <1>2, <1>5 DEF Faulted
  <2>4. Distinct(p)'
    BY <1>a, <1>1, <1>2, <1>4, <1>b DEF Sound, Distinct
  <2>5. Own(p)'
    BY <1>a, <1>1, <1>2, <1>4, <1>5 DEF Sound, Own, Ready, PointersReady
  <2> QED
    BY <2>1, <2>2, <2>3, <2>4, <2>5, <2>6 DEF Sound
<1>8. PointersReady'
  <2>1. CASE ~local'[p].stuck /\ Current' = local[p].prev /\ budget' = budget
    BY <1>1, <1>2, <1>4, <1>6, <2>1 DEF PointersReady, Loose, Ready
  <2>2. CASE Current' = Current
    <3>1. Loose(Current) => Loose(Current)'
      <4>1. UNCHANGED setting /\ (budget = 0 => budget' = 0)
        BY <1>a, <1>1, <1>3
      <4> QED
        BY <2>2, <4>1, Zenon DEF Loose
    <3> QED
      BY <1>a, <1>1, <1>4, <2>2, <3>1 DEF PointersReady, Ready
  <2> QED
    BY <1>5, <2>1, <2>2
<1>9. p \in setting.procs
  BY <1>1 DEF Inv, Running
<1>10. Flushed'
  BY <1>1, <1>3, UndoFlushed
<1>11. StateTyped'
  BY <1>a, UndoTyped DEF Undo
<1> QED
  BY <1>1, <1>2, <1>3, <1>4, <1>7, <1>8, <1>9, <1>10, <1>11, StepKeepsInv

LEMMA UndoBackupInv ==
  ASSUME Alone, Inv, NEW p \in Procs, UndoBackup(p)
  PROVE  Inv'
<1> USE DEF CandidateSteps, SwitchSteps, UndoSteps, ForwardSteps, ReadSteps, PublishSteps,
            PruneSteps, DiscardSteps, RemoveSteps
<1>a. /\ pc \in [Procs -> Steps] /\ StateTyped /\ Sound(p)
      /\ PointersReady /\ pointer \in [Pointers -> Ids \cup {None}]
      /\ setting.faults \in Int /\ budget \in Nat
  BY SettingsAssumption, FaultsAssumption DEF Inv, TypeOK, StateTyped, Setting
<1>1. /\ pc[p] = "undoBackup"
      /\ pc' = [pc EXCEPT ![p] = IF local[p].op = "publish" THEN "undoCandidate" ELSE "record"]
      /\ UNCHANGED <<setting, gens, durableGens, cand, local>>
  BY DEF UndoBackup, At, Goto
<1>2. /\ pc'[p] = IF local[p].op = "publish" THEN "undoCandidate" ELSE "record"
      /\ \A q \in Procs \ {p} : pc'[q] = pc[q]
      /\ Current = IF local[p].stuck THEN local[p].id ELSE local[p].prev
      /\ pointer["BACKUP"] = IF "BACKUP" \in local[p].switched THEN local[p].prev
                                                               ELSE local[p].prevBackup
      /\ budget < setting.faults /\ local[p].op \in {"publish", "restore"}
      /\ local[p].id \in Ids /\ local[p].id # None
  BY <1>a, <1>1, NoneAssumption DEF Sound, Switched, Faulted, Distinct, InOperation
<1>3. /\ Current' = Current
      /\ \/ pointer'["BACKUP"] = local[p].prevBackup /\ budget' = budget
         \/ pointer'["BACKUP"] = pointer["BACKUP"] /\ budget > 0 /\ budget' = budget - 1
  BY <1>a, <1>2 DEF UndoBackup, Works, Breaks, Current, Pointers
<1>4. /\ local[p].prev # None => Ready(local[p].prev)
      /\ local[p].prevBackup # None /\ ~Loose(local[p].prev) => Ready(local[p].prevBackup)
      /\ local[p].op = "restore" => local[p].prev # None
  BY <1>a, <1>1 DEF Sound, Remembered
<1>5. Sound(p)'
  <2>1. InOperation(p)' /\ CandidateStage(p)' /\ Removing(p)' /\ Discarding(p)' /\ HowFar(p)'
    BY <1>1, <1>2 DEF InOperation, CandidateStage, Removing, Discarding, HowFar
  <2>2. Remembered(p)' /\ Switched(p)'
    BY <1>a, <1>1, <1>2, <1>3, <1>4 DEF Remembered, Switched, Loose, Ready
  <2>3. Faulted(p)'
    BY <1>a, <1>1, <1>2, <1>3 DEF Faulted, Sound
  <2>4. Distinct(p)'
    BY <1>a, <1>1, <1>2, <1>3 DEF Sound, Distinct, Loose
  <2>5. Own(p)'
    BY <1>a, <1>1, <1>2, <1>3 DEF Sound, Own, Ready
  <2> QED
    BY <2>1, <2>2, <2>3, <2>4, <2>5 DEF Sound
<1>6. PointersReady'
  BY <1>a, <1>1, <1>2, <1>3, <1>4 DEF PointersReady, Loose, Ready
<1>7. p \in setting.procs
  BY <1>1 DEF Inv, Running
<1>8. Flushed'
  BY <1>1, <1>3, UndoFlushed
<1>9. StateTyped'
  BY <1>a, UndoTyped DEF Undo
<1> QED
  BY <1>1, <1>2, <1>3, <1>5, <1>6, <1>7, <1>8, <1>9, StepKeepsInv

LEMMA UndoCandidateInv ==
  ASSUME Alone, Inv, NEW p \in Procs, UndoCandidate(p)
  PROVE  Inv'
<1> USE DEF CandidateSteps, SwitchSteps, UndoSteps, ForwardSteps, ReadSteps, PublishSteps,
            PruneSteps, DiscardSteps, RemoveSteps
<1>a. /\ pc \in [Procs -> Steps] /\ StateTyped /\ Sound(p)
      /\ setting.faults \in Int /\ budget \in Nat
  BY SettingsAssumption, FaultsAssumption DEF Inv, TypeOK, StateTyped, Setting
<1>1. /\ pc[p] = "undoCandidate"
      /\ pc' = [pc EXCEPT ![p] = IF local[p].renamed /\ ~local[p].stuck THEN "undoFinal"
                                                                        ELSE "undoSync"]
      /\ UNCHANGED <<setting, pointer, durablePointer, gens, durableGens, local>>
      /\ budget' = budget \/ (budget > 0 /\ budget' = budget - 1)
  BY DEF UndoCandidate, At, Goto, Works, Breaks
<1>2. /\ \/ pc'[p] = "undoFinal" /\ local[p].renamed /\ ~local[p].stuck
         \/ pc'[p] = "undoSync" /\ ~(local[p].renamed /\ ~local[p].stuck)
      /\ \A q \in Procs \ {p} : pc'[q] = pc[q]
      /\ local[p].op = "publish"
  BY <1>a, <1>1 DEF Sound, InOperation
<1>3. Sound(p)'
  <2>1. InOperation(p)' /\ CandidateStage(p)' /\ Removing(p)' /\ Discarding(p)' /\ HowFar(p)'
    BY <1>1, <1>2 DEF InOperation, CandidateStage, Removing, Discarding, HowFar
  <2>2. Remembered(p)' /\ Switched(p)' /\ Distinct(p)'
    BY <1>a, <1>1, <1>2 DEF Sound, Remembered, Switched, Distinct, Loose, Ready, Current
  <2>3. Faulted(p)'
    BY <1>a, <1>1, <1>2 DEF Faulted, Sound, Own
  <2>4. Own(p)'
    BY <1>a, <1>1, <1>2 DEF Sound, Own, Ready
  <2> QED
    BY <2>1, <2>2, <2>3, <2>4 DEF Sound
<1>4. StateTyped'
  BY <1>a, UndoTyped DEF Undo
<1> QED
  BY <1>1, <1>2, <1>3, <1>4, QuietStep

LEMMA UndoFinalInv ==
  ASSUME Alone, Inv, NEW p \in Procs, UndoFinal(p)
  PROVE  Inv'
<1> USE DEF CandidateSteps, SwitchSteps, UndoSteps, ForwardSteps, ReadSteps, PublishSteps,
            PruneSteps, DiscardSteps, RemoveSteps
<1>a. /\ pc \in [Procs -> Steps] /\ StateTyped /\ Sound(p) /\ PointersReady
      /\ gens \in [Ids -> DirState] /\ local[p] \in Local
      /\ setting.faults \in Int /\ budget \in Nat
      /\ pointer \in [Pointers -> Ids \cup {None}]
  BY SettingsAssumption, FaultsAssumption DEF Inv, TypeOK, StateTyped, Setting
<1>1. /\ pc[p] = "undoFinal" /\ pc' = [pc EXCEPT ![p] = "undoSync"]
      /\ UNCHANGED <<setting, pointer, durablePointer, durableGens, cand, local>>
  BY DEF UndoFinal, At, Goto
<1>2. /\ pc'[p] = "undoSync" /\ \A q \in Procs \ {p} : pc'[q] = pc[q]
      /\ local[p].op = "publish" /\ local[p].id \in Ids /\ ~local[p].stuck
      /\ Current = local[p].prev /\ local[p].id # local[p].prev
      /\ ~Loose(local[p].prev) => local[p].id # local[p].prevBackup
      /\ pointer["BACKUP"] \in {local[p].prev, local[p].prevBackup}
      /\ budget < setting.faults
      /\ budget = setting.faults - 1 => pointer["BACKUP"] = local[p].prevBackup
  BY <1>a, <1>1 DEF Sound, InOperation, Distinct, Own, Switched, Faulted
<1>3. /\ \A h \in Ids : h # local[p].id => gens'[h] = gens[h]
      /\ \/ budget' = budget /\ gens'[local[p].id] = "absent"
         \/ budget' = budget - 1
  BY <1>a, <1>2 DEF UndoFinal, Works, Breaks
<1>4. /\ local[p].prev # None => Ready(local[p].prev) /\ local[p].prev \in Ids
      /\ local[p].prevBackup # None /\ ~Loose(local[p].prev) => Ready(local[p].prevBackup)
      /\ local[p].prevBackup # None => local[p].prevBackup \in Ids
  BY <1>a, <1>1 DEF Sound, Remembered, Local
<1>5. Loose(local[p].prev) => Loose(local[p].prev)'
  BY <1>a, <1>1, <1>3 DEF Loose, UndoFinal, Works, Breaks
<1>6. Sound(p)'
  <2>1. InOperation(p)' /\ CandidateStage(p)' /\ Removing(p)' /\ Discarding(p)' /\ HowFar(p)'
    BY <1>1, <1>2 DEF InOperation, CandidateStage, Removing, Discarding, HowFar
  <2>2. Remembered(p)'
    BY <1>1, <1>2, <1>3, <1>4, <1>5 DEF Remembered, Ready
  <2>3. Switched(p)' /\ Distinct(p)'
    BY <1>1, <1>2, <1>5 DEF Switched, Distinct, Current
  <2>4. Faulted(p)' /\ Own(p)'
    BY <1>a, <1>1, <1>2, <1>3 DEF Faulted, Own
  <2> QED
    BY <2>1, <2>2, <2>3, <2>4 DEF Sound
<1>7. PointersReady'
  BY <1>1, <1>2, <1>3, <1>4, <1>5 DEF PointersReady, Ready, Current
<1>8. p \in setting.procs
  BY <1>1 DEF Inv, Running
<1>9. Flushed'
  BY <1>1, <1>3, UndoFlushed
<1>10. StateTyped'
  BY <1>a, UndoTyped DEF Undo
<1> QED
  BY <1>1, <1>2, <1>3, <1>6, <1>7, <1>8, <1>9, <1>10, StepKeepsInv

LEMMA UndoEndsInv ==
  ASSUME Alone, Inv, NEW p \in Procs, UndoSync(p) \/ Record(p)
  PROVE  Inv'
<1> USE DEF CandidateSteps, SwitchSteps, UndoSteps, ForwardSteps, ReadSteps, PublishSteps,
            PruneSteps, DiscardSteps, RemoveSteps, At, Goto, Finish
<1>a. /\ pc \in [Procs -> Steps] /\ local \in [Procs -> Local] /\ StateTyped /\ Sound(p)
      /\ PointersReady
  BY DEF Inv, TypeOK, StateTyped
<1>1. /\ pc[p] \in {"undoSync", "record"}
      /\ UNCHANGED <<setting, pointer, gens, cand, budget>>
      /\ \A q \in Procs \ {p} : pc'[q] = pc[q] /\ local'[q] = local[q]
      /\ \/ pc[p] = "undoSync" /\ pc'[p] = "record" /\ UNCHANGED local
         \/ pc'[p] = "idle" /\ local'[p] = Fresh
  BY <1>a DEF UndoSync, Record
<1>2. ASSUME pc[p] = "undoSync", pc'[p] = "record", UNCHANGED local
      PROVE  Sound(p)'
  <2>1. local[p].op = "publish"
    BY <1>a, <1>2 DEF Sound, InOperation
  <2>2. InOperation(p)' /\ CandidateStage(p)' /\ Removing(p)' /\ Discarding(p)' /\ HowFar(p)'
    BY <1>2, <2>1 DEF InOperation, CandidateStage, Removing, Discarding, HowFar
  <2>3. Remembered(p)' /\ Switched(p)' /\ Distinct(p)'
    BY <1>a, <1>1, <1>2, <2>1
    DEF Sound, Remembered, Switched, Distinct, Loose, Ready, Current
  <2>4. Faulted(p)' /\ Own(p)'
    BY <1>a, <1>1, <1>2, <2>1 DEF Sound, Faulted, Own, Ready
  <2> QED
    BY <2>2, <2>3, <2>4 DEF Sound
<1>3. PointersReady'
  BY <1>a, <1>1 DEF PointersReady, Current, Loose, Ready
<1>4. p \in setting.procs
  BY <1>1 DEF Inv, Running
<1>5. Flushed'
  BY <1>1, UndoFlushed
<1>6. StateTyped'
  BY <1>a, UndoTyped DEF Undo
<1> QED
  BY <1>1, <1>2, <1>3, <1>4, <1>5, <1>6, StepKeepsInv

-----------------------------------------------------------------------------
(* A rollback is accepted; the removers read, list and remove. *)

LEMMA RestoreGateInv ==
  ASSUME Alone, Inv, NEW p \in Procs, RestoreGate(p)
  PROVE  Inv'
<1> USE DEF CandidateSteps, SwitchSteps, UndoSteps, ForwardSteps, ReadSteps, PublishSteps,
            PruneSteps, DiscardSteps, RemoveSteps
<1>a. /\ pc \in [Procs -> Steps] /\ local \in [Procs -> Local] /\ StateTyped /\ Sound(p)
      /\ PointersReady /\ local[p] \in Local
  BY DEF Inv, TypeOK, StateTyped
<1>1. /\ pc[p] = "gate"
      /\ UNCHANGED <<setting, pointer, durablePointer, gens, durableGens, budget>>
      /\ \A q \in Procs \ {p} : pc'[q] = pc[q] /\ local'[q] = local[q]
      /\ \/ pc'[p] = "nextBackup" /\ gens[local[p].id] = "ready"
            /\ local'[p] = [local[p] EXCEPT !.prevBackup = pointer["BACKUP"]]
         \/ pc'[p] = "idle" /\ local'[p] = Fresh
  BY <1>a DEF RestoreGate, At, Goto, Finish, diskVars
<1>2. ASSUME pc'[p] = "nextBackup", gens[local[p].id] = "ready",
             local'[p] = [local[p] EXCEPT !.prevBackup = pointer["BACKUP"]]
      PROVE  Sound(p)'
  <2>1. /\ local'[p].op = local[p].op /\ local'[p].id = local[p].id
        /\ local'[p].prev = local[p].prev /\ local'[p].prevBackup = pointer["BACKUP"]
        /\ local'[p].stuck = local[p].stuck /\ local'[p].renamed = local[p].renamed
        /\ local'[p].switched = local[p].switched
    BY <1>a, <1>2 DEF Local
  <2>2. local[p].op = "restore"
    BY <1>a, <1>1 DEF Sound, InOperation
  <2>3. InOperation(p)' /\ CandidateStage(p)' /\ Faulted(p)' /\ Removing(p)' /\ Discarding(p)'
    BY <1>2, <2>1, <2>2 DEF InOperation, CandidateStage, Faulted, Removing, Discarding
  <2>4. Remembered(p)'
    BY <1>a, <1>1, <1>2, <2>1, <2>2 DEF Sound, Remembered, PointersReady, Loose, Ready
  <2>5. Switched(p)' /\ HowFar(p)'
    BY <1>a, <1>1, <1>2, <2>1, <2>2 DEF Sound, Remembered, Switched, HowFar, Current
  <2>6. Distinct(p)' /\ Own(p)'
    BY <1>a, <1>1, <1>2, <2>1, <2>2 DEF Sound, Distinct, Own, Ready
  <2> QED
    BY <2>3, <2>4, <2>5, <2>6 DEF Sound
<1>3. StateTyped'
  BY <1>a, RemovalTyped
<1> QED
  BY <1>1, <1>2, <1>3, QuietStep

LEMMA ReadersInv ==
  ASSUME Alone, Inv, NEW p \in Procs, PruneRead(p) \/ PruneList(p) \/ DiscardList(p)
  PROVE  Inv'
<1> USE DEF CandidateSteps, SwitchSteps, UndoSteps, ForwardSteps, ReadSteps, PublishSteps,
            PruneSteps, DiscardSteps, RemoveSteps
<1>a. /\ pc \in [Procs -> Steps] /\ local \in [Procs -> Local] /\ StateTyped /\ Sound(p)
      /\ PointersReady /\ local[p] \in Local /\ pointer \in [Pointers -> Ids \cup {None}]
  BY DEF Inv, TypeOK, StateTyped
<1>1. /\ pc[p] \in PruneSteps \cup {"list"}
      /\ UNCHANGED <<setting, pointer, durablePointer, gens, durableGens, budget>>
      /\ \A q \in Procs \ {p} : pc'[q] = pc[q] /\ local'[q] = local[q]
      /\ pc'[p] = "idle" => local'[p] = Fresh
  BY <1>a DEF PruneRead, PruneList, DiscardList, At, Goto, Finish, diskVars
<1>2. Current' = Current /\ Spared' = Spared /\ Listed' = Listed
  BY <1>1 DEF Current, Spared, Listed
<1>3. ASSUME PruneRead(p), pc'[p] # "idle"
      PROVE  Sound(p)'
  <2>1. /\ pc[p] = "pruneRead" /\ pc'[p] = "pruneList"
        /\ local'[p] = [local[p] EXCEPT !.id = Current,
                          !.prevBackup = IF Backups = {} THEN None ELSE pointer["BACKUP"]]
    BY <1>a, <1>3 DEF PruneRead, At, Goto, Finish
  <2>2. /\ local'[p].op = "prune" /\ local'[p].id = Current
        /\ local'[p].prevBackup = IF Backups = {} THEN None ELSE pointer["BACKUP"]
    BY <1>a, <2>1 DEF Local, Sound, InOperation
  <2>3. Current # None /\ \A g \in Spared : Ready(g)
    BY <1>a, <2>1 DEF Sound, Removing
  <2>4. Backups = {pointer["BACKUP"]} \ {None, Current}
    BY <1>a, <2>3, NoneAssumption DEF Backups, Spared, Ready, Resolves, Current, Pointers
  <2>5. {local'[p].id, local'[p].prevBackup} \ {None} = Spared
    BY <2>2, <2>3, <2>4 DEF Spared
  <2>6. Removing(p)'
    BY <1>1, <1>2, <2>1, <2>2, <2>3, <2>5 DEF Removing, Ready
  <2>7. InOperation(p)' /\ Remembered(p)' /\ Switched(p)' /\ HowFar(p)' /\ CandidateStage(p)'
    BY <2>1, <2>2 DEF InOperation, Remembered, Switched, HowFar, CandidateStage
  <2>8. Distinct(p)' /\ Own(p)' /\ Faulted(p)' /\ Discarding(p)'
    BY <2>1, <2>2 DEF Distinct, Own, Faulted, Discarding
  <2> QED
    BY <2>6, <2>7, <2>8 DEF Sound
<1>4. ASSUME PruneList(p), pc'[p] # "idle"
      PROVE  Sound(p)'
  <2>1. /\ pc[p] = "pruneList" /\ pc'[p] = "remove"
        /\ local'[p] = [local[p] EXCEPT !.doomed = Listed \ {local[p].id, local[p].prevBackup}]
    BY <1>a, <1>4 DEF PruneList, At, Goto
  <2>2. /\ local'[p].op = "prune"
        /\ local'[p].doomed = Listed \ {local[p].id, local[p].prevBackup}
    BY <1>a, <2>1 DEF Local, Sound, InOperation
  <2>3. /\ Current # None /\ \A g \in Spared : Ready(g)
        /\ {local[p].id, local[p].prevBackup} \ {None} = Spared
    BY <1>a, <2>1 DEF Sound, Removing
  <2>4. Spared \subseteq Listed /\ None \notin Listed
    BY <1>a, <2>3, NoneAssumption DEF Spared, Ready, Listed, Current, Pointers
  <2>5. Listed \ {local[p].id, local[p].prevBackup} = Listed \ Spared
    BY <2>3, <2>4
  <2>6. Removing(p)'
    BY <1>2, <2>1, <2>2, <2>3, <2>4, <2>5 DEF Removing
  <2>7. InOperation(p)' /\ Remembered(p)' /\ Switched(p)' /\ HowFar(p)' /\ CandidateStage(p)'
    BY <2>1, <2>2 DEF InOperation, Remembered, Switched, HowFar, CandidateStage
  <2>8. Distinct(p)' /\ Own(p)' /\ Faulted(p)' /\ Discarding(p)'
    BY <2>1, <2>2 DEF Distinct, Own, Faulted, Discarding
  <2> QED
    BY <2>6, <2>7, <2>8 DEF Sound
<1>5. ASSUME DiscardList(p), pc'[p] # "idle"
      PROVE  Sound(p)'
  <2>1. /\ pc[p] = "list"
        /\ pc'[p] = IF local[p].id = None THEN "unlinkCurrent" ELSE "unlinkBackup"
        /\ local'[p] = [local[p] EXCEPT !.doomed = Listed \ {local[p].id}]
    BY <1>a, <1>5 DEF DiscardList, At, Goto, Finish
  <2>2. /\ local'[p].op = local[p].op /\ local'[p].id = local[p].id
        /\ local'[p].doomed = Listed \ {local[p].id}
    BY <1>a, <2>1 DEF Local
  <2>3. /\ local[p].op \in {"discard", "discardExcept"}
        /\ local[p].op = "discard" => "discard" \in setting.operations
        /\ local[p].op = "discard" <=> local[p].id = None
        /\ local[p].op = "discardExcept" => local[p].id = Current /\ Current # None
    BY <1>a, <2>1 DEF Sound, InOperation, Discarding
  <2>4. InOperation(p)' /\ Discarding(p)'
    BY <1>1, <1>2, <2>1, <2>2, <2>3 DEF InOperation, Discarding
  <2>5. Remembered(p)' /\ Switched(p)' /\ HowFar(p)' /\ CandidateStage(p)'
    BY <2>1 DEF Remembered, Switched, HowFar, CandidateStage
  <2>6. Distinct(p)' /\ Own(p)' /\ Faulted(p)' /\ Removing(p)'
    BY <2>1 DEF Distinct, Own, Faulted, Removing
  <2> QED
    BY <2>4, <2>5, <2>6 DEF Sound
<1>6. StateTyped'
  BY <1>a, RemovalTyped DEF Removal
<1> QED
  BY <1>1, <1>3, <1>4, <1>5, <1>6, QuietStep

LEMMA UnlinkInv ==
  ASSUME Alone, Inv, NEW p \in Procs,
         \/ Unlink(p, "CURRENT", "unlinkCurrent", "unlinkBackup")
         \/ Unlink(p, "BACKUP", "unlinkBackup", "remove")
  PROVE  Inv'
<1> USE DEF CandidateSteps, SwitchSteps, UndoSteps, ForwardSteps, ReadSteps, PublishSteps,
            PruneSteps, DiscardSteps, RemoveSteps
<1>a. /\ pc \in [Procs -> Steps] /\ StateTyped /\ Sound(p)
      /\ PointersReady /\ local[p] \in Local /\ pointer \in [Pointers -> Ids \cup {None}]
  BY DEF Inv, TypeOK, StateTyped
<1>1. /\ UNCHANGED <<setting, durablePointer, gens, durableGens, local, budget>>
      /\ \A q \in Procs \ {p} : pc'[q] = pc[q]
      /\ \/ /\ pc[p] = "unlinkCurrent" /\ pc'[p] = "unlinkBackup"
            /\ Current' = None /\ pointer'["BACKUP"] = pointer["BACKUP"]
         \/ /\ pc[p] = "unlinkBackup" /\ pc'[p] = "remove"
            /\ Current' = Current /\ pointer'["BACKUP"] = None
  BY <1>a DEF Unlink, At, Goto, Pointers, Current
<1>2. /\ local[p].op \in {"discard", "discardExcept"}
      /\ local[p].op = "discard" => "discard" \in setting.operations
      /\ pc[p] = "unlinkCurrent" => local[p].op = "discard"
      /\ local[p].op = "discardExcept" => local[p].id = Current /\ Current # None
      /\ pc[p] = "unlinkBackup" => Current \notin local[p].doomed
      /\ pc[p] = "unlinkBackup" /\ local[p].op = "discard" => Current = None
      /\ None \notin local[p].doomed
  BY <1>a, <1>1, NoneAssumption DEF Sound, InOperation, Discarding, Local
<1>3. Sound(p)'
  <2>1. InOperation(p)' /\ Discarding(p)'
    BY <1>1, <1>2 DEF InOperation, Discarding
  <2>2. Remembered(p)' /\ Switched(p)' /\ HowFar(p)' /\ CandidateStage(p)'
    BY <1>1 DEF Remembered, Switched, HowFar, CandidateStage
  <2>3. Distinct(p)' /\ Own(p)' /\ Faulted(p)'
    BY <1>1 DEF Distinct, Own, Faulted
  <2>4. Removing(p)'
    BY <1>1, <1>2 DEF Removing, Spared
  <2> QED
    BY <2>1, <2>2, <2>3, <2>4 DEF Sound
<1>4. p \in setting.procs /\ \A q \in Procs \ {p} : pc[q] = "idle"
  BY <1>1, OthersIdle DEF Inv, Running
<1>5. local[p].op = "discard" => ~setting.power
  BY <1>2 DEF Alone
<1>6. PointersReady'
  BY <1>a, <1>1, <1>2, <1>5 DEF PointersReady, Loose, Ready
<1>7. Flushed'
  <2> SUFFICES ASSUME setting.power, budget > 0 PROVE GensFlushed' /\ PointersFlushed'
    BY <1>1 DEF Flushed
  <2>1. GensFlushed /\ PointersFlushed
    BY DEF Inv, Flushed
  <2>2. GensFlushed'
    BY <1>1, <1>4, <2>1 DEF GensFlushed
  <2>3. PointersFlushed'
    BY <1>1, <1>2, <1>4, <1>5, <2>1 DEF PointersFlushed
  <2> QED
    BY <2>2, <2>3
<1>8. StateTyped'
  BY <1>a, RemovalTyped DEF Removal
<1> QED
  BY <1>1, <1>3, <1>4, <1>6, <1>7, <1>8, StepKeepsInv

LEMMA RemoveInv ==
  ASSUME Alone, Inv, NEW p \in Procs, Remove(p)
  PROVE  Inv'
<1> USE DEF CandidateSteps, SwitchSteps, UndoSteps, ForwardSteps, ReadSteps, PublishSteps,
            PruneSteps, DiscardSteps, RemoveSteps
<1>a. /\ pc \in [Procs -> Steps] /\ local \in [Procs -> Local] /\ StateTyped /\ Sound(p)
      /\ PointersReady /\ local[p] \in Local /\ gens \in [Ids -> DirState]
      /\ pointer \in [Pointers -> Ids \cup {None}]
  BY DEF Inv, TypeOK, StateTyped
<1>1. /\ pc[p] = "remove"
      /\ UNCHANGED <<setting, pointer, durablePointer, durableGens, budget>>
      /\ Current' = Current /\ Spared' = Spared
  BY DEF Remove, At, Current, Spared
<1>2. PICK gone \in SUBSET local[p].doomed :
        /\ \A h \in Ids : gens'[h] = IF h \in gone THEN "absent" ELSE gens[h]
        /\ pc'[p] \in RemoveSteps
        /\ pc'[p] = "syncRemoved" => local'[p].doomed = {}
        /\ local'[p].op = local[p].op /\ local'[p].id = local[p].id
        /\ local'[p].doomed = local[p].doomed \ gone
        /\ \A q \in Procs \ {p} : pc'[q] = pc[q] /\ local'[q] = local[q]
  <2>1. CASE local[p].doomed = {} /\ Goto(p, "syncRemoved") /\ UNCHANGED <<gens, local>>
    <3> WITNESS {} \in SUBSET local[p].doomed
    <3> QED
      BY <1>a, <2>1 DEF Goto
  <2>2. ASSUME NEW g \in local[p].doomed, gens' = [gens EXCEPT ![g] = "absent"],
               local' = [local EXCEPT ![p].doomed = @ \ {g}], UNCHANGED pc
        PROVE  \E gone \in SUBSET local[p].doomed :
                 /\ \A h \in Ids : gens'[h] = IF h \in gone THEN "absent" ELSE gens[h]
                 /\ pc'[p] \in RemoveSteps
                 /\ pc'[p] = "syncRemoved" => local'[p].doomed = {}
                 /\ local'[p].op = local[p].op /\ local'[p].id = local[p].id
                 /\ local'[p].doomed = local[p].doomed \ gone
                 /\ \A q \in Procs \ {p} : pc'[q] = pc[q] /\ local'[q] = local[q]
    <3> WITNESS {g} \in SUBSET local[p].doomed
    <3>1. /\ local'[p].op = local[p].op /\ local'[p].id = local[p].id
          /\ local'[p].doomed = local[p].doomed \ {g}
      BY <1>a, <2>2 DEF Local
    <3> QED
      BY <1>a, <1>1, <2>2, <3>1
  <2> QED
    BY <2>1, <2>2 DEF Remove
<1>3. Spared \cap local[p].doomed = {}
  BY <1>a, <1>1 DEF Sound, Removing
<1>4. Listed' = Listed \ gone
  BY <1>a, <1>2 DEF Listed, Local
<1>5. Sound(p)'
  <2>1. InOperation(p)'
    BY <1>a, <1>1, <1>2 DEF Sound, InOperation
  <2>2. Discarding(p)'
    BY <1>a, <1>1, <1>2 DEF Sound, Discarding
  <2>3. Remembered(p)' /\ Switched(p)' /\ HowFar(p)' /\ CandidateStage(p)'
    BY <1>2 DEF Remembered, Switched, HowFar, CandidateStage
  <2>4. Distinct(p)' /\ Own(p)' /\ Faulted(p)'
    BY <1>2 DEF Distinct, Own, Faulted
  <2>5. Removing(p)'
    BY <1>a, <1>1, <1>2, <1>3, <1>4 DEF Sound, Removing
  <2> QED
    BY <2>1, <2>2, <2>3, <2>4, <2>5 DEF Sound
<1>6. PointersReady'
  <2>1. \A f \in Pointers : pointer[f] # None => gens'[pointer[f]] = gens[pointer[f]]
    BY <1>a, <1>2, <1>3 DEF Spared, Pointers, Current
  <2> QED
    BY <1>1, <2>1 DEF Inv, PointersReady, Loose, Ready, Current, Pointers
<1>7. p \in setting.procs /\ \A q \in Procs \ {p} : pc[q] = "idle"
  BY <1>1, OthersIdle DEF Inv, Running
<1>8. Flushed'
  <2> SUFFICES ASSUME setting.power, budget > 0 PROVE GensFlushed' /\ PointersFlushed'
    BY <1>1 DEF Flushed
  <2>1. GensFlushed /\ PointersFlushed
    BY DEF Inv, Flushed
  <2>2. GensFlushed'
    BY <1>1, <1>2, <1>7, <2>1 DEF GensFlushed
  <2>3. PointersFlushed'
    BY <1>1, <1>7, <2>1 DEF PointersFlushed
  <2> QED
    BY <2>2, <2>3
<1>9. StateTyped'
  BY <1>a, RemovalTyped DEF Removal
<1> QED
  BY <1>1, <1>2, <1>5, <1>6, <1>7, <1>8, <1>9, StepKeepsInv

LEMMA SyncRemovedInv ==
  ASSUME Alone, Inv, NEW p \in Procs, SyncRemoved(p)
  PROVE  Inv'
<1>a. /\ pc \in [Procs -> Steps] /\ local \in [Procs -> Local] /\ StateTyped /\ PointersReady
  BY DEF Inv, TypeOK, StateTyped
<1>1. /\ pc[p] = "syncRemoved" /\ pc'[p] = "idle" /\ local'[p] = Fresh
      /\ \A q \in Procs \ {p} : pc'[q] = pc[q] /\ local'[q] = local[q]
      /\ UNCHANGED <<setting, pointer, gens, budget>> /\ durableGens' = gens
      /\ durablePointer' \in {durablePointer, pointer}
  BY <1>a DEF SyncRemoved, At, Goto, Finish
<1>2. PointersReady'
  BY <1>a, <1>1 DEF PointersReady, Current, Loose, Ready
<1>3. p \in setting.procs /\ \A q \in Procs \ {p} : pc[q] = "idle"
  BY <1>1, OthersIdle DEF Inv, Running
<1>4. Flushed'
  <2>1. GensFlushed'
    BY <1>1 DEF GensFlushed
  <2>2. PointersFlushed => PointersFlushed'
    BY <1>1, <1>3 DEF PointersFlushed, Current
  <2> QED
    BY <1>1, <2>1, <2>2 DEF Inv, Flushed
<1>5. StateTyped'
  BY <1>a, RemovalTyped DEF Removal
<1> QED
  BY <1>1, <1>2, <1>3, <1>4, <1>5, StepKeepsInv

-----------------------------------------------------------------------------
(* Failures, deaths and power losses. *)

\* A removal that stops half way has touched no generation a pointer names.
LEMMA HalfRemovedReady ==
  ASSUME Inv, NEW p \in Procs, gens' \in HalfRemoved(p), UNCHANGED <<setting, pointer>>, Breaks
  PROVE  PointersReady'
<1> USE DEF UndoSteps, ReadSteps, ForwardSteps
<1>a. /\ StateTyped /\ Sound(p) /\ PointersReady /\ local[p] \in Local
      /\ gens \in [Ids -> DirState] /\ pointer \in [Pointers -> Ids \cup {None}]
  BY DEF Inv, TypeOK, StateTyped
<1>1. \A g : Loose(g) => setting.power /\ budget = 0
  BY DEF Loose
<1>2. ~(setting.power /\ budget = 0)
  BY DEF Breaks
<1>3. ASSUME NEW g \in Ids, gens' \in Gutted(g, gens)
      PROVE  \A h \in Ids : h # g => gens'[h] = gens[h]
  BY <1>a, <1>3 DEF Gutted
<1>4. CASE pc[p] = "remove" /\ local[p].doomed # {}
  <2>1. PICK g \in local[p].doomed : gens' \in Gutted(g, gens)
    BY <1>4 DEF HalfRemoved, At
  <2>2. Spared \cap local[p].doomed = {} /\ g \in Ids
    BY <1>a, <1>4 DEF Sound, Removing, Local
  <2>3. \A f \in Pointers : pointer[f] # None => gens'[pointer[f]] = gens[pointer[f]]
    BY <1>a, <1>3, <2>1, <2>2 DEF Spared, Pointers, Current
  <2> QED
    BY <1>a, <1>1, <1>2, <2>3 DEF PointersReady, Ready, Current, Pointers
<1>5. CASE pc[p] = "undoFinal"
  <2>1. /\ gens' \in Gutted(local[p].id, gens) /\ local[p].id \in Ids
        /\ Current = local[p].prev /\ local[p].id # local[p].prev
        /\ local[p].id # local[p].prevBackup
        /\ pointer["BACKUP"] \in {local[p].prev, local[p].prevBackup}
    BY <1>a, <1>1, <1>2, <1>5
    DEF HalfRemoved, At, Sound, Own, Distinct, Switched, InOperation, PublishSteps
  <2>2. \A f \in Pointers : pointer[f] # None => gens'[pointer[f]] = gens[pointer[f]]
    BY <1>a, <1>3, <2>1 DEF Pointers, Current
  <2> QED
    BY <1>a, <1>1, <1>2, <2>2 DEF PointersReady, Ready, Current, Pointers
<1>6. CASE UNCHANGED gens
  BY <1>a, <1>1, <1>2, <1>6 DEF PointersReady, Ready, Current
<1> QED
  BY <1>4, <1>5, <1>6 DEF HalfRemoved, At

LEMMA FailInv ==
  ASSUME Alone, Inv, NEW p \in Procs, Fail(p)
  PROVE  Inv'
<1> USE DEF CandidateSteps, SwitchSteps, UndoSteps, ForwardSteps, ReadSteps, PublishSteps,
            PruneSteps, DiscardSteps, RemoveSteps
<1>a. /\ pc \in [Procs -> Steps] /\ local \in [Procs -> Local] /\ StateTyped /\ Sound(p)
      /\ setting.faults \in Int /\ budget \in Int /\ budget <= setting.faults
  BY SettingsAssumption DEF Inv, TypeOK, StateTyped, Setting, Running
<1>1. /\ pc[p] \notin {"idle"} \cup UndoSteps /\ budget > 0 /\ budget' = budget - 1
      /\ UNCHANGED <<setting, pointer, durablePointer, durableGens, cand>>
      /\ gens' \in HalfRemoved(p)
  BY DEF Fail, Breaks
<1>2. /\ \A q \in Procs \ {p} : pc'[q] = pc[q] /\ local'[q] = local[q]
      /\ \/ /\ pc[p] \in CandidateSteps \cup SwitchSteps \cup {"syncGens"}
            /\ pc'[p] = "undoCurrent" /\ UNCHANGED local
         \/ pc'[p] = "idle" /\ local'[p] = Fresh
  BY <1>a DEF Fail, GiveUp, Goto, Finish
<1>3. ASSUME pc[p] \in CandidateSteps \cup SwitchSteps \cup {"syncGens"},
             pc'[p] = "undoCurrent", UNCHANGED local
      PROVE  Sound(p)'
  <2>1. UNCHANGED gens
    BY <1>1, <1>3 DEF HalfRemoved, At
  <2>2. local[p].op \in {"publish", "restore"} /\ ~local[p].stuck
    BY <1>a, <1>3 DEF Sound, InOperation, HowFar
  <2>3. Loose(local[p].prev) => Loose(local[p].prev)'
    BY <1>1 DEF Loose
  <2>4. InOperation(p)' /\ CandidateStage(p)' /\ HowFar(p)' /\ Removing(p)' /\ Discarding(p)'
    BY <1>3, <2>2 DEF InOperation, CandidateStage, HowFar, Removing, Discarding
  <2>5. Remembered(p)' /\ Distinct(p)'
    BY <1>a, <1>3, <2>1, <2>3 DEF Sound, Remembered, Distinct, Ready
  <2>6. Switched(p)'
    BY <1>a, <1>1, <1>3 DEF Sound, Switched, Current
  <2>7. Own(p)'
    BY <1>a, <1>3, <2>1, <2>2 DEF Sound, Own, Ready, InOperation
  <2>8. Faulted(p)'
    BY <1>a, <1>1, <1>3, <2>2 DEF Faulted
  <2> QED
    BY <2>4, <2>5, <2>6, <2>7, <2>8 DEF Sound
<1>4. PointersReady'
  BY <1>1, HalfRemovedReady DEF Fail
<1>5. Flushed'
  BY <1>1, FlushedSpent
<1>6. p \in setting.procs
  BY <1>1 DEF Inv, Running
<1>7. StateTyped'
  BY <1>a, FaultsTyped
<1> QED
  BY <1>1, <1>2, <1>3, <1>4, <1>5, <1>6, <1>7, StepKeepsInv

LEMMA CrashInv ==
  ASSUME Alone, Inv, NEW p \in Procs, Crash(p)
  PROVE  Inv'
<1>a. /\ pc \in [Procs -> Steps] /\ local \in [Procs -> Local] /\ StateTyped
  BY DEF Inv, TypeOK, StateTyped
<1>1. /\ pc[p] # "idle" /\ budget' = budget - 1 /\ UNCHANGED <<setting, pointer>>
      /\ pc'[p] = "idle" /\ local'[p] = Fresh
      /\ \A q \in Procs \ {p} : pc'[q] = pc[q] /\ local'[q] = local[q]
  BY <1>a DEF Crash, Breaks, Goto, Finish
<1>2. PointersReady'
  BY <1>1, HalfRemovedReady DEF Crash
<1>3. Flushed'
  BY <1>1, FlushedSpent
<1>4. p \in setting.procs
  BY <1>1 DEF Inv, Running
<1>5. StateTyped'
  BY <1>a, FaultsTyped
<1> QED
  BY <1>1, <1>2, <1>3, <1>4, <1>5, StepKeepsInv

\* What a pointer may come back to is whole on the disk.
LEMMA FlushedReady ==
  ASSUME Alone, Inv, setting.power, budget > 0
  PROVE  /\ \A v \in {Current, durablePointer["CURRENT"]} \ {None} :
              gens[v] = "ready" /\ durableGens[v] = "ready"
         /\ Current = None \/ durablePointer["CURRENT"] = None =>
              \A v \in {pointer["BACKUP"], durablePointer["BACKUP"]} \ {None} :
                gens[v] = "ready" /\ durableGens[v] = "ready"
<1> USE DEF CandidateSteps, SwitchSteps, UndoSteps, ForwardSteps, ReadSteps, PublishSteps,
            RemoveSteps
<1>a. /\ local \in [Procs -> Local] /\ StateTyped /\ PointersReady /\ GensFlushed
      /\ PointersFlushed /\ pointer \in [Pointers -> Ids \cup {None}]
      /\ \A p \in Procs : Sound(p)
  BY DEF Inv, TypeOK, StateTyped, Flushed
<1>b. \A g : ~Loose(g)
  BY DEF Loose
<1>1. ASSUME NEW v \in Ids, gens[v] = "ready",
             \A p \in Procs : pc[p] = "syncGens" => v # local[p].id
      PROVE  durableGens[v] = "ready"
  BY <1>a, <1>1 DEF GensFlushed
<1>2. /\ Current # None => Current \in Ids /\ gens[Current] = "ready"
      /\ pointer["BACKUP"] # None => /\ pointer["BACKUP"] \in Ids
                                     /\ gens[pointer["BACKUP"]] = "ready"
  BY <1>a, <1>b DEF PointersReady, Ready, Current, Pointers
<1>3. CASE \E p \in Procs : pc[p] = "syncRoot"
  <2>1. PICK p \in Procs : pc[p] = "syncRoot"
    BY <1>3
  <2>2. \A q \in Procs : pc[q] # "syncGens"
    <3>1. p \in setting.procs
      BY <2>1 DEF Inv, Running
    <3> QED
      BY <2>1, <3>1, OthersIdle DEF Inv
  <2>3. \A q \in Procs : pc[q] = "syncRoot" => q = p
    <3>1. p \in setting.procs
      BY <2>1 DEF Inv, Running
    <3> QED
      BY <2>1, <3>1, OthersIdle DEF Inv
  <2>4. /\ durablePointer["CURRENT"] \in {Current, local[p].prev}
        /\ durablePointer["CURRENT"] = None => durablePointer["BACKUP"] = pointer["BACKUP"]
    BY <1>a, <2>3 DEF PointersFlushed
  <2>5. local[p].prev # None => local[p].prev \in Ids /\ gens[local[p].prev] = "ready"
    BY <1>a, <2>1 DEF Sound, Remembered, Ready, Local
  <2>6. Current # None
    BY <1>a, <2>1, NoneAssumption DEF Sound, HowFar, Switched, Distinct, Pointers
  <2> QED
    BY <1>1, <1>2, <2>2, <2>4, <2>5, <2>6
<1>4. CASE \A p \in Procs : pc[p] # "syncRoot"
  <2>1. /\ durablePointer["CURRENT"] = Current
        /\ Current = None => durablePointer["BACKUP"] = pointer["BACKUP"]
    BY <1>a, <1>4 DEF PointersFlushed
  <2>2. \A p \in Procs : pc[p] = "syncGens" => /\ Current = local[p].prev
                                               /\ pointer["BACKUP"] = local[p].prevBackup
                                               /\ local[p].id \notin {Current, pointer["BACKUP"]}
    BY <1>a, <1>b DEF Sound, InOperation, HowFar, Switched, Distinct
  <2> QED
    BY <1>1, <1>2, <2>1, <2>2
<1> QED
  BY <1>3, <1>4

LEMMA PowerLossInv ==
  ASSUME Alone, Inv, PowerLoss
  PROVE  Inv'
<1>a. StateTyped /\ pointer \in [Pointers -> Ids \cup {None}] /\ setting.faults \in Int
      /\ durablePointer \in [Pointers -> Ids \cup {None}]
      /\ budget \in Nat /\ budget <= setting.faults
  BY SettingsAssumption, FaultsAssumption DEF Inv, TypeOK, StateTyped, Setting, Running
<1>1. /\ setting.power /\ budget > 0 /\ budget' = budget - 1 /\ UNCHANGED setting
      /\ \A p \in Procs : pc'[p] = "idle" /\ local'[p] = Fresh
      /\ \A f \in Pointers : pointer'[f] \in {pointer[f], durablePointer[f]}
  BY DEF PowerLoss, Breaks
<1>2. budget' = 0
  BY <1>a, <1>1 DEF Alone
<1>3. \A g \in Ids : gens'[g] \in Survivors(g)
  BY DEF PowerLoss
<1>4. \A g \in Ids : gens[g] = "ready" /\ durableGens[g] = "ready" => gens'[g] = "ready"
  BY <1>3 DEF Survivors
<1>5. Current' \in {Current, durablePointer["CURRENT"]} /\ Current' \in Ids \cup {None}
  BY <1>a, <1>1 DEF Current, Pointers
<1>6. /\ pointer'["BACKUP"] \in {pointer["BACKUP"], durablePointer["BACKUP"]}
      /\ pointer'["BACKUP"] \in Ids \cup {None}
  BY <1>a, <1>1 DEF Pointers
<1>7. Current' # None => gens'[Current'] = "ready"
  BY <1>1, <1>4, <1>5, FlushedReady
<1>8. Current' = None /\ pointer'["BACKUP"] # None => gens'[pointer'["BACKUP"]] = "ready"
  BY <1>1, <1>4, <1>5, <1>6, FlushedReady
<1>9. PointersReady'
  BY <1>1, <1>2, <1>7, <1>8 DEF PointersReady, Ready, Loose
<1>10. Running'
  BY <1>a, <1>1, <1>2 DEF Running
<1>11. TypeOK'
  BY <1>a, <1>1, PowerLossTyped DEF Inv, TypeOK
<1>12. Flushed'
  BY <1>2 DEF Flushed
<1>13. \A p \in Procs : Sound(p)'
  BY <1>1, IdleSound
<1> QED
  BY <1>9, <1>10, <1>11, <1>12, <1>13 DEF Inv

-----------------------------------------------------------------------------

LEMMA InitInv == Init => Inv
<1> SUFFICES ASSUME Init PROVE Inv
  OBVIOUS
<1>1. TypeOK
  BY InitTyped DEF Init, TypeOK
<1>2. \A p \in Procs : pc[p] = "idle" /\ local[p] = Fresh
  BY DEF Init
<1>3. Running
  BY <1>2, SettingsAssumption DEF Init, Running, Setting
<1>4. PointersReady /\ Flushed
  BY DEF Init, PointersReady, Flushed, GensFlushed, PointersFlushed, Current, Pointers
<1>5. ASSUME NEW p \in Procs PROVE Sound(p)
  <2> USE <1>2 DEF Fresh, CandidateSteps, SwitchSteps, UndoSteps, ForwardSteps, ReadSteps,
                   PublishSteps, PruneSteps, DiscardSteps, RemoveSteps
  <2>1. InOperation(p) /\ Remembered(p) /\ Switched(p) /\ HowFar(p) /\ CandidateStage(p)
    BY DEF InOperation, Remembered, Switched, HowFar, CandidateStage
  <2>2. Distinct(p) /\ Own(p) /\ Faulted(p) /\ Removing(p) /\ Discarding(p)
    BY DEF Distinct, Own, Faulted, Removing, Discarding
  <2> QED
    BY <2>1, <2>2 DEF Sound
<1> QED
  BY <1>1, <1>3, <1>4, <1>5 DEF Inv

LEMMA StutterInv ==
  ASSUME Inv, UNCHANGED vars
  PROVE  Inv'
<1> USE DEF vars
<1>1. TypeOK'
  BY DEF Inv, TypeOK, StateTyped
<1>2. Running' /\ PointersReady'
  BY DEF Inv, Running, PointersReady, Loose, Ready, Current
<1>3. Flushed'
  BY DEF Inv, Flushed, GensFlushed, PointersFlushed, Current
<1>4. ASSUME NEW p \in Procs PROVE Sound(p)'
  <2>1. Sound(p)
    BY DEF Inv
  <2>2. InOperation(p)' /\ Remembered(p)' /\ Switched(p)' /\ HowFar(p)' /\ CandidateStage(p)'
    BY <2>1 DEF Sound, InOperation, Remembered, Switched, HowFar, CandidateStage, Loose, Ready,
                Current
  <2>3. Distinct(p)' /\ Own(p)' /\ Faulted(p)' /\ Removing(p)' /\ Discarding(p)'
    BY <2>1 DEF Sound, Distinct, Own, Faulted, Removing, Discarding, Loose, Ready, Current,
                Spared, Listed
  <2> QED
    BY <2>2, <2>3 DEF Sound
<1> QED
  BY <1>1, <1>2, <1>3, <1>4 DEF Inv

LEMMA NextInv ==
  ASSUME Alone, Inv, [Next]_vars
  PROVE  Inv'
<1>1. ASSUME NEW p \in Procs, Begins(p) \/ Proceed(p) \/ Fail(p) \/ Crash(p)
      PROVE  Inv'
  <2>1. CASE Begins(p)
    BY <2>1, BeginsInv
  <2>2. CASE Publication(p)
    BY <2>2, PublicationInv, RenameInv, SyncGensInv DEF Publication
  <2>3. CASE Switch(p) \/ SyncRoot(p) \/ Clear(p)
    BY <2>3, WriteNextInv, RenameBackupInv, RenameCurrentInv, SyncRootInv, ClearInv DEF Switch
  <2>4. CASE Undo(p)
    BY <2>4, UndoCurrentInv, UndoBackupInv, UndoCandidateInv, UndoFinalInv, UndoEndsInv DEF Undo
  <2>5. CASE RestoreGate(p) \/ Removal(p)
    BY <2>5, RestoreGateInv, ReadersInv, UnlinkInv, RemoveInv, SyncRemovedInv DEF Removal
  <2>6. CASE Fail(p) \/ Crash(p)
    BY <2>6, FailInv, CrashInv
  <2> QED
    BY <1>1, <2>1, <2>2, <2>3, <2>4, <2>5, <2>6 DEF Proceed
<1>2. CASE UNCHANGED vars
  BY <1>2, StutterInv
<1> QED
  BY <1>1, <1>2, PowerLossInv DEF Next

LEMMA AloneInv == Spec => [](Alone => Inv)
<1>1. Init => (Alone => Inv)
  BY InitInv
<1>2. (Alone => Inv) /\ [Next]_vars => (Alone => Inv)'
  <2> SUFFICES ASSUME Alone => Inv, [Next]_vars, Alone' PROVE Inv'
    OBVIOUS
  <2>1. Alone
    BY SettingKept DEF Alone
  <2> QED
    BY <2>1, NextInv
<1> QED
  BY <1>1, <1>2, PTL DEF Spec

(***************************************************************************)
(* CURRENT names a whole, validated and flushed generation at every        *)
(* instant of a publication, a rollback, a prune, a clean and of any undo  *)
(* of theirs, wherever they fail, die or lose power (store.go, Publish and *)
(* Restore; rebuild.go, Run).                                              *)
(***************************************************************************)
THEOREM CurrentNeverDangles == Spec => [](Alone => CurrentResolves)
<1>1. Inv => CurrentResolves
  BY DEF Inv, PointersReady, CurrentResolves, Ready
<1> QED
  BY <1>1, AloneInv, PTL

(***************************************************************************)
(* A publication or a rollback that failed once, and whose undo did not,   *)
(* left both pointers as it found them and no directory of its id          *)
(* (store.go, abortPublication).                                           *)
(***************************************************************************)
THEOREM FailureLeavesNoTrace == Spec => [](Alone => UndoneMeansUntouched)
<1>1. Inv => UndoneMeansUntouched
  <2> SUFFICES ASSUME Inv, NEW p \in Procs, At(p, "record"), budget = setting.faults - 1
               PROVE  /\ pointer["CURRENT"] = local[p].prev
                      /\ pointer["BACKUP"] = local[p].prevBackup
                      /\ local[p].op = "publish" => gens[local[p].id] = "absent"
    BY DEF UndoneMeansUntouched
  <2>1. pc[p] = "record" /\ Switched(p) /\ Faulted(p)
    BY DEF At, Inv, Sound
  <2>2. setting.faults \in Int /\ budget \in Int
    BY SettingsAssumption DEF Inv, TypeOK, StateTyped, Setting
  <2>3. ~local[p].stuck
    BY <2>1, <2>2 DEF Faulted, UndoSteps
  <2> QED
    BY <2>1, <2>3 DEF Switched, Faulted, Current, UndoSteps
<1> QED
  BY <1>1, AloneInv, PTL

(***************************************************************************)
(* When a prune has removed what it had to, the store holds the active     *)
(* generation, its backup and nothing else (rebuild.go, Run), whatever the *)
(* operations before it left behind.                                       *)
(***************************************************************************)
THEOREM RetentionIsExact == Spec => [](Alone => RetainsActiveAndBackup)
<1>1. Inv => RetainsActiveAndBackup
  <2> SUFFICES ASSUME Inv, NEW p \in Procs, pc[p] = "syncRemoved", local[p].op = "prune"
               PROVE  Listed = {Current, pointer["BACKUP"]} \ {None}
    BY DEF RetainsActiveAndBackup, At
  <2>1. Removing(p)
    BY DEF Inv, Sound
  <2> QED
    BY <2>1 DEF Removing, RemoveSteps, Spared
<1> QED
  BY <1>1, AloneInv, PTL

(***************************************************************************)
(* A completed rollback can be rolled forward: BACKUP names the generation *)
(* it displaced, whole and distinct from the active one (rollback.go).     *)
(***************************************************************************)
THEOREM RollbackIsReversible == Spec => [](Alone => RollbackCanBeRolledForward)
<1>1. Inv => RollbackCanBeRolledForward
  <2> SUFFICES ASSUME Inv, NEW p \in Procs, pc[p] = "clear", local[p].op = "restore"
               PROVE  Current = local[p].id /\ Backups = {local[p].prev}
    BY DEF RollbackCanBeRolledForward, At
  <2> USE DEF SwitchSteps, ForwardSteps, ReadSteps
  <2>1. Sound(p) /\ local[p] \in Local
    BY DEF Inv, TypeOK, StateTyped
  <2>2. local[p].prev \in Ids /\ Ready(local[p].prev)
    BY <2>1 DEF Sound, Remembered, Local
  <2>3. local[p].switched = Pointers
    BY <2>1, <2>2, NoneAssumption DEF Sound, HowFar
  <2>4. Current = local[p].id /\ pointer["BACKUP"] = local[p].prev
    BY <2>1, <2>3 DEF Sound, Switched, Pointers
  <2>5. local[p].id \in Ids /\ local[p].id # local[p].prev /\ Ready(local[p].id)
    BY <2>1 DEF Sound, Distinct, Own
  <2> QED
    BY <2>2, <2>4, <2>5 DEF Backups, Resolves, Ready
<1> QED
  BY <1>1, AloneInv, PTL


-----------------------------------------------------------------------------
(* The store implements one atomically switched active generation. *)

Whole == {g \in Ids : Ready(g)}

\* The abstract specification in the terms of the store.
LEMMA AbstractIs ==
  /\ Abstract!vars = <<Current, Whole>>
  /\ Abstract!vars' = <<Current', Whole'>>
  /\ Abstract!Init <=> Current = None /\ Whole = {}
  /\ \A g \in Ids : Abstract!Activate(g) <=>
       g \in Whole \ {Current} /\ Current' = g /\ Whole' = Whole
  /\ Abstract!Deactivate <=> Current # None /\ Current' = None /\ Whole' = Whole
  /\ \A found \in SUBSET Ids : Abstract!Retain(found) <=>
       /\ found # {} /\ found \cap Whole = {} /\ Whole' = Whole \cup found
       /\ Current' = Current
  /\ \A lost \in SUBSET Ids : Abstract!Drop(lost) <=>
       /\ lost # {} /\ lost \subseteq Whole \ {Current} /\ Whole' = Whole \ lost
       /\ Current' = Current
BY DEF Abstract!vars, Abstract!Init, Abstract!Activate, Abstract!Deactivate, Abstract!Retain,
       Abstract!Drop, Whole, Ready

\* No step of the store moves CURRENT and a generation at once.
Separate ==
  \/ gens' = gens
  \/ Current' = Current /\ (Whole \subseteq Whole' \/ Whole' \subseteq Whole)

LEMMA PowerLossSeparate ==
  ASSUME Alone, Inv, PowerLoss
  PROVE  Separate
<1>a. /\ gens \in [Ids -> DirState] /\ local \in [Procs -> Local]
      /\ pointer \in [Pointers -> Ids \cup {None}] /\ \A p \in Procs : Sound(p)
  BY DEF Inv, TypeOK, StateTyped
<1>b. setting.power /\ budget > 0
  BY DEF PowerLoss, Breaks
<1>c. GensFlushed /\ PointersFlushed
  BY <1>b DEF Inv, Flushed
<1>1. \A g \in Ids : gens'[g] \in Survivors(g)
  BY DEF PowerLoss
<1>2. gens' \in [Ids -> DirState]
  BY PowerLossTyped DEF Inv, TypeOK, StateTyped
<1>3. Current' \in {Current, durablePointer["CURRENT"]}
  BY DEF PowerLoss, Current, Pointers
<1>4. ASSUME NEW p \in Procs, pc[p] \in {"syncGens"} \cup RemoveSteps
      PROVE  /\ \A q \in Procs \ {p} : pc[q] = "idle"
             /\ Current' = Current
  <2>1. p \in setting.procs
    BY <1>4 DEF Inv, Running, RemoveSteps
  <2>2. \A q \in Procs \ {p} : pc[q] = "idle"
    BY <2>1, OthersIdle DEF Inv
  <2>3. \A q \in Procs : pc[q] # "syncRoot"
    BY <1>4, <2>2 DEF RemoveSteps
  <2> QED
    BY <1>3, <1>c, <2>2, <2>3 DEF PointersFlushed
<1>5. CASE \E p \in Procs : pc[p] = "syncGens"
  <2>1. PICK p \in Procs : pc[p] = "syncGens"
    BY <1>5
  <2>2. Current' = Current /\ \A q \in Procs : pc[q] \notin RemoveSteps
    BY <1>4, <2>1 DEF RemoveSteps
  <2>3. \A g \in Ids : durableGens[g] \in {gens[g], "absent"}
    BY <1>c, <2>2 DEF GensFlushed
  <2>4. Whole' \subseteq Whole
    BY <1>1, <2>3 DEF Whole, Ready, Survivors
  <2> QED
    BY <2>2, <2>4 DEF Separate
<1>6. CASE \E p \in Procs : pc[p] \in RemoveSteps
  <2>1. PICK p \in Procs : pc[p] \in RemoveSteps
    BY <1>6
  <2>2. Current' = Current /\ \A q \in Procs : pc[q] # "syncGens"
    BY <1>4, <2>1 DEF RemoveSteps
  <2>3. \A g \in Ids : gens[g] \in {durableGens[g], "absent"}
    BY <1>c, <2>2 DEF GensFlushed
  <2>4. Whole \subseteq Whole'
    BY <1>1, <2>3 DEF Whole, Ready, Survivors
  <2> QED
    BY <2>2, <2>4 DEF Separate
<1>7. CASE \A p \in Procs : pc[p] \notin {"syncGens"} \cup RemoveSteps
  <2>1. \A g \in Ids : durableGens[g] = gens[g]
    BY <1>7, <1>c DEF GensFlushed
  <2>2. \A g \in Ids : gens'[g] = gens[g]
    BY <1>1, <2>1 DEF Survivors
  <2> QED
    BY <1>a, <1>2, <2>2 DEF Separate
<1> QED
  BY <1>5, <1>6, <1>7

LEMMA StepSeparate ==
  ASSUME Alone, Inv, [Next]_vars
  PROVE  Separate
<1>a. gens \in [Ids -> DirState] /\ \A p \in Procs : Sound(p) /\ local[p] \in Local
  BY DEF Inv, TypeOK, StateTyped
<1>1. ASSUME NEW p \in Procs, Begins(p) PROVE gens' = gens
  BY <1>1 DEF Begins, Plan, RestoreOpen, DiscardOpen, DiscardExceptOpen, diskVars
<1>2. ASSUME NEW p \in Procs, Publication(p) PROVE Separate
  <2>1. CASE Rename(p)
    <3>1. gens[local[p].id] = "absent"
      BY <1>a, <2>1 DEF Rename, At, Sound, Own, CandidateSteps
    <3>2. Whole \subseteq Whole'
      BY <1>a, <2>1, <3>1 DEF Rename, Whole, Ready
    <3> QED
      BY <2>1, <3>2 DEF Rename, Separate, Current
  <2>2. CASE ~Rename(p)
    BY <1>2, <2>2 DEF Publication, Acquire, Open, Create, Build, Validate, Seal, SyncGens, Separate
  <2> QED
    BY <2>1, <2>2
<1>3. ASSUME NEW p \in Procs, Switch(p) \/ SyncRoot(p) \/ Clear(p) PROVE gens' = gens
  BY <1>3 DEF Switch, WriteNext, RenameNext, SyncRoot, Clear
<1>4. ASSUME NEW p \in Procs, Undo(p) PROVE Separate
  <2>1. CASE UndoFinal(p)
    <3>1. Whole' \subseteq Whole
      BY <1>a, <2>1 DEF UndoFinal, Whole, Ready
    <3> QED
      BY <2>1, <3>1 DEF UndoFinal, Separate, Current
  <2>2. CASE ~UndoFinal(p)
    BY <1>4, <2>2 DEF Undo, UndoCurrent, UndoBackup, UndoCandidate, UndoSync, Record, Separate
  <2> QED
    BY <2>1, <2>2
<1>5. ASSUME NEW p \in Procs, RestoreGate(p) \/ Removal(p) PROVE Separate
  <2>1. CASE Remove(p)
    <3>1. Whole' \subseteq Whole
      BY <1>a, <2>1 DEF Remove, Whole, Ready
    <3> QED
      BY <2>1, <3>1 DEF Remove, Separate, Current
  <2>2. CASE ~Remove(p)
    BY <1>5, <2>2 DEF RestoreGate, Removal, PruneRead, PruneList, DiscardList, Unlink, SyncRemoved,
                      diskVars, Separate
  <2> QED
    BY <2>1, <2>2
<1>6. ASSUME NEW p \in Procs, Fail(p) \/ Crash(p) PROVE Separate
  <2>1. gens' \in HalfRemoved(p) /\ Current' = Current
    BY <1>6 DEF Fail, Crash, Current
  <2>2. \A g : gens' \in Gutted(g, gens) => Whole' \subseteq Whole
    BY <1>a DEF Gutted, Whole, Ready
  <2> QED
    BY <2>1, <2>2 DEF HalfRemoved, Separate
<1>7. ASSUME UNCHANGED vars PROVE gens' = gens
  BY <1>7 DEF vars
<1> QED
  BY <1>1, <1>2, <1>3, <1>4, <1>5, <1>6, <1>7, PowerLossSeparate DEF Next, Proceed, Separate

LEMMA SeparateSimulates ==
  ASSUME Inv, Inv', Separate
  PROVE  [Abstract!Next]_(Abstract!vars)
<1>1. Current' \in Ids \cup {None}
  BY DEF Inv, TypeOK, StateTyped, Current, Pointers
<1>2. Current' # None => Current' \in Whole'
  BY <1>1 DEF Inv, PointersReady, Whole
<1>3. Whole \subseteq Ids /\ Whole' \subseteq Ids
  BY DEF Whole
<1>4. CASE gens' = gens
  <2>1. Whole' = Whole
    BY <1>4 DEF Whole, Ready
  <2>2. CASE Current' = Current
    BY <2>1, <2>2, AbstractIs
  <2>3. CASE Current' # Current /\ Current' = None
    BY <2>1, <2>3, AbstractIs DEF Abstract!Next
  <2>4. CASE Current' # Current /\ Current' # None
    <3>1. Abstract!Activate(Current')
      BY <1>1, <1>2, <2>1, <2>4, AbstractIs
    <3> QED
      BY <1>1, <2>4, <3>1 DEF Abstract!Next
  <2> QED
    BY <2>2, <2>3, <2>4
<1>5. CASE Current' = Current /\ Whole \subseteq Whole'
  <2>1. CASE Whole' = Whole
    BY <1>5, <2>1, AbstractIs
  <2>2. CASE Whole' # Whole
    <3>a. PICK found \in SUBSET Ids : found = Whole' \ Whole
      BY <1>3
    <3>1. Abstract!Retain(found)
      BY <1>5, <2>2, <3>a, AbstractIs
    <3> QED
      BY <3>1 DEF Abstract!Next
  <2> QED
    BY <2>1, <2>2
<1>6. CASE Current' = Current /\ Whole' \subseteq Whole
  <2>1. CASE Whole' = Whole
    BY <1>6, <2>1, AbstractIs
  <2>2. CASE Whole' # Whole
    <3>1. Current \notin Whole \ Whole'
      BY <1>2, <1>3, <1>6, NoneAssumption
    <3>a. PICK lost \in SUBSET Ids : lost = Whole \ Whole'
      BY <1>3
    <3>2. Abstract!Drop(lost)
      BY <1>6, <2>2, <3>1, <3>a, AbstractIs
    <3> QED
      BY <3>2 DEF Abstract!Next
  <2> QED
    BY <2>1, <2>2
<1> QED
  BY <1>4, <1>5, <1>6 DEF Separate

(***************************************************************************)
(* Readers of a store whose operations do not overlap see one active       *)
(* generation, whole at every instant, that changes in a single step from  *)
(* one whole generation to another: what the two renames, the flushes and  *)
(* the undo of Publish and Restore are for.                                *)
(***************************************************************************)
THEOREM StoreImplementsActive == Spec /\ []Alone => ImplementsActiveGeneration
<1>1. Init => Abstract!Init
  <2> SUFFICES ASSUME Init PROVE Current = None /\ Whole = {}
    BY AbstractIs
  <2> QED
    BY DEF Init, Current, Whole, Ready, Pointers
<1>2. Alone /\ Inv /\ Inv' /\ [Next]_vars => [Abstract!Next]_(Abstract!vars)
  BY StepSeparate, SeparateSimulates
<1> QED
  BY <1>1, <1>2, AloneInv, PTL DEF Spec, ImplementsActiveGeneration, Abstract!Spec
=============================================================================
