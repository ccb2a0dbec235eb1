----------------------- MODULE GenerationStore_proofs -----------------------
(* Theorems about GenerationStore, for every value of its constants. *)
EXTENDS GenerationStore, TLAPS

-----------------------------------------------------------------------------
(* Type correctness. *)

LEMMA FreshTyped == Fresh \in Local
  BY Zenon DEF Fresh, Local

\* A field of the local record takes any value of its range.
LEMMA FieldsTyped ==
  ASSUME NEW r \in Local
  PROVE  /\ \A op \in Commands \cup {"prune", None} : [r EXCEPT !.op = op] \in Local
         /\ \A g \in Ids \cup {None} : /\ [r EXCEPT !.id = g] \in Local
                                       /\ [r EXCEPT !.prev = g] \in Local
                                       /\ [r EXCEPT !.prevBackup = g] \in Local
         /\ \A g, h \in Ids \cup {None} :
              /\ [r EXCEPT !.id = g, !.prev = h] \in Local
              /\ [r EXCEPT !.id = g, !.prevBackup = h] \in Local
              /\ [r EXCEPT !.prev = g, !.prevBackup = h] \in Local
         /\ \A fs \in SUBSET Pointers : [r EXCEPT !.switched = fs] \in Local
         /\ [r EXCEPT !.renamed = TRUE] \in Local
         /\ [r EXCEPT !.stuck = TRUE] \in Local
         /\ \A gs \in SUBSET Ids : [r EXCEPT !.doomed = gs] \in Local
  BY DEF Local

LEMMA InitTyped ==
  ASSUME Init
  PROVE  StateTyped
<1>1. local \in [Procs -> Local]
  BY FreshTyped DEF Init
<1>2. reserve \in BOOLEAN /\ failure \in BOOLEAN
  BY Zenon DEF Init
<1>3. budget \in 0 .. MaxFaults
  BY FaultsAssumption, SettingsAssumption DEF Init, Setting
<1> QED
  BY <1>1, <1>2, <1>3 DEF Init, StateTyped, Steps, DirState

\* What a power loss leaves of a directory is a state of a directory.
LEMMA SurvivorsTyped ==
  ASSUME StateTyped, NEW g \in Ids
  PROVE  Survivors(g) \subseteq DirState
  BY DEF StateTyped, Survivors, DirState

\* An interrupted removal leaves directory states behind.
LEMMA HalfRemovedTyped ==
  ASSUME StateTyped, NEW p \in Procs
  PROVE  HalfRemoved(p) \subseteq [Ids -> DirState]
<1>1. ASSUME NEW g PROVE Gutted(g, gens) \subseteq [Ids -> DirState]
  BY DEF Gutted, StateTyped, DirState
<1> QED
  BY <1>1 DEF HalfRemoved, StateTyped

LEMMA BeginsTyped ==
  ASSUME StateTyped, NEW p \in Procs, Begins(p)
  PROVE  StateTyped'
<1> USE DEF Start, Begin, Goto, Current
<1>1. CASE Plan(p)
  <2>1. local' \in [Procs -> Local]
    <3>1. PICK g \in Ids : Begin(p, "publish", "acquire", [Fresh EXCEPT !.id = g])
      BY <1>1 DEF Plan
    <3>2. [Fresh EXCEPT !.id = g] \in Local
      BY FreshTyped, FieldsTyped
    <3>3. [[Fresh EXCEPT !.id = g] EXCEPT !.op = "publish"] \in Local
      BY <3>2, FieldsTyped DEF Commands
    <3> QED
      BY <3>1, <3>3 DEF StateTyped
  <2> QED
    BY <1>1, <2>1 DEF Plan, diskVars, StateTyped, Steps
<1>2. CASE RestoreOpen(p)
  <2>1. PICK g \in Ids \ {Current} :
          Begin(p, "restore", "gate", [Fresh EXCEPT !.id = g, !.prev = Current])
    BY <1>2 DEF RestoreOpen
  <2>2. Current \in Ids
    BY <1>2 DEF RestoreOpen, Resolves
  <2>3. local' \in [Procs -> Local]
    BY <2>1, <2>2, FreshTyped, FieldsTyped DEF Commands, StateTyped
  <2> QED
    BY <1>2, <2>1, <2>3 DEF RestoreOpen, Prepare, StateTyped, Steps, Pointers
<1>3. CASE DiscardOpen(p)
  <2>1. local' \in [Procs -> Local]
    BY <1>3, FreshTyped, FieldsTyped DEF DiscardOpen, Commands, StateTyped
  <2> QED
    BY <1>3, <2>1 DEF DiscardOpen, diskVars, StateTyped, Steps, RemoverSteps
<1>4. CASE DiscardExceptOpen(p)
  <2>1. local' \in [Procs -> Local]
    BY <1>4, FreshTyped, FieldsTyped DEF DiscardExceptOpen, Resolves, Commands, StateTyped
  <2> QED
    BY <1>4, <2>1 DEF DiscardExceptOpen, diskVars, StateTyped, Steps, RemoverSteps
<1> QED
  BY <1>1, <1>2, <1>3, <1>4 DEF Begins

LEMMA PublicationTyped ==
  ASSUME StateTyped, NEW p \in Procs, Publication(p)
  PROVE  StateTyped'
<1> USE DEF At, Goto, Finish, Unlock, StateTyped, Steps, LockedSteps, CandidateSteps, DirState
<1>1. CASE Acquire(p)
  <2>1. local' \in [Procs -> Local]
    BY <1>1, FreshTyped DEF Acquire
  <2>2. reserve' \in BOOLEAN
    BY <1>1, Zenon DEF Acquire, Prepare
  <2> QED
    BY <1>1, <2>1, <2>2 DEF Acquire, Prepare
<1>2. CASE Open(p)
  <2>1. local' \in [Procs -> Local]
    <3>1. [local[p] EXCEPT !.prev = Current, !.prevBackup = pointer["BACKUP"]] \in Local
      BY FieldsTyped DEF Current, Pointers
    <3> QED
      BY <1>2, <3>1, FreshTyped DEF Open
  <2> QED
    BY <1>2, <2>1 DEF Open
<1>3. CASE Create(p)
  <2>1. local' \in [Procs -> Local]
    BY <1>3, FreshTyped DEF Create
  <2> QED
    BY <1>3, <2>1 DEF Create
<1>4. CASE Build(p)
  BY <1>4, FaultsAssumption DEF Build
<1>5. CASE Validate(p)
  BY <1>5 DEF Validate, UndoSteps
<1>6. CASE Seal(p)
  BY <1>6 DEF Seal
<1>7. CASE Rename(p)
  <2>1. local' \in [Procs -> Local]
    BY <1>7, FieldsTyped DEF Rename
  <2> QED
    BY <1>7, <2>1 DEF Rename
<1>8. CASE SyncGens(p)
  BY <1>8 DEF SyncGens, SwitchSteps
<1> QED
  BY <1>1, <1>2, <1>3, <1>4, <1>5, <1>6, <1>7, <1>8 DEF Publication

LEMMA SwitchTyped ==
  ASSUME StateTyped, NEW p \in Procs, Switch(p) \/ SyncRoot(p) \/ Clear(p)
  PROVE  StateTyped'
<1> USE DEF At, Goto, Finish, GiveUp, Unlock, StateTyped, Steps, SwitchSteps, UndoSteps, Pointers
<1>1. ASSUME NEW f \in Pointers, NEW s, NEW t \in Steps, WriteNext(p, f, s, t)
      PROVE  StateTyped'
  <2>1. Wanted(p, f) \in Ids \cup {None}
    BY DEF Wanted, Local
  <2> QED
    BY <1>1, <2>1 DEF WriteNext
<1>2. ASSUME NEW f \in Pointers, NEW s, NEW t \in Steps, RenameNext(p, f, s, t)
      PROVE  StateTyped'
  <2>1. local[p] \in Local /\ local[p].switched \cup {f} \in SUBSET Pointers
    BY DEF Local
  <2>2. local' \in [Procs -> Local]
    <3>1. [local[p] EXCEPT !.switched = @ \cup {f}] \in Local
      BY <2>1, FieldsTyped
    <3> QED
      BY <1>2, <3>1, FreshTyped DEF RenameNext
  <2> QED
    BY <1>2, <2>2 DEF RenameNext
<1>3. CASE Switch(p)
  BY <1>1, <1>2, <1>3 DEF Switch
<1>4. CASE SyncRoot(p)
  BY <1>4 DEF SyncRoot
<1>5. CASE Clear(p)
  <2>1. local' \in [Procs -> Local]
    <3>1. [Fresh EXCEPT !.op = "prune"] \in Local
      BY FreshTyped, FieldsTyped
    <3> QED
      BY <1>5, <3>1, FreshTyped DEF Clear, Begin
  <2>2. failure' \in BOOLEAN
    BY <1>5 DEF Clear
  <2> QED
    BY <1>5, <2>1, <2>2 DEF Clear, Begin, RemoverSteps
<1> QED
  BY <1>3, <1>4, <1>5

LEMMA UndoTyped ==
  ASSUME StateTyped, NEW p \in Procs, Undo(p)
  PROVE  StateTyped'
<1> USE FaultsAssumption
    DEF At, Goto, Finish, Unlock, Works, Breaks, StateTyped, Steps, UndoSteps, DirState, Pointers
<1> local[p] \in Local
  OBVIOUS
<1>1. CASE UndoCurrent(p)
  <2>1. local' \in [Procs -> Local]
    BY <1>1, FieldsTyped DEF UndoCurrent
  <2>2. pointer' \in [Pointers -> Ids \cup {None}]
    BY <1>1 DEF UndoCurrent, Local
  <2>3. durablePointer' \in [Pointers -> Ids \cup {None}]
    BY <1>1, <2>2 DEF UndoCurrent
  <2>4. reserve' \in BOOLEAN
    BY <1>1, Zenon DEF UndoCurrent
  <2>5. budget' \in 0 .. MaxFaults
    <3>1. UNCHANGED budget \/ Breaks
      BY <1>1, Zenon DEF UndoCurrent
    <3> QED
      BY <3>1
  <2> QED
    BY <1>1, <2>1, <2>2, <2>3, <2>4, <2>5 DEF UndoCurrent
<1>2. CASE UndoBackup(p)
  <2>1. pointer' \in [Pointers -> Ids \cup {None}]
    BY <1>2 DEF UndoBackup, Local
  <2> QED
    BY <1>2, <2>1 DEF UndoBackup
<1>3. CASE UndoCandidate(p)
  BY <1>3 DEF UndoCandidate
<1>4. CASE UndoFinal(p)
  BY <1>4 DEF UndoFinal
<1>5. CASE UndoSync(p)
  BY <1>5 DEF UndoSync
<1>6. CASE Record(p)
  <2>1. local' \in [Procs -> Local]
    BY <1>6, FreshTyped DEF Record
  <2> QED
    BY <1>6, <2>1 DEF Record
<1> QED
  BY <1>1, <1>2, <1>3, <1>4, <1>5, <1>6 DEF Undo

LEMMA RemovalTyped ==
  ASSUME StateTyped, NEW p \in Procs, RestoreGate(p) \/ Removal(p)
  PROVE  StateTyped'
<1> USE DEF At, Goto, Finish, diskVars, StateTyped, Steps, RemoverSteps, DirState, Pointers
<1> local[p] \in Local
  OBVIOUS
<1> Listed \subseteq Ids
  BY DEF Listed
<1>1. CASE RestoreGate(p)
  <2>1. local' \in [Procs -> Local]
    <3>1. [local[p] EXCEPT !.prevBackup = pointer["BACKUP"]] \in Local
      BY FieldsTyped
    <3> QED
      BY <1>1, <3>1, FreshTyped DEF RestoreGate
  <2> QED
    BY <1>1, <2>1 DEF RestoreGate, SwitchSteps
<1>2. CASE PruneRead(p)
  <2>1. local' \in [Procs -> Local]
    <3>1. Current \in Ids \cup {None} /\ pointer["BACKUP"] \in Ids \cup {None}
      BY DEF Current
    <3>2. \A b \in {None, pointer["BACKUP"]} :
            [local[p] EXCEPT !.id = Current, !.prevBackup = b] \in Local
      BY <3>1, FieldsTyped
    <3>3. \/ local' = [local EXCEPT ![p] = Fresh]
          \/ \E b \in {None, pointer["BACKUP"]} :
                local' = [local EXCEPT ![p] = [local[p] EXCEPT !.id = Current, !.prevBackup = b]]
      BY <1>2 DEF PruneRead, Finish
    <3> QED
      BY <3>2, <3>3, FreshTyped
  <2> QED
    BY <1>2, <2>1 DEF PruneRead
<1>3. CASE PruneList(p)
  <2>1. local' \in [Procs -> Local]
    BY <1>3, FieldsTyped DEF PruneList
  <2> QED
    BY <1>3, <2>1 DEF PruneList
<1>4. CASE DiscardList(p)
  <2>1. local' \in [Procs -> Local]
    <3>1. [local[p] EXCEPT !.doomed = Listed \ {local[p].id}] \in Local
      <4> Listed \ {local[p].id} \in SUBSET Ids
        OBVIOUS
      <4> QED
        BY FieldsTyped
    <3> QED
      BY <1>4, <3>1, FreshTyped, SMTT(20) DEF DiscardList
  <2> QED
    BY <1>4, <2>1 DEF DiscardList
<1>5. ASSUME NEW f \in Pointers, NEW s, NEW t \in Steps, Unlink(p, f, s, t)
      PROVE  StateTyped'
  BY <1>5 DEF Unlink
<1>6. CASE Remove(p)
  <2>1. \A g : local[p].doomed \ {g} \in SUBSET Ids
    BY DEF Local
  <2>2. local' \in [Procs -> Local]
    <3>1. CASE UNCHANGED local
      BY <3>1
    <3>2. CASE \E g : local' = [local EXCEPT ![p].doomed = @ \ {g}]
      <4>1. PICK g : local' = [local EXCEPT ![p].doomed = @ \ {g}]
        BY <3>2
      <4>2. [local[p] EXCEPT !.doomed = @ \ {g}] \in Local
        BY <2>1, FieldsTyped
      <4> QED
        BY <4>1, <4>2
    <3> QED
      BY <1>6, <3>1, <3>2, Zenon DEF Remove
  <2> QED
    BY <1>6, <2>2 DEF Remove
<1>7. CASE SyncRemoved(p)
  <2>1. local' \in [Procs -> Local]
    BY <1>7, FreshTyped DEF SyncRemoved
  <2>2. reserve' \in BOOLEAN /\ failure' \in BOOLEAN
    BY <1>7, Zenon DEF SyncRemoved
  <2> QED
    BY <1>7, <2>1, <2>2 DEF SyncRemoved
<1> QED
  BY <1>1, <1>2, <1>3, <1>4, <1>5, <1>6, <1>7 DEF Removal

LEMMA FaultsTyped ==
  ASSUME StateTyped, NEW p \in Procs, Fail(p) \/ Crash(p)
  PROVE  StateTyped'
<1> USE FaultsAssumption
    DEF Breaks, Goto, Finish, GiveUp, Unlock, StateTyped, Steps, UndoSteps, Pointers
<1>1. gens' \in [Ids -> DirState]
  BY HalfRemovedTyped DEF Fail, Crash
<1>2. local' \in [Procs -> Local]
  BY FreshTyped DEF Fail, Crash
<1>3. CASE Fail(p)
  BY <1>1, <1>2, <1>3 DEF Fail
<1>4. CASE Crash(p)
  BY <1>1, <1>2, <1>4 DEF Crash
<1> QED
  BY <1>3, <1>4

LEMMA PowerLossTyped ==
  ASSUME StateTyped, PowerLoss
  PROVE  StateTyped'
<1> USE FaultsAssumption DEF PowerLoss, Breaks, StateTyped
<1>1. gens' \in [Ids -> DirState] /\ durableGens' \in [Ids -> DirState]
  BY SurvivorsTyped
<1>2. local' \in [Procs -> Local]
  BY FreshTyped
<1>3. cand' \in [Ids -> DirState]
  BY DEF DirState
<1>4. pointer' \in [Pointers -> Ids \cup {None}]
  OBVIOUS
<1> QED
  BY <1>1, <1>2, <1>3, <1>4 DEF Steps

\* The circumstances are those of the start.
LEMMA SettingKept == [Next]_vars => UNCHANGED setting
<1> USE DEF diskVars
<1>1. ASSUME NEW p \in Procs, Begins(p)
      PROVE  UNCHANGED setting
  BY <1>1 DEF Begins, Plan, RestoreOpen, DiscardOpen, DiscardExceptOpen
<1>2. ASSUME NEW p \in Procs, Publication(p)
      PROVE  UNCHANGED setting
  BY <1>2 DEF Publication, Acquire, Open, Create, Build, Validate, Seal, Rename, SyncGens
<1>3. ASSUME NEW p \in Procs, Switch(p) \/ SyncRoot(p) \/ Clear(p)
      PROVE  UNCHANGED setting
  BY <1>3 DEF Switch, WriteNext, RenameNext, SyncRoot, Clear
<1>4. ASSUME NEW p \in Procs, Undo(p) \/ RestoreGate(p) \/ Removal(p)
      PROVE  UNCHANGED setting
  BY <1>4 DEF Undo, UndoCurrent, UndoBackup, UndoCandidate, UndoFinal, UndoSync, Record,
              RestoreGate, Removal, PruneRead, PruneList, DiscardList, Unlink, Remove,
              SyncRemoved
<1>5. ASSUME NEW p \in Procs, Fail(p) \/ Crash(p)
      PROVE  UNCHANGED setting
  BY <1>5 DEF Fail, Crash
<1> QED
  BY <1>1, <1>2, <1>3, <1>4, <1>5 DEF Next, Proceed, PowerLoss, vars

(***************************************************************************)
(* Whatever its processes do and whatever the machine loses, the store     *)
(* stays in the states its types describe.                                 *)
(***************************************************************************)
THEOREM TypeCorrect == Spec => []TypeOK
<1>1. TypeOK /\ [Next]_vars => TypeOK'
  <2> SUFFICES ASSUME TypeOK, [Next]_vars PROVE TypeOK'
    OBVIOUS
  <2>1. setting' \in Settings
    BY SettingKept DEF TypeOK
  <2>2. CASE UNCHANGED vars
    BY <2>1, <2>2 DEF vars, TypeOK, StateTyped
  <2>3. ASSUME NEW p \in Procs, Begins(p) \/ Proceed(p) \/ Fail(p) \/ Crash(p)
        PROVE  StateTyped'
    BY <2>3, BeginsTyped, PublicationTyped, SwitchTyped, UndoTyped, RemovalTyped,
       FaultsTyped DEF Proceed, TypeOK
  <2> QED
    BY <2>1, <2>2, <2>3, PowerLossTyped DEF Next, TypeOK
<1>2. Init => TypeOK
  BY InitTyped DEF Init, TypeOK
<1> QED
  BY <1>1, <1>2, PTL DEF Spec

-----------------------------------------------------------------------------
(* BACKUP is never invented. *)

(***************************************************************************)
(* BackupWasActive is not inductive: a value reaches BACKUP through the    *)
(* .next file, out of the locals an undo restores it from, and back from   *)
(* what a power loss kept.  Every one of these only ever holds an id that  *)
(* CURRENT has named; next["CURRENT"] and local.id do not, and BACKUP is   *)
(* never written from them.                                                *)
(***************************************************************************)
Named == activated \cup {None}

BackupSources ==
  /\ \A f \in Pointers : pointer[f] \in Named /\ durablePointer[f] \in Named
  /\ next["BACKUP"] \in Named
  /\ \A p \in Procs : local[p].prev \in Named /\ local[p].prevBackup \in Named

\* A step that leaves the pointers alone and gives the locals only what the
\* pointers hold.
LEMMA BackupSourcesKept ==
  ASSUME StateTyped, BackupSources,
         UNCHANGED <<pointer, next, activated>>,
         \A f \in Pointers : durablePointer'[f] \in {durablePointer[f], pointer[f]},
         \A q \in Procs :
           /\ local'[q].prev \in {local[q].prev, None, pointer["CURRENT"]}
           /\ local'[q].prevBackup \in {local[q].prevBackup, None, pointer["BACKUP"]}
  PROVE  BackupSources'
  BY DEF BackupSources, Named, Pointers

LEMMA BackupSourcesStep ==
  ASSUME StateTyped, BackupSources, [Next]_vars
  PROVE  BackupSources'
<1> USE DEF At, Goto, Finish, Start, Begin, Fresh, Prepare, Current, diskVars
<1> local \in [Procs -> Local]
  BY DEF StateTyped
<1>1. CASE UNCHANGED vars
  BY <1>1 DEF vars, BackupSources, Named
<1>2. ASSUME NEW p \in Procs, Begins(p)
      PROVE  BackupSources'
  <2>1. CASE Plan(p)
    BY <1>2, <2>1, BackupSourcesKept DEF Plan, Local
  <2>2. CASE RestoreOpen(p)
    BY <1>2, <2>2, BackupSourcesKept DEF RestoreOpen, Local
  <2>3. CASE DiscardOpen(p)
    BY <1>2, <2>3, BackupSourcesKept DEF DiscardOpen, Local
  <2>4. CASE DiscardExceptOpen(p)
    BY <1>2, <2>4, BackupSourcesKept DEF DiscardExceptOpen, Local
  <2> QED
    BY <1>2, <2>1, <2>2, <2>3, <2>4 DEF Begins
<1>3. ASSUME NEW p \in Procs, Publication(p)
      PROVE  BackupSources'
  <2>1. CASE Acquire(p)
    BY <2>1, BackupSourcesKept DEF Acquire, Local
  <2>2. CASE Open(p)
    BY <2>2, BackupSourcesKept DEF Open, Local
  <2>3. CASE Create(p)
    BY <2>3, BackupSourcesKept DEF Create, Local
  <2>4. CASE Build(p) \/ Validate(p) \/ Seal(p) \/ SyncGens(p)
    BY <2>4, BackupSourcesKept DEF Build, Validate, Seal, SyncGens
  <2>5. CASE Rename(p)
    BY <2>5, BackupSourcesKept DEF Rename, Local
  <2> QED
    BY <1>3, <2>1, <2>2, <2>3, <2>4, <2>5 DEF Publication
<1>4. ASSUME NEW p \in Procs, Switch(p) \/ SyncRoot(p) \/ Clear(p)
      PROVE  BackupSources'
  <2>1. ASSUME NEW f \in Pointers, NEW s, NEW t, WriteNext(p, f, s, t)
        PROVE  BackupSources'
    BY <2>1 DEF WriteNext, Wanted, BackupSources, Named, StateTyped
  <2>2. ASSUME NEW f \in Pointers, NEW s, NEW t, RenameNext(p, f, s, t)
        PROVE  BackupSources'
    <3>1. CASE next[f] # None
      <4>1. /\ pointer' = [pointer EXCEPT ![f] = next[f]]
            /\ next' = [next EXCEPT ![f] = None]
            /\ activated' = IF f = "CURRENT" THEN activated \cup {next[f]} ELSE activated
            /\ local' = [local EXCEPT ![p].switched = @ \cup {f}]
            /\ UNCHANGED durablePointer
        BY <2>2, <3>1 DEF RenameNext
      <4>2. \A q \in Procs : /\ local'[q].prev = local[q].prev
                             /\ local'[q].prevBackup = local[q].prevBackup
        BY <4>1 DEF Local
      <4>3. next[f] \in Named' /\ Named \subseteq Named'
        BY <4>1 DEF Named, BackupSources, Pointers
      <4> QED
        BY <4>1, <4>2, <4>3 DEF BackupSources, StateTyped, Named, Pointers
    <3>2. CASE next[f] = None
      BY <2>2, <3>2, BackupSourcesKept DEF RenameNext, GiveUp, Local
    <3> QED
      BY <3>1, <3>2
  <2>3. CASE SyncRoot(p)
    BY <2>3, BackupSourcesKept DEF SyncRoot
  <2>4. CASE Clear(p)
    BY <2>4, BackupSourcesKept DEF Clear, Local
  <2> QED
    BY <1>4, <2>1, <2>2, <2>3, <2>4 DEF Switch, Pointers
<1>5. ASSUME NEW p \in Procs, Undo(p)
      PROVE  BackupSources'
  <2>1. CASE UndoCurrent(p) \/ UndoBackup(p)
    <3>1. \A f \in Pointers : /\ pointer'[f] \in {pointer[f], local[p].prev, local[p].prevBackup}
                              /\ durablePointer'[f] = pointer'[f]
      BY <2>1 DEF UndoCurrent, UndoBackup, StateTyped
    <3>2. \A q \in Procs : /\ local'[q].prev = local[q].prev
                           /\ local'[q].prevBackup = local[q].prevBackup
      BY <2>1 DEF UndoCurrent, UndoBackup, Local
    <3>3. UNCHANGED <<next, activated>>
      BY <2>1 DEF UndoCurrent, UndoBackup
    <3> QED
      BY <3>1, <3>2, <3>3 DEF BackupSources, Named
  <2>2. CASE UndoCandidate(p) \/ UndoFinal(p) \/ UndoSync(p)
    BY <2>2, BackupSourcesKept DEF UndoCandidate, UndoFinal, UndoSync
  <2>3. CASE Record(p)
    BY <2>3, BackupSourcesKept DEF Record, Local
  <2> QED
    BY <1>5, <2>1, <2>2, <2>3 DEF Undo
<1>6. ASSUME NEW p \in Procs, RestoreGate(p) \/ Removal(p)
      PROVE  BackupSources'
  <2>1. CASE RestoreGate(p)
    BY <2>1, BackupSourcesKept DEF RestoreGate, Local
  <2>2. CASE PruneRead(p)
    BY <2>2, BackupSourcesKept DEF PruneRead, Local
  <2>3. CASE PruneList(p)
    BY <2>3, BackupSourcesKept DEF PruneList, Local
  <2>4. CASE DiscardList(p)
    BY <2>4, BackupSourcesKept DEF DiscardList, Local
  <2>5. ASSUME NEW f \in Pointers, NEW s, NEW t, Unlink(p, f, s, t)
        PROVE  BackupSources'
    BY <2>5 DEF Unlink, BackupSources, Named, StateTyped
  <2>6. CASE Remove(p)
    BY <2>6, BackupSourcesKept DEF Remove, Local
  <2>7. CASE SyncRemoved(p)
    BY <2>7, BackupSourcesKept DEF SyncRemoved, Local
  <2> QED
    BY <1>6, <2>1, <2>2, <2>3, <2>4, <2>5, <2>6, <2>7 DEF Removal, Pointers
<1>7. ASSUME NEW p \in Procs, Fail(p) \/ Crash(p)
      PROVE  BackupSources'
  <2>1. \A q \in Procs : /\ local'[q].prev \in {local[q].prev, None}
                         /\ local'[q].prevBackup \in {local[q].prevBackup, None}
    BY <1>7 DEF Fail, Crash, GiveUp, Local
  <2>2. UNCHANGED <<pointer, durablePointer, activated>>
    BY <1>7 DEF Fail, Crash
  <2>3. next'["BACKUP"] \in {next["BACKUP"], None}
    BY <1>7 DEF Fail, Crash, Pointers
  <2> QED
    BY <2>1, <2>2, <2>3 DEF BackupSources, Named
<1>8. CASE PowerLoss
  <2>1. \A f \in Pointers : /\ pointer'[f] \in {pointer[f], durablePointer[f]}
                            /\ durablePointer'[f] = pointer'[f]
    BY <1>8 DEF PowerLoss
  <2>2. \A q \in Procs : local'[q].prev = None /\ local'[q].prevBackup = None
    BY <1>8 DEF PowerLoss
  <2>3. UNCHANGED <<next, activated>>
    BY <1>8 DEF PowerLoss
  <2> QED
    BY <2>1, <2>2, <2>3 DEF BackupSources, Named
<1> QED
  BY <1>1, <1>2, <1>3, <1>4, <1>5, <1>6, <1>7, <1>8 DEF Next, Proceed

(***************************************************************************)
(* BACKUP names a generation that was active, or nothing, with any number  *)
(* of processes, deaths and power losses.                                  *)
(***************************************************************************)
THEOREM BackupNeverInvented == Spec => []BackupWasActive
<1>1. Init => BackupSources
  BY DEF Init, BackupSources, Named, Fresh, Pointers
<1>2. BackupSources => BackupWasActive
  BY DEF BackupSources, BackupWasActive, Named, Pointers
<1>3. TypeOK => StateTyped
  BY DEF TypeOK
<1> QED
  BY <1>1, <1>2, <1>3, BackupSourcesStep, TypeCorrect, PTL DEF Spec

-----------------------------------------------------------------------------
(* What a publisher removes is debris. *)

(***************************************************************************)
(* From the read of CURRENT to the rename of its candidate, a publisher    *)
(* holds publish.lock: CandidateIsDebris is this mutual exclusion.         *)
(***************************************************************************)
OwnsCandidate == {"open", "create"} \cup CandidateSteps

CandidateUnderLock == \A p \in Procs : pc[p] \in OwnsCandidate => lock = p

LEMMA CandidateUnderLockStep ==
  ASSUME StateTyped, CandidateUnderLock, [Next]_vars
  PROVE  CandidateUnderLock'
<1> USE NoneAssumption
    DEF CandidateUnderLock, OwnsCandidate, CandidateSteps, At, Goto, Finish, Start, Begin,
        Unlock, Prepare, diskVars
<1> pc \in [Procs -> Steps]
  BY DEF StateTyped
<1>1. CASE UNCHANGED vars
  BY <1>1 DEF vars
<1>2. ASSUME NEW p \in Procs, Begins(p)
      PROVE  CandidateUnderLock'
  BY <1>2 DEF Begins, Plan, RestoreOpen, DiscardOpen, DiscardExceptOpen
<1>3. ASSUME NEW p \in Procs, Publication(p)
      PROVE  CandidateUnderLock'
  <2>1. CASE Acquire(p)
    BY <2>1 DEF Acquire
  <2>2. CASE Open(p) \/ Create(p)
    BY <2>2 DEF Open, Create
  <2>3. CASE Build(p) \/ Validate(p) \/ Seal(p) \/ Rename(p) \/ SyncGens(p)
    BY <2>3 DEF Build, Validate, Seal, Rename, SyncGens
  <2> QED
    BY <1>3, <2>1, <2>2, <2>3 DEF Publication
<1>4. ASSUME NEW p \in Procs, Switch(p) \/ SyncRoot(p) \/ Clear(p)
      PROVE  CandidateUnderLock'
  BY <1>4 DEF Switch, WriteNext, RenameNext, GiveUp, SyncRoot, Clear
<1>5. ASSUME NEW p \in Procs, Undo(p)
      PROVE  CandidateUnderLock'
  BY <1>5 DEF Undo, UndoCurrent, UndoBackup, UndoCandidate, UndoFinal, UndoSync, Record
<1>6. ASSUME NEW p \in Procs, RestoreGate(p) \/ Removal(p)
      PROVE  CandidateUnderLock'
  BY <1>6 DEF RestoreGate, Removal, PruneRead, PruneList, DiscardList, Unlink, Remove, SyncRemoved
<1>7. ASSUME NEW p \in Procs, Fail(p) \/ Crash(p)
      PROVE  CandidateUnderLock'
  BY <1>7 DEF Fail, Crash, GiveUp, SwitchSteps
<1>8. CASE PowerLoss
  BY <1>8 DEF PowerLoss
<1> QED
  BY <1>1, <1>2, <1>3, <1>4, <1>5, <1>6, <1>7, <1>8 DEF Next, Proceed

(***************************************************************************)
(* A publisher that removes a candidate removes debris, never the work of  *)
(* another one, with any number of processes.                              *)
(***************************************************************************)
THEOREM OnlyDebrisIsRemoved == Spec => []CandidateIsDebris
<1>1. Init => CandidateUnderLock
  BY DEF Init, CandidateUnderLock, OwnsCandidate, CandidateSteps
<1>2. CandidateUnderLock => CandidateIsDebris
  BY DEF CandidateUnderLock, CandidateIsDebris, OwnsCandidate, At
<1>3. TypeOK => StateTyped
  BY DEF TypeOK
<1> QED
  BY <1>1, <1>2, <1>3, CandidateUnderLockStep, TypeCorrect, PTL DEF Spec

-----------------------------------------------------------------------------
(* Publishers do not mix their switches. *)

\* Nothing but `index --full` and the resynchroniser uses the store: rollback
\* and clean take no lock, so one beside a publisher can move its pointers.
OnlyPublishers == setting.operations \subseteq {"publish"}

\* From its lock to its end a publication holds publish.lock; its prune does not.
UnderLock == LockedSteps \cup SwitchSteps \cup UndoSteps
AfterSteps == {"pruneRead", "pruneList", "remove", "syncRemoved"}

\* A publisher's switch is where its step says, and nobody else can move it.
SwitchHeld(p) ==
  /\ pc[p] \in {"idle", "acquire"} \cup UnderLock \cup AfterSteps
  /\ pc[p] \in {"acquire"} \cup UnderLock => local[p].op = "publish"
  /\ pc[p] \in AfterSteps => local[p].op = "prune"
  /\ pc[p] \in UnderLock => lock = p
  /\ pc[p] = "renameBackup" => next["BACKUP"] = local[p].prev
  /\ pc[p] \in {"nextCurrent", "renameCurrent", "syncRoot", "clear"} /\ local[p].prev # None =>
       pointer["BACKUP"] = local[p].prev
  /\ pc[p] = "renameCurrent" => next["CURRENT"] = local[p].id
  /\ pc[p] \in {"syncRoot", "clear"} => Current = local[p].id

SwitchesHeld == OnlyPublishers => \A p \in Procs : SwitchHeld(p)

\* A process disturbs no holder of the lock.
LEMMA OthersSwitchHeld ==
  ASSUME NEW p \in Procs, NEW q \in Procs \ {p}, SwitchHeld(q),
         pc'[q] = pc[q], local'[q] = local[q],
         lock = q => lock' = q,
         lock = p \/ UNCHANGED <<pointer, next>>
  PROVE  SwitchHeld(q)'
BY DEF SwitchHeld, Current, UnderLock, LockedSteps, CandidateSteps, SwitchSteps, UndoSteps

LEMMA BeginsSwitchHeld ==
  ASSUME StateTyped, OnlyPublishers, NEW p \in Procs, SwitchHeld(p), Begins(p)
  PROVE  /\ SwitchHeld(p)' /\ UNCHANGED <<lock, pointer, next>>
         /\ \A q \in Procs \ {p} : pc'[q] = pc[q] /\ local'[q] = local[q]
<1> USE DEF StateTyped, Start, Begin, Goto, diskVars
<1>1. Plan(p)
  BY DEF OnlyPublishers, Begins, RestoreOpen, DiscardOpen, DiscardExceptOpen
<1>2. PICK g \in Ids : local' = [local EXCEPT ![p] = [[Fresh EXCEPT !.id = g] EXCEPT !.op = "publish"]]
  BY <1>1 DEF Plan
<1>3. pc'[p] = "acquire" /\ local'[p].op = "publish"
  BY <1>1, <1>2 DEF Plan, Fresh
<1>4. SwitchHeld(p)'
  BY <1>3 DEF SwitchHeld, UnderLock, AfterSteps, LockedSteps, CandidateSteps, SwitchSteps, UndoSteps
<1> QED
  BY <1>1, <1>2, <1>4 DEF Plan

LEMMA PublicationSwitchHeld ==
  ASSUME StateTyped, NEW p \in Procs, SwitchHeld(p), Publication(p)
  PROVE  /\ SwitchHeld(p)' /\ UNCHANGED <<pointer, next>>
         /\ \A q \in Procs \ {p} : pc'[q] = pc[q] /\ local'[q] = local[q] /\ (lock = q => lock' = q)
<1> USE NoneAssumption
    DEF StateTyped, At, Goto, Finish, Unlock, SwitchHeld, UnderLock, AfterSteps, LockedSteps,
        CandidateSteps, SwitchSteps, UndoSteps, Current, Local
<1>1. CASE Acquire(p)
  BY <1>1 DEF Acquire, Prepare
<1>2. CASE Open(p)
  BY <1>2 DEF Open
<1>3. CASE Create(p)
  BY <1>3 DEF Create
<1>4. CASE Build(p) \/ Validate(p) \/ Seal(p) \/ Rename(p)
  BY <1>4 DEF Build, Validate, Seal, Rename
<1>5. CASE SyncGens(p)
  BY <1>5 DEF SyncGens
<1> QED
  BY <1>1, <1>2, <1>3, <1>4, <1>5 DEF Publication

LEMMA SwitchSwitchHeld ==
  ASSUME StateTyped, NEW p \in Procs, SwitchHeld(p), Switch(p) \/ SyncRoot(p) \/ Clear(p)
  PROVE  /\ SwitchHeld(p)' /\ lock = p
         /\ \A q \in Procs \ {p} : pc'[q] = pc[q] /\ local'[q] = local[q] /\ lock # q
<1> USE DEF StateTyped, At, Goto, SwitchHeld, UnderLock, AfterSteps, LockedSteps,
            CandidateSteps, SwitchSteps, UndoSteps, Current, Local, Pointers
<1>1. lock = p /\ local[p].op = "publish"
  BY DEF Switch, WriteNext, RenameNext, SyncRoot, Clear
<1>2. CASE WriteNext(p, "BACKUP", "nextBackup", "renameBackup")
  BY <1>1, <1>2 DEF WriteNext, Wanted
<1>3. CASE RenameNext(p, "BACKUP", "renameBackup", "nextCurrent")
  BY <1>1, <1>3 DEF RenameNext, GiveUp, Undone
<1>4. CASE WriteNext(p, "CURRENT", "nextCurrent", "renameCurrent")
  BY <1>1, <1>4 DEF WriteNext, Wanted
<1>5. CASE RenameNext(p, "CURRENT", "renameCurrent", "syncRoot")
  BY <1>1, <1>5 DEF RenameNext, GiveUp, Undone
<1>6. CASE SyncRoot(p)
  BY <1>1, <1>6 DEF SyncRoot
<1>7. CASE Clear(p)
  <2>1. /\ pc' = [pc EXCEPT ![p] = "pruneRead"]
        /\ local' = [local EXCEPT ![p] = [Fresh EXCEPT !.op = "prune"]]
    BY <1>1, <1>7 DEF Clear, Begin
  <2>2. pc'[p] = "pruneRead" /\ local'[p].op = "prune"
    BY <2>1 DEF Fresh
  <2> QED
    BY <1>1, <2>1, <2>2
<1> QED
  BY <1>2, <1>3, <1>4, <1>5, <1>6, <1>7 DEF Switch

LEMMA UndoSwitchHeld ==
  ASSUME StateTyped, NEW p \in Procs, SwitchHeld(p), Undo(p)
  PROVE  /\ SwitchHeld(p)' /\ lock = p
         /\ \A q \in Procs \ {p} : pc'[q] = pc[q] /\ local'[q] = local[q] /\ lock # q
<1> USE DEF StateTyped, At, Goto, Finish, Unlock, SwitchHeld, UnderLock, AfterSteps, LockedSteps,
            CandidateSteps, SwitchSteps, UndoSteps, Local
<1>1. CASE UndoCurrent(p)
  BY <1>1 DEF UndoCurrent
<1>2. CASE UndoBackup(p)
  BY <1>2 DEF UndoBackup
<1>3. CASE UndoCandidate(p) \/ UndoFinal(p) \/ UndoSync(p)
  BY <1>3 DEF UndoCandidate, UndoFinal, UndoSync
<1>4. CASE Record(p)
  BY <1>4 DEF Record
<1> QED
  BY <1>1, <1>2, <1>3, <1>4 DEF Undo

LEMMA RemovalSwitchHeld ==
  ASSUME StateTyped, NEW p \in Procs, SwitchHeld(p), RestoreGate(p) \/ Removal(p)
  PROVE  /\ SwitchHeld(p)' /\ UNCHANGED <<lock, pointer, next>>
         /\ \A q \in Procs \ {p} : pc'[q] = pc[q] /\ local'[q] = local[q]
<1> USE DEF StateTyped, At, Goto, Finish, SwitchHeld, UnderLock, AfterSteps, LockedSteps,
            CandidateSteps, SwitchSteps, UndoSteps, Local, diskVars
<1>1. PruneRead(p) \/ PruneList(p) \/ Remove(p) \/ SyncRemoved(p)
  BY DEF RestoreGate, Removal, DiscardList, Unlink
<1>2. CASE PruneRead(p) \/ PruneList(p)
  BY <1>2 DEF PruneRead, PruneList
<1>3. CASE Remove(p) \/ SyncRemoved(p)
  BY <1>3 DEF Remove, SyncRemoved
<1> QED
  BY <1>1, <1>2, <1>3

LEMMA FaultSwitchHeld ==
  ASSUME StateTyped, NEW p \in Procs, SwitchHeld(p), Fail(p) \/ Crash(p)
  PROVE  /\ SwitchHeld(p)' /\ UNCHANGED pointer /\ (lock = p \/ UNCHANGED next)
         /\ \A q \in Procs \ {p} : pc'[q] = pc[q] /\ local'[q] = local[q] /\ (lock = q => lock' = q)
<1> USE DEF StateTyped, Goto, Finish, Unlock, SwitchHeld, UnderLock, AfterSteps, LockedSteps,
            CandidateSteps, SwitchSteps, UndoSteps, Local
<1>1. CASE Fail(p)
  <2>1. lock = p \/ UNCHANGED next
    BY <1>1 DEF Fail, Pointers
  <2>2. CASE pc[p] \in CandidateSteps \cup SwitchSteps \cup {"syncGens"}
    BY <1>1, <2>1, <2>2 DEF Fail, GiveUp, Undone
  <2>3. CASE pc[p] \notin CandidateSteps \cup SwitchSteps \cup {"syncGens"}
    BY <1>1, <2>1, <2>3 DEF Fail
  <2> QED
    BY <2>2, <2>3
<1>2. CASE Crash(p)
  BY <1>2 DEF Crash
<1> QED
  BY <1>1, <1>2

LEMMA SwitchesHeldStep ==
  ASSUME StateTyped, SwitchesHeld, [Next]_vars
  PROVE  SwitchesHeld'
<1> SUFFICES ASSUME OnlyPublishers PROVE \A p \in Procs : SwitchHeld(p)'
  BY SettingKept DEF SwitchesHeld, OnlyPublishers
<1>1. \A p \in Procs : SwitchHeld(p)
  BY DEF SwitchesHeld
<1>2. ASSUME NEW p \in Procs, Begins(p) \/ Proceed(p) \/ Fail(p) \/ Crash(p)
      PROVE  \A q \in Procs : SwitchHeld(q)'
  <2>1. SwitchHeld(p)
    BY <1>1
  <2>2. /\ SwitchHeld(p)' /\ (lock = p \/ UNCHANGED <<pointer, next>>)
        /\ \A q \in Procs \ {p} : pc'[q] = pc[q] /\ local'[q] = local[q] /\ (lock = q => lock' = q)
    BY <1>2, <2>1, BeginsSwitchHeld, PublicationSwitchHeld, SwitchSwitchHeld, UndoSwitchHeld,
       RemovalSwitchHeld, FaultSwitchHeld DEF Proceed
  <2>3. \A q \in Procs \ {p} : SwitchHeld(q)'
    BY <1>1, <2>2, OthersSwitchHeld
  <2> QED
    BY <2>2, <2>3
<1>3. CASE PowerLoss
  BY <1>3 DEF PowerLoss, SwitchHeld, UnderLock, AfterSteps, LockedSteps, CandidateSteps,
              SwitchSteps, UndoSteps
<1>4. CASE UNCHANGED vars
  BY <1>1, <1>4 DEF vars, SwitchHeld, Current
<1> QED
  BY <1>2, <1>3, <1>4 DEF Next

(***************************************************************************)
(* Any number of publishers, whatever fails, dies or loses power: one that *)
(* is about to clear the failure record sees its own id in CURRENT and the *)
(* generation it displaced in BACKUP (store.go, Publish).                  *)
(***************************************************************************)
THEOREM PublishersDoNotMix == Spec => [](OnlyPublishers => SwitchIsExclusive)
<1>1. Init => SwitchesHeld
  BY DEF Init, SwitchesHeld, SwitchHeld, UnderLock, AfterSteps, LockedSteps, CandidateSteps,
         SwitchSteps, UndoSteps
<1>2. SwitchesHeld => (OnlyPublishers => SwitchIsExclusive)
  BY DEF SwitchesHeld, SwitchHeld, SwitchIsExclusive, At
<1>3. TypeOK => StateTyped
  BY DEF TypeOK
<1> QED
  BY <1>1, <1>2, <1>3, SwitchesHeldStep, TypeCorrect, PTL DEF Spec

-----------------------------------------------------------------------------
(* What a prune spares beside publications. *)

\* A publication that has renamed its generation into place and not ended yet.
Renamed(p) == local[p].op = "publish" /\ local[p].renamed

(***************************************************************************)
(* A prune or a clean lists what it will remove while no publication of    *)
(* another process has a renamed generation, and no other one has still    *)
(* anything to remove.  Taking publish.lock from the list to the last      *)
(* removal would ensure it; Prune and Discard (backup.go, discard.go) take *)
(* no lock.  Nothing is asked of the removals, nor of the pointers that    *)
(* were read before: they meet publications at any of their steps.         *)
(***************************************************************************)
ListsApart ==
  \A q \in Procs : (PruneList(q) \/ DiscardList(q)) =>
    \A p \in Procs \ {q} : ~Renamed(p) /\ local[p].doomed = {}

\* From its new directory on, until an undo has removed what it renamed.
Holding == CandidateSteps \cup {"syncGens"} \cup SwitchSteps
             \cup {"undoCurrent", "undoBackup", "undoCandidate", "undoFinal"}

LockHeld(p) ==
  /\ pc[p] \in LockedSteps \cup {"acquire"} => local[p].op = "publish"
  /\ pc[p] = "gate" => local[p].op = "restore"
  /\ pc[p] \in LockedSteps \cup SwitchSteps \cup UndoSteps /\ local[p].op = "publish" => lock = p

\* A publication's id is the directory it has renamed, or nothing yet, and no
\* remover has it on its list.
Kept(p) ==
  /\ pc[p] \in {"acquire", "open", "create"} => local[p].id \in Ids /\ ~local[p].renamed
  /\ pc[p] \in CandidateSteps => cand[local[p].id] # "absent" /\ ~local[p].renamed
  /\ pc[p] \in Holding /\ local[p].op = "publish" =>
       /\ local[p].id \in Ids
       /\ pc[p] \in SwitchSteps \cup {"syncGens"} => local[p].renamed
       /\ local[p].renamed <=> gens[local[p].id] # "absent"
       /\ \A q \in Procs : local[p].id \notin local[q].doomed

\* What is to be removed is there, and on one list only.
ListsTrue ==
  /\ \A p \in Procs : local[p].doomed \subseteq Listed
  /\ \A p \in Procs : \A q \in Procs \ {p} : local[p].doomed \cap local[q].doomed = {}

Sparing == ListsTrue /\ \A p \in Procs : LockHeld(p) /\ Kept(p)

(***************************************************************************)
(* What a step of p may do to the others: it moves candidates and brings   *)
(* new directories under its lock only, and takes away only what is on its *)
(* own list, or what it renamed itself and no list has.                    *)
(***************************************************************************)
Mild(p) ==
  /\ \A q \in Procs \ {p} : pc'[q] = pc[q] /\ local'[q] = local[q] /\ (lock = q => lock' = q)
  /\ lock = p \/ UNCHANGED cand
  /\ \/ lock = p
     \/ \A g \in Ids : g \in local[p].doomed \/ (gens'[g] = "absent" <=> gens[g] = "absent")
  /\ \A g \in Ids : gens[g] # "absent" /\ gens'[g] = "absent" =>
       \A q \in Procs \ {p} : g \notin local[q].doomed
  /\ \/ local'[p].doomed \subseteq local[p].doomed
     \/ /\ local'[p].doomed \subseteq Listed
        /\ \A q \in Procs \ {p} : ~Renamed(q) /\ local[q].doomed = {}

\* And it is itself as it should be.
Moves(p) ==
  Mild(p) /\ LockHeld(p)' /\ Kept(p)' /\ local'[p].doomed \subseteq Listed'

LEMMA MovesSpare ==
  ASSUME StateTyped, Sparing, NEW p \in Procs, Moves(p)
  PROVE  Sparing'
<1>1. ASSUME NEW q \in Procs \ {p} PROVE LockHeld(q)'
  BY DEF Moves, Mild, Sparing, LockHeld
<1>2. ASSUME NEW q \in Procs \ {p} PROVE Kept(q)'
  <2>1. pc'[q] = pc[q] /\ local'[q] = local[q] /\ LockHeld(q) /\ Kept(q)
    BY DEF Moves, Mild, Sparing
  <2>2. CASE ~(pc[q] \in Holding /\ local[q].op = "publish")
    <3>1. pc[q] \notin CandidateSteps
      BY <2>1, <2>2 DEF LockHeld, LockedSteps, Holding
    <3> QED
      BY <2>1, <2>2, <3>1 DEF Kept
  <2>3. CASE pc[q] \in Holding /\ local[q].op = "publish"
    <3>1. lock = q
      BY <2>1, <2>3 DEF LockHeld, Holding, LockedSteps, UndoSteps
    <3>2. UNCHANGED cand /\ local[q].id \in Ids /\ local[q].id \notin local[p].doomed
      BY <2>1, <2>3, <3>1 DEF Moves, Mild, Kept
    <3>3. gens'[local[q].id] = "absent" <=> gens[local[q].id] = "absent"
      BY <3>1, <3>2 DEF Moves, Mild
    <3>4. local[q].id \notin local'[p].doomed
      BY <2>1, <2>3, <3>2 DEF Moves, Mild, Kept, Renamed, Listed
    <3>5. \A r \in Procs : local[q].id \notin local'[r].doomed
      BY <2>1, <2>3, <3>4 DEF Moves, Mild, Kept
    <3> QED
      BY <2>1, <2>3, <3>2, <3>3, <3>5 DEF Kept
  <2> QED
    BY <2>2, <2>3
<1>3. ASSUME NEW q \in Procs \ {p} PROVE local'[q].doomed \subseteq Listed'
  BY DEF Moves, Mild, Sparing, ListsTrue, Listed
<1>4. ASSUME NEW q \in Procs, NEW r \in Procs \ {q}
      PROVE  local'[q].doomed \cap local'[r].doomed = {}
  BY DEF Moves, Mild, Sparing, ListsTrue
<1> QED
  BY <1>1, <1>2, <1>3, <1>4 DEF Moves, Sparing, ListsTrue

\* What a process remembers of its operation, its generation and its list.
Same(r, s) == r.op = s.op /\ r.id = s.id /\ r.renamed = s.renamed /\ r.doomed = s.doomed

LEMMA BeginsMoves ==
  ASSUME StateTyped, Sparing, NEW p \in Procs, Begins(p)
  PROVE  Moves(p)
<1>1. /\ UNCHANGED <<lock, cand, gens>>
      /\ \A q \in Procs \ {p} : pc'[q] = pc[q] /\ local'[q] = local[q]
  BY DEF Begins, Plan, RestoreOpen, DiscardOpen, DiscardExceptOpen, Start, Begin, Goto, diskVars,
         StateTyped
<1>2. \/ /\ pc'[p] = "acquire" /\ local'[p].op = "publish"
         /\ local'[p].id \in Ids /\ ~local'[p].renamed
      \/ pc'[p] = "gate" /\ local'[p].op = "restore"
      \/ pc'[p] = "list"
  <2> USE DEF Begin, Goto, StateTyped
  <2>1. CASE Plan(p)
    <3>1. PICK g \in Ids : Begin(p, "publish", "acquire", [Fresh EXCEPT !.id = g])
      BY <2>1 DEF Plan
    <3> QED
      BY <3>1 DEF Fresh
  <2>2. CASE RestoreOpen(p)
    <3>1. PICK g \in Ids :
            Begin(p, "restore", "gate", [Fresh EXCEPT !.id = g, !.prev = Current])
      BY <2>2 DEF RestoreOpen
    <3> QED
      BY <3>1 DEF Fresh
  <2>3. CASE DiscardOpen(p) \/ DiscardExceptOpen(p)
    BY <2>3 DEF DiscardOpen, DiscardExceptOpen
  <2> QED
    BY <2>1, <2>2, <2>3 DEF Begins
<1>3. local'[p].doomed = {}
  BY DEF Begins, Plan, RestoreOpen, DiscardOpen, DiscardExceptOpen, Begin, Fresh, StateTyped
<1> QED
  BY <1>1, <1>2, <1>3
  DEF Moves, Mild, LockHeld, Kept, Holding, LockedSteps, CandidateSteps, SwitchSteps, UndoSteps

LEMMA PublicationMoves ==
  ASSUME StateTyped, Sparing, NEW p \in Procs, Publication(p)
  PROVE  Moves(p)
<1> USE NoneAssumption
    DEF StateTyped, At, Goto, Finish, Unlock, Moves, Mild, LockHeld, Kept, Holding, LockedSteps,
        CandidateSteps, SwitchSteps, UndoSteps, Local, Fresh, Listed
<1>1. LockHeld(p) /\ Kept(p) /\ ListsTrue
  BY DEF Sparing
<1>2. CASE Acquire(p)
  BY <1>1, <1>2 DEF Acquire, ListsTrue
<1>3. CASE Open(p)
  BY <1>1, <1>3 DEF Open, ListsTrue
<1>4. CASE Create(p)
  BY <1>1, <1>4 DEF Create, ListsTrue
<1>5. CASE Build(p) \/ Validate(p) \/ Seal(p)
  BY <1>1, <1>5 DEF Build, Validate, Seal, ListsTrue
<1>6. CASE Rename(p)
  BY <1>1, <1>6 DEF Rename, ListsTrue
<1>7. CASE SyncGens(p)
  BY <1>1, <1>7 DEF SyncGens, ListsTrue
<1> QED
  BY <1>2, <1>3, <1>4, <1>5, <1>6, <1>7 DEF Publication

LEMMA SwitchMoves ==
  ASSUME StateTyped, Sparing, NEW p \in Procs, Switch(p) \/ SyncRoot(p) \/ Clear(p)
  PROVE  Moves(p)
<1> USE NoneAssumption
    DEF StateTyped, At, Goto, Finish, Unlock, Moves, Mild, LockHeld, Kept, Holding, LockedSteps,
        CandidateSteps, SwitchSteps, UndoSteps, Local, Fresh, Listed
<1>1. LockHeld(p) /\ Kept(p) /\ ListsTrue
  BY DEF Sparing
<1>2. ASSUME NEW f \in Pointers, NEW s \in SwitchSteps, NEW t \in SwitchSteps, WriteNext(p, f, s, t)
      PROVE  Moves(p)
  BY <1>1, <1>2 DEF WriteNext, ListsTrue
<1>3. ASSUME NEW f \in Pointers, NEW s \in SwitchSteps, NEW t \in SwitchSteps,
             RenameNext(p, f, s, t)
      PROVE  Moves(p)
  <2>1. /\ UNCHANGED <<lock, cand, gens>> /\ pc[p] \in SwitchSteps
        /\ \A q \in Procs \ {p} : pc'[q] = pc[q] /\ local'[q] = local[q]
    BY <1>3 DEF RenameNext, GiveUp
  <2>2. \/ pc'[p] = "idle" /\ local'[p].doomed = {}
        \/ pc'[p] \in SwitchSteps \cup {"undoCurrent"} /\ Same(local'[p], local[p])
    BY <1>3 DEF RenameNext, GiveUp, Same
  <2> QED
    BY <1>1, <2>1, <2>2 DEF ListsTrue, Same
<1>4. CASE SyncRoot(p)
  BY <1>1, <1>4 DEF SyncRoot, ListsTrue
<1>5. CASE Clear(p)
  BY <1>1, <1>5 DEF Clear, Begin, ListsTrue
<1> QED
  BY <1>2, <1>3, <1>4, <1>5 DEF Switch, Pointers

LEMMA UndoMoves ==
  ASSUME StateTyped, Sparing, NEW p \in Procs, Undo(p)
  PROVE  Moves(p)
<1> USE NoneAssumption
    DEF StateTyped, At, Goto, Finish, Unlock, Moves, Mild, LockHeld, Kept, Holding, LockedSteps,
        CandidateSteps, SwitchSteps, UndoSteps, Local, Fresh, Listed
<1>1. LockHeld(p) /\ Kept(p) /\ ListsTrue
  BY DEF Sparing
<1>2. CASE UndoCurrent(p) \/ UndoBackup(p)
  <2>1. /\ UNCHANGED <<lock, cand, gens>> /\ pc[p] \in {"undoCurrent", "undoBackup"}
        /\ \A q \in Procs \ {p} : pc'[q] = pc[q] /\ local'[q] = local[q]
    BY <1>2 DEF UndoCurrent, UndoBackup
  <2>2. \/ pc'[p] = "undoBackup"
        \/ pc'[p] = "undoCandidate" /\ local[p].op = "publish"
        \/ pc'[p] = "record"
    BY <1>2 DEF UndoCurrent, UndoBackup
  <2>3. Same(local'[p], local[p])
    BY <1>2 DEF UndoCurrent, UndoBackup, Same
  <2> QED
    BY <1>1, <2>1, <2>2, <2>3 DEF ListsTrue, Same
<1>3. CASE UndoCandidate(p)
  BY <1>1, <1>3 DEF UndoCandidate, ListsTrue
<1>4. CASE UndoFinal(p)
  BY <1>1, <1>4 DEF UndoFinal, ListsTrue
<1>5. CASE UndoSync(p) \/ Record(p)
  BY <1>1, <1>5 DEF UndoSync, Record, ListsTrue
<1> QED
  BY <1>2, <1>3, <1>4, <1>5 DEF Undo

LEMMA RemovalMoves ==
  ASSUME StateTyped, Sparing, ListsApart, NEW p \in Procs, RestoreGate(p) \/ Removal(p)
  PROVE  Moves(p)
<1> USE NoneAssumption
    DEF StateTyped, At, Goto, Finish, Moves, Mild, LockHeld, Kept, Holding, LockedSteps,
        CandidateSteps, SwitchSteps, UndoSteps, Local, Fresh, Listed, diskVars
<1>1. LockHeld(p) /\ Kept(p) /\ ListsTrue
  BY DEF Sparing
<1>2. CASE RestoreGate(p)
  BY <1>1, <1>2 DEF RestoreGate, ListsTrue
<1>3. CASE PruneRead(p)
  BY <1>1, <1>3 DEF PruneRead, ListsTrue
<1>4. CASE PruneList(p)
  <2>1. \A q \in Procs \ {p} : ~Renamed(q) /\ local[q].doomed = {}
    BY <1>4 DEF ListsApart
  <2> QED
    BY <1>1, <1>4, <2>1 DEF PruneList
<1>5. CASE DiscardList(p)
  <2>1. \A q \in Procs \ {p} : ~Renamed(q) /\ local[q].doomed = {}
    BY <1>5 DEF ListsApart
  <2> QED
    BY <1>1, <1>5, <2>1 DEF DiscardList
<1>6. CASE \/ Unlink(p, "CURRENT", "unlinkCurrent", "unlinkBackup")
           \/ Unlink(p, "BACKUP", "unlinkBackup", "remove")
  BY <1>1, <1>6 DEF Unlink, ListsTrue
<1>7. CASE Remove(p)
  BY <1>1, <1>7 DEF Remove, ListsTrue
<1>8. CASE SyncRemoved(p)
  BY <1>1, <1>8 DEF SyncRemoved, ListsTrue
<1> QED
  BY <1>2, <1>3, <1>4, <1>5, <1>6, <1>7, <1>8 DEF Removal

\* A removal cut short leaves the directory there.
LEMMA FaultMoves ==
  ASSUME StateTyped, Sparing, NEW p \in Procs, Fail(p) \/ Crash(p)
  PROVE  Moves(p)
<1> USE NoneAssumption
    DEF StateTyped, At, Goto, Finish, Unlock, Mild, LockHeld, Kept, Holding, LockedSteps,
        CandidateSteps, SwitchSteps, UndoSteps, Local, Fresh
<1>1. LockHeld(p) /\ Kept(p) /\ ListsTrue
  BY DEF Sparing
<1>2. \A dirs \in HalfRemoved(p) : \A g \in Ids : dirs[g] = "absent" <=> gens[g] = "absent"
  BY DEF HalfRemoved, Gutted
<1>3. \A g \in Ids : gens'[g] = "absent" <=> gens[g] = "absent"
  BY <1>2 DEF Fail, Crash
<1>4. /\ UNCHANGED cand
      /\ \A q \in Procs \ {p} : pc'[q] = pc[q] /\ local'[q] = local[q] /\ (lock = q => lock' = q)
  BY DEF Fail, Crash, GiveUp
<1>5. \/ pc'[p] = "idle" /\ local'[p].doomed = {}
      \/ /\ pc'[p] = "undoCurrent" /\ local'[p] = local[p] /\ lock' = lock
         /\ pc[p] \in CandidateSteps \cup SwitchSteps \cup {"syncGens"}
  BY DEF Fail, Crash, GiveUp
<1>6. LockHeld(p)' /\ Kept(p)'
  BY <1>1, <1>3, <1>4, <1>5
<1>7. local'[p].doomed \subseteq local[p].doomed /\ local'[p].doomed \subseteq Listed'
  BY <1>1, <1>3, <1>5 DEF ListsTrue, Listed
<1> QED
  BY <1>3, <1>4, <1>6, <1>7 DEF Moves

LEMMA SparingStep ==
  ASSUME StateTyped, Sparing, [Next]_vars, [ListsApart]_vars
  PROVE  Sparing'
<1>1. ASSUME NEW p \in Procs, Begins(p) \/ Proceed(p) \/ Fail(p) \/ Crash(p), ListsApart
      PROVE  Sparing'
  BY <1>1, MovesSpare, BeginsMoves, PublicationMoves, SwitchMoves, UndoMoves, RemovalMoves,
     FaultMoves DEF Proceed
<1>2. CASE PowerLoss
  BY <1>2 DEF PowerLoss, Sparing, ListsTrue, LockHeld, Kept, Fresh, Holding, LockedSteps,
              CandidateSteps, SwitchSteps, UndoSteps
<1>3. CASE UNCHANGED vars
  BY <1>3 DEF vars, Sparing, ListsTrue, LockHeld, Kept, Listed
<1> QED
  BY <1>1, <1>2, <1>3 DEF Next

(***************************************************************************)
(* Any processes, operations, failures, deaths and power losses: a prune   *)
(* and a clean spare every generation that a publication is about to make  *)
(* CURRENT, if only they list what to remove apart (ListsApart).  What     *)
(* they remove afterwards, whatever is published meanwhile, and under ids  *)
(* that come back, is never one of these (rebuild.go, Run; backup.go,      *)
(* Prune).  Without either half of ListsApart it is false.                 *)
(***************************************************************************)
THEOREM ListingApartSpares == Spec /\ [][ListsApart]_vars => []PruneSparesPublications
<1>1. Init => Sparing
  BY DEF Init, Sparing, ListsTrue, LockHeld, Kept, Fresh, Holding, LockedSteps, CandidateSteps,
         SwitchSteps, UndoSteps
<1>2. Sparing => PruneSparesPublications
  BY DEF Sparing, Kept, PruneSparesPublications, Holding
<1>3. TypeOK => StateTyped
  BY DEF TypeOK
<1> QED
  BY <1>1, <1>2, <1>3, SparingStep, TypeCorrect, PTL DEF Spec

=============================================================================
