-------------------------- MODULE Operations_proofs ---------------------------
(***************************************************************************)
(* Theorems about the operations around a graph that users and servers     *)
(* start: the update of the bundle (BundleUpdate), the migration to        *)
(* profiles (ProfileLayout), the port of the daemon (DaemonEndpoint),      *)
(* following HEAD (Resync) and registering and indexing (ProjectIndexing). *)
(* They hold for any processes, bounds and circumstances.                  *)
(***************************************************************************)
EXTENDS BundleUpdate, ProfileLayout, DaemonEndpoint, ProjectIndexing, Resync,
        FiniteSetTheorems, TLAPS

-----------------------------------------------------------------------------
(* The update of the bundle. *)

UpdaterStages == {"idle", "staged", "clearing", "cleared", "moved", "removing", "undoing",
                  "restoring"}

\* No trouble is given back.
UpdateTyped ==
  /\ UpdateTypeOK
  /\ \A trouble \in {"failures", "deaths"} : updateBudget[trouble] <= updateSetting[trouble]

Swapping == {"moved", "undoing", "restoring"}

\* When nothing goes wrong the only bundle not under its name is the one that
\* a single process has moved aside, and only the backup is ever torn.
QuietUpdates ==
  /\ \A u \in Updaters : updater[u] \notin {"undoing", "restoring"}
  /\ \A u, v \in Updaters : Midway(u) /\ Midway(v) => u = v
  /\ installed = IF \E u \in Updaters : Midway(u) THEN "none" ELSE "whole"

\* One update at a time: the process that swaps has the old bundle beside it,
\* and it takes a death or a second failure for it to stay there.
LoneUpdate ==
  /\ \A u, v \in Updaters : ~UpdaterAt(u, "idle") /\ ~UpdaterAt(v, "idle") => u = v
  /\ \A u \in Updaters :
       /\ updater[u] \in {"staged", "clearing", "cleared", "removing"} => installed = "whole"
       /\ updater[u] \in Swapping => installed = "none" /\ previous = "whole"
       /\ updater[u] \in {"undoing", "restoring"} => Happened("failures") >= 1
  /\ (\A u \in Updaters : UpdaterAt(u, "idle")) =>
       \/ installed = "whole"
       \/ previous = "whole" /\ (Happened("deaths") >= 1 \/ Happened("failures") >= 2)

BundleKept ==
  /\ Untroubled => QuietUpdates
  /\ ~updateSetting.rivals => LoneUpdate

LEMMA UpdateInitKept == UpdateInit => UpdateTyped /\ BundleKept
<1> SUFFICES ASSUME UpdateInit PROVE UpdateTyped /\ BundleKept
  OBVIOUS
<1> USE DEF UpdateInit
<1>1. updateSetting \in UpdateSetting
  BY UpdateSettingsAssumption
<1>2. UpdateTyped
  BY <1>1 DEF UpdateTyped, UpdateTypeOK, UpdateSetting, Bundles
<1>3. BundleKept
  BY DEF BundleKept, QuietUpdates, LoneUpdate, Midway, UpdaterAt, Swapping
<1> QED
  BY <1>2, <1>3

LEMMA UpdateTypedStep == UpdateTyped /\ [UpdateNext]_updateVars => UpdateTyped'
<1> SUFFICES ASSUME UpdateTyped, [UpdateNext]_updateVars PROVE UpdateTyped'
  OBVIOUS
<1> USE DEF UpdateTyped, UpdateTypeOK, Bundles, UpdaterAt, Reaches, Take
<1>a. updateSetting \in UpdateSetting
  BY UpdateSettingsAssumption
<1> USE <1>a DEF UpdateSetting
<1>1. CASE UNCHANGED updateVars
  BY <1>1 DEF updateVars
<1>2. ASSUME NEW u \in Updaters, Stage(u) \/ InspectBackup(u) PROVE UpdateTyped'
  BY <1>2 DEF Stage, InspectBackup
<1>3. ASSUME NEW u \in Updaters, RemoveBackup(u) \/ RemoveBackupFails(u) PROVE UpdateTyped'
  BY <1>3 DEF RemoveBackup, RemoveBackupFails
<1>4. ASSUME NEW u \in Updaters, MoveAside(u) PROVE UpdateTyped'
  BY <1>4 DEF MoveAside
<1>5. ASSUME NEW u \in Updaters, Place(u) \/ UndoPlace(u) PROVE UpdateTyped'
  BY <1>5 DEF Place, UndoPlace
<1>6. ASSUME NEW u \in Updaters, RestorePrevious(u) \/ UpdaterDies(u) PROVE UpdateTyped'
  BY <1>6 DEF RestorePrevious, UpdaterDies
<1> QED
  BY <1>1, <1>2, <1>3, <1>4, <1>5, <1>6 DEF UpdateNext, UpdateStep

\* What has happened only ever grows.
LEMMA TroubleGrows ==
  ASSUME UpdateTyped, UpdateTyped', [UpdateNext]_updateVars
  PROVE  /\ UNCHANGED updateSetting
         /\ \A trouble \in {"failures", "deaths"} :
              Happened(trouble) \in Nat /\ Happened(trouble)' \in Nat
              /\ Happened(trouble) <= Happened(trouble)'
<1> USE DEF UpdateTyped, UpdateTypeOK, Take
<1>a. updateSetting \in UpdateSetting /\ updateSetting' \in UpdateSetting
  BY UpdateSettingsAssumption
<1>1. /\ UNCHANGED updateSetting
      /\ \/ UNCHANGED updateBudget
         \/ \E trouble \in {"updates", "failures", "deaths"} :
              updateBudget' = [updateBudget EXCEPT ![trouble] = @ - 1]
  <2>1. CASE UNCHANGED updateVars
    BY <2>1 DEF updateVars
  <2>2. ASSUME NEW u \in Updaters, UpdateStep(u)
        PROVE  /\ UNCHANGED updateSetting
               /\ \/ UNCHANGED updateBudget
                  \/ \E trouble \in {"updates", "failures", "deaths"} :
                       updateBudget' = [updateBudget EXCEPT ![trouble] = @ - 1]
    <3>1. CASE Stage(u) \/ InspectBackup(u) \/ RemoveBackup(u) \/ RemoveBackupFails(u)
      BY <3>1 DEF Stage, InspectBackup, RemoveBackup, RemoveBackupFails
    <3>2. CASE MoveAside(u) \/ Place(u) \/ UndoPlace(u) \/ RestorePrevious(u) \/ UpdaterDies(u)
      BY <3>2 DEF MoveAside, Place, UndoPlace, RestorePrevious, UpdaterDies
    <3> QED
      BY <2>2, <3>1, <3>2 DEF UpdateStep
  <2> QED
    BY <2>1, <2>2 DEF UpdateNext
<1>2. \A trouble \in {"failures", "deaths"} :
        /\ updateBudget[trouble] \in Nat /\ updateBudget'[trouble] \in Nat
        /\ updateSetting[trouble] \in Nat
        /\ updateBudget'[trouble] <= updateBudget[trouble]
  BY <1>a, <1>1 DEF UpdateSetting
<1> QED
  BY <1>1, <1>2 DEF Happened

LEMMA QuietUpdatesStep ==
  ASSUME UpdateTyped, UpdateTyped', Untroubled => QuietUpdates, [UpdateNext]_updateVars, Untroubled'
  PROVE  QuietUpdates'
<1> USE DEF UpdaterAt, Reaches, Midway, QuietUpdates
<1>a. updater \in [Updaters -> UpdaterStages]
  BY DEF UpdateTyped, UpdateTypeOK, UpdaterStages
<1>b. /\ Untroubled
      /\ Happened("failures")' = Happened("failures") /\ Happened("deaths")' = Happened("deaths")
  BY TroubleGrows DEF Untroubled
<1>c. QuietUpdates
  BY <1>b
<1>d. ~Take("failures") /\ ~Take("deaths")
  BY <1>b, TroubleGrows, UpdateSettingsAssumption
  DEF Take, Happened, UpdateTyped, UpdateTypeOK, UpdateSetting
<1>1. CASE UNCHANGED updateVars
  BY <1>1, <1>c DEF updateVars
<1>2. ASSUME NEW u \in Updaters, Stage(u) \/ InspectBackup(u) \/ RemoveBackup(u)
      PROVE  QuietUpdates'
  BY <1>2, <1>a, <1>c DEF Stage, InspectBackup, RemoveBackup
<1>3. ASSUME NEW u \in Updaters, MoveAside(u) PROVE QuietUpdates'
  BY <1>3, <1>a, <1>c, <1>d DEF MoveAside
<1>4. ASSUME NEW u \in Updaters, Place(u) PROVE QuietUpdates'
  BY <1>4, <1>a, <1>c, <1>d DEF Place
<1>5. ASSUME NEW u \in Updaters PROVE ~UndoPlace(u) /\ ~RestorePrevious(u)
  BY <1>c DEF UndoPlace, RestorePrevious
<1>6. ASSUME NEW u \in Updaters PROVE ~RemoveBackupFails(u) /\ ~UpdaterDies(u)
  BY <1>d DEF RemoveBackupFails, UpdaterDies
<1> QED
  BY <1>1, <1>2, <1>3, <1>4, <1>5, <1>6 DEF UpdateNext, UpdateStep

LEMMA LoneUpdateStep ==
  ASSUME UpdateTyped, UpdateTyped', ~updateSetting.rivals, LoneUpdate, [UpdateNext]_updateVars
  PROVE  LoneUpdate'
<1> USE DEF UpdaterAt, Reaches, LoneUpdate, Swapping
<1>a. updater \in [Updaters -> UpdaterStages]
  BY DEF UpdateTyped, UpdateTypeOK, UpdaterStages
<1>b. \A trouble \in {"failures", "deaths"} :
        Happened(trouble) \in Nat /\ Happened(trouble)' \in Nat
        /\ Happened(trouble) <= Happened(trouble)'
  BY TroubleGrows
<1>c. \A trouble \in {"failures", "deaths"} :
        Take(trouble) => Happened(trouble)' = Happened(trouble) + 1
  BY TroubleGrows, UpdateSettingsAssumption
  DEF Take, Happened, UpdateTyped, UpdateTypeOK, UpdateSetting
<1>1. CASE UNCHANGED updateVars
  BY <1>1 DEF updateVars, Happened
<1>2. ASSUME NEW u \in Updaters, UpdateStep(u)
      PROVE  LoneUpdate'
  <2>1. \A v \in Updaters \ {u} : updater'[v] = updater[v]
    BY <1>2, <1>a DEF UpdateStep, Stage, InspectBackup, RemoveBackup, RemoveBackupFails, MoveAside,
       Place, UndoPlace, RestorePrevious, UpdaterDies
  <2>2. CASE Stage(u)
    BY <2>2, <1>a, <1>b DEF Stage
  <2> SUFFICES ASSUME ~Stage(u) PROVE LoneUpdate'
    BY <2>2
  <2>3. updater[u] # "idle"
    BY <1>2 DEF UpdateStep, InspectBackup, RemoveBackup, RemoveBackupFails, MoveAside,
       Place, UndoPlace, RestorePrevious, UpdaterDies
  <2>4. \A v \in Updaters \ {u} : updater[v] = "idle" /\ updater'[v] = "idle"
    BY <2>1, <2>3
  <2> SUFFICES /\ updater'[u] \in {"staged", "clearing", "cleared", "removing"} =>
                    installed' = "whole"
               /\ updater'[u] \in Swapping => installed' = "none" /\ previous' = "whole"
               /\ updater'[u] \in {"undoing", "restoring"} => Happened("failures")' >= 1
               /\ updater'[u] = "idle" =>
                    \/ installed' = "whole"
                    \/ previous' = "whole"
                       /\ (Happened("deaths")' >= 1 \/ Happened("failures")' >= 2)
    BY <2>4
  <2>5. CASE InspectBackup(u) \/ RemoveBackup(u) \/ RemoveBackupFails(u)
    BY <2>5, <1>a DEF InspectBackup, RemoveBackup, RemoveBackupFails
  <2>6. CASE MoveAside(u)
    BY <2>6, <1>a DEF MoveAside
  <2>7. CASE Place(u)
    BY <2>7, <1>a, <1>b, <1>c DEF Place
  <2>8. CASE UndoPlace(u)
    BY <2>8, <1>a, <1>b DEF UndoPlace
  <2>9. CASE RestorePrevious(u)
    BY <2>9, <1>a, <1>b, <1>c DEF RestorePrevious
  <2>10. CASE UpdaterDies(u)
    BY <2>10, <1>a, <1>b, <1>c DEF UpdaterDies, UpdaterStages
  <2> QED
    BY <1>2, <2>5, <2>6, <2>7, <2>8, <2>9, <2>10 DEF UpdateStep
<1> QED
  BY <1>1, <1>2 DEF UpdateNext

(***************************************************************************)
(* However many updates, failures and deaths there are: one update at a    *)
(* time always leaves a whole bundle somewhere, under its name unless a    *)
(* death or two failures kept it from going back; and updates that overlap *)
(* do not lose it as long as nothing goes wrong (update.go,                *)
(* replaceBundle).                                                         *)
(***************************************************************************)
THEOREM UpdateKeepsABundle == UpdateSpec => []BundleSurvives
<1>1. UpdateTyped /\ BundleKept /\ [UpdateNext]_updateVars => BundleKept'
  <2> SUFFICES ASSUME UpdateTyped, BundleKept, [UpdateNext]_updateVars PROVE BundleKept'
    OBVIOUS
  <2>1. UpdateTyped' /\ UNCHANGED updateSetting
    BY UpdateTypedStep, TroubleGrows
  <2> QED
    BY <2>1, QuietUpdatesStep, LoneUpdateStep DEF BundleKept
<1>2. UpdateTyped /\ BundleKept => BundleSurvives
  <2> SUFFICES ASSUME UpdateTyped, BundleKept PROVE BundleSurvives
    OBVIOUS
  <2> USE DEF UpdaterAt, Midway
  <2>1. \A trouble \in {"failures", "deaths"} : Happened(trouble) \in Nat
    BY UpdateSettingsAssumption DEF Happened, UpdateTyped, UpdateTypeOK, UpdateSetting
  <2>2. CASE Untroubled
    BY <2>1, <2>2 DEF BundleKept, QuietUpdates, LoneUpdate, BundleSurvives
  <2>3. CASE ~Untroubled /\ ~updateSetting.rivals
    <3>1. CASE \A u \in Updaters : updater[u] = "idle"
      BY <2>1, <2>3, <3>1 DEF BundleKept, LoneUpdate, BundleSurvives
    <3>2. ASSUME NEW u \in Updaters, updater[u] # "idle" PROVE BundleSurvives
      BY <2>3, <3>2 DEF BundleKept, LoneUpdate, BundleSurvives, UpdateTyped, UpdateTypeOK, Swapping
    <3> QED
      BY <3>1, <3>2
  <2>4. CASE ~Untroubled /\ updateSetting.rivals
    BY <2>1, <2>4 DEF BundleSurvives, Untroubled
  <2> QED
    BY <2>2, <2>3, <2>4
<1> QED
  BY <1>1, <1>2, UpdateInitKept, UpdateTypedStep, PTL DEF UpdateSpec

\* Every reachable state of the updaters is well typed: a bundle is whole, torn
\* or missing, and an updater at one of the steps of replaceBundle (update.go).
THEOREM BundlesTyped == UpdateSpec => []UpdateTypeOK
<1>1. UpdateTyped => UpdateTypeOK
  BY DEF UpdateTyped
<1> QED
  BY <1>1, UpdateInitKept, UpdateTypedStep, PTL DEF UpdateSpec

-----------------------------------------------------------------------------
(* The migration to profiles. *)

ProfileShape ==
  /\ profileSetting \in ProfileSettings
  /\ legacy \in RegistryContents
  /\ directory \in [Profiles -> RegistryContents \cup {Missing, Bare}]
  /\ kept \in RegistryContents \cup {Missing}
  /\ pointer \in Profiles
  /\ command \in [Clients -> CommandType]
  /\ registered \in [Profiles -> RegistryContents]
  /\ profileBudget \in [{"commands", "edits", "failures", "deaths"} -> Nat]

\* What is about to be published is what was kept.
CopyIsKept == \A c \in Clients : CommandAt(c, "backed") => kept = command[c].copy

Migration == ProfileShape /\ CopyIsKept

LEMMA NoCommandTyped == NoCommand \in CommandType
BY ProfilesAssumption DEF NoCommand, CommandType, Stages, CommandKinds, RegistryContents

LEMMA ProfileInitShape == ProfileInit => Migration
<1> SUFFICES ASSUME ProfileInit PROVE Migration
  OBVIOUS
<1> USE DEF ProfileInit
<1>1. profileSetting \in ProfileSetting
  BY ProfileSettingsAssumption
<1>2. profileBudget \in [{"commands", "edits", "failures", "deaths"} -> Nat]
  BY <1>1 DEF ProfileSetting
<1>3. registered \in [Profiles -> RegistryContents]
  BY DEF RegistryContents
<1>4. ProfileShape
  BY <1>2, <1>3, NoCommandTyped, ProfilesAssumption DEF ProfileShape
<1>5. CopyIsKept
  BY DEF CopyIsKept, CommandAt, NoCommand
<1> QED
  BY <1>4, <1>5 DEF Migration

\* A command takes a step: only the one that has copied keeps a backup.
LEMMA CommandStepShape ==
  ASSUME Migration, NEW c \in Clients, CommandStep(c)
  PROVE  Migration'
<1> USE NoCommandTyped
    DEF Migration, ProfileShape, CopyIsKept, CommandAt, Advance, Ends, Name, Default, FilesOnly,
        NoFile, DirectoryBecomes, SpendProfile
<1>a. /\ command[c] \in CommandType
      /\ \A p \in Present : directory[p] \in RegistryContents
  BY DEF Present
<1>b. NoCommand.stage = "idle"
  BY DEF NoCommand
<1> USE <1>a, <1>b DEF CommandType
<1>1. CASE ReadAgain(c) \/ ListPresent(c)
  BY <1>1 DEF ReadAgain, ListPresent, Present, Stages
<1>2. CASE Resolve(c)
  BY <1>2 DEF Resolve, Stages
<1>3. CASE KeepBackup(c)
  <2>1. /\ \/ /\ command' = [command EXCEPT ![c].stage = "backed"]
              /\ kept \in {Missing, command[c].copy} /\ kept' = command[c].copy
           \/ command' = [command EXCEPT ![c] = NoCommand] /\ UNCHANGED kept
        /\ UNCHANGED <<profileSetting, legacy, directory, pointer, registered, profileBudget>>
    BY <1>3 DEF KeepBackup
  <2>2. ProfileShape'
    BY <2>1 DEF Stages
  <2>3. ASSUME NEW d \in Clients \ {c}, command[d].stage = "backed"
        PROVE  command'[d] = command[d] /\ kept' = kept
    <3>1. kept = command[d].copy /\ command[d] \in CommandType
      BY <2>3
    <3>2. kept # Missing
      BY <3>1, ProfilesAssumption DEF RegistryContents
    <3> QED
      BY <2>1, <2>3, <3>2
  <2>4. CopyIsKept'
    BY <2>1, <2>3
  <2> QED
    BY <2>2, <2>4
<1>4. CASE PublishDefault(c)
  BY <1>4 DEF PublishDefault, Stages
<1>5. CASE LoadRegistry(c)
  <2>1. PICK alone \in BOOLEAN :
          /\ alone <=> command[c].listed = {command[c].default} /\ command[c].name = command[c].default
          /\ IF alone \/ command[c].name \in Present
             THEN command' = [command EXCEPT ![c].stage = "registering", ![c].onLegacy = alone,
                                ![c].copy = IF alone THEN legacy ELSE directory[command[c].name]]
             ELSE command' = [command EXCEPT ![c] = NoCommand]
    BY <1>5, Zenon DEF LoadRegistry
  <2>2. command' \in [Clients -> CommandType] /\ command'[c].stage # "backed"
    BY <2>1 DEF Stages
  <2>3. \A d \in Clients \ {c} : command'[d] = command[d]
    BY <2>1
  <2> QED
    BY <1>5, <2>2, <2>3 DEF LoadRegistry
<1>6. CASE LoadLegacy(c)
  BY <1>6 DEF LoadLegacy, Stages
<1>7. ASSUME NEW e \in Members, SaveMember(c, e) PROVE Migration'
  BY <1>7 DEF SaveMember, RegistryContents
<1>8. CASE SaveFails(c)
  BY <1>8 DEF SaveFails
<1>9. CASE Adopt(c)
  BY <1>9 DEF Adopt, Stages
<1>10. CASE ClaimName(c) \/ MakeDirectory(c)
  BY <1>10 DEF ClaimName, MakeDirectory, Stages
<1>11. CASE SaveEmptyRegistry(c)
  BY <1>11 DEF SaveEmptyRegistry, RegistryContents
<1>12. CASE MovePointer(c) \/ AcceptRemoval(c)
  BY <1>12 DEF MovePointer, AcceptRemoval, Stages
<1>13. CASE RemoveState(c)
  BY <1>13 DEF RemoveState, RegistryContents
<1> QED
  BY <1>1, <1>2, <1>3, <1>4, <1>5, <1>6, <1>7, <1>8, <1>9, <1>10, <1>11, <1>12, <1>13
  DEF CommandStep

LEMMA MigrationStep == Migration /\ [ProfileNext]_profileVars => Migration'
<1> SUFFICES ASSUME Migration, [ProfileNext]_profileVars PROVE Migration'
  OBVIOUS
<1> USE NoCommandTyped
    DEF Migration, ProfileShape, CopyIsKept, CommandAt, Ends, FilesOnly, NoFile, SpendProfile
<1>1. CASE UNCHANGED profileVars
  BY <1>1 DEF profileVars
<1>2. ASSUME NEW c \in Clients, NEW kind \in CommandKinds, NEW name \in Profiles,
             StartCommand(c, kind, name)
      PROVE  Migration'
  <2>1. PICK new \in CommandType : /\ command' = [command EXCEPT ![c] = new]
                                   /\ new.stage # "backed"
    <3>1. [NoCommand EXCEPT !.stage = IF kind = "create" THEN "config" ELSE "resolving",
                            !.kind = kind, !.name = name, !.default = pointer,
                            !.adopted = pointer] \in CommandType
      BY DEF NoCommand, CommandType, Stages, RegistryContents
    <3> QED
      BY <1>2, <3>1 DEF StartCommand, NoCommand
  <2> QED
    BY <1>2, <2>1 DEF StartCommand
<1>3. ASSUME NEW c \in Clients, NEW name \in Profiles, StartUse(c, name) PROVE Migration'
  <2>1. PICK new \in CommandType : /\ command' = [command EXCEPT ![c] = new]
                                   /\ new.stage # "backed"
    <3>1. [NoCommand EXCEPT !.stage = "pointing", !.kind = "use", !.name = name] \in CommandType
      BY ProfilesAssumption DEF NoCommand, CommandType, Stages, CommandKinds, RegistryContents
    <3> QED
      BY <1>3, <3>1 DEF StartUse, NoCommand
  <2> QED
    BY <1>3, <2>1 DEF StartUse
<1>4. ASSUME NEW c \in Clients, CommandDies(c) PROVE Migration'
  BY <1>4 DEF CommandDies, NoCommand
<1>5. ASSUME NEW content \in RegistryContents, EditByHand(content) PROVE Migration'
  BY <1>5 DEF EditByHand
<1> QED
  BY <1>1, <1>2, <1>3, <1>4, <1>5, CommandStepShape DEF ProfileNext

(***************************************************************************)
(* An installation older than profiles is migrated once, and to what was   *)
(* kept of it, with any number of commands that start together, die on the *)
(* way or come after the registry was edited (profiles.go:53-55).          *)
(***************************************************************************)
THEOREM MigrationIsWhole == ProfileSpec => UpgradeIsWhole
<1> DEFINE Whole ==
      /\ kept # Missing => kept' = kept
      /\ \A p \in Profiles :
           directory[p] = Missing /\ directory'[p] \notin {Missing, Bare} => directory'[p] = kept
<1>1. Migration /\ [ProfileNext]_profileVars => [Whole]_profileVars
  <2> SUFFICES ASSUME Migration, ProfileNext PROVE Whole
    OBVIOUS
  <2> USE DEF Migration, ProfileShape, CommandAt, Advance, Ends, Name, Default, FilesOnly,
              NoFile, DirectoryBecomes
  <2>1. CASE UNCHANGED <<directory, kept>>
    BY <2>1
  <2>2. ASSUME NEW c \in Clients, KeepBackup(c) PROVE Whole
    BY <2>2 DEF KeepBackup
  <2>3. ASSUME NEW c \in Clients, PublishDefault(c) PROVE Whole
    BY <2>3 DEF PublishDefault, CopyIsKept, CommandType
  <2>4. ASSUME NEW c \in Clients, NEW e \in Members, SaveMember(c, e) PROVE Whole
    BY <2>4 DEF SaveMember, CommandType
  <2>5. ASSUME NEW c \in Clients, Adopt(c) PROVE Whole
    BY <2>5 DEF Adopt, CommandType
  <2>6. ASSUME NEW c \in Clients, MakeDirectory(c) \/ SaveEmptyRegistry(c) \/ RemoveState(c)
        PROVE  Whole
    BY <2>6 DEF MakeDirectory, SaveEmptyRegistry, RemoveState, CommandType
  <2>7. ASSUME NEW c \in Clients, CommandStep(c) PROVE Whole
    <3>1. CASE \/ ReadAgain(c) \/ Resolve(c) \/ ListPresent(c) \/ LoadRegistry(c)
               \/ LoadLegacy(c) \/ SaveFails(c) \/ ClaimName(c) \/ MovePointer(c)
               \/ AcceptRemoval(c)
      BY <2>1, <3>1 DEF ReadAgain, Resolve, ListPresent, LoadRegistry, LoadLegacy, SaveFails,
         ClaimName, MovePointer, AcceptRemoval
    <3> QED
      BY <2>2, <2>3, <2>4, <2>5, <2>6, <2>7, <3>1 DEF CommandStep
  <2>8. ASSUME NEW c \in Clients, NEW kind \in CommandKinds, NEW name \in Profiles,
               StartCommand(c, kind, name)
        PROVE  UNCHANGED <<directory, kept>>
    BY <2>8 DEF StartCommand
  <2>9. ASSUME NEW c \in Clients, NEW name \in Profiles, StartUse(c, name)
        PROVE  UNCHANGED <<directory, kept>>
    BY <2>9 DEF StartUse
  <2>10. ASSUME NEW c \in Clients, CommandDies(c) PROVE UNCHANGED <<directory, kept>>
    BY <2>10 DEF CommandDies
  <2>11. ASSUME NEW content \in RegistryContents, EditByHand(content)
         PROVE  UNCHANGED <<directory, kept>>
    BY <2>11 DEF EditByHand
  <2> QED
    BY <2>1, <2>7, <2>8, <2>9, <2>10, <2>11 DEF ProfileNext
<1> QED
  BY <1>1, ProfileInitShape, MigrationStep, PTL DEF ProfileSpec, UpgradeIsWhole

\* Every reachable state of the profiles on disk is well typed: a profile has a
\* registry, a bare directory or none, whatever commands died (profiles.go).
THEOREM ProfilesTyped == ProfileSpec => []ProfileTypeOK
<1>1. Migration => ProfileTypeOK
  BY DEF Migration, ProfileShape, ProfileTypeOK, Present
<1> QED
  BY <1>1, ProfileInitShape, MigrationStep, PTL DEF ProfileSpec

-----------------------------------------------------------------------------
(* Commands that come one after another keep every profile's registry. *)

\* One command at a time, none of which takes the last profile beside the
\* default or, once there can be two, registers with init: each of these lets a
\* registry be forgotten.
InTurn ==
  /\ ~profileSetting.together /\ ~profileSetting.shrinks
  /\ ~({"init", "create"} \subseteq profileSetting.kinds)

\* The legacy registry stands for the default profile while that is alone, and
\* the directories speak for themselves from then on.
LayoutSound ==
  /\ Present # {} => pointer \in Present
  /\ Present \subseteq {pointer} => legacy = registered[pointer]
  /\ ~(Present \subseteq {pointer}) => \A p \in Present : directory[p] = registered[p]
  /\ "create" \notin profileSetting.kinds => Present \subseteq {pointer}

\* What a command under way has read still holds, and what it will do is safe.
CommandSound(c) ==
  LET m == command[c]
  IN  /\ m.stage # "idle" => /\ m.kind \in profileSetting.kinds
                             /\ m.kind = "init" => m.name = pointer
      /\ m.stage = "pointing" => m.name \in Present
      /\ m.stage \notin {"idle", "pointing"} => m.default = pointer /\ m.adopted = pointer
      /\ m.stage \in {"copied", "backed"} => Present = {}
      /\ m.stage \in {"listing", "listed", "registering", "adopted", "claimed", "made",
                      "removing"} => pointer \in Present
      /\ m.stage = "listed" => m.listed = Present
      /\ m.stage = "registering" =>
           IF m.onLegacy THEN Present = {pointer} /\ m.name = pointer /\ m.copy = legacy
           ELSE /\ m.name \in Present /\ ~(Present \subseteq {pointer})
                /\ m.copy = directory[m.name]
      /\ m.stage \in {"adopted", "claimed", "made"} =>
           /\ m.kind = "create"
           /\ Present = {pointer} => directory[pointer] = registered[pointer]
      /\ m.stage = "claimed" => directory[m.name] = Missing
      /\ m.stage = "made" => m.name \notin Present
      /\ m.stage = "removing" => /\ m.name # pointer
                                 /\ \E q \in Present : q \notin {m.name, pointer}

TurnsSound ==
  /\ \A c, d \in Clients : command[c].stage # "idle" /\ command[d].stage # "idle" => c = d
  /\ LayoutSound
  /\ \A c \in Clients : CommandSound(c)

TurnsKept == Migration /\ (InTurn => TurnsSound)

LEMMA IdleSound ==
  ASSUME NEW c \in Clients, command[c].stage = "idle"
  PROVE  CommandSound(c)
BY DEF CommandSound

LEMMA MoreThanTwo ==
  ASSUME NEW S, NEW a, NEW b, Cardinality(S) > 2
  PROVE  \E q \in S : q \notin {a, b}
<1> SUFFICES ASSUME S \subseteq {a, b} PROVE FALSE
  OBVIOUS
<1>1. IsFiniteSet({a, b}) /\ Cardinality({a, b}) <= 2
  <2>1. IsFiniteSet({a}) /\ Cardinality({a}) = 1
    BY FS_Singleton
  <2>2. IsFiniteSet({a} \cup {b}) /\ Cardinality({a} \cup {b}) <= 2
    BY <2>1, FS_AddElement
  <2>3. {a} \cup {b} = {a, b}
    OBVIOUS
  <2> QED
    BY <2>2, <2>3
<1>2. /\ IsFiniteSet(S) /\ Cardinality(S) <= Cardinality({a, b})
      /\ Cardinality({a, b}) \in Nat
  BY <1>1, FS_Subset, FS_CardinalityType
<1>3. Cardinality(S) \in Nat
  BY <1>2, FS_CardinalityType
<1> QED
  BY <1>1, <1>2, <1>3

LEMMA OnlyOne ==
  ASSUME NEW S, IsFiniteSet(S), NEW a \in S
  PROVE  Cardinality(S) = 1 <=> S = {a}
<1>1. ASSUME S = {a} PROVE Cardinality(S) = 1
  BY <1>1, FS_Singleton
<1>2. ASSUME Cardinality(S) = 1 PROVE S = {a}
  <2>1. PICK b : S = {b}
    BY <1>2, FS_Singleton
  <2> QED
    BY <2>1
<1> QED
  BY <1>1, <1>2

LEMMA TurnsKeptInit == ProfileInit => TurnsKept
<1> SUFFICES ASSUME ProfileInit PROVE TurnsSound
  BY ProfileInitShape DEF TurnsKept
<1>1. Present = {} /\ legacy = registered[pointer]
  BY ProfilesAssumption DEF ProfileInit, Present
<1>2. \A c \in Clients : command[c].stage = "idle"
  BY DEF ProfileInit, NoCommand
<1> QED
  BY <1>1, <1>2, IdleSound DEF TurnsSound, LayoutSound

\* A command takes a step, the others being idle.
LEMMA OneCommand ==
  ASSUME TurnsSound, NEW c \in Clients, command[c].stage # "idle", command \in [Clients -> CommandType],
         \E new : command' = [command EXCEPT ![c] = new],
         LayoutSound', CommandSound(c)'
  PROVE  TurnsSound'
<1>1. \A d \in Clients \ {c} : command[d].stage = "idle" /\ command'[d] = command[d]
  BY DEF TurnsSound
<1>2. \A d \in Clients \ {c} : CommandSound(d)'
  BY <1>1 DEF CommandSound
<1> QED
  BY <1>1, <1>2 DEF TurnsSound

\* A command that only reads.
LEMMA ReadingSound ==
  ASSUME TurnsSound, Migration, NEW c \in Clients,
         ReadAgain(c) \/ Resolve(c) \/ ListPresent(c) \/ LoadRegistry(c) \/ LoadLegacy(c)
         \/ ClaimName(c) \/ AcceptRemoval(c), InTurn
  PROVE  TurnsSound'
<1> DEFINE m == command[c]
           new == command'[c]
<1>a. /\ command \in [Clients -> CommandType] /\ m \in CommandType /\ CommandSound(c) /\ LayoutSound
      /\ directory \in [Profiles -> RegistryContents \cup {Missing, Bare}] /\ pointer \in Profiles
  BY DEF TurnsSound, Migration, ProfileShape
<1>b. UNCHANGED <<profileSetting, legacy, directory, pointer, registered>> /\ m.stage # "idle"
  BY DEF ReadAgain, Resolve, ListPresent, LoadRegistry, LoadLegacy, ClaimName, AcceptRemoval,
     CommandAt, FilesOnly, NoFile
<1>c. Present' = Present /\ LayoutSound'
  BY <1>a, <1>b DEF Present, LayoutSound
<1>d. \E some : command' = [command EXCEPT ![c] = some]
  <2>1. \A stage : Advance(c, stage) =>
          command' = [command EXCEPT ![c] = [m EXCEPT !.stage = stage]]
    BY <1>a DEF Advance
  <2>2. CASE Resolve(c) \/ ListPresent(c) \/ ClaimName(c) \/ AcceptRemoval(c)
    BY <1>a, <2>1, <2>2 DEF Resolve, ListPresent, ClaimName, AcceptRemoval, Ends
  <2>3. CASE ReadAgain(c) \/ LoadLegacy(c)
    BY <1>a, <2>3 DEF ReadAgain, LoadLegacy
  <2>4. CASE LoadRegistry(c)
    BY <1>a, <2>4 DEF LoadRegistry, Ends
  <2> QED
    BY <2>2, <2>3, <2>4
<1>1. CASE new.stage = "idle"
  <2>1. CommandSound(c)'
    BY <1>1 DEF CommandSound
  <2> QED
    BY <1>a, <1>b, <1>c, <1>d, <2>1, OneCommand
<1>2. CASE new.stage # "idle"
  <2>n. NoCommand.stage = "idle"
    BY DEF NoCommand
  <2>m. command'[c] = NoCommand => FALSE
    BY <1>2, <2>n
  <2>1. CASE ReadAgain(c)
    <3>1. new.stage = "resolving" /\ new.default = pointer /\ new.adopted = m.adopted
          /\ new.kind = m.kind /\ new.name = m.name /\ m.stage = "config"
      BY <1>a, <2>1 DEF ReadAgain, CommandAt, CommandType
    <3>2. CommandSound(c)'
      BY <1>a, <1>b, <1>c, <3>1 DEF CommandSound
    <3> QED
      BY <1>a, <1>b, <1>c, <1>d, <3>2, OneCommand
  <2>2. CASE Resolve(c)
    <3>1. /\ m.stage = "resolving" /\ m.default = pointer /\ m.adopted = pointer
          /\ new.default = m.default /\ new.adopted = m.adopted /\ new.kind = m.kind
          /\ new.name = m.name
          /\ \/ new.stage = "listing" /\ pointer \in Present
             \/ new.stage = "copied" /\ Present = {}
      BY <1>a, <2>m, <2>2 DEF Resolve, CommandAt, CommandType, Advance, Default, Ends, CommandSound
    <3>2. CommandSound(c)'
      BY <1>a, <1>b, <1>c, <3>1 DEF CommandSound
    <3> QED
      BY <1>a, <1>b, <1>c, <1>d, <3>2, OneCommand
  <2>3. CASE ListPresent(c)
    <3>1. /\ m.stage = "listing" /\ new.stage = "listed" /\ new.listed = Present
          /\ new.default = m.default /\ new.adopted = m.adopted /\ new.kind = m.kind
          /\ new.name = m.name
      BY <1>a, <2>m, <2>3 DEF ListPresent, CommandAt, CommandType, Ends
    <3>2. CommandSound(c)'
      BY <1>a, <1>b, <1>c, <3>1 DEF CommandSound
    <3> QED
      BY <1>a, <1>b, <1>c, <1>d, <3>2, OneCommand
  <2>4. CASE LoadRegistry(c)
    <3>1. PICK alone \in BOOLEAN :
            /\ alone <=> (m.listed = {m.default} /\ m.name = m.default)
            /\ alone \/ m.name \in Present
            /\ command' = [command EXCEPT ![c].stage = "registering", ![c].onLegacy = alone,
                             ![c].copy = IF alone THEN legacy ELSE directory[m.name]]
      BY <1>a, <2>m, <2>4, Zenon DEF LoadRegistry, Default, Name, Ends
    <3>2. PICK copy : copy = IF alone THEN legacy ELSE directory[m.name]
      OBVIOUS
    <3>3. /\ m.stage = "listed" /\ new.stage = "registering" /\ new.onLegacy = alone
          /\ new.copy = copy /\ new.default = m.default /\ new.adopted = m.adopted
          /\ new.kind = m.kind /\ new.name = m.name
      BY <1>a, <2>4, <3>1, <3>2 DEF LoadRegistry, CommandAt, CommandType
    <3>4. /\ pointer \in Present /\ m.listed = Present /\ m.default = pointer
          /\ m.adopted = pointer /\ m.kind \in profileSetting.kinds
          /\ m.kind = "init" => m.name = pointer
      BY <1>a, <3>3 DEF CommandSound
    <3>5. CASE alone
      <4>1. Present = {pointer} /\ m.name = pointer /\ copy = legacy
        BY <3>1, <3>2, <3>4, <3>5
      <4>2. CommandSound(c)'
        BY <1>b, <1>c, <3>3, <3>4, <3>5, <4>1 DEF CommandSound
      <4> QED
        BY <1>a, <1>b, <1>c, <1>d, <4>2, OneCommand
    <3>6. CASE ~alone
      <4>1. m.name \in Present /\ ~(Present \subseteq {pointer}) /\ copy = directory[m.name]
        BY <3>1, <3>2, <3>4, <3>6
      <4>2. CommandSound(c)'
        BY <1>b, <1>c, <3>3, <3>4, <3>6, <4>1 DEF CommandSound
      <4> QED
        BY <1>a, <1>b, <1>c, <1>d, <4>2, OneCommand
    <3> QED
      BY <3>5, <3>6
  <2>5. CASE LoadLegacy(c)
    <3>1. /\ m.stage = "listing" /\ m.kind = "init" /\ new.stage = "registering"
          /\ new.onLegacy = TRUE /\ new.copy = legacy
          /\ new.default = m.default /\ new.adopted = m.adopted /\ new.kind = m.kind
          /\ new.name = m.name
      BY <1>a, <2>5 DEF LoadLegacy, CommandAt, CommandType
    <3>2. Present = {pointer} /\ m.name = pointer
      BY <1>a, <3>1 DEF CommandSound, LayoutSound, InTurn
    <3>3. CommandSound(c)'
      BY <1>a, <1>b, <1>c, <3>1, <3>2 DEF CommandSound
    <3> QED
      BY <1>a, <1>b, <1>c, <1>d, <3>3, OneCommand
  <2>6. CASE ClaimName(c)
    <3>1. /\ m.stage = "adopted" /\ new.stage = "claimed" /\ directory[m.name] = Missing
          /\ new.default = m.default /\ new.adopted = m.adopted /\ new.kind = m.kind
          /\ new.name = m.name
      BY <1>a, <2>m, <2>6 DEF ClaimName, CommandAt, CommandType, Ends, Advance, Name
    <3>2. CommandSound(c)'
      BY <1>a, <1>b, <1>c, <3>1 DEF CommandSound
    <3> QED
      BY <1>a, <1>b, <1>c, <1>d, <3>2, OneCommand
  <2>7. CASE AcceptRemoval(c)
    <3>1. /\ m.stage = "listed" /\ new.stage = "removing" /\ m.name \in m.listed \ {m.default}
          /\ Cardinality(m.listed) > 2
          /\ new.default = m.default /\ new.adopted = m.adopted /\ new.kind = m.kind
          /\ new.name = m.name
      BY <1>a, <2>m, <2>7 DEF AcceptRemoval, CommandAt, CommandType, Ends, Advance, Name,
         Default, InTurn
    <3>2. m.listed = Present /\ m.default = pointer
      BY <1>a, <3>1 DEF CommandSound
    <3>3. \E q \in Present : q \notin {m.name, pointer}
      BY <3>1, <3>2, MoreThanTwo
    <3>4. CommandSound(c)'
      BY <1>a, <1>b, <1>c, <3>1, <3>2, <3>3 DEF CommandSound
    <3> QED
      BY <1>a, <1>b, <1>c, <1>d, <3>4, OneCommand
  <2> QED
    BY <2>1, <2>2, <2>3, <2>4, <2>5, <2>6, <2>7
<1> QED
  BY <1>1, <1>2

\* A command that ends, of itself or not, leaves what it has done.
LEMMA EndingSound ==
  ASSUME TurnsSound, command \in [Clients -> CommandType], NEW c \in Clients,
         command[c].stage # "idle", Ends(c), LayoutSound'
  PROVE  TurnsSound'
<1>1. command'[c].stage = "idle"
  BY DEF Ends, NoCommand
<1>2. CommandSound(c)'
  BY <1>1 DEF CommandSound
<1> QED
  BY <1>2, OneCommand DEF Ends

\* A command that writes.
LEMMA WritingSound ==
  ASSUME TurnsSound, Migration, NEW c \in Clients,
         \/ KeepBackup(c) \/ PublishDefault(c) \/ (\E e \in Members : SaveMember(c, e))
         \/ SaveFails(c) \/ Adopt(c) \/ MakeDirectory(c) \/ SaveEmptyRegistry(c)
         \/ MovePointer(c) \/ RemoveState(c)
  PROVE  TurnsSound'
<1> DEFINE m == command[c]
           new == command'[c]
           dirs == RegistryContents \cup {Missing, Bare}
<1>a. /\ command \in [Clients -> CommandType] /\ m \in CommandType /\ CommandSound(c) /\ LayoutSound
      /\ directory \in [Profiles -> dirs] /\ pointer \in Profiles /\ m.name \in Profiles
      /\ registered \in [Profiles -> RegistryContents] /\ legacy \in RegistryContents
      /\ m.copy \in RegistryContents
  BY DEF TurnsSound, Migration, ProfileShape, CommandType
<1>b. \A content \in RegistryContents : content \notin {Missing, Bare}
  BY ProfilesAssumption DEF RegistryContents
<1>c. /\ \A p \in Present : p \in Profiles /\ directory[p] \notin {Missing, Bare}
      /\ \A p \in Profiles : directory[p] \notin {Missing, Bare} => p \in Present
  BY DEF Present
<1>d. UNCHANGED profileSetting /\ m.stage # "idle"
  BY DEF KeepBackup, PublishDefault, SaveMember, SaveFails, Adopt, MakeDirectory,
     SaveEmptyRegistry, MovePointer, RemoveState, CommandAt, FilesOnly
<1>e. ASSUME UNCHANGED directory PROVE Present' = Present
  BY <1>e DEF Present
<1>s. \A stage : Advance(c, stage) =>
        /\ command' = [command EXCEPT ![c] = [m EXCEPT !.stage = stage]]
        /\ new.stage = stage /\ new.kind = m.kind /\ new.name = m.name /\ new.copy = m.copy
        /\ new.default = m.default /\ new.adopted = m.adopted
  BY <1>a DEF Advance, CommandType
<1>w. \A p \in Profiles, content \in dirs :
        DirectoryBecomes(p, content) =>
          /\ directory'[p] = content /\ \A q \in Profiles \ {p} : directory'[q] = directory[q]
          /\ content \in {Missing, Bare} => Present' = Present \ {p}
          /\ content \notin {Missing, Bare} => Present' = Present \cup {p}
  BY <1>a DEF DirectoryBecomes, Present
<1> HIDE DEF new
<1>1. CASE KeepBackup(c)
  <2>1. UNCHANGED <<profileSetting, legacy, directory, pointer, registered>> /\ m.stage = "copied"
    BY <1>1 DEF KeepBackup, FilesOnly, CommandAt
  <2>2. LayoutSound'
    BY <1>a, <1>e, <2>1 DEF LayoutSound
  <2>3. CASE Ends(c)
    BY <1>a, <1>d, <2>2, <2>3, EndingSound
  <2>4. CASE Advance(c, "backed")
    <3>1. CommandSound(c)'
      BY <1>a, <1>e, <1>s, <2>1, <2>4 DEF CommandSound, new
    <3> QED
      BY <1>a, <1>d, <1>s, <2>2, <2>4, <3>1, OneCommand
  <2> QED
    BY <1>1, <2>3, <2>4 DEF KeepBackup
<1>2. CASE PublishDefault(c)
  <2>1. /\ UNCHANGED <<profileSetting, legacy, pointer, registered>> /\ m.stage = "backed"
        /\ m.default = pointer /\ Present = {}
    BY <1>a, <1>2 DEF PublishDefault, FilesOnly, CommandAt, CommandSound
  <2>2. CASE Ends(c) /\ UNCHANGED directory
    <3>1. LayoutSound'
      BY <1>a, <1>e, <2>1, <2>2 DEF LayoutSound
    <3> QED
      BY <1>a, <1>d, <2>2, <3>1, EndingSound
  <2>3. CASE DirectoryBecomes(pointer, m.copy) /\ Advance(c, "listing")
    <3>1. Present' = {pointer}
      <4>1. m.copy \in dirs /\ m.copy \notin {Missing, Bare}
        BY <1>a, <1>b
      <4>2. Present' = Present \cup {pointer}
        <5> DEFINE copy == m.copy
        <5> HIDE DEF dirs, m, copy
        <5>1. DirectoryBecomes(pointer, copy) /\ copy \in dirs /\ copy \notin {Missing, Bare}
          BY <2>3, <4>1 DEF copy, m
        <5> QED
          BY <1>a, <1>w, <5>1
      <4> QED
        BY <2>1, <4>2
    <3>2. LayoutSound'
      BY <1>a, <2>1, <3>1 DEF LayoutSound
    <3>3. CommandSound(c)'
      BY <1>a, <1>s, <2>1, <2>3, <3>1 DEF CommandSound, new
    <3> QED
      BY <1>a, <1>d, <1>s, <2>3, <3>2, <3>3, OneCommand
  <2> QED
    BY <1>2, <2>1, <2>2, <2>3 DEF PublishDefault, Default
<1>3. ASSUME NEW e \in Members, SaveMember(c, e) PROVE TurnsSound'
  <2> DEFINE saved == m.copy \cup {e}
  <2>1. /\ UNCHANGED <<profileSetting, pointer>> /\ m.stage = "registering" /\ Ends(c)
        /\ registered' = [registered EXCEPT ![m.name] = registered[m.name] \cup {e}]
    BY <1>3 DEF SaveMember, CommandAt, Name
  <2>2. saved \in RegistryContents /\ pointer \in Present
    BY <1>a, <2>1 DEF RegistryContents, CommandSound
  <2>3. CASE m.onLegacy
    <3>1. /\ Present = {pointer} /\ m.name = pointer /\ m.copy = legacy
          /\ legacy' = saved /\ UNCHANGED directory
      BY <1>a, <1>3, <2>1, <2>3 DEF CommandSound, SaveMember
    <3>2. legacy' = registered'[pointer] /\ Present' = Present
      BY <1>a, <1>e, <2>1, <3>1 DEF LayoutSound
    <3>3. LayoutSound'
      BY <1>a, <2>1, <3>1, <3>2 DEF LayoutSound
    <3> QED
      BY <1>a, <1>d, <2>1, <3>3, EndingSound
  <2>4. CASE ~m.onLegacy
    <3>1. /\ m.name \in Present /\ ~(Present \subseteq {pointer}) /\ m.copy = directory[m.name]
          /\ DirectoryBecomes(m.name, saved) /\ UNCHANGED legacy
      BY <1>a, <1>3, <2>1, <2>4 DEF CommandSound, SaveMember, Name
    <3> HIDE DEF saved
    <3>2. /\ Present' = Present /\ directory'[m.name] = saved
          /\ \A q \in Profiles \ {m.name} : directory'[q] = directory[q]
      BY <1>a, <1>b, <1>w, <2>2, <3>1
    <3>3. \A p \in Present : directory[p] = registered[p]
      BY <1>a, <3>1 DEF LayoutSound
    <3>4. \A p \in Present : directory'[p] = registered'[p]
      BY <1>a, <1>c, <2>1, <3>1, <3>2, <3>3 DEF saved
    <3>5. LayoutSound'
      BY <1>a, <2>1, <3>1, <3>2, <3>4 DEF LayoutSound
    <3> QED
      BY <1>a, <1>d, <2>1, <3>5, EndingSound
  <2> QED
    BY <2>3, <2>4
<1>4. CASE SaveFails(c)
  <2>1. UNCHANGED <<profileSetting, legacy, directory, pointer, registered>> /\ Ends(c)
    BY <1>4 DEF SaveFails, NoFile
  <2>2. LayoutSound'
    BY <1>a, <1>e, <2>1 DEF LayoutSound
  <2> QED
    BY <1>a, <1>d, <2>1, <2>2, EndingSound
<1>5. CASE Adopt(c)
  <2>1. /\ UNCHANGED <<profileSetting, legacy, pointer, registered>> /\ m.stage = "listed"
        /\ m.kind = "create" /\ m.listed = Present /\ m.adopted = pointer /\ pointer \in Present
        /\ m.default = pointer
    BY <1>a, <1>5 DEF Adopt, FilesOnly, CommandAt, CommandSound
  <2>2. Cardinality(Present) = 1 <=> Present = {pointer}
    <3>1. IsFiniteSet(Present)
      <4>1. Present \subseteq Profiles
        BY DEF Present
      <4> QED
        BY <4>1, ProfilesAssumption, FS_Subset
    <3> QED
      BY <2>1, <3>1, OnlyOne
  <2>3. CASE Present = {pointer}
    <3>1. DirectoryBecomes(pointer, legacy) /\ Advance(c, "adopted")
      BY <1>5, <1>c, <2>1, <2>2, <2>3 DEF Adopt
    <3>2. Present' = Present /\ directory'[pointer] = legacy
      <4>1. legacy \in dirs /\ legacy \notin {Missing, Bare}
        BY <1>a, <1>b
      <4>2. directory'[pointer] = legacy /\ Present' = Present \cup {pointer}
        <5> HIDE DEF dirs, m
        <5> QED
          BY <1>a, <1>w, <3>1, <4>1
      <4> QED
        BY <2>1, <4>2
    <3>3. LayoutSound'
      BY <1>a, <2>1, <2>3, <3>2 DEF LayoutSound
    <3>4. CommandSound(c)'
      BY <1>a, <1>s, <2>1, <2>3, <3>1, <3>2 DEF CommandSound, LayoutSound, new
    <3> QED
      BY <1>a, <1>d, <1>s, <3>1, <3>3, <3>4, OneCommand
  <2>4. CASE Present # {pointer}
    <3>1. UNCHANGED directory /\ Advance(c, "adopted")
      BY <1>5, <2>1, <2>2, <2>4 DEF Adopt
    <3>2. LayoutSound'
      BY <1>a, <1>e, <2>1, <3>1 DEF LayoutSound
    <3>3. CommandSound(c)'
      BY <1>a, <1>e, <1>s, <2>1, <2>4, <3>1 DEF CommandSound, new
    <3> QED
      BY <1>a, <1>d, <1>s, <3>1, <3>2, <3>3, OneCommand
  <2> QED
    BY <2>3, <2>4
<1>6. CASE MakeDirectory(c)
  <2>1. /\ UNCHANGED <<profileSetting, legacy, pointer, registered>> /\ m.stage = "claimed"
        /\ directory[m.name] = Missing /\ DirectoryBecomes(m.name, Bare) /\ Advance(c, "made")
        /\ pointer \in Present /\ m.kind = "create"
        /\ Present = {pointer} => directory[pointer] = registered[pointer]
    BY <1>a, <1>6 DEF MakeDirectory, FilesOnly, CommandAt, CommandSound, Name
  <2>2. /\ m.name \notin Present /\ Present' = Present /\ m.name # pointer
        /\ \A q \in Profiles \ {m.name} : directory'[q] = directory[q]
    <3>1. m.name \notin Present
      BY <1>c, <2>1
    <3>2. /\ \A q \in Profiles \ {m.name} : directory'[q] = directory[q]
          /\ Present' = Present \ {m.name}
      <4>1. Bare \in dirs
        OBVIOUS
      <4> HIDE DEF dirs, m
      <4> QED
        BY <1>a, <1>w, <2>1, <4>1
    <3> QED
      BY <2>1, <3>1, <3>2
  <2>3. LayoutSound'
    BY <1>a, <1>c, <2>1, <2>2 DEF LayoutSound
  <2>4. CommandSound(c)'
    BY <1>a, <1>s, <2>1, <2>2 DEF CommandSound, new
  <2> QED
    BY <1>a, <1>d, <1>s, <2>1, <2>3, <2>4, OneCommand
<1>7. CASE SaveEmptyRegistry(c)
  <2>1. /\ UNCHANGED <<profileSetting, legacy, pointer>> /\ m.stage = "made" /\ Ends(c)
        /\ registered' = [registered EXCEPT ![m.name] = {}]
        /\ m.name \notin Present /\ pointer \in Present /\ m.kind = "create"
        /\ m.kind \in profileSetting.kinds
        /\ Present = {pointer} => directory[pointer] = registered[pointer]
    BY <1>a, <1>7 DEF SaveEmptyRegistry, CommandAt, CommandSound, Name
  <2>2. m.name # pointer /\ {} \in RegistryContents
    BY <2>1 DEF RegistryContents
  <2>3. \A p \in Present : registered'[p] = registered[p]
    BY <1>a, <1>c, <2>1
  <2>4. CASE DirectoryBecomes(m.name, {})
    <3>1. /\ Present' = Present \cup {m.name} /\ directory'[m.name] = {}
          /\ \A p \in Present : directory'[p] = directory[p]
      BY <1>a, <1>b, <1>c, <1>w, <2>1, <2>2, <2>4
    <3>2. \A p \in Present : directory[p] = registered[p]
      BY <1>a, <2>1 DEF LayoutSound
    <3>3. registered'[m.name] = {}
      BY <1>a, <2>1
    <3>4. \A p \in Present' : directory'[p] = registered'[p]
      BY <2>3, <3>1, <3>2, <3>3
    <3>5. "create" \in profileSetting'.kinds /\ ~(Present' \subseteq {pointer'})
      BY <1>d, <2>1, <2>2, <3>1
    <3>6. LayoutSound'
      BY <2>1, <3>1, <3>4, <3>5 DEF LayoutSound
    <3> QED
      BY <1>a, <1>d, <2>1, <3>6, EndingSound
  <2>5. CASE DirectoryBecomes(m.name, Missing)
    <3>1. Present' = Present /\ \A p \in Present : directory'[p] = directory[p]
      <4>1. /\ \A q \in Profiles \ {m.name} : directory'[q] = directory[q]
            /\ Present' = Present \ {m.name}
        <5>1. Missing \in dirs
          OBVIOUS
        <5> HIDE DEF dirs, m
        <5> QED
          BY <1>a, <1>w, <2>5, <5>1
      <4> QED
        BY <1>c, <2>1, <4>1
    <3>2. LayoutSound'
      BY <1>a, <2>1, <2>3, <3>1 DEF LayoutSound
    <3> QED
      BY <1>a, <1>d, <2>1, <3>2, EndingSound
  <2> QED
    BY <1>7, <2>4, <2>5 DEF SaveEmptyRegistry, Name
<1>8. CASE MovePointer(c)
  <2>1. /\ UNCHANGED <<profileSetting, legacy, directory, registered>> /\ m.stage = "pointing"
        /\ Ends(c) /\ pointer' = m.name /\ m.name \in Present
    BY <1>a, <1>8 DEF MovePointer, NoFile, CommandAt, CommandSound, Name
  <2>2. LayoutSound'
    BY <1>a, <1>e, <2>1 DEF LayoutSound
  <2> QED
    BY <1>a, <1>d, <2>1, <2>2, EndingSound
<1>9. CASE RemoveState(c)
  <2>1. /\ UNCHANGED <<profileSetting, legacy, pointer>> /\ m.stage = "removing"
        /\ registered' = [registered EXCEPT ![m.name] = {}]
        /\ pointer \in Present /\ m.name # pointer
        /\ m.kind \in profileSetting.kinds
        /\ m.kind = "init" => m.name = pointer
        /\ m.default = pointer /\ m.adopted = pointer
    BY <1>a, <1>9 DEF RemoveState, CommandAt, CommandSound, Name
  <2>2. PICK q \in Present : q \notin {m.name, pointer}
    BY <1>a, <2>1 DEF CommandSound
  <2>3. PICK content \in {Bare, Missing} : DirectoryBecomes(m.name, content)
    BY <1>9 DEF RemoveState, Name
  <2>4. Present' = Present \ {m.name} /\ \A p \in Present' : directory'[p] = directory[p]
    BY <1>a, <1>c, <1>w, <2>3
  <2>5. \A p \in Present' : directory'[p] = registered'[p]
    BY <1>a, <1>c, <2>1, <2>2, <2>4 DEF LayoutSound
  <2>6. LayoutSound'
    BY <1>a, <2>1, <2>2, <2>4, <2>5 DEF LayoutSound
  <2>7. CASE UNCHANGED command
    <3>1. CommandSound(c)'
      BY <2>1, <2>2, <2>4, <2>7 DEF CommandSound
    <3>2. command' = [command EXCEPT ![c] = m]
      BY <1>a, <2>7
    <3> QED
      BY <1>a, <1>d, <2>6, <3>1, <3>2, OneCommand
  <2>8. CASE Ends(c)
    BY <1>a, <1>d, <2>6, <2>8, EndingSound
  <2> QED
    BY <1>9, <2>7, <2>8 DEF RemoveState
<1> QED
  BY <1>1, <1>2, <1>3, <1>4, <1>5, <1>6, <1>7, <1>8, <1>9

\* The circumstances of a run never change.
LEMMA SettingStays == [ProfileNext]_profileVars => UNCHANGED profileSetting
<1>1. ASSUME NEW c \in Clients, CommandStep(c) PROVE UNCHANGED profileSetting
  BY <1>1 DEF CommandStep, ReadAgain, Resolve, KeepBackup, PublishDefault, ListPresent,
     LoadRegistry, LoadLegacy, SaveMember, SaveFails, Adopt, ClaimName, MakeDirectory,
     SaveEmptyRegistry, MovePointer, AcceptRemoval, RemoveState, FilesOnly
<1> QED
  BY <1>1 DEF ProfileNext, StartCommand, StartUse, CommandDies, EditByHand, profileVars

LEMMA TurnsKeptStep == TurnsKept /\ [ProfileNext]_profileVars => TurnsKept'
<1> SUFFICES ASSUME TurnsKept, [ProfileNext]_profileVars, InTurn' PROVE TurnsSound'
  BY MigrationStep DEF TurnsKept
<1>a. Migration /\ command \in [Clients -> CommandType]
  BY DEF TurnsKept, Migration, ProfileShape
<1>b. UNCHANGED profileSetting
  BY SettingStays
<1>c. InTurn /\ TurnsSound
  BY <1>b DEF InTurn, TurnsKept
<1>d. MayCome => \A c \in Clients : command[c].stage = "idle"
  BY <1>c DEF MayCome, InTurn, CommandAt
<1>1. CASE UNCHANGED profileVars
  <2>1. Present' = Present
    BY <1>1 DEF Present, profileVars
  <2>2. \A c \in Clients : CommandSound(c)'
    BY <1>1, <1>c, <2>1 DEF TurnsSound, CommandSound, profileVars
  <2> QED
    BY <1>1, <1>c, <2>1, <2>2 DEF TurnsSound, LayoutSound, profileVars
<1>2. ASSUME NEW c \in Clients, NEW new,
             UNCHANGED <<profileSetting, pointer, registered, legacy, directory>>,
             command' = [command EXCEPT ![c] = new], MayCome,
             new.kind \in profileSetting.kinds, new.kind = "init" => new.name = pointer,
             \/ new.stage = "pointing" /\ new.name \in Present
             \/ new.stage \in {"config", "resolving"} /\ new.default = pointer /\ new.adopted = pointer
      PROVE  TurnsSound'
  <2>1. Present' = Present
    BY <1>2 DEF Present
  <2>2. LayoutSound'
    BY <1>2, <1>c, <2>1 DEF LayoutSound, TurnsSound
  <2>3. /\ command'[c] = new
        /\ \A d \in Clients \ {c} : command'[d].stage = "idle"
    BY <1>a, <1>d, <1>2
  <2>4. CommandSound(c)'
    BY <1>2, <2>1, <2>3 DEF CommandSound
  <2>5. \A d \in Clients \ {c} : CommandSound(d)'
    BY <2>3 DEF CommandSound
  <2> QED
    BY <2>2, <2>3, <2>4, <2>5 DEF TurnsSound
<1>3. ASSUME NEW c \in Clients, NEW kind \in CommandKinds, NEW name \in Profiles,
             StartCommand(c, kind, name)
      PROVE  TurnsSound'
  <2>1. PICK stage \in {"config", "resolving"} :
          stage = IF kind = "create" THEN "config" ELSE "resolving"
    OBVIOUS
  <2>2. PICK new : new = [NoCommand EXCEPT !.stage = stage, !.kind = kind, !.name = name,
                                           !.default = pointer, !.adopted = pointer]
    OBVIOUS
  <2>3. /\ new.stage = stage /\ new.kind = kind /\ new.name = name /\ new.default = pointer
        /\ new.adopted = pointer
    BY <2>2 DEF NoCommand
  <2>4. command' = [command EXCEPT ![c] = new]
    BY <1>3, <2>1, <2>2 DEF StartCommand
  <2>5. /\ UNCHANGED <<profileSetting, pointer, registered, legacy, directory>> /\ MayCome
        /\ kind \in profileSetting.kinds /\ (kind = "init" => name = pointer)
    BY <1>3 DEF StartCommand, NoFile
  <2> QED
    BY <1>2, <2>3, <2>4, <2>5
<1>4. ASSUME NEW c \in Clients, NEW name \in Profiles, StartUse(c, name) PROVE TurnsSound'
  <2>1. PICK new : new = [NoCommand EXCEPT !.stage = "pointing", !.kind = "use", !.name = name]
    OBVIOUS
  <2>2. new.stage = "pointing" /\ new.kind = "use" /\ new.name = name
    BY <2>1 DEF NoCommand
  <2>3. command' = [command EXCEPT ![c] = new]
    BY <1>4, <2>1 DEF StartUse
  <2>4. /\ UNCHANGED <<profileSetting, pointer, registered, legacy, directory>> /\ MayCome
        /\ "use" \in profileSetting.kinds /\ name \in Present
    BY <1>4 DEF StartUse, NoFile
  <2> QED
    BY <1>2, <2>2, <2>3, <2>4
<1>5. ASSUME NEW c \in Clients, CommandDies(c) PROVE TurnsSound'
  <2>1. /\ UNCHANGED <<profileSetting, pointer, registered, legacy, directory>> /\ Ends(c)
        /\ command[c].stage # "idle"
    BY <1>5 DEF CommandDies, NoFile, CommandAt
  <2>2. Present' = Present
    BY <2>1 DEF Present
  <2>3. LayoutSound'
    BY <1>c, <2>1, <2>2 DEF LayoutSound, TurnsSound
  <2> QED
    BY <1>a, <1>c, <2>1, <2>3, EndingSound
<1>6. ASSUME NEW content \in RegistryContents, EditByHand(content) PROVE TurnsSound'
  <2>1. /\ MayCome /\ Present \subseteq {pointer} /\ legacy' = content
        /\ registered' = [registered EXCEPT ![pointer] = content]
        /\ UNCHANGED <<profileSetting, directory, pointer, command>>
    BY <1>6 DEF EditByHand
  <2>2. Present' = Present /\ registered'[pointer] = content
    BY <1>a, <2>1 DEF Present, Migration, ProfileShape
  <2>3. LayoutSound'
    BY <1>c, <2>1, <2>2 DEF LayoutSound, TurnsSound
  <2>4. \A c \in Clients : CommandSound(c)'
    BY <1>d, <2>1 DEF CommandSound
  <2> QED
    BY <1>d, <2>1, <2>3, <2>4 DEF TurnsSound
<1>7. ASSUME NEW c \in Clients, CommandStep(c) PROVE TurnsSound'
  BY <1>7, <1>a, <1>c, ReadingSound, WritingSound DEF CommandStep
<1> QED
  BY <1>1, <1>3, <1>4, <1>5, <1>6, <1>7 DEF ProfileNext


-----------------------------------------------------------------------------
(* Commands that overlap on an installation that is only being founded. *)

\* Profiles are listed, created and selected, by any number of commands at the
\* same time, some of which die.  An edit of the registry, or a registry that
\* could not be written, in the middle of another command's creation of a
\* profile would let that command publish what it had read before.
Founding ==
  /\ profileSetting.kinds \subseteq {"list", "create", "use"}
  /\ "create" \in profileSetting.kinds =>
       profileSetting.edits = 0 /\ profileSetting.failures = 0

\* A profile that has been there stays.
Settled(p) == p = FirstProfile \/ {p, FirstProfile} \subseteq Present

\* The first profile has what the installation had, the others are empty.
FoundingLayout ==
  /\ legacy = registered[FirstProfile]
  /\ Present # {} => FirstProfile \in Present
  /\ directory[FirstProfile] # Bare
  /\ \A p \in Profiles \ {FirstProfile} :
       registered[p] = {} /\ directory[p] \in {Missing, Bare, {}}
  /\ Settled(pointer)
  /\ "create" \in profileSetting.kinds =>
       /\ profileBudget["edits"] = 0 /\ profileBudget["failures"] = 0
       /\ FirstProfile \in Present => directory[FirstProfile] = legacy
  /\ "create" \notin profileSetting.kinds =>
       \A p \in Profiles \ {FirstProfile} : directory[p] = Missing

\* What a command has read can only have been added to.
FoundingCommand(c) ==
  LET m == command[c]
  IN  /\ m.stage # "idle" => m.kind \in profileSetting.kinds
      /\ m.stage \notin {"idle", "pointing"} =>
           m.kind # "use" /\ Settled(m.default) /\ Settled(m.adopted)
      /\ m.stage = "pointing" => m.name \in Present
      /\ m.stage \in {"adopted", "claimed", "made"} => m.kind = "create"
      /\ m.stage \in {"copied", "backed"} =>
           /\ m.default = FirstProfile
           /\ "create" \in profileSetting.kinds => m.copy = legacy
      /\ m.stage = "listed" => /\ m.kind = "create"
                               /\ {FirstProfile, m.adopted} \subseteq m.listed
                               /\ m.listed \subseteq Present
      /\ m.stage \in {"adopted", "claimed", "made"} => FirstProfile \in Present
      /\ m.stage \in {"claimed", "made"} => m.name # FirstProfile
      /\ m.stage = "made" => directory[m.name] \in {Bare, {}}
      /\ m.stage \notin {"registering", "removing"}

FoundingSound == FoundingLayout /\ \A c \in Clients : FoundingCommand(c)

FoundingKept == Migration /\ (Founding => FoundingSound)

LEMMA FoundingKeptInit == ProfileInit => FoundingKept
<1> SUFFICES ASSUME ProfileInit, Founding PROVE FoundingSound
  BY ProfileInitShape DEF FoundingKept
<1>1. Present = {} /\ directory[FirstProfile] = Missing /\ pointer = FirstProfile
  BY ProfilesAssumption DEF ProfileInit, Present
<1>2. profileSetting \in ProfileSetting /\ profileSetting \in ProfileSettings
  BY ProfileSettingsAssumption DEF ProfileInit
<1>3. /\ profileBudget["edits"] = profileSetting.edits
      /\ profileBudget["failures"] = profileSetting.failures
  BY DEF ProfileInit
<1>4. FoundingLayout
  BY <1>1, <1>3, ProfilesAssumption DEF FoundingLayout, Settled, ProfileInit, Founding
<1>5. \A c \in Clients : command[c].stage = "idle"
  BY DEF ProfileInit, NoCommand
<1>6. \A c \in Clients : FoundingCommand(c)
  BY <1>5 DEF FoundingCommand
<1> QED
  BY <1>4, <1>6 DEF FoundingSound

\* What one command has read stands when another one adds to the profiles.
LEMMA FoundingStands ==
  ASSUME Migration, FoundingLayout, NEW d \in Clients, FoundingCommand(d),
         command'[d] = command[d], UNCHANGED profileSetting,
         Present \subseteq Present', "create" \in profileSetting.kinds => UNCHANGED legacy,
         \A p \in Profiles \ {FirstProfile} :
           directory[p] \in {Bare, {}} => directory'[p] \in {Bare, {}}
  PROVE  FoundingCommand(d)'
<1> DEFINE m == command[d]
<1>1. m \in CommandType /\ m.name \in Profiles
  BY DEF Migration, ProfileShape, CommandType
<1>2. \A p \in Profiles : Settled(p) => Settled(p)'
  BY DEF Settled
<1>3. m.default \in Profiles /\ m.adopted \in Profiles
  BY <1>1 DEF CommandType
<1>4. m.stage = "made" => directory'[m.name] \in {Bare, {}}
  BY <1>1 DEF FoundingCommand
<1> HIDE DEF m
<1>5. command'[d] = m /\ command[d] = m
  BY DEF m
<1> QED
  BY <1>2, <1>3, <1>4, <1>5 DEF FoundingCommand

\* A command under way changes nothing but its own place.
LEMMA FoundingReads ==
  ASSUME Founding, FoundingSound, Migration, NEW c \in Clients,
         ReadAgain(c) \/ Resolve(c) \/ ListPresent(c) \/ ClaimName(c)
  PROVE  FoundingSound'
<1> DEFINE m == command[c]
           new == command'[c]
<1>a. /\ command \in [Clients -> CommandType] /\ m \in CommandType /\ FoundingCommand(c)
      /\ FoundingLayout /\ pointer \in Profiles
      /\ directory \in [Profiles -> RegistryContents \cup {Missing, Bare}]
  BY DEF FoundingSound, Migration, ProfileShape
<1>b. /\ UNCHANGED <<profileSetting, legacy, directory, pointer, registered, profileBudget>>
      /\ m.stage # "idle"
  BY DEF ReadAgain, Resolve, ListPresent, ClaimName, CommandAt, FilesOnly, NoFile
<1>c. Present' = Present /\ FoundingLayout' /\ Founding'
  BY <1>a, <1>b DEF Present, FoundingLayout, Settled, Founding
<1>d. \A d \in Clients \ {c} : command'[d] = command[d]
  BY <1>a DEF ReadAgain, Resolve, ListPresent, ClaimName, Advance, Ends
<1>e. \A d \in Clients \ {c} : FoundingCommand(d)'
  BY <1>b, <1>c, <1>d, FoundingStands DEF FoundingSound
<1>n. NoCommand.stage = "idle"
  BY DEF NoCommand
<1>1. ASSUME new.stage = "idle" PROVE FoundingCommand(c)'
  BY <1>1 DEF FoundingCommand
<1>2. ASSUME new.stage # "idle", ReadAgain(c) PROVE FoundingCommand(c)'
  <2>1. /\ new.stage = "resolving" /\ new.default = pointer /\ new.adopted = m.adopted
        /\ new.kind = m.kind /\ m.stage = "config"
    BY <1>a, <1>2 DEF ReadAgain, CommandAt, CommandType
  <2> QED
    BY <1>a, <1>b, <1>c, <2>1 DEF FoundingCommand, FoundingLayout, Settled
<1>3. ASSUME new.stage # "idle", Resolve(c) PROVE FoundingCommand(c)'
  <2>1. /\ m.stage = "resolving" /\ new.default = m.default /\ new.adopted = m.adopted
        /\ new.kind = m.kind
        /\ \/ new.stage = "listing" /\ new.copy = m.copy
           \/ new.stage = "copied" /\ Present = {} /\ new.copy = legacy
    BY <1>a, <1>n, <1>3 DEF Resolve, CommandAt, CommandType, Advance, Default, Ends
  <2> QED
    BY <1>a, <1>b, <1>c, <2>1 DEF FoundingCommand, FoundingLayout, Settled
<1>4. ASSUME new.stage # "idle", ListPresent(c) PROVE FoundingCommand(c)'
  <2>1. /\ m.stage = "listing" /\ new.stage = "listed" /\ new.listed = Present
        /\ new.default = m.default /\ new.adopted = m.adopted /\ new.kind = m.kind
        /\ m.default \in Present /\ m.kind \notin {"init", "list"}
    BY <1>a, <1>n, <1>4 DEF ListPresent, CommandAt, CommandType, Ends, Default
  <2>2. m.kind \in profileSetting.kinds /\ Settled(m.adopted)
    BY <1>a, <2>1 DEF FoundingCommand
  <2>3. FirstProfile \in Present
    BY <1>a, <2>1 DEF FoundingLayout
  <2>4. m.kind = "create"
    BY <1>a, <2>1, <2>2 DEF Founding, FoundingCommand
  <2> QED
    BY <1>a, <1>b, <1>c, <2>1, <2>2, <2>3, <2>4 DEF FoundingCommand, Settled
<1>5. ASSUME new.stage # "idle", ClaimName(c) PROVE FoundingCommand(c)'
  <2>1. /\ m.stage = "adopted" /\ new.stage = "claimed" /\ new.name = m.name
        /\ new.default = m.default /\ new.adopted = m.adopted /\ new.kind = m.kind
        /\ directory[m.name] = Missing
    BY <1>a, <1>n, <1>5 DEF ClaimName, CommandAt, CommandType, Advance, Ends, Name
  <2>2. m.name # FirstProfile
    BY <1>a, <2>1 DEF FoundingCommand, Present
  <2> QED
    BY <1>a, <1>b, <1>c, <2>1, <2>2 DEF FoundingCommand, Settled
<1>6. FoundingCommand(c)'
  BY <1>1, <1>2, <1>3, <1>4, <1>5
<1> QED
  BY <1>c, <1>e, <1>6 DEF FoundingSound

\* A command under way writes.
LEMMA FoundingWrites ==
  ASSUME Founding, FoundingSound, Migration, NEW c \in Clients,
         KeepBackup(c) \/ PublishDefault(c) \/ Adopt(c) \/ MakeDirectory(c)
         \/ SaveEmptyRegistry(c) \/ MovePointer(c)
  PROVE  FoundingSound'
<1> DEFINE m == command[c]
           new == command'[c]
<1>a. /\ command \in [Clients -> CommandType] /\ m \in CommandType /\ FoundingCommand(c)
      /\ FoundingLayout /\ pointer \in Profiles /\ m.name \in Profiles
      /\ directory \in [Profiles -> RegistryContents \cup {Missing, Bare}]
      /\ registered \in [Profiles -> RegistryContents]
  BY DEF FoundingSound, Migration, ProfileShape, CommandType
<1>b. UNCHANGED <<profileSetting, legacy>> /\ m.stage # "idle" /\ Founding'
  BY DEF KeepBackup, PublishDefault, Adopt, MakeDirectory, SaveEmptyRegistry, MovePointer,
     CommandAt, FilesOnly, NoFile, Founding
<1>d. \A d \in Clients \ {c} : command'[d] = command[d]
  BY <1>a DEF KeepBackup, PublishDefault, Adopt, MakeDirectory, SaveEmptyRegistry, MovePointer,
     Advance, Ends
<1>i. NoCommand.stage = "idle"
  BY DEF NoCommand
<1>n. command'[c].stage = "idle" => FoundingCommand(c)'
  BY DEF FoundingCommand
<1>e. ASSUME Present \subseteq Present', FoundingLayout', FoundingCommand(c)',
             \A p \in Profiles \ {FirstProfile} :
               directory[p] \in {Bare, {}} => directory'[p] \in {Bare, {}}
      PROVE  FoundingSound'
  <2>1. \A d \in Clients \ {c} : FoundingCommand(d)'
    BY <1>a, <1>b, <1>d, <1>e, FoundingStands DEF FoundingSound
  <2> QED
    BY <2>1, <1>e DEF FoundingSound
<1>t. FirstProfile \in Profiles /\ Missing # Bare /\ {} \notin {Missing, Bare}
      /\ \A contents \in RegistryContents : contents \notin {Missing, Bare}
  BY ProfilesAssumption DEF RegistryContents
<1>1. CASE KeepBackup(c)
  <2>1. UNCHANGED <<directory, pointer, registered, profileBudget>>
    BY <1>1 DEF KeepBackup, FilesOnly
  <2>2. Present' = Present /\ FoundingLayout'
    BY <1>a, <1>b, <2>1 DEF Present, FoundingLayout, Settled
  <2>3. ASSUME new.stage # "idle" PROVE FoundingCommand(c)'
    <3>1. /\ m.stage = "copied" /\ new.stage = "backed" /\ new.default = m.default
          /\ new.adopted = m.adopted /\ new.kind = m.kind /\ new.copy = m.copy
      BY <1>a, <1>i, <1>1, <2>3 DEF KeepBackup, CommandAt, CommandType, Advance, Ends
    <3> QED
      BY <1>a, <1>b, <2>2, <3>1 DEF FoundingCommand, Settled
  <2> QED
    BY <1>e, <1>n, <2>1, <2>2, <2>3
<1>2. CASE PublishDefault(c)
  <2>1. /\ UNCHANGED <<pointer, registered, profileBudget>> /\ m.stage = "backed"
        /\ m.default = FirstProfile /\ m.copy \in RegistryContents
        /\ "create" \in profileSetting.kinds => m.copy = legacy
    BY <1>a, <1>2 DEF PublishDefault, FilesOnly, FoundingCommand, CommandAt, CommandType
  <2>2. CASE directory[FirstProfile] # Missing
    <3>1. UNCHANGED directory /\ new = NoCommand
      BY <1>a, <1>2, <2>1, <2>2 DEF PublishDefault, Ends, Default
    <3>2. Present' = Present /\ FoundingLayout'
      BY <1>a, <1>b, <2>1, <3>1 DEF Present, FoundingLayout, Settled
    <3> QED
      BY <1>e, <1>n, <1>i, <3>1, <3>2
  <2>3. CASE directory[FirstProfile] = Missing
    <3>1. /\ directory' = [directory EXCEPT ![FirstProfile] = m.copy]
          /\ new.stage = "listing" /\ new.default = m.default
          /\ new.adopted = m.adopted /\ new.kind = m.kind
      BY <1>a, <1>2, <2>1, <2>3 DEF PublishDefault, Advance, Default, CommandType, DirectoryBecomes
    <3>2. /\ directory'[FirstProfile] = m.copy
          /\ \A p \in Profiles \ {FirstProfile} : directory'[p] = directory[p]
      BY <1>a, <1>t, <3>1
    <3>3. Present' = Present \cup {FirstProfile}
      BY <1>t, <2>1, <3>2 DEF Present
    <3>4. FoundingLayout'
      BY <1>a, <1>b, <1>t, <2>1, <3>2, <3>3 DEF FoundingLayout, Settled
    <3>5. FoundingCommand(c)'
      BY <1>a, <1>b, <2>1, <3>1, <3>3 DEF FoundingCommand, Settled
    <3> QED
      BY <1>e, <3>2, <3>3, <3>4, <3>5
  <2> QED
    BY <2>2, <2>3
<1>3. CASE Adopt(c)
  <2>1. /\ UNCHANGED <<pointer, registered, profileBudget>> /\ m.stage = "listed"
        /\ m.kind = "create" /\ FirstProfile \in m.listed /\ m.adopted \in m.listed
        /\ m.listed \subseteq Present /\ "create" \in profileSetting.kinds
        /\ FirstProfile \in Present /\ directory[FirstProfile] = legacy
    BY <1>a, <1>3 DEF Adopt, FilesOnly, FoundingCommand, FoundingLayout, CommandAt
  <2>2. IsFiniteSet(m.listed)
    BY <2>1, FS_Subset, ProfilesAssumption DEF Present
  <2>3. Cardinality(m.listed) = 1 => m.adopted = FirstProfile
    BY <2>1, <2>2, OnlyOne
  <2>4. directory' = directory
    <3>1. CASE Cardinality(m.listed) = 1
      BY <1>a, <1>3, <2>1, <2>3, <3>1 DEF Adopt, DirectoryBecomes
    <3>2. CASE Cardinality(m.listed) # 1
      BY <1>3, <3>2 DEF Adopt
    <3> QED
      BY <3>1, <3>2
  <2>5. Present' = Present /\ FoundingLayout'
    BY <1>a, <1>b, <2>1, <2>4 DEF Present, FoundingLayout, Settled
  <2>6. ASSUME new.stage # "idle" PROVE FoundingCommand(c)'
    <3>1. /\ new.stage = "adopted" /\ new.default = m.default
          /\ new.adopted = m.adopted /\ new.kind = m.kind
      BY <1>a, <1>i, <1>3, <2>6 DEF Adopt, CommandType, Advance, Ends
    <3> QED
      BY <1>a, <1>b, <2>1, <2>5, <3>1 DEF FoundingCommand, Settled
  <2> QED
    BY <1>e, <1>n, <2>4, <2>5, <2>6
<1>4. CASE MakeDirectory(c)
  <2>1. /\ UNCHANGED <<pointer, registered, profileBudget>> /\ m.stage = "claimed"
        /\ m.kind = "create" /\ m.name # FirstProfile /\ FirstProfile \in Present
        /\ directory[m.name] \in {Missing, Bare, {}} /\ "create" \in profileSetting.kinds
    BY <1>a, <1>4 DEF MakeDirectory, FilesOnly, FoundingCommand, FoundingLayout, CommandAt
  <2>2. PICK content :
          content = IF directory[m.name] = Missing THEN Bare ELSE directory[m.name]
    OBVIOUS
  <2>3. /\ directory' = [directory EXCEPT ![m.name] = content]
        /\ new.stage = "made" /\ new.default = m.default /\ new.name = m.name
        /\ new.adopted = m.adopted /\ new.kind = m.kind
    BY <1>a, <1>4, <2>2 DEF MakeDirectory, Advance, Name, CommandType, DirectoryBecomes
  <2>4. /\ directory'[m.name] = content /\ content \in {Bare, {}}
        /\ \A p \in Profiles \ {m.name} : directory'[p] = directory[p]
    BY <1>a, <2>1, <2>2, <2>3
  <2>5. Present' = Present
    BY <1>t, <2>2, <2>4 DEF Present
  <2>6. FoundingLayout'
    BY <1>a, <1>b, <1>t, <2>1, <2>4, <2>5 DEF FoundingLayout, Settled
  <2>7. FoundingCommand(c)'
    BY <1>a, <1>b, <2>1, <2>3, <2>4, <2>5 DEF FoundingCommand, Settled
  <2>8. \A p \in Profiles : directory[p] \in {Bare, {}} => directory'[p] \in {Bare, {}}
    BY <2>4
  <2> QED
    BY <1>e, <2>5, <2>6, <2>7, <2>8
<1>5. CASE SaveEmptyRegistry(c)
  <2>1. /\ m.stage = "made" /\ m.kind = "create" /\ m.name # FirstProfile
        /\ FirstProfile \in Present /\ directory[m.name] \in {Bare, {}}
        /\ "create" \in profileSetting.kinds /\ profileBudget["failures"] = 0
    BY <1>a, <1>5 DEF SaveEmptyRegistry, FoundingCommand, FoundingLayout, CommandAt
  <2>2. directory[m.name] # Missing
    BY <1>t, <2>1
  <2>3. /\ directory' = [directory EXCEPT ![m.name] = {}] /\ UNCHANGED <<pointer, profileBudget>>
        /\ registered' = [registered EXCEPT ![m.name] = {}] /\ new = NoCommand
    BY <1>a, <1>5, <2>1, <2>2
    DEF SaveEmptyRegistry, Ends, Name, DirectoryBecomes, SpendProfile
  <2>4. /\ directory'[m.name] = {} /\ registered'[m.name] = {}
        /\ \A p \in Profiles \ {m.name} :
             directory'[p] = directory[p] /\ registered'[p] = registered[p]
    BY <1>a, <2>3
  <2>5. Present' = Present \cup {m.name}
    BY <1>a, <1>t, <2>4 DEF Present
  <2>6. FoundingLayout'
    BY <1>a, <1>b, <1>t, <2>1, <2>3, <2>4, <2>5 DEF FoundingLayout, Settled
  <2>8. \A p \in Profiles : directory[p] \in {Bare, {}} => directory'[p] \in {Bare, {}}
    BY <2>4
  <2> QED
    BY <1>e, <1>n, <1>i, <2>3, <2>5, <2>6, <2>8
<1>6. CASE MovePointer(c)
  <2>1. /\ UNCHANGED <<directory, registered, profileBudget>> /\ m.name \in Present
        /\ pointer' = m.name /\ new = NoCommand
    BY <1>a, <1>6 DEF MovePointer, NoFile, FoundingCommand, CommandAt, Ends, Name
  <2>2. Present' = Present
    BY <2>1 DEF Present
  <2>3. FoundingLayout'
    BY <1>a, <1>b, <2>1, <2>2 DEF FoundingLayout, Settled
  <2> QED
    BY <1>e, <1>n, <1>i, <2>1, <2>2, <2>3
<1> QED
  BY <1>1, <1>2, <1>3, <1>4, <1>5, <1>6

LEMMA FoundingKeptStep == FoundingKept /\ [ProfileNext]_profileVars => FoundingKept'
<1> SUFFICES ASSUME FoundingKept, [ProfileNext]_profileVars, Founding' PROVE FoundingSound'
  BY MigrationStep DEF FoundingKept
<1>a. Migration /\ command \in [Clients -> CommandType]
  BY DEF FoundingKept, Migration, ProfileShape
<1>b. UNCHANGED profileSetting
  BY SettingStays
<1>c. Founding /\ FoundingSound /\ FoundingLayout
  BY <1>b DEF Founding, FoundingKept, FoundingSound
<1>s. ASSUME UNCHANGED <<profileSetting, pointer, registered, legacy, directory>>,
             \/ UNCHANGED profileBudget
             \/ \E what : /\ profileBudget[what] > 0
                          /\ profileBudget' = [profileBudget EXCEPT ![what] = @ - 1],
             NEW c \in Clients, NEW new, command' = [command EXCEPT ![c] = new],
             FoundingCommand(c)'
      PROVE  FoundingSound'
  <2>1. Present' = Present
    BY <1>s DEF Present
  <2>2. \A what \in {"edits", "failures"} : profileBudget[what] = 0 => profileBudget'[what] = 0
    BY <1>a, <1>s DEF Migration, ProfileShape
  <2>3. FoundingLayout'
    BY <1>c, <1>s, <2>1, <2>2 DEF FoundingLayout, Settled
  <2>4. \A d \in Clients \ {c} : command'[d] = command[d]
    BY <1>a, <1>s
  <2>5. \A d \in Clients \ {c} : FoundingCommand(d)'
    BY <1>a, <1>c, <1>s, <2>1, <2>4, FoundingStands DEF FoundingSound
  <2> QED
    BY <1>s, <2>3, <2>5 DEF FoundingSound
<1>1. CASE UNCHANGED profileVars
  <2>1. Present' = Present
    BY <1>1 DEF Present, profileVars
  <2>2. \A c \in Clients : FoundingCommand(c)'
    BY <1>1, <1>c, <2>1 DEF FoundingSound, FoundingCommand, Settled, profileVars
  <2>3. FoundingLayout'
    BY <1>1, <1>c, <2>1 DEF FoundingLayout, Settled, profileVars
  <2> QED
    BY <2>2, <2>3 DEF FoundingSound
<1>2. ASSUME NEW c \in Clients, NEW kind \in CommandKinds, NEW name \in Profiles,
             StartCommand(c, kind, name)
      PROVE  FoundingSound'
  <2>1. PICK stage \in {"config", "resolving"} :
          stage = IF kind = "create" THEN "config" ELSE "resolving"
    OBVIOUS
  <2>2. PICK new : new = [NoCommand EXCEPT !.stage = stage, !.kind = kind, !.name = name,
                                           !.default = pointer, !.adopted = pointer]
    OBVIOUS
  <2>3. /\ new.stage = stage /\ new.kind = kind /\ new.name = name /\ new.default = pointer
        /\ new.adopted = pointer
    BY <2>2 DEF NoCommand
  <2>4. command' = [command EXCEPT ![c] = new] /\ command'[c] = new
    BY <1>a, <1>2, <2>1, <2>2 DEF StartCommand
  <2>5. /\ UNCHANGED <<profileSetting, pointer, registered, legacy, directory>>
        /\ kind \in profileSetting.kinds \ {"use"} /\ SpendProfile("commands")
    BY <1>2 DEF StartCommand, NoFile
  <2>6. Present' = Present /\ Settled(pointer)
    BY <1>c, <2>5 DEF Present, FoundingLayout
  <2>7. FoundingCommand(c)'
    BY <2>1, <2>3, <2>4, <2>5, <2>6 DEF FoundingCommand, Settled
  <2> QED
    BY <1>s, <2>4, <2>5, <2>7 DEF SpendProfile
<1>3. ASSUME NEW c \in Clients, NEW name \in Profiles, StartUse(c, name) PROVE FoundingSound'
  <2>1. PICK new : new = [NoCommand EXCEPT !.stage = "pointing", !.kind = "use", !.name = name]
    OBVIOUS
  <2>2. new.stage = "pointing" /\ new.kind = "use" /\ new.name = name
    BY <2>1 DEF NoCommand
  <2>3. command' = [command EXCEPT ![c] = new] /\ command'[c] = new
    BY <1>a, <1>3, <2>1 DEF StartUse
  <2>4. /\ UNCHANGED <<profileSetting, pointer, registered, legacy, directory>>
        /\ "use" \in profileSetting.kinds /\ name \in Present /\ SpendProfile("commands")
    BY <1>3 DEF StartUse, NoFile
  <2>5. Present' = Present
    BY <2>4 DEF Present
  <2>6. FoundingCommand(c)'
    BY <2>2, <2>3, <2>4, <2>5 DEF FoundingCommand
  <2> QED
    BY <1>s, <2>3, <2>4, <2>6 DEF SpendProfile
<1>4. ASSUME NEW c \in Clients, CommandDies(c) PROVE FoundingSound'
  <2>1. /\ UNCHANGED <<profileSetting, pointer, registered, legacy, directory>>
        /\ command' = [command EXCEPT ![c] = NoCommand] /\ SpendProfile("deaths")
    BY <1>4 DEF CommandDies, NoFile, Ends
  <2>2. command'[c].stage = "idle"
    BY <1>a, <2>1 DEF NoCommand
  <2>3. FoundingCommand(c)'
    BY <2>2 DEF FoundingCommand
  <2> QED
    BY <1>s, <2>1, <2>3 DEF SpendProfile
<1>5. ASSUME NEW content \in RegistryContents, EditByHand(content) PROVE FoundingSound'
  <2>1. /\ Present \subseteq {pointer} /\ legacy' = content /\ profileBudget["edits"] > 0
        /\ registered' = [registered EXCEPT ![pointer] = content]
        /\ UNCHANGED <<profileSetting, directory, pointer, command>>
    BY <1>5 DEF EditByHand, SpendProfile
  <2>2. "create" \notin profileSetting.kinds
    BY <1>c, <2>1 DEF FoundingLayout
  <2>3. pointer = FirstProfile
    BY <1>c, <2>2, ProfilesAssumption DEF FoundingLayout, Settled, Present
  <2>4. /\ Present' = Present /\ registered'[FirstProfile] = content
        /\ \A p \in Profiles \ {FirstProfile} : registered'[p] = registered[p]
    BY <1>a, <2>1, <2>3 DEF Present, Migration, ProfileShape
  <2>5. FoundingLayout'
    BY <1>c, <2>1, <2>2, <2>3, <2>4 DEF FoundingLayout, Settled
  <2>6. \A c \in Clients : FoundingCommand(c)'
    BY <1>a, <1>c, <2>1, <2>2, <2>4, FoundingStands DEF FoundingSound
  <2> QED
    BY <2>5, <2>6 DEF FoundingSound
<1>6. ASSUME NEW c \in Clients, CommandStep(c) PROVE FoundingSound'
  <2>1. FoundingCommand(c) /\ command[c] \in CommandType
    BY <1>a, <1>c DEF FoundingSound
  <2>2. /\ command[c].stage \notin {"registering", "removing"}
        /\ command[c].stage = "listed" => command[c].kind = "create"
        /\ command[c].stage # "idle" => command[c].kind # "init"
    BY <1>c, <2>1 DEF FoundingCommand, Founding
  <2>3. /\ ~LoadRegistry(c) /\ ~LoadLegacy(c) /\ ~SaveFails(c) /\ ~AcceptRemoval(c)
        /\ ~RemoveState(c) /\ \A e \in Members : ~SaveMember(c, e)
    BY <2>2 DEF LoadRegistry, LoadLegacy, SaveFails, AcceptRemoval, RemoveState, SaveMember,
       CommandAt
  <2> QED
    BY <1>6, <1>a, <1>c, <2>3, FoundingReads, FoundingWrites DEF CommandStep
<1> QED
  BY <1>1, <1>2, <1>3, <1>4, <1>5, <1>6 DEF ProfileNext

\* Commands given in turn, with any number of profiles, deaths, failures and
\* edits between them, find in every profile what was registered in it
\* (profiles.go:29), though the default's registry moves when a second profile
\* is created; and so do commands that overlap while an installation is being
\* founded.
THEOREM RegistriesAreKept ==
  ProfileSpec => [](InTurn \/ Founding => ProfilesKeepTheirRegistry)
<1>1. TurnsKept => (InTurn => ProfilesKeepTheirRegistry)
  <2> SUFFICES ASSUME TurnsSound, NEW p \in Present PROVE RegistryOf(p) = registered[p]
    BY DEF TurnsKept, ProfilesKeepTheirRegistry
  <2> QED
    BY DEF TurnsSound, LayoutSound, RegistryOf
<1>2. FoundingKept => (Founding => ProfilesKeepTheirRegistry)
  <2> SUFFICES ASSUME FoundingLayout, Migration, NEW p \in Present
               PROVE  RegistryOf(p) = registered[p]
    BY DEF FoundingKept, FoundingSound, ProfilesKeepTheirRegistry
  <2>1. CASE p # FirstProfile
    <3>1. directory[p] = {} /\ registered[p] = {} /\ FirstProfile \in Present
      BY <2>1 DEF FoundingLayout, Present
    <3> QED
      BY <2>1, <3>1 DEF RegistryOf
  <2>2. CASE p = FirstProfile /\ "create" \in profileSetting.kinds
    BY <2>2 DEF FoundingLayout, RegistryOf
  <2>3. CASE p = FirstProfile /\ "create" \notin profileSetting.kinds
    <3>1. Present = {FirstProfile} /\ pointer = FirstProfile
      BY <2>3, ProfilesAssumption DEF FoundingLayout, Settled, Present
    <3> QED
      BY <2>3, <3>1 DEF FoundingLayout, RegistryOf
  <2> QED
    BY <2>1, <2>2, <2>3
<1> QED
  BY <1>1, <1>2, TurnsKeptInit, TurnsKeptStep, FoundingKeptInit, FoundingKeptStep, PTL
  DEF ProfileSpec

-----------------------------------------------------------------------------
(* The url of the daemon. *)

DaemonRecord ==
  [phase: {"down", "starting", "bound", "persisted", "published", "removing", "binding",
           "refused", "serving"},
   port: Ports \cup {NoPort}, stopping: BOOLEAN, open: SUBSET {"socket", "http", "endpoint"}]

DaemonsTyped == daemonSetting \in DaemonSettings /\ daemon \in [Daemons -> DaemonRecord]

\* Of a single daemon, the saved port follows the published url, and so does
\* the port it has bound, unless that one was found taken.
UrlIsKept ==
  daemonSetting.byHand = {} =>
    /\ \A d \in Daemons \ {UnitDaemon} : DaemonAt(d, "down")
    /\ url # NoPort /\ ~turnedAway =>
         /\ savedPort = url
         /\ daemon[UnitDaemon].phase \in {"bound", "persisted"} =>
              daemon[UnitDaemon].port = url
    /\ DaemonAt(UnitDaemon, "persisted") => savedPort = daemon[UnitDaemon].port

OneDaemon == DaemonsTyped /\ UrlIsKept

LEMMA NotRunningTyped == NotRunning \in DaemonRecord
BY DEF NotRunning, DaemonRecord

LEMMA EndpointInitUrl == EndpointInit => OneDaemon
<1> SUFFICES ASSUME EndpointInit PROVE OneDaemon
  OBVIOUS
<1>1. DaemonsTyped
  BY NotRunningTyped DEF EndpointInit, DaemonsTyped
<1>2. UrlIsKept
  BY UnitAssumption DEF EndpointInit, UrlIsKept, DaemonAt, NotRunning
<1> QED
  BY <1>1, <1>2 DEF OneDaemon

\* A step that leaves the url and the saved port alone, and takes no daemon to
\* where they count.
LEMMA UrlUntouched ==
  ASSUME OneDaemon, UNCHANGED <<daemonSetting, savedPort, historyVars>>,
         daemon' \in [Daemons -> DaemonRecord],
         \A d \in Daemons :
           /\ daemon'[d].phase \in {"bound", "persisted"} =>
                daemon'[d].phase = daemon[d].phase /\ daemon'[d].port = daemon[d].port
           /\ daemonSetting.byHand = {} /\ d # UnitDaemon /\ DaemonAt(d, "down") =>
                daemon'[d].phase = "down"
  PROVE  OneDaemon'
BY UnitAssumption DEF OneDaemon, DaemonsTyped, UrlIsKept, DaemonAt, historyVars

LEMMA DaemonStepUrl ==
  ASSUME OneDaemon, NEW d \in Daemons, DaemonStep(d)
  PROVE  OneDaemon'
<1> USE DEF DaemonAt, DaemonGoes
<1>a. daemon \in [Daemons -> DaemonRecord] /\ daemon[d] \in DaemonRecord
  BY DEF OneDaemon, DaemonsTyped
<1>b. daemonSetting.byHand = {} => d = UnitDaemon
  BY DEF OneDaemon, UrlIsKept, DaemonStep, BindHTTP, PersistPort, PublishEndpoint, CheckSocket,
     RemoveSocket, BindSocket, WithdrawAndFail, CloseSocket, CloseHTTP, RemoveEndpoint,
     DaemonExits, Closes
<1>1. CASE BindHTTP(d)
  <2>1. PICK p \in Ports : /\ listening[Preferred] = Nobody => p = Preferred
                           /\ daemon' = [daemon EXCEPT ![d].phase = "bound", ![d].port = p]
    BY <1>1 DEF BindHTTP
  <2>2. /\ turnedAway' = (turnedAway \/ (url # NoPort /\ listening[url] # Nobody))
        /\ UNCHANGED <<daemonSetting, savedPort, url>>
    BY <1>1 DEF BindHTTP, filesVars
  <2>3. DaemonsTyped'
    BY <1>a, <2>1, <2>2 DEF OneDaemon, DaemonsTyped, DaemonRecord
  <2>4. ASSUME daemonSetting.byHand = {}, url # NoPort, ~turnedAway' PROVE p = url
    <3>1. savedPort = url /\ listening[url] = Nobody
      BY <2>2, <2>4 DEF OneDaemon, UrlIsKept
    <3> QED
      BY <2>1, <2>4, <3>1 DEF Preferred
  <2>5. /\ daemon'[d].phase = "bound" /\ daemon'[d].port = p
        /\ \A e \in Daemons \ {d} : daemon'[e] = daemon[e]
    BY <1>a, <2>1 DEF DaemonRecord
  <2>6. ASSUME url # NoPort, ~turnedAway' PROVE ~turnedAway
    BY <2>2, <2>6
  <2>7. UrlIsKept'
    BY <1>b, <2>2, <2>4, <2>5, <2>6 DEF OneDaemon, UrlIsKept
  <2> QED
    BY <2>3, <2>7 DEF OneDaemon
<1>2. CASE PersistPort(d)
  <2>1. DaemonsTyped'
    BY <1>2, <1>a DEF PersistPort, OneDaemon, DaemonsTyped, DaemonRecord
  <2>2. /\ daemon'[d].phase = "persisted" /\ daemon'[d].port = daemon[d].port
        /\ daemon[d].phase = "bound" /\ savedPort' = daemon[d].port
        /\ \A e \in Daemons \ {d} : daemon'[e] = daemon[e]
        /\ UNCHANGED <<daemonSetting, url, turnedAway>>
    BY <1>2, <1>a DEF PersistPort, DaemonRecord, historyVars
  <2>3. UrlIsKept'
    BY <1>b, <2>2 DEF OneDaemon, UrlIsKept
  <2> QED
    BY <2>1, <2>3 DEF OneDaemon
<1>3. CASE PublishEndpoint(d)
  <2>1. DaemonsTyped'
    BY <1>3, <1>a DEF PublishEndpoint, OneDaemon, DaemonsTyped, DaemonRecord
  <2>2. /\ daemon'[d].phase = "published" /\ daemon[d].phase = "persisted"
        /\ url' = daemon[d].port
        /\ \A e \in Daemons \ {d} : daemon'[e] = daemon[e]
        /\ UNCHANGED <<daemonSetting, savedPort>>
    BY <1>3, <1>a DEF PublishEndpoint, DaemonRecord
  <2>3. UrlIsKept'
    BY <1>b, <2>2 DEF OneDaemon, UrlIsKept
  <2> QED
    BY <2>1, <2>3 DEF OneDaemon
<1>4. CASE CheckSocket(d) \/ RemoveSocket(d)
  <2>1. \E phase \in {"binding", "removing", "refused"} :
          daemon' = [daemon EXCEPT ![d].phase = phase]
    BY <1>4 DEF CheckSocket, RemoveSocket
  <2>2. UNCHANGED <<daemonSetting, savedPort, historyVars>>
    BY <1>4 DEF CheckSocket, RemoveSocket, filesVars
  <2>3. daemon' \in [Daemons -> DaemonRecord]
    BY <1>a, <2>1 DEF DaemonRecord
  <2>4. /\ daemon'[d].phase \notin {"bound", "persisted"} /\ daemon[d].phase # "down"
        /\ \A e \in Daemons \ {d} : daemon'[e] = daemon[e]
    BY <1>4, <1>a, <2>1 DEF CheckSocket, RemoveSocket, DaemonRecord
  <2> QED
    BY <2>2, <2>3, <2>4, UrlUntouched
<1>5. CASE BindSocket(d)
  <2>1. UNCHANGED <<daemonSetting, savedPort, historyVars>>
    BY <1>5 DEF BindSocket
  <2>2. daemon' \in [Daemons -> DaemonRecord]
    BY <1>5, <1>a DEF BindSocket, DaemonRecord
  <2>3. /\ daemon'[d].phase \notin {"bound", "persisted"} /\ daemon[d].phase # "down"
        /\ \A e \in Daemons \ {d} : daemon'[e] = daemon[e]
    BY <1>5, <1>a DEF BindSocket, DaemonRecord
  <2> QED
    BY <2>1, <2>2, <2>3, UrlUntouched
<1>6. CASE WithdrawAndFail(d) \/ DaemonExits(d)
  <2>1. /\ UNCHANGED <<daemonSetting, savedPort, historyVars>>
        /\ daemon' = [daemon EXCEPT ![d] = NotRunning]
    BY <1>6 DEF WithdrawAndFail, DaemonExits, filesVars
  <2>2. /\ daemon' \in [Daemons -> DaemonRecord] /\ daemon'[d].phase = "down"
        /\ \A e \in Daemons \ {d} : daemon'[e] = daemon[e]
    BY <1>a, <2>1, NotRunningTyped DEF NotRunning
  <2> QED
    BY <2>1, <2>2, UrlUntouched
<1>7. CASE CloseSocket(d) \/ CloseHTTP(d) \/ RemoveEndpoint(d)
  <2>1. UNCHANGED <<daemonSetting, savedPort, historyVars>>
    BY <1>7 DEF CloseSocket, CloseHTTP, RemoveEndpoint, filesVars
  <2>2. \E half \in {"socket", "http", "endpoint"} : Closes(d, half)
    BY <1>7 DEF CloseSocket, CloseHTTP, RemoveEndpoint
  <2>3. /\ daemon' \in [Daemons -> DaemonRecord]
        /\ \A e \in Daemons : daemon'[e].phase = daemon[e].phase
                              /\ daemon'[e].port = daemon[e].port
    BY <1>a, <2>2 DEF Closes, DaemonRecord
  <2> QED
    BY <2>1, <2>3, UrlUntouched
<1> QED
  BY <1>1, <1>2, <1>3, <1>4, <1>5, <1>6, <1>7 DEF DaemonStep

\* A daemon that is told to stop.
LEMMA StoppingTyped ==
  ASSUME NEW d \in Daemons, daemon \in [Daemons -> DaemonRecord],
         daemon' = [daemon EXCEPT ![d].stopping = TRUE]
  PROVE  /\ daemon' \in [Daemons -> DaemonRecord]
         /\ \A e \in Daemons : daemon'[e].phase = daemon[e].phase
                               /\ daemon'[e].port = daemon[e].port
<1>1. PICK new : new = [daemon[d] EXCEPT !.stopping = TRUE]
  OBVIOUS
<1>2. new \in DaemonRecord
  BY <1>1 DEF DaemonRecord
<1>3. new.phase = daemon[d].phase /\ new.port = daemon[d].port
  BY <1>1 DEF DaemonRecord
<1>4. daemon' = [daemon EXCEPT ![d] = new]
  BY <1>1
<1> QED
  BY <1>2, <1>3, <1>4

LEMMA EndpointStepUrl == OneDaemon /\ [EndpointNext]_endpointVars => OneDaemon'
<1> SUFFICES ASSUME OneDaemon, [EndpointNext]_endpointVars PROVE OneDaemon'
  OBVIOUS
<1> USE DEF DaemonAt
<1>a. daemon \in [Daemons -> DaemonRecord]
  BY DEF OneDaemon, DaemonsTyped
<1>b. [NotRunning EXCEPT !.phase = "starting"] \in DaemonRecord
  BY DEF NotRunning, DaemonRecord
<1>1. CASE UNCHANGED <<daemonSetting, daemon, savedPort, historyVars>>
  BY <1>1, <1>a, UrlUntouched
<1>2. ASSUME NEW d \in Daemons, DaemonDies(d) PROVE OneDaemon'
  BY <1>2, <1>a, NotRunningTyped, UrlUntouched DEF DaemonDies, NotRunning
<1>3. ASSUME NEW d \in Daemons, StartByHand(d) PROVE OneDaemon'
  BY <1>3, <1>a, <1>b, UrlUntouched DEF StartByHand, Starts, NotRunning, filesVars
<1>4. ASSUME NEW d \in Daemons, StopDaemon(d) PROVE OneDaemon'
  <2>1. UNCHANGED <<daemonSetting, savedPort, historyVars>>
    BY <1>4 DEF StopDaemon, filesVars
  <2>2. /\ daemon' \in [Daemons -> DaemonRecord]
        /\ \A e \in Daemons : daemon'[e].phase = daemon[e].phase
                              /\ daemon'[e].port = daemon[e].port
    BY <1>4, <1>a, StoppingTyped DEF StopDaemon
  <2> QED
    BY <2>1, <2>2, UrlUntouched
<1>5. CASE SupervisorStarts
  BY <1>5, <1>a, <1>b, UnitAssumption, UrlUntouched DEF SupervisorStarts, Starts, NotRunning, filesVars
<1>6. CASE RestartUnit \/ RemoveUnit
  <2>1. UNCHANGED <<daemonSetting, savedPort, historyVars>>
    BY <1>6 DEF RestartUnit, RemoveUnit, filesVars
  <2>2. \/ daemon' = daemon
        \/ daemon' = [daemon EXCEPT ![UnitDaemon].stopping = TRUE]
    BY <1>6 DEF RestartUnit, RemoveUnit
  <2>3. /\ daemon' \in [Daemons -> DaemonRecord]
        /\ \A e \in Daemons : daemon'[e].phase = daemon[e].phase
                              /\ daemon'[e].port = daemon[e].port
    <3>1. CASE daemon' = [daemon EXCEPT ![UnitDaemon].stopping = TRUE]
      BY <1>a, <3>1, UnitAssumption, StoppingTyped
    <3> QED
      BY <1>a, <2>2, <3>1
  <2> QED
    BY <2>1, <2>3, UrlUntouched
<1>7. CASE StrangerMoves
  BY <1>1, <1>7 DEF StrangerMoves, filesVars
<1>8. ASSUME NEW s \in Serves, ServeStarts(s) \/ ServeStep(s) \/ ServeEnds(s) PROVE OneDaemon'
  BY <1>1, <1>8 DEF ServeStarts, ServeStep, ServeEnds, Probe, InspectUnit, TakeProvisionLock,
     InstallUnit, AwaitDaemon, processVars, filesVars
<1>9. CASE UNCHANGED endpointVars
  BY <1>1, <1>9 DEF endpointVars, processVars, filesVars
<1> QED
  BY <1>2, <1>3, <1>4, <1>5, <1>6, <1>7, <1>8, <1>9, DaemonStepUrl DEF EndpointNext, UserStep

(***************************************************************************)
(* The url a client is configured with moves only if its port was found    *)
(* taken since, through any deaths, restarts and updates of the one daemon *)
(* (http.go:325), wherever between its two files the daemon dies.          *)
(***************************************************************************)
THEOREM UrlIsStable == EndpointSpec => UrlMovesOnlyIfTaken
<1> DEFINE Moves ==
      \A d \in Daemons :
        daemonSetting.byHand = {} /\ DaemonAt(d, "persisted") /\ daemon'[d].phase = "published"
          => \/ url \in {NoPort, daemon[d].port}
             \/ turnedAway
<1>1. OneDaemon => Moves
  BY DEF OneDaemon, UrlIsKept, DaemonAt
<1> QED
  BY <1>1, EndpointInitUrl, EndpointStepUrl, PTL DEF EndpointSpec, UrlMovesOnlyIfTaken

-----------------------------------------------------------------------------
(* What the socket of the one daemon promises. *)

DoorsTyped ==
  /\ listening \in [Ports -> Daemons \cup {Nobody, Stranger}]
  /\ socket \in Daemons \cup {Nobody, Stale}
  /\ savedPort \in Ports \cup {NoPort} /\ endpoint \in Ports \cup {NoPort}
  /\ unit \in [installed: BOOLEAN, due: BOOLEAN, left: 0 .. StartLimit]
  /\ provisioning \in Serves \cup {Nobody}
  /\ serve \in [Serves -> {"off", "probing", "inspecting", "locking", "installing",
                           "waiting", "relaying", "inProcess"}]

\* A single daemon listens on its port from the moment it has bound it, is the
\* one the endpoint names once that is published, and owns the socket while it
\* serves; it gives any of them up only when it was told to stop.
DoorsAreKept ==
  daemonSetting.byHand = {} =>
    LET m == daemon[UnitDaemon]
        up == m.phase \in {"published", "removing", "binding"}
        bound == up \/ m.phase \in {"bound", "persisted"}
    IN  /\ bound \/ (m.phase = "serving" /\ "http" \in m.open) =>
             m.port \in Ports /\ listening[m.port] = UnitDaemon
        /\ up \/ (m.phase = "serving" /\ "endpoint" \in m.open) => endpoint = m.port
        /\ m.phase = "serving" /\ "socket" \in m.open => socket = UnitDaemon
        /\ m.phase = "serving" /\ ~m.stopping => m.open = {"socket", "http", "endpoint"}

OpenDoors == OneDaemon /\ DoorsTyped /\ DoorsAreKept

LEMMA OpenDoorsInit == EndpointInit => OpenDoors
<1> SUFFICES ASSUME EndpointInit PROVE OpenDoors
  OBVIOUS
<1>1. daemonSetting \in DaemonSetting /\ daemonSetting.supervised \in BOOLEAN
  BY DaemonSettingsAssumption DEF EndpointInit, DaemonSetting
<1>2. PICK before \in BOOLEAN :
        unit = [installed |-> before, due |-> before, left |-> StartLimit]
  BY <1>1 DEF EndpointInit
<1>3. unit \in [installed: BOOLEAN, due: BOOLEAN, left: 0 .. StartLimit]
  BY <1>2, UnitAssumption
<1>4. DoorsTyped
  BY <1>3, PortsAssumption DEF EndpointInit, DoorsTyped
<1>5. DoorsAreKept
  BY UnitAssumption DEF EndpointInit, DoorsAreKept, NotRunning
<1> QED
  BY <1>4, <1>5, EndpointInitUrl DEF OpenDoors

\* The doors of a daemon that is where it was, in a step of somebody else.
LEMMA DoorsUntouched ==
  ASSUME DoorsAreKept, UNCHANGED <<daemonSetting, endpoint, socket>>, UnitDaemon \in Daemons,
         daemon \in [Daemons -> DaemonRecord],
         daemon'[UnitDaemon] = daemon[UnitDaemon],
         \A p \in Ports : listening[p] = UnitDaemon => listening'[p] = UnitDaemon
  PROVE  DoorsAreKept'
<1> DEFINE m == daemon[UnitDaemon]
<1>1. m \in DaemonRecord
  OBVIOUS
<1> HIDE DEF m
<1>2. daemon'[UnitDaemon] = m /\ daemon[UnitDaemon] = m
  BY DEF m
<1> QED
  BY <1>1, <1>2 DEF DoorsAreKept, DaemonRecord

LEMMA FailureTyped ==
  ASSUME NEW d, unit \in [installed: BOOLEAN, due: BOOLEAN, left: 0 .. StartLimit]
  PROVE  UnitAfterFailure(d) \in [installed: BOOLEAN, due: BOOLEAN, left: 0 .. StartLimit]
<1>1. unit.installed \in BOOLEAN /\ unit.left \in 0 .. StartLimit
  OBVIOUS
<1>2. ASSUME unit.left > 0
      PROVE  [unit EXCEPT !.due = TRUE, !.left = unit.left - 1]
               \in [installed: BOOLEAN, due: BOOLEAN, left: 0 .. StartLimit]
  <2>1. unit.left - 1 \in 0 .. StartLimit
    BY <1>1, <1>2, UnitAssumption
  <2> QED
    BY <2>1
<1> QED
  BY <1>2 DEF UnitAfterFailure

LEMMA DaemonStepDoors ==
  ASSUME OpenDoors, NEW d \in Daemons, DaemonStep(d)
  PROVE  DoorsTyped' /\ DoorsAreKept'
<1> DEFINE m == daemon[d]
           new == daemon'[d]
<1> USE DEF DaemonAt, DaemonGoes
<1>a. /\ daemon \in [Daemons -> DaemonRecord] /\ daemon[d] \in DaemonRecord
      /\ DoorsTyped /\ DoorsAreKept
  BY DEF OpenDoors, OneDaemon, DaemonsTyped
<1>b. daemonSetting.byHand = {} => d = UnitDaemon
  BY DEF OpenDoors, OneDaemon, UrlIsKept, DaemonStep, BindHTTP, PersistPort, PublishEndpoint,
     CheckSocket, RemoveSocket, BindSocket, WithdrawAndFail, CloseSocket, CloseHTTP,
     RemoveEndpoint, DaemonExits, Closes
<1>c. UNCHANGED <<daemonSetting, provisioning, serve>>
  BY DEF DaemonStep, BindHTTP, PersistPort, PublishEndpoint, CheckSocket, RemoveSocket,
     BindSocket, WithdrawAndFail, CloseSocket, CloseHTTP, RemoveEndpoint, DaemonExits, clientVars
<1>1. CASE BindHTTP(d)
  <2>1. PICK p \in Ports : /\ daemon' = [daemon EXCEPT ![d].phase = "bound", ![d].port = p]
                           /\ listening' = [listening EXCEPT ![p] = d]
    BY <1>1 DEF BindHTTP
  <2>2. UNCHANGED <<savedPort, endpoint, socket, unit>>
    BY <1>1 DEF BindHTTP, filesVars
  <2>3. new.phase = "bound" /\ new.port = p /\ listening'[p] = d
    BY <1>a, <2>1 DEF DaemonRecord, DoorsTyped
  <2>4. DoorsTyped'
    BY <1>a, <1>c, <2>1, <2>2 DEF DoorsTyped
  <2>5. DoorsAreKept'
    BY <1>a, <1>b, <1>c, <2>2, <2>3 DEF DoorsAreKept
  <2> QED
    BY <2>4, <2>5
<1>2. CASE PersistPort(d)
  <2>1. /\ m.phase = "bound" /\ new.phase = "persisted" /\ new.port = m.port
        /\ savedPort' = m.port /\ m.port \in Ports \cup {NoPort}
        /\ UNCHANGED <<listening, endpoint, socket, unit>>
    BY <1>a, <1>2 DEF PersistPort, DaemonRecord
  <2>2. DoorsTyped'
    BY <1>a, <1>c, <2>1 DEF DoorsTyped
  <2>3. DoorsAreKept'
    BY <1>a, <1>b, <1>c, <2>1 DEF DoorsAreKept
  <2> QED
    BY <2>2, <2>3
<1>3. CASE PublishEndpoint(d)
  <2>1. /\ m.phase = "persisted" /\ new.phase = "published" /\ new.port = m.port
        /\ endpoint' = m.port /\ m.port \in Ports \cup {NoPort}
        /\ UNCHANGED <<listening, savedPort, socket, unit>>
    BY <1>a, <1>3 DEF PublishEndpoint, DaemonRecord
  <2>2. DoorsTyped'
    BY <1>a, <1>c, <2>1 DEF DoorsTyped
  <2>3. DoorsAreKept'
    BY <1>a, <1>b, <1>c, <2>1 DEF DoorsAreKept
  <2> QED
    BY <2>2, <2>3
<1>4. CASE CheckSocket(d) \/ RemoveSocket(d)
  <2>1. PICK phase \in {"binding", "removing", "refused"} :
          daemon' = [daemon EXCEPT ![d].phase = phase]
    BY <1>4 DEF CheckSocket, RemoveSocket
  <2>2. /\ m.phase \in {"published", "removing"} /\ new.phase = phase /\ new.port = m.port
        /\ socket' \in {socket, Nobody}
        /\ UNCHANGED <<listening, savedPort, endpoint, unit>>
    BY <1>a, <1>4, <2>1 DEF CheckSocket, RemoveSocket, DaemonRecord, filesVars
  <2>3. DoorsTyped'
    BY <1>a, <1>c, <2>2 DEF DoorsTyped
  <2>4. DoorsAreKept'
    BY <1>a, <1>b, <1>c, <2>2 DEF DoorsAreKept
  <2> QED
    BY <2>3, <2>4
<1>5. CASE BindSocket(d)
  <2>1. /\ m.phase = "binding" /\ new.port = m.port
        /\ UNCHANGED <<listening, savedPort, endpoint, unit>>
        /\ \/ /\ socket' = d /\ new.phase = "serving"
              /\ new.open = {"socket", "http", "endpoint"}
           \/ new.phase = "refused" /\ UNCHANGED socket
    BY <1>a, <1>5 DEF BindSocket, DaemonRecord
  <2>2. DoorsTyped'
    BY <1>a, <1>c, <2>1 DEF DoorsTyped
  <2>3. CASE new.phase = "serving"
    <3>1. socket' = d /\ new.open = {"socket", "http", "endpoint"}
      BY <2>1, <2>3
    <3>2. ASSUME daemonSetting.byHand = {}
          PROVE  m.port \in Ports /\ listening[m.port] = d /\ endpoint = m.port /\ d = UnitDaemon
      BY <1>a, <1>b, <2>1, <3>2 DEF DoorsAreKept
    <3> QED
      BY <1>c, <2>1, <2>2, <2>3, <3>1, <3>2 DEF DoorsAreKept
  <2>4. CASE new.phase = "refused"
    BY <1>a, <1>b, <1>c, <2>1, <2>2, <2>4 DEF DoorsAreKept
  <2> QED
    BY <2>1, <2>3, <2>4
<1>6. CASE WithdrawAndFail(d) \/ DaemonExits(d)
  <2>1. /\ new = NotRunning /\ new.phase = "down"
        /\ UNCHANGED <<savedPort, socket>> /\ endpoint' \in {endpoint, NoPort}
        /\ listening' \in {listening, FreedOf(d)} /\ unit' \in {unit, UnitAfterFailure(d)}
    <3>1. CASE WithdrawAndFail(d)
      BY <1>a, <3>1 DEF WithdrawAndFail, NotRunning
    <3>2. CASE DaemonExits(d)
      BY <1>a, <3>2 DEF DaemonExits, NotRunning, filesVars
    <3> QED
      BY <1>6, <3>1, <3>2
  <2>2. UnitAfterFailure(d) \in [installed: BOOLEAN, due: BOOLEAN, left: 0 .. StartLimit]
    BY <1>a, FailureTyped DEF DoorsTyped
  <2>3. FreedOf(d) \in [Ports -> Daemons \cup {Nobody, Stranger}]
    BY <1>a DEF FreedOf, DoorsTyped
  <2>4. DoorsTyped'
    BY <1>a, <1>c, <2>1, <2>2, <2>3 DEF DoorsTyped
  <2>5. DoorsAreKept'
    BY <1>a, <1>b, <1>c, <2>1 DEF DoorsAreKept
  <2> QED
    BY <2>4, <2>5
<1>7. ASSUME NEW half \in {"socket", "http", "endpoint"}, Closes(d, half),
             half # "socket" => UNCHANGED socket, half # "http" => UNCHANGED listening,
             half # "endpoint" => UNCHANGED endpoint
      PROVE  DoorsAreKept'
  <2>1. /\ m.phase = "serving" /\ m.stopping
        /\ daemon' = [daemon EXCEPT ![d].open = @ \ {half}]
    BY <1>7 DEF Closes
  <2>2. /\ new.phase = m.phase /\ new.port = m.port /\ new.stopping = m.stopping
        /\ new.open = m.open \ {half}
    BY <1>a, <2>1 DEF DaemonRecord
  <2>3. /\ "socket" \in new.open => UNCHANGED socket /\ "socket" \in m.open
        /\ "http" \in new.open => UNCHANGED listening /\ "http" \in m.open
        /\ "endpoint" \in new.open => UNCHANGED endpoint /\ "endpoint" \in m.open
    BY <1>7, <2>2
  <2> QED
    BY <1>a, <1>b, <1>c, <2>1, <2>2, <2>3 DEF DoorsAreKept
<1>8. CASE CloseSocket(d) \/ CloseHTTP(d) \/ RemoveEndpoint(d)
  <2>1. DoorsAreKept'
    BY <1>7, <1>8 DEF CloseSocket, CloseHTTP, RemoveEndpoint, filesVars
  <2>2. FreedOf(d) \in [Ports -> Daemons \cup {Nobody, Stranger}]
    BY <1>a DEF FreedOf, DoorsTyped
  <2>3. DoorsTyped'
    BY <1>a, <1>8, <1>c, <2>2 DEF CloseSocket, CloseHTTP, RemoveEndpoint, filesVars, DoorsTyped
  <2> QED
    BY <2>1, <2>3
<1> QED
  BY <1>1, <1>2, <1>3, <1>4, <1>5, <1>6, <1>8 DEF DaemonStep

LEMMA OpenDoorsStep == OpenDoors /\ [EndpointNext]_endpointVars => OpenDoors'
<1> SUFFICES ASSUME OpenDoors, [EndpointNext]_endpointVars PROVE DoorsTyped' /\ DoorsAreKept'
  BY EndpointStepUrl DEF OpenDoors
<1> USE DEF DaemonAt
<1>a. /\ daemon \in [Daemons -> DaemonRecord] /\ DoorsTyped /\ DoorsAreKept
      /\ UnitDaemon \in Daemons
  BY UnitAssumption DEF OpenDoors, OneDaemon, DaemonsTyped
<1>b. ASSUME NEW d \in Daemons, daemonSetting.byHand = {}, daemon[d].phase # "down"
      PROVE  d = UnitDaemon
  BY <1>b DEF OpenDoors, OneDaemon, UrlIsKept
<1>1. ASSUME UNCHANGED <<daemonSetting, daemon, listening, endpoint, socket>>
      PROVE  DoorsAreKept'
  BY <1>1, <1>a, DoorsUntouched
<1>2. ASSUME NEW d \in Daemons, DaemonDies(d) PROVE DoorsTyped' /\ DoorsAreKept'
  <2>1. /\ UNCHANGED <<daemonSetting, savedPort, endpoint, provisioning, serve>>
        /\ socket' \in {socket, Stale} /\ listening' = FreedOf(d)
        /\ unit' = UnitAfterFailure(d) /\ daemon[d].phase # "down"
        /\ daemon'[d] = NotRunning /\ NotRunning.phase = "down"
    BY <1>2, <1>a DEF DaemonDies, NotRunning, clientVars
  <2>2. FreedOf(d) \in [Ports -> Daemons \cup {Nobody, Stranger}]
    BY <1>a DEF FreedOf, DoorsTyped
  <2>3. UnitAfterFailure(d) \in [installed: BOOLEAN, due: BOOLEAN, left: 0 .. StartLimit]
    BY <1>a, FailureTyped DEF DoorsTyped
  <2>4. DoorsTyped'
    BY <1>a, <2>1, <2>2, <2>3 DEF DoorsTyped
  <2>5. DoorsAreKept'
    BY <1>b, <2>1 DEF DoorsAreKept
  <2> QED
    BY <2>4, <2>5
<1>3. ASSUME NEW d \in Daemons, StartByHand(d) PROVE DoorsTyped' /\ DoorsAreKept'
  <2>1. /\ d \in daemonSetting.byHand
        /\ UNCHANGED <<daemonSetting, listening, savedPort, endpoint, socket, unit,
                       provisioning, serve>>
    BY <1>3 DEF StartByHand, filesVars, clientVars
  <2> QED
    BY <1>a, <2>1 DEF DoorsTyped, DoorsAreKept
<1>4. ASSUME NEW d \in Daemons, daemon[d].phase # "down",
             daemon' = [daemon EXCEPT ![d].stopping = TRUE],
             UNCHANGED <<daemonSetting, listening, endpoint, socket>>
      PROVE  DoorsAreKept'
  <2>1. /\ daemon'[d].phase = daemon[d].phase /\ daemon'[d].port = daemon[d].port
        /\ daemon'[d].open = daemon[d].open /\ daemon'[d].stopping = TRUE
    BY <1>4, <1>a DEF DaemonRecord
  <2> QED
    BY <1>4, <1>a, <1>b, <2>1 DEF DoorsAreKept
<1>5. ASSUME NEW d \in Daemons, StopDaemon(d) PROVE DoorsTyped' /\ DoorsAreKept'
  <2>1. DoorsTyped'
    BY <1>a, <1>5 DEF StopDaemon, DoorsTyped, filesVars, clientVars
  <2>2. DoorsAreKept'
    BY <1>4, <1>5 DEF StopDaemon, filesVars
  <2> QED
    BY <2>1, <2>2
<1>6. CASE SupervisorStarts
  <2>1. /\ UNCHANGED <<daemonSetting, listening, savedPort, endpoint, socket, provisioning, serve>>
        /\ daemon'[UnitDaemon] = [NotRunning EXCEPT !.phase = "starting"]
        /\ unit' = [unit EXCEPT !.due = FALSE]
    BY <1>6, <1>a DEF SupervisorStarts, Starts, filesVars, clientVars
  <2>2. daemon'[UnitDaemon].phase = "starting"
    BY <2>1 DEF NotRunning
  <2>3. DoorsTyped'
    BY <1>a, <2>1 DEF DoorsTyped
  <2>4. DoorsAreKept'
    BY <2>2 DEF DoorsAreKept
  <2> QED
    BY <2>3, <2>4
<1>7. CASE RestartUnit \/ RemoveUnit
  <2>1. /\ UNCHANGED <<daemonSetting, listening, savedPort, endpoint, socket, provisioning, serve>>
        /\ \/ unit' = [unit EXCEPT !.due = TRUE]
           \/ unit' = [unit EXCEPT !.installed = FALSE, !.due = FALSE]
        /\ daemon' = IF daemon[UnitDaemon].phase = "down" THEN daemon
                     ELSE [daemon EXCEPT ![UnitDaemon].stopping = TRUE]
    BY <1>7 DEF RestartUnit, RemoveUnit, filesVars, clientVars
  <2>2. DoorsTyped'
    BY <1>a, <2>1 DEF DoorsTyped
  <2>3. DoorsAreKept'
    BY <1>1, <1>4, <1>a, <2>1
  <2> QED
    BY <2>2, <2>3
<1>8. CASE StrangerMoves
  <2>1. /\ UNCHANGED <<daemonSetting, daemon, savedPort, endpoint, socket, unit, provisioning,
                       serve>>
        /\ \E p \in Ports : /\ listening[p] \in {Nobody, Stranger}
                            /\ \E to \in {Nobody, Stranger} :
                                 listening' = [listening EXCEPT ![p] = to]
    BY <1>8 DEF StrangerMoves, filesVars, clientVars
  <2>2. DoorsTyped'
    BY <1>a, <2>1 DEF DoorsTyped
  <2>3. UnitDaemon \notin {Nobody, Stranger}
    BY <1>a, NobodyAssumption
  <2>4. \A p \in Ports : listening[p] = UnitDaemon => listening'[p] = UnitDaemon
    BY <1>a, <2>1, <2>3 DEF DoorsTyped
  <2>5. DoorsAreKept'
    BY <1>a, <2>1, <2>4, DoorsUntouched
  <2> QED
    BY <2>2, <2>5
<1>9. ASSUME NEW s \in Serves, ServeStarts(s) \/ ServeStep(s) \/ ServeEnds(s)
      PROVE  DoorsTyped' /\ DoorsAreKept'
  <2>1. UNCHANGED <<daemonSetting, daemon, listening, savedPort, endpoint, socket>>
    BY <1>9 DEF ServeStarts, ServeStep, ServeEnds, Probe, InspectUnit, TakeProvisionLock,
       InstallUnit, AwaitDaemon, processVars, filesVars
  <2>2. unit' \in [installed: BOOLEAN, due: BOOLEAN, left: 0 .. StartLimit]
    <3>1. Enabled \in [installed: BOOLEAN, due: BOOLEAN, left: 0 .. StartLimit]
      BY UnitAssumption DEF Enabled
    <3>2. unit' \in {unit, Enabled}
      BY <1>9 DEF ServeStarts, ServeStep, ServeEnds, Probe, InspectUnit, TakeProvisionLock,
         InstallUnit, AwaitDaemon
    <3> QED
      BY <1>a, <3>1, <3>2 DEF DoorsTyped
  <2>3. provisioning' \in {provisioning, s, Nobody}
    BY <1>9 DEF ServeStarts, ServeStep, ServeEnds, Probe, InspectUnit, TakeProvisionLock,
       InstallUnit, AwaitDaemon, Released
  <2>4. \E phase \in {"off", "probing", "inspecting", "locking", "installing", "waiting",
                      "relaying", "inProcess"} :
          serve' = [serve EXCEPT ![s] = phase]
    BY <1>9 DEF ServeStarts, ServeStep, ServeEnds, Probe, InspectUnit, TakeProvisionLock,
       InstallUnit, AwaitDaemon, ServeGoes
  <2>5. DoorsTyped'
    BY <1>a, <2>1, <2>2, <2>3, <2>4 DEF DoorsTyped
  <2> QED
    BY <1>1, <2>1, <2>5
<1>10. CASE UNCHANGED endpointVars
  BY <1>a, <1>1, <1>10 DEF endpointVars, processVars, filesVars, clientVars, DoorsTyped
<1> QED
  BY <1>2, <1>3, <1>5, <1>6, <1>7, <1>8, <1>9, <1>10, DaemonStepDoors DEF EndpointNext, UserStep

\* The records of the daemons, the ports and the clients have the types the code
\* gives them (cmd/kivgraph/daemon.go, internal/daemon, internal/supervise).
THEOREM EndpointTyped == EndpointSpec => []EndpointTypeOK
<1>1. OpenDoors => EndpointTypeOK
  BY DEF OpenDoors, OneDaemon, DaemonsTyped, DoorsTyped, EndpointTypeOK, DaemonRecord
<1> QED
  BY <1>1, OpenDoorsInit, OpenDoorsStep, PTL DEF EndpointSpec

(***************************************************************************)
(* "Reaching [the socket] implies the endpoint is there"                   *)
(* (cmd/kivgraph/daemon.go:74) as long as no second daemon is started by   *)
(* hand: of a daemon that serves and that nobody stops, the endpoint names *)
(* the port it listens on, through any deaths and restarts before it, and  *)
(* the socket is its own.                                                  *)
(***************************************************************************)
THEOREM LoneSocketImpliesEndpoint ==
  EndpointSpec => [](daemonSetting.byHand = {} =>
                       /\ SocketImpliesEndpoint
                       /\ \A d \in Daemons :
                            DaemonAt(d, "serving") /\ ~daemon[d].stopping =>
                              Answers(d) /\ listening[endpoint] = d)
<1>1. OpenDoors => (daemonSetting.byHand = {} =>
                      /\ SocketImpliesEndpoint
                      /\ \A d \in Daemons :
                           DaemonAt(d, "serving") /\ ~daemon[d].stopping =>
                             Answers(d) /\ listening[endpoint] = d)
  <2> SUFFICES ASSUME OpenDoors, daemonSetting.byHand = {}, NEW d \in Daemons,
                      DaemonAt(d, "serving"), ~daemon[d].stopping
               PROVE  Answers(d) /\ listening[endpoint] = d /\ endpoint # NoPort
    BY DEF SocketImpliesEndpoint
  <2>1. d = UnitDaemon
    BY DEF OpenDoors, OneDaemon, UrlIsKept, DaemonAt
  <2>2. /\ daemon[d].port \in Ports /\ listening[daemon[d].port] = d
        /\ endpoint = daemon[d].port /\ socket = d
    BY <2>1 DEF OpenDoors, DoorsAreKept, DaemonAt
  <2> QED
    BY <2>2, PortsAssumption DEF Answers
<1> QED
  BY <1>1, OpenDoorsInit, OpenDoorsStep, PTL DEF EndpointSpec

-----------------------------------------------------------------------------
(* Following HEAD: the types. *)

LoopRecord ==
  [phase: {"stopped", "polling", "comparing", "rebuilding"},
   heads: [Follows -> Commits \cup {NoCommit}],
   pending: Batches, batch: Batches, failed: Batches,
   count: Nat, built: Checkouts \cup {NoPass}]

WorldTyped ==
  /\ resyncSetting \in ResyncSettings
  /\ head \in [Follows -> Commits]
  /\ checkout \in [Follows -> Commits \cup {NoCommit}]
  /\ files \in Checkouts

LoopsTyped ==
  /\ WorldTyped
  /\ server \in [Servers -> LoopRecord]
  /\ tries \in [Servers -> Seq(Batches)]

\* A batch is a movement of some of the followed repositories.
LEMMA BatchesTyped ==
  /\ NoBatch \in Batches /\ DOMAIN NoBatch = {}
  /\ \A batch \in Batches : /\ DOMAIN batch \subseteq Follows
                            /\ batch \in [DOMAIN batch -> Movement]
  /\ \A D \in SUBSET Follows : \A batch \in [D -> Movement] : batch \in Batches
<1>1. DOMAIN NoBatch = {} /\ NoBatch \in [{} -> Movement]
  BY DEF NoBatch
<1> QED
  BY <1>1 DEF Batches

LEMMA PrimedTyped ==
  ASSUME WorldTyped, NEW readable \in SUBSET Follows
  PROVE  Primed(readable) \in LoopRecord /\ Stopped \in LoopRecord
<1>1. \A some \in SUBSET Follows : Primed(some) \in LoopRecord
  BY BatchesTyped DEF Primed, LoopRecord, WorldTyped
<1>2. Stopped \in LoopRecord
  <2>1. Primed({}) \in LoopRecord
    BY <1>1
  <2> QED
    BY <2>1 DEF Stopped, LoopRecord
<1> QED
  BY <1>1, <1>2

LEMMA FollowsConstant == [ResyncNext]_resyncVars => UNCHANGED resyncSetting
<1> SUFFICES ASSUME [ResyncNext]_resyncVars PROVE UNCHANGED resyncSetting
  OBVIOUS
<1>1. ASSUME NEW s \in Servers, LoopStep(s) PROVE UNCHANGED resyncSetting
  BY <1>1 DEF LoopStep, Poll, TakeBatch, SkipUnchanged, LoseLock, StartPass, Publish, FailPass,
     FailAttach, YieldToPublisher
<1> QED
  BY <1>1 DEF ResyncNext, BeginCheckout, EndCheckout, Die, Start, OutsideStarts, OutsideEnds,
     resyncVars


\* The helpers of the loop, field by field.
LEMMA PollingAgain ==
  ASSUME NEW loop \in LoopRecord
  PROVE  /\ BackToPolling(loop) \in LoopRecord /\ BackToPolling(loop).phase = "polling"
         /\ BackToPolling(loop).heads = loop.heads /\ BackToPolling(loop).pending = loop.pending
         /\ BackToPolling(loop).failed = loop.failed /\ BackToPolling(loop).count = loop.count
<1> DEFINE loose == [loop EXCEPT !.phase = "polling", !.batch = NoBatch]
<1>1. loose \in LoopRecord /\ loose = [loose EXCEPT !.phase = "polling"]
  BY BatchesTyped DEF LoopRecord
<1>2. /\ loose.phase = "polling" /\ loose.heads = loop.heads /\ loose.pending = loop.pending
      /\ loose.failed = loop.failed /\ loose.count = loop.count
  BY DEF LoopRecord
<1>3. BackToPolling(loop) = [loose EXCEPT !.built = NoPass]
  BY DEF BackToPolling, LoopRecord
<1> HIDE DEF loose
<1> QED
  BY <1>1, <1>2, <1>3 DEF LoopRecord

LEMMA FailuresCleared ==
  ASSUME NEW loop \in LoopRecord
  PROVE  /\ ClearFailures(loop) \in LoopRecord
         /\ ClearFailures(loop).pending = loop.pending
         /\ ClearFailures(loop).failed = NoBatch /\ ClearFailures(loop).count = 0
BY BatchesTyped DEF ClearFailures, LoopRecord

LEMMA FailureRecorded ==
  ASSUME NEW loop \in LoopRecord
  PROVE  /\ RecordFailure(loop) \in LoopRecord
         /\ RecordFailure(loop).heads = loop.heads /\ RecordFailure(loop).batch = loop.batch
         /\ RecordFailure(loop).pending = loop.pending
         /\ RecordFailure(loop).failed = loop.batch
         /\ RecordFailure(loop).count = IF loop.failed = loop.batch THEN loop.count + 1 ELSE 1
<1> DEFINE counted == IF loop.failed = loop.batch THEN loop.count + 1 ELSE 1
<1>1. counted \in Nat
  BY DEF LoopRecord
<1>2. RecordFailure(loop) = [loop EXCEPT !.failed = loop.batch, !.count = counted]
  BY DEF RecordFailure
<1> HIDE DEF counted
<1>3. /\ RecordFailure(loop) \in LoopRecord
      /\ RecordFailure(loop).heads = loop.heads /\ RecordFailure(loop).batch = loop.batch
      /\ RecordFailure(loop).pending = loop.pending
      /\ RecordFailure(loop).failed = loop.batch
      /\ RecordFailure(loop).count = counted
  BY <1>1, <1>2 DEF LoopRecord
<1> QED
  BY <1>3 DEF counted

LEMMA Rewound ==
  ASSUME NEW loop \in LoopRecord
  PROVE  /\ Rewind(loop) \in LoopRecord
         /\ Rewind(loop).pending = loop.pending /\ Rewind(loop).failed = loop.failed
         /\ Rewind(loop).count = loop.count
         /\ \A r \in DOMAIN loop.batch : Rewind(loop).heads[r] = loop.batch[r].from
<1> DEFINE back == [r \in DOMAIN loop.heads |->
                      IF r \in DOMAIN loop.batch THEN loop.batch[r].from ELSE loop.heads[r]]
<1>1. DOMAIN loop.batch \subseteq Follows /\ loop.batch \in [DOMAIN loop.batch -> Movement]
  BY BatchesTyped DEF LoopRecord
<1>2. loop.heads \in [Follows -> Commits \cup {NoCommit}]
  BY DEF LoopRecord
<1>3. \A r \in DOMAIN loop.batch : loop.batch[r].from \in Commits
  BY <1>1 DEF Movement
<1>4. /\ back \in [Follows -> Commits \cup {NoCommit}]
      /\ \A r \in DOMAIN loop.batch : back[r] = loop.batch[r].from
  BY <1>1, <1>2, <1>3
<1>5. Rewind(loop) = [loop EXCEPT !.heads = back]
  BY DEF Rewind
<1> HIDE DEF back
<1> QED
  BY <1>4, <1>5 DEF LoopRecord
LEMMA WorldTypedStep == WorldTyped /\ [ResyncNext]_resyncVars => WorldTyped'
<1> SUFFICES ASSUME WorldTyped, [ResyncNext]_resyncVars PROVE WorldTyped'
  OBVIOUS
<1> UNCHANGED resyncSetting
  BY FollowsConstant
<1> USE DEF WorldTyped, Checkouts, Follows
<1>1. CASE UNCHANGED world
  BY <1>1 DEF world
<1>2. ASSUME NEW r \in Follows, NEW c \in Commits, NEW b \in BOOLEAN, BeginCheckout(r, c, b)
      PROVE  WorldTyped'
  <2>1. TreeOf[c] \in Trees
    BY DEF Trees
  <2> QED
    BY <1>2, <2>1 DEF BeginCheckout
<1>3. ASSUME NEW r \in Follows, EndCheckout(r) PROVE WorldTyped'
  <2>1. checkout[r] \in Commits /\ TreeOf[checkout[r]] \in Trees
    BY <1>3 DEF EndCheckout, Trees
  <2> QED
    BY <1>3, <2>1 DEF EndCheckout
<1>4. ASSUME NEW s \in Servers, LoopStep(s) PROVE UNCHANGED world
  BY <1>4 DEF LoopStep, Poll, TakeBatch, SkipUnchanged, LoseLock, StartPass, Publish, FailPass,
     FailAttach, YieldToPublisher
<1>5. ASSUME NEW s \in Servers, Die(s) \/ \E readable \in Readable : Start(s, readable)
      PROVE  UNCHANGED world
  BY <1>5 DEF Die, Start
<1> QED
  BY <1>1, <1>2, <1>3, <1>4, <1>5 DEF ResyncNext, OutsideStarts, OutsideEnds, resyncVars, world

-----------------------------------------------------------------------------
(* What a loop remembers of its failures. *)

\* Where the commits not taken into a batch yet start from.
Origin(loop, r) == IF r \in DOMAIN loop.pending THEN loop.pending[r].from ELSE loop.heads[r]

\* A movement that was given up cannot be the next one: its repositories are
\* where it led, so what comes next starts from there.
CannotRepeat(loop) ==
  /\ loop.phase # "stopped"
  /\ loop.phase = "polling" =>
       \E r \in DOMAIN loop.failed : /\ loop.failed[r].from # loop.failed[r].to
                                     /\ Origin(loop, r) = loop.failed[r].to
  /\ loop.phase # "polling" => loop.batch # loop.failed

\* The count is that of the latest failures, all of one movement.
LoopSound(loop, past) ==
  /\ loop.phase = "polling" => \A r \in DOMAIN loop.pending : loop.pending[r].to = loop.heads[r]
  /\ loop.phase # "polling" => loop.pending = NoBatch
  /\ loop.phase \in {"comparing", "rebuilding"} =>
       \A r \in DOMAIN loop.batch : loop.batch[r].to = loop.heads[r]
  /\ loop.phase = "rebuilding" => ~ContentUnchanged(loop.batch)
  /\ loop.count <= ResyncAttempts
  /\ loop.count = ResyncAttempts => CannotRepeat(loop)
  /\ Len(past) < ResyncAttempts
  /\ loop.count < ResyncAttempts =>
       /\ loop.count <= Len(past)
       /\ \A i \in 1 .. Len(past) : i > Len(past) - loop.count => past[i] = loop.failed

LoopsSound == LoopsTyped /\ \A s \in Servers : LoopSound(server[s], tries[s])

\* A fresh loop has no failures.
LEMMA FreshSound ==
  ASSUME NEW loop \in LoopRecord, loop.pending = NoBatch, loop.count = 0,
         loop.phase \in {"stopped", "polling"},
         NEW past \in Seq(Batches), Len(past) < ResyncAttempts
  PROVE  LoopSound(loop, past)
BY ResyncAttemptsAssumption, BatchesTyped DEF LoopSound, LoopRecord

\* A poll keeps where every pending movement started and where it has got to.
LEMMA PollSound ==
  ASSUME LoopsSound, NEW s \in Servers, NEW readable \in SUBSET Follows, Poll(s, readable)
  PROVE  server'[s] \in LoopRecord /\ LoopSound(server'[s], tries[s])
<1> DEFINE loop == server[s]
           moved == Moved(s, readable)
           new == server'[s]
<1>a. /\ loop \in LoopRecord /\ LoopSound(loop, tries[s]) /\ head \in [Follows -> Commits]
      /\ server \in [Servers -> LoopRecord]
  BY DEF LoopsSound, LoopsTyped, WorldTyped
<1>1. new = [loop EXCEPT !.heads = Seen(s, readable), !.pending = MergedPending(s, moved)]
  BY <1>a DEF Poll
<1>2. Seen(s, readable) \in [Follows -> Commits \cup {NoCommit}]
  BY <1>a DEF Seen, LoopRecord
<1>3. moved \subseteq Follows /\ \A r \in moved : loop.heads[r] \in Commits
  BY <1>a DEF Moved, LoopRecord
<1>4. DOMAIN loop.pending \subseteq Follows /\ loop.pending \in [DOMAIN loop.pending -> Movement]
  BY <1>a, BatchesTyped DEF LoopRecord
<1>5. /\ DOMAIN MergedPending(s, moved) = DOMAIN loop.pending \cup moved
      /\ \A r \in DOMAIN loop.pending \ moved : MergedPending(s, moved)[r] = loop.pending[r]
      /\ \A r \in moved :
           /\ MergedPending(s, moved)[r].to = head[r]
           /\ MergedPending(s, moved)[r].from = Origin(loop, r)
           /\ MergedPending(s, moved)[r] \in Movement
  <2>1. \A r \in moved : head[r] \in Commits /\ Origin(loop, r) \in Commits
    BY <1>a, <1>3, <1>4 DEF Origin, Movement
  <2> QED
    BY <2>1 DEF MergedPending, Movement, Origin
<1>6. MergedPending(s, moved) \in [DOMAIN loop.pending \cup moved -> Movement]
  BY <1>4, <1>5 DEF MergedPending
<1>7. MergedPending(s, moved) \in Batches
  BY <1>3, <1>4, <1>6, BatchesTyped
<1>8. new \in LoopRecord
  BY <1>a, <1>1, <1>2, <1>7 DEF LoopRecord
<1>9. /\ new.phase = "polling" /\ loop.phase = "polling" /\ new.heads = Seen(s, readable)
      /\ new.pending = MergedPending(s, moved) /\ new.failed = loop.failed
      /\ new.count = loop.count
  BY <1>a, <1>1 DEF Poll, LoopRecord
<1>10. \A r \in Follows : r \in moved => new.heads[r] = head[r]
  BY <1>9 DEF Seen, Moved
<1>11. \A r \in Follows \ moved : loop.heads[r] # NoCommit => new.heads[r] = loop.heads[r]
  BY <1>9 DEF Seen, Moved
<1>12. \A r \in DOMAIN new.pending : new.pending[r].to = new.heads[r]
  <2> SUFFICES ASSUME NEW r \in DOMAIN new.pending PROVE new.pending[r].to = new.heads[r]
    OBVIOUS
  <2>1. CASE r \in moved
    BY <1>3, <1>5, <1>9, <1>10, <2>1
  <2>2. CASE r \notin moved
    <3>1. r \in DOMAIN loop.pending /\ new.pending[r] = loop.pending[r]
      BY <1>5, <1>9, <2>2
    <3>2. loop.pending[r].to = loop.heads[r] /\ loop.heads[r] \in Commits
      BY <1>a, <1>4, <1>9, <3>1 DEF LoopSound, Movement
    <3> QED
      BY <1>4, <1>11, <2>2, <3>1, <3>2, ResyncTreesAssumption
  <2> QED
    BY <2>1, <2>2
<1>13. ASSUME NEW r \in Follows, Origin(loop, r) \in Commits
       PROVE  Origin(new, r) = Origin(loop, r)
  <2>1. CASE r \in moved
    BY <1>5, <1>9, <2>1 DEF Origin
  <2>2. CASE r \in DOMAIN loop.pending \ moved
    BY <1>5, <1>9, <2>2 DEF Origin
  <2>3. CASE r \notin DOMAIN loop.pending \cup moved
    BY <1>5, <1>9, <1>11, <1>13, <2>3, ResyncTreesAssumption DEF Origin
  <2> QED
    BY <2>1, <2>2, <2>3
<1>14. CannotRepeat(loop) => CannotRepeat(new)
  <2> SUFFICES ASSUME CannotRepeat(loop) PROVE CannotRepeat(new)
    OBVIOUS
  <2>1. PICK r \in DOMAIN loop.failed : /\ loop.failed[r].from # loop.failed[r].to
                                        /\ Origin(loop, r) = loop.failed[r].to
    BY <1>9 DEF CannotRepeat
  <2>2. r \in Follows /\ loop.failed[r].to \in Commits
    <3>1. DOMAIN loop.failed \subseteq Follows /\ loop.failed \in [DOMAIN loop.failed -> Movement]
      BY <1>a, BatchesTyped DEF LoopRecord
    <3> QED
      BY <3>1 DEF Movement
  <2>3. Origin(new, r) = loop.failed[r].to
    BY <1>13, <2>1, <2>2
  <2> QED
    BY <1>9, <2>1, <2>3 DEF CannotRepeat
<1> QED
  BY <1>a, <1>8, <1>9, <1>12, <1>14 DEF LoopSound

\* A batch is taken where every repository of it has come to rest.
LEMMA TakeBatchSound ==
  ASSUME LoopsSound, NEW s \in Servers, NEW readable \in SUBSET Follows, TakeBatch(s, readable)
  PROVE  server'[s] \in LoopRecord /\ LoopSound(server'[s], tries[s])
<1> DEFINE loop == server[s]
           new == server'[s]
<1>a. /\ loop \in LoopRecord /\ LoopSound(loop, tries[s]) /\ head \in [Follows -> Commits]
      /\ server \in [Servers -> LoopRecord] /\ loop.phase = "polling"
  BY DEF LoopsSound, LoopsTyped, WorldTyped, TakeBatch
<1>1. new = [loop EXCEPT !.phase = "comparing", !.heads = Seen(s, readable),
                         !.batch = loop.pending, !.pending = NoBatch]
  BY <1>a DEF TakeBatch
<1>2. Seen(s, readable) \in [Follows -> Commits \cup {NoCommit}]
  BY <1>a DEF Seen, LoopRecord
<1>3. new \in LoopRecord
  BY <1>a, <1>1, <1>2, BatchesTyped DEF LoopRecord
<1>4. /\ new.phase = "comparing" /\ new.heads = Seen(s, readable) /\ new.batch = loop.pending
      /\ new.pending = NoBatch /\ new.failed = loop.failed /\ new.count = loop.count
  BY <1>a, <1>1 DEF LoopRecord
<1>5. DOMAIN loop.pending \subseteq Follows /\ loop.pending \in [DOMAIN loop.pending -> Movement]
  BY <1>a, BatchesTyped DEF LoopRecord
<1>6. ASSUME NEW r \in DOMAIN loop.pending PROVE loop.pending[r].to = Seen(s, readable)[r]
  <2>1. loop.pending[r].to = loop.heads[r] /\ loop.heads[r] # NoCommit
    BY <1>a, <1>5, <1>6, ResyncTreesAssumption DEF LoopSound, Movement
  <2>2. r \in readable => loop.heads[r] = head[r]
    BY <1>6, <2>1 DEF TakeBatch, Moved
  <2> QED
    BY <1>5, <1>6, <2>1, <2>2 DEF Seen
<1>7. CannotRepeat(loop) => CannotRepeat(new)
  <2> SUFFICES ASSUME CannotRepeat(loop) PROVE loop.pending # loop.failed
    BY <1>4 DEF CannotRepeat
  <2>1. PICK r \in DOMAIN loop.failed : /\ loop.failed[r].from # loop.failed[r].to
                                        /\ Origin(loop, r) = loop.failed[r].to
    BY <1>a DEF CannotRepeat
  <2> QED
    BY <2>1 DEF Origin
<1> QED
  BY <1>a, <1>3, <1>4, <1>6, <1>7 DEF LoopSound

LEMMA StartPassSound ==
  ASSUME LoopsSound, NEW s \in Servers, StartPass(s)
  PROVE  server'[s] \in LoopRecord /\ LoopSound(server'[s], tries[s])
<1> DEFINE loop == server[s]
           new == server'[s]
<1>a. /\ loop \in LoopRecord /\ LoopSound(loop, tries[s]) /\ files \in Checkouts
      /\ server \in [Servers -> LoopRecord]
  BY DEF LoopsSound, LoopsTyped, WorldTyped
<1>1. /\ loop.phase = "comparing" /\ ~ContentUnchanged(loop.batch)
      /\ new = [loop EXCEPT !.phase = "rebuilding", !.built = files]
  BY <1>a DEF StartPass
<1>2. new \in LoopRecord
  BY <1>a, <1>1 DEF LoopRecord
<1>3. /\ new.phase = "rebuilding" /\ new.heads = loop.heads /\ new.batch = loop.batch
      /\ new.pending = loop.pending /\ new.failed = loop.failed /\ new.count = loop.count
  BY <1>a, <1>1 DEF LoopRecord
<1> QED
  BY <1>a, <1>1, <1>2, <1>3 DEF LoopSound, CannotRepeat

\* An outcome the loop takes for good clears its failures.
LEMMA SkipSound ==
  ASSUME LoopsSound, NEW s \in Servers, Skip(s), server[s].phase \in {"comparing", "rebuilding"}
  PROVE  /\ server'[s] \in LoopRecord /\ LoopSound(server'[s], <<>>)
         /\ server'[s].failed = NoBatch
<1>a. server[s] \in LoopRecord /\ LoopSound(server[s], tries[s]) /\ server \in [Servers -> LoopRecord]
  BY DEF LoopsSound, LoopsTyped
<1>1. server'[s] = BackToPolling(ClearFailures(server[s]))
  BY <1>a DEF Skip
<1>2. /\ server'[s] \in LoopRecord /\ server'[s].phase = "polling"
      /\ server'[s].pending = NoBatch /\ server'[s].count = 0 /\ server'[s].failed = NoBatch
  <2>1. ClearFailures(server[s]) \in LoopRecord
    BY <1>a, FailuresCleared
  <2>2. server[s].pending = NoBatch
    BY <1>a DEF LoopSound
  <2> QED
    BY <1>a, <1>1, <2>1, <2>2, FailuresCleared, PollingAgain
<1>3. <<>> \in Seq(Batches) /\ Len(<<>>) < ResyncAttempts
  BY ResyncAttemptsAssumption
<1> QED
  BY <1>2, <1>3, FreshSound

\* A failed batch is counted, and either retried from where it started or,
\* after ResyncAttempts failures of it in a row, given up for good.
LEMMA FailureSound ==
  ASSUME LoopsSound, NEW s \in Servers, server[s].phase = "rebuilding",
         server' = [server EXCEPT ![s] = AfterFailure(@)],
         tries' = [tries EXCEPT ![s] =
           IF GivesUp(server[s]) THEN <<>> ELSE Remember(s, server[s].batch)]
  PROVE  /\ server'[s] \in LoopRecord /\ LoopSound(server'[s], tries'[s])
         /\ tries'[s] \in Seq(Batches)
         /\ GivesUp(server[s]) => /\ Len(tries[s]) = ResyncAttempts - 1
                                  /\ \A i \in DOMAIN tries[s] : tries[s][i] = server[s].batch
         /\ ~GivesUp(server[s]) =>
              \A r \in DOMAIN server[s].batch : server'[s].heads[r] = server[s].batch[r].from
<1> DEFINE loop == server[s]
           new == server'[s]
           past == tries[s]
           counted == RecordFailure(loop)
           rewound == Rewind(counted)
<1>a. /\ loop \in LoopRecord /\ LoopSound(loop, past) /\ past \in Seq(Batches)
      /\ server \in [Servers -> LoopRecord] /\ tries \in [Servers -> Seq(Batches)]
  BY DEF LoopsSound, LoopsTyped
<1>b. ResyncAttempts \in Nat /\ ResyncAttempts >= 1 /\ loop.count \in Nat
  BY <1>a, ResyncAttemptsAssumption DEF LoopRecord
<1>c. DOMAIN loop.batch \subseteq Follows /\ loop.batch \in [DOMAIN loop.batch -> Movement]
  BY <1>a, BatchesTyped DEF LoopRecord
<1>d. ~ContentUnchanged(loop.batch) /\ loop.pending = NoBatch
  BY <1>a DEF LoopSound
<1>1. loop.failed = loop.batch => loop.count < ResyncAttempts
  BY <1>a, <1>b DEF LoopSound, CannotRepeat
<1>2. /\ counted \in LoopRecord /\ counted.failed = loop.batch /\ counted.batch = loop.batch
      /\ counted.count = IF loop.failed = loop.batch THEN loop.count + 1 ELSE 1
      /\ counted.heads = loop.heads /\ counted.pending = NoBatch
  BY <1>a, <1>d, FailureRecorded
<1>3. counted.count \in Nat /\ counted.count >= 1 /\ counted.count <= ResyncAttempts
  BY <1>b, <1>1, <1>2
<1>4. GivesUp(loop) <=> counted.count = ResyncAttempts
  BY <1>b, <1>3 DEF GivesUp
<1>5. new = BackToPolling(IF counted.count < ResyncAttempts THEN rewound ELSE counted)
  BY <1>a DEF AfterFailure
<1>6. ASSUME GivesUp(loop)
      PROVE  /\ new \in LoopRecord /\ LoopSound(new, <<>>)
             /\ Len(past) = ResyncAttempts - 1
             /\ \A i \in DOMAIN past : past[i] = loop.batch
  <2>1. new = BackToPolling(counted)
    BY <1>b, <1>3, <1>4, <1>5, <1>6
  <2>2. /\ new \in LoopRecord /\ new.phase = "polling" /\ new.pending = NoBatch
        /\ new.failed = loop.batch /\ new.heads = loop.heads /\ new.count = ResyncAttempts
    BY <1>2, <1>4, <1>6, <2>1, PollingAgain
  <2>3. PICK r \in DOMAIN loop.batch : loop.batch[r].from # loop.batch[r].to
    BY <1>d DEF ContentUnchanged
  <2>4. Origin(new, r) = loop.batch[r].to
    BY <1>a, <2>2, <2>3, BatchesTyped DEF Origin, LoopSound
  <2>5. CannotRepeat(new)
    BY <2>2, <2>3, <2>4 DEF CannotRepeat
  <2>6. LoopSound(new, <<>>)
    BY <1>b, <2>2, <2>5, BatchesTyped DEF LoopSound
  <2>7. CASE loop.failed = loop.batch
    <3>1. loop.count = ResyncAttempts - 1 /\ Len(past) = ResyncAttempts - 1
      BY <1>a, <1>b, <1>2, <1>4, <1>6, <2>7 DEF LoopSound
    <3>2. \A i \in 1 .. Len(past) : past[i] = loop.batch
      BY <1>a, <1>b, <2>7, <3>1 DEF LoopSound
    <3> QED
      BY <1>a, <2>2, <2>6, <3>1, <3>2
  <2>8. CASE loop.failed # loop.batch
    <3>1. ResyncAttempts = 1
      BY <1>2, <1>4, <1>6, <2>8
    <3>2. Len(past) = 0
      BY <1>a, <3>1 DEF LoopSound
    <3> QED
      BY <1>a, <2>2, <2>6, <3>1, <3>2
  <2> QED
    BY <2>7, <2>8
<1>7. ASSUME ~GivesUp(loop)
      PROVE  /\ new \in LoopRecord /\ LoopSound(new, Remember(s, loop.batch))
             /\ Remember(s, loop.batch) \in Seq(Batches)
             /\ \A r \in DOMAIN loop.batch : new.heads[r] = loop.batch[r].from
  <2>1. counted.count < ResyncAttempts /\ new = BackToPolling(rewound)
    BY <1>b, <1>3, <1>4, <1>5, <1>7
  <2>2. /\ rewound \in LoopRecord /\ rewound.pending = NoBatch /\ rewound.failed = loop.batch
        /\ rewound.count = counted.count
        /\ \A r \in DOMAIN loop.batch : rewound.heads[r] = loop.batch[r].from
    BY <1>2, Rewound
  <2>3. /\ new \in LoopRecord /\ new.phase = "polling" /\ new.pending = NoBatch
        /\ new.failed = loop.batch /\ new.count = counted.count /\ new.heads = rewound.heads
    BY <2>1, <2>2, PollingAgain
  <2>4. \A r \in DOMAIN loop.batch : new.heads[r] = loop.batch[r].from
    BY <2>2, <2>3
  <2> DEFINE extended == Append(past, loop.batch)
             recalled == Remember(s, loop.batch)
  <2>5. /\ extended \in Seq(Batches) /\ Len(extended) = Len(past) + 1
        /\ extended[Len(extended)] = loop.batch
        /\ \A i \in 1 .. Len(past) : extended[i] = past[i]
    BY <1>a DEF LoopRecord
  <2>6. Len(past) \in Nat /\ Len(past) < ResyncAttempts
    BY <1>a DEF LoopSound
  <2>7. /\ counted.count <= Len(extended)
        /\ \A i \in 1 .. Len(extended) :
             i > Len(extended) - counted.count => extended[i] = loop.batch
    <3>1. CASE loop.failed = loop.batch
      <4>1. /\ counted.count = loop.count + 1 /\ loop.count <= Len(past)
            /\ \A i \in 1 .. Len(past) : i > Len(past) - loop.count => past[i] = loop.batch
        BY <1>a, <1>1, <1>2, <3>1 DEF LoopSound
      <4> HIDE DEF extended, counted
      <4>2. \A i \in 1 .. Len(extended) : i = Len(extended) \/ i \in 1 .. Len(past)
        BY <2>5, <2>6
      <4>3. \A i \in 1 .. Len(past) :
              i > Len(extended) - counted.count => i > Len(past) - loop.count
        BY <1>b, <2>5, <2>6, <4>1
      <4>4. counted.count <= Len(extended)
        BY <1>b, <2>5, <2>6, <4>1
      <4> QED
        BY <2>5, <4>1, <4>2, <4>3, <4>4
    <3>2. CASE loop.failed # loop.batch
      <4>1. counted.count = 1
        BY <1>2, <3>2
      <4> HIDE DEF extended, counted
      <4> QED
        BY <2>5, <2>6, <4>1
    <3> QED
      BY <3>1, <3>2
  <2>8. LoopSound(new, recalled) /\ recalled \in Seq(Batches)
    <3>1. CASE Len(extended) < ResyncAttempts
      <4>1. recalled = extended
        BY <3>1 DEF Remember
      <4> QED
        BY <1>b, <1>3, <2>1, <2>3, <2>5, <2>7, <3>1, <4>1, BatchesTyped DEF LoopSound
    <3>2. CASE ~(Len(extended) < ResyncAttempts)
      <4>1. recalled = Tail(extended) /\ Len(extended) = ResyncAttempts
        BY <1>b, <2>5, <2>6, <3>2 DEF Remember
      <4>2. /\ recalled \in Seq(Batches) /\ Len(recalled) = ResyncAttempts - 1
            /\ \A i \in 1 .. Len(recalled) : recalled[i] = extended[i + 1]
        BY <1>b, <2>5, <4>1
      <4>3. \A i \in 1 .. Len(recalled) : i > Len(recalled) - counted.count => recalled[i] = loop.batch
        <5> HIDE DEF extended, recalled, counted
        <5> QED
          BY <1>b, <1>3, <2>7, <4>1, <4>2
      <4>4. counted.count <= Len(recalled)
        <5> HIDE DEF extended, recalled, counted
        <5> QED
          BY <1>b, <1>3, <2>1, <4>2
      <4> QED
        BY <1>b, <1>3, <2>1, <2>3, <4>2, <4>3, <4>4, BatchesTyped DEF LoopSound
    <3> QED
      BY <3>1, <3>2
  <2> QED
    BY <2>3, <2>4, <2>8
<1>8. tries'[s] = IF GivesUp(loop) THEN <<>> ELSE Remember(s, loop.batch)
  BY <1>a
<1> HIDE DEF new, past
<1>9. CASE GivesUp(loop)
  <2>1. tries'[s] = <<>> /\ <<>> \in Seq(Batches)
    BY <1>8, <1>9
  <2> QED
    BY <1>6, <1>9, <2>1 DEF new, past
<1>10. CASE ~GivesUp(loop)
  <2>1. tries'[s] = Remember(s, loop.batch)
    BY <1>8, <1>10
  <2> QED
    BY <1>7, <1>10, <2>1 DEF new, past
<1> QED
  BY <1>9, <1>10


\* What a loop's types are made of does not change in a behaviour.
LEMMA TypesSteady ==
  ASSUME UNCHANGED resyncSetting
  PROVE  LoopRecord' = LoopRecord /\ Batches' = Batches
<1>1. Follows' = Follows
  BY DEF Follows
<1>2. Batches' = Batches /\ Checkouts' = Checkouts
  BY <1>1 DEF Batches, Checkouts
<1> QED
  BY <1>1, <1>2 DEF LoopRecord

LEMMA ReadableTyped == \A readable \in Readable : readable \in SUBSET Follows
BY DEF Readable

\* One loop at a time changes what it knows.
LEMMA OneLoop ==
  ASSUME LoopsSound, UNCHANGED resyncSetting, WorldTyped', NEW s \in Servers,
         \A t \in Servers \ {s} : server'[t] = server[t] /\ tries'[t] = tries[t],
         DOMAIN server' = Servers, DOMAIN tries' = Servers,
         server' = [t \in Servers |-> server'[t]], tries' = [t \in Servers |-> tries'[t]],
         server'[s] \in LoopRecord, tries'[s] \in Seq(Batches), LoopSound(server'[s], tries'[s])
  PROVE  LoopsSound'
<1>1. \A t \in Servers : /\ server'[t] \in LoopRecord /\ tries'[t] \in Seq(Batches)
                         /\ LoopSound(server'[t], tries'[t])
  <2> SUFFICES ASSUME NEW t \in Servers, t # s
               PROVE  /\ server'[t] \in LoopRecord /\ tries'[t] \in Seq(Batches)
                      /\ LoopSound(server'[t], tries'[t])
    OBVIOUS
  <2>1. server'[t] = server[t] /\ tries'[t] = tries[t]
    OBVIOUS
  <2> QED
    BY <2>1 DEF LoopsSound, LoopsTyped
<1>2. server' \in [Servers -> LoopRecord] /\ tries' \in [Servers -> Seq(Batches)]
  BY <1>1
<1> QED
  BY <1>1, <1>2, TypesSteady DEF LoopsSound, LoopsTyped

\* A step of a loop changes that loop alone.
LEMMA OthersSteady ==
  ASSUME LoopsTyped, NEW s \in Servers,
         LoopStep(s) \/ Die(s) \/ \E readable \in Readable : Start(s, readable)
  PROVE  /\ \A t \in Servers \ {s} : server'[t] = server[t] /\ tries'[t] = tries[t]
         /\ DOMAIN server' = Servers /\ DOMAIN tries' = Servers
         /\ server' = [t \in Servers |-> server'[t]] /\ tries' = [t \in Servers |-> tries'[t]]
<1>1. server \in [Servers -> LoopRecord] /\ tries \in [Servers -> Seq(Batches)]
  BY DEF LoopsTyped
<1>2. PICK loop, past : /\ server' = [server EXCEPT ![s] = loop]
                        /\ tries' = [tries EXCEPT ![s] = past]
  <2>1. tries = [tries EXCEPT ![s] = tries[s]]
    BY <1>1
  <2>2. CASE LoopStep(s)
    <3>1. ASSUME NEW readable \in Readable, Poll(s, readable) \/ TakeBatch(s, readable)
          PROVE  \E loop, past : /\ server' = [server EXCEPT ![s] = loop]
                                 /\ tries' = [tries EXCEPT ![s] = past]
      BY <2>1, <3>1 DEF Poll, TakeBatch
    <3>2. CASE StartPass(s)
      BY <2>1, <3>2 DEF StartPass
    <3>3. CASE SkipUnchanged(s) \/ LoseLock(s) \/ Publish(s) \/ YieldToPublisher(s)
      BY <3>3 DEF SkipUnchanged, LoseLock, Publish, YieldToPublisher, Skip
    <3>4. CASE FailPass(s) \/ FailAttach(s)
      BY <3>4 DEF FailPass, FailAttach
    <3> QED
      BY <2>2, <3>1, <3>2, <3>3, <3>4 DEF LoopStep
  <2>3. CASE Die(s)
    BY <2>3 DEF Die
  <2>4. ASSUME NEW readable \in Readable, Start(s, readable)
        PROVE  \E loop, past : /\ server' = [server EXCEPT ![s] = loop]
                               /\ tries' = [tries EXCEPT ![s] = past]
    BY <2>1, <2>4 DEF Start
  <2> QED
    BY <2>2, <2>3, <2>4
<1> QED
  BY <1>1, <1>2

LEMMA LoopStepSound ==
  ASSUME LoopsSound, NEW s \in Servers, LoopStep(s)
  PROVE  server'[s] \in LoopRecord /\ tries'[s] \in Seq(Batches) /\ LoopSound(server'[s], tries'[s])
<1>a. tries \in [Servers -> Seq(Batches)] /\ server \in [Servers -> LoopRecord]
  BY DEF LoopsSound, LoopsTyped
<1>1. ASSUME NEW readable \in Readable, Poll(s, readable) \/ TakeBatch(s, readable)
      PROVE  /\ server'[s] \in LoopRecord /\ tries'[s] \in Seq(Batches)
             /\ LoopSound(server'[s], tries'[s])
  <2>1. tries' = tries /\ readable \in SUBSET Follows
    BY <1>1, ReadableTyped DEF Poll, TakeBatch
  <2> QED
    BY <1>a, <1>1, <2>1, PollSound, TakeBatchSound
<1>2. CASE StartPass(s)
  <2>1. tries' = tries
    BY <1>2 DEF StartPass
  <2> QED
    BY <1>a, <1>2, <2>1, StartPassSound
<1>3. CASE SkipUnchanged(s) \/ LoseLock(s) \/ Publish(s) \/ YieldToPublisher(s)
  <2>1. Skip(s) /\ server[s].phase \in {"comparing", "rebuilding"}
    BY <1>3 DEF SkipUnchanged, LoseLock, Publish, YieldToPublisher
  <2>2. tries'[s] = <<>> /\ <<>> \in Seq(Batches)
    BY <1>a, <2>1 DEF Skip
  <2> QED
    BY <2>1, <2>2, SkipSound
<1>4. CASE FailPass(s) \/ FailAttach(s)
  <2>1. /\ server[s].phase = "rebuilding"
        /\ server' = [server EXCEPT ![s] = AfterFailure(@)]
        /\ tries' = [tries EXCEPT ![s] =
             IF GivesUp(server[s]) THEN <<>> ELSE Remember(s, server[s].batch)]
    BY <1>4 DEF FailPass, FailAttach
  <2> QED
    BY <2>1, FailureSound
<1> QED
  BY <1>1, <1>2, <1>3, <1>4 DEF LoopStep

LEMMA RestartSound ==
  ASSUME LoopsSound, NEW s \in Servers, Die(s) \/ \E readable \in Readable : Start(s, readable)
  PROVE  server'[s] \in LoopRecord /\ tries'[s] \in Seq(Batches) /\ LoopSound(server'[s], tries'[s])
<1>a. /\ tries \in [Servers -> Seq(Batches)] /\ server \in [Servers -> LoopRecord]
      /\ WorldTyped /\ LoopSound(server[s], tries[s])
  BY DEF LoopsSound, LoopsTyped
<1>1. CASE Die(s)
  <2>1. server'[s] = Stopped /\ tries'[s] = <<>>
    BY <1>a, <1>1 DEF Die
  <2>2. Stopped \in LoopRecord /\ Primed({}) \in LoopRecord
    BY <1>a, PrimedTyped
  <2>3. Stopped.phase = "stopped" /\ Stopped.pending = NoBatch /\ Stopped.count = 0
    BY DEF Stopped, Primed
  <2>4. <<>> \in Seq(Batches) /\ Len(<<>>) < ResyncAttempts
    BY ResyncAttemptsAssumption
  <2> QED
    BY <2>1, <2>2, <2>3, <2>4, FreshSound
<1>2. ASSUME NEW readable \in Readable, Start(s, readable)
      PROVE  /\ server'[s] \in LoopRecord /\ tries'[s] \in Seq(Batches)
             /\ LoopSound(server'[s], tries'[s])
  <2>1. server'[s] = Primed(readable) /\ tries'[s] = tries[s]
    BY <1>a, <1>2 DEF Start
  <2>2. Primed(readable) \in LoopRecord
    BY <1>a, PrimedTyped, ReadableTyped
  <2>3. /\ Primed(readable).phase = "polling" /\ Primed(readable).pending = NoBatch
        /\ Primed(readable).count = 0
    BY DEF Primed
  <2>4. tries[s] \in Seq(Batches) /\ Len(tries[s]) < ResyncAttempts
    BY <1>a DEF LoopSound
  <2> QED
    BY <2>1, <2>2, <2>3, <2>4, FreshSound
<1> QED
  BY <1>1, <1>2

LEMMA LoopsSoundStep == LoopsSound /\ [ResyncNext]_resyncVars => LoopsSound'
<1> SUFFICES ASSUME LoopsSound, [ResyncNext]_resyncVars PROVE LoopsSound'
  OBVIOUS
<1>a. UNCHANGED resyncSetting /\ WorldTyped'
  BY FollowsConstant, WorldTypedStep DEF LoopsSound, LoopsTyped
<1>1. CASE UNCHANGED <<server, tries>>
  BY <1>a, <1>1, TypesSteady DEF LoopsSound, LoopsTyped
<1>2. ASSUME NEW s \in Servers, LoopStep(s) \/ Die(s) \/ \E readable \in Readable : Start(s, readable)
      PROVE  LoopsSound'
  <2>1. LoopsTyped
    BY DEF LoopsSound
  <2>2. /\ server'[s] \in LoopRecord /\ tries'[s] \in Seq(Batches)
        /\ LoopSound(server'[s], tries'[s])
    BY <1>2, LoopStepSound, RestartSound
  <2> QED
    BY <1>a, <1>2, <2>1, <2>2, OthersSteady, OneLoop
<1>3. ASSUME NEW r \in Follows,
             EndCheckout(r) \/ \E c \in Commits, b \in BOOLEAN : BeginCheckout(r, c, b)
      PROVE  UNCHANGED <<server, tries>>
  BY <1>3 DEF EndCheckout, BeginCheckout
<1>4. CASE OutsideStarts \/ OutsideEnds
  BY <1>1, <1>4 DEF OutsideStarts, OutsideEnds
<1> QED
  BY <1>1, <1>2, <1>3, <1>4 DEF ResyncNext, resyncVars

LEMMA LoopsSoundInit == ResyncInit => LoopsSound
<1> SUFFICES ASSUME ResyncInit PROVE LoopsSound
  OBVIOUS
<1>1. 1 \in Commits /\ TreeOf[1] \in Trees
  BY ResyncCommitsAssumption DEF Commits, Trees
<1>2. WorldTyped
  BY <1>1 DEF WorldTyped, ResyncInit, Checkouts
<1>3. Primed(Follows) \in LoopRecord /\ Stopped \in LoopRecord
  BY <1>2, PrimedTyped
<1>4. \A s \in Servers : server[s] \in LoopRecord /\ tries[s] = <<>>
  BY <1>3 DEF ResyncInit
<1>5. server \in [Servers -> LoopRecord] /\ tries \in [Servers -> Seq(Batches)]
  BY <1>3 DEF ResyncInit
<1>6. \A s \in Servers : /\ server[s].phase \in {"stopped", "polling"}
                         /\ server[s].pending = NoBatch /\ server[s].count = 0
  BY DEF ResyncInit, Stopped, Primed
<1>7. <<>> \in Seq(Batches) /\ Len(<<>>) < ResyncAttempts
  BY ResyncAttemptsAssumption
<1> QED
  BY <1>2, <1>4, <1>5, <1>6, <1>7, FreshSound DEF LoopsSound, LoopsTyped

-----------------------------------------------------------------------------
(* The loop gives a movement up only after ResyncAttempts failures in a row  *)
(* of that movement: what rewind puts back is what the next batch starts     *)
(* from, and a movement given up cannot be the next one again.               *)

\* AbandonsOnlyRepeats holds of any number of servers, repositories, commits,
\* attempts, failures and deaths (resync.go:290).
THEOREM AbandonedOnlyRepeats == ResyncSpec => AbandonsOnlyRepeats
<1> DEFINE Abandons(s) ==
             LET loop == server[s]
                 failedNow == loop.phase = "rebuilding" /\ server'[s].phase = "polling"
                                /\ server'[s].failed = loop.batch
             IN  failedNow /\ \E r \in DOMAIN loop.batch :
                                server'[s].heads[r] # loop.batch[r].from
           Repeated(s) == /\ Len(tries[s]) = ResyncAttempts - 1
                          /\ \A i \in DOMAIN tries[s] : tries[s][i] = server[s].batch
<1>1. ASSUME LoopsSound, ResyncNext, NEW s \in Servers, Abandons(s) PROVE Repeated(s)
  <2>a. /\ server \in [Servers -> LoopRecord] /\ LoopSound(server[s], tries[s])
        /\ server[s].phase = "rebuilding" /\ server'[s].phase = "polling"
        /\ server'[s].failed = server[s].batch
    BY <1>1 DEF LoopsSound, LoopsTyped
  <2>b. server'[s] # server[s]
    BY <2>a
  <2>1. PICK t \in Servers : LoopStep(t) \/ Die(t) \/ \E readable \in Readable : Start(t, readable)
    <3>1. ASSUME NEW r \in Follows,
                 EndCheckout(r) \/ \E c \in Commits, b \in BOOLEAN : BeginCheckout(r, c, b)
          PROVE  UNCHANGED server
      BY <3>1 DEF EndCheckout, BeginCheckout
    <3> QED
      BY <1>1, <2>b, <3>1 DEF ResyncNext, OutsideStarts, OutsideEnds
  <2>2. t = s
    BY <1>1, <2>b, <2>1, OthersSteady DEF LoopsSound
  <2>3. ~Die(s)
    BY <2>a DEF Die, Stopped, Primed
  <2>4. ~\E readable \in Readable : Start(s, readable) \/ Poll(s, readable) \/ TakeBatch(s, readable)
    BY <2>a DEF Start, Poll, TakeBatch
  <2>5. ~SkipUnchanged(s) /\ ~LoseLock(s) /\ ~StartPass(s)
    BY <2>a DEF SkipUnchanged, LoseLock, StartPass
  <2>6. CASE Publish(s) \/ YieldToPublisher(s)
    <3>1. server'[s].failed = NoBatch
      BY <1>1, <2>a, <2>6, SkipSound DEF Publish, YieldToPublisher
    <3>2. server[s].batch # NoBatch
      BY <2>a, BatchesTyped DEF LoopSound, ContentUnchanged
    <3> QED
      BY <2>a, <3>1, <3>2
  <2>7. CASE FailPass(s) \/ FailAttach(s)
    <3>1. /\ server' = [server EXCEPT ![s] = AfterFailure(@)]
          /\ tries' = [tries EXCEPT ![s] =
               IF GivesUp(server[s]) THEN <<>> ELSE Remember(s, server[s].batch)]
      BY <2>7 DEF FailPass, FailAttach
    <3>2. GivesUp(server[s])
      BY <1>1, <2>a, <3>1, FailureSound
    <3> QED
      BY <1>1, <2>a, <3>1, <3>2, FailureSound
  <2> QED
    BY <2>1, <2>2, <2>3, <2>4, <2>5, <2>6, <2>7 DEF LoopStep
<1>2. LoopsSound /\ [ResyncNext]_resyncVars =>
        [\A s \in Servers : Abandons(s) => Repeated(s)]_resyncVars
  BY <1>1
<1>3. LoopsSound /\ [ResyncNext]_resyncVars =>
        [\A s \in Servers :
           LET loop == server[s]
               failedNow == loop.phase = "rebuilding" /\ server'[s].phase = "polling"
                              /\ server'[s].failed = loop.batch
               abandons  == failedNow /\ \E r \in DOMAIN loop.batch :
                                           server'[s].heads[r] # loop.batch[r].from
           IN  abandons => /\ Len(tries[s]) = ResyncAttempts - 1
                           /\ \A i \in DOMAIN tries[s] : tries[s][i] = loop.batch]_resyncVars
  BY <1>2
<1> QED
  BY <1>3, LoopsSoundInit, LoopsSoundStep, PTL DEF ResyncSpec, AbandonsOnlyRepeats

\* What the passes read and write beside the loops.
PassesTyped ==
  /\ graph \in Checkouts
  /\ resyncLock \in Servers \cup {NoServer}
  /\ outsidePass \in Checkouts \cup {NoPass}

LEMMA PassesTypedStep == LoopsTyped /\ PassesTyped /\ [ResyncNext]_resyncVars => PassesTyped'
<1> SUFFICES ASSUME LoopsTyped, PassesTyped, [ResyncNext]_resyncVars PROVE PassesTyped'
  OBVIOUS
<1>0. UNCHANGED resyncSetting
  BY FollowsConstant
<1>a. Checkouts' = Checkouts /\ files \in Checkouts
  <2>1. Follows' = Follows
    BY <1>0 DEF Follows
  <2> QED
    BY <2>1 DEF Checkouts, LoopsTyped, WorldTyped
<1>1. ASSUME NEW s \in Servers, LoopStep(s) PROVE PassesTyped'
  <2>1. UNCHANGED outsidePass /\ graph' \in {graph, files} /\ resyncLock' \in {resyncLock, s, NoServer}
    BY <1>1 DEF LoopStep, Poll, TakeBatch, SkipUnchanged, LoseLock, StartPass, Publish, FailPass,
                FailAttach, YieldToPublisher
  <2> QED
    BY <1>a, <2>1 DEF PassesTyped
<1>2. ASSUME NEW s \in Servers, Die(s) \/ \E readable \in Readable : Start(s, readable)
      PROVE  PassesTyped'
  <2>1. UNCHANGED <<outsidePass, graph>> /\ resyncLock' \in {resyncLock, NoServer}
    BY <1>2 DEF Die, Start
  <2> QED
    BY <1>a, <2>1 DEF PassesTyped
<1>3. ASSUME NEW r \in Follows,
             EndCheckout(r) \/ \E c \in Commits, b \in BOOLEAN : BeginCheckout(r, c, b)
      PROVE  PassesTyped'
  BY <1>a, <1>3 DEF EndCheckout, BeginCheckout, PassesTyped
<1>4. CASE OutsideStarts \/ OutsideEnds
  BY <1>a, <1>4 DEF OutsideStarts, OutsideEnds, PassesTyped
<1>5. CASE UNCHANGED resyncVars
  BY <1>a, <1>5 DEF resyncVars, PassesTyped
<1> QED
  BY <1>1, <1>2, <1>3, <1>4, <1>5 DEF ResyncNext

(***************************************************************************)
(* Every reachable state of the loops that follow HEAD is well typed: what *)
(* is published and what is rebuilt is always a tree that was on disk in   *)
(* one piece or torn, and no loop counts beyond its attempts (resync.go).  *)
(***************************************************************************)
THEOREM ResyncTyped == ResyncSpec => []ResyncTypeOK
<1>1. ResyncInit => PassesTyped
  <2> SUFFICES ASSUME ResyncInit PROVE PassesTyped
    OBVIOUS
  <2>1. files \in Checkouts
    BY LoopsSoundInit DEF LoopsSound, LoopsTyped, WorldTyped
  <2> QED
    BY <2>1 DEF ResyncInit, PassesTyped
<1>2. LoopsSound /\ PassesTyped => ResyncTypeOK
  <2> SUFFICES ASSUME LoopsSound, PassesTyped PROVE ResyncTypeOK
    OBVIOUS
  <2>1. ASSUME NEW s \in Servers
        PROVE  server[s] \in [phase: {"stopped", "polling", "comparing", "rebuilding"},
                              heads: [Follows -> Commits \cup {NoCommit}],
                              pending: Batches, batch: Batches, failed: Batches,
                              count: 0 .. ResyncAttempts, built: Checkouts \cup {NoPass}]
    <3>1. server[s] \in LoopRecord /\ server[s].count <= ResyncAttempts
      BY DEF LoopsSound, LoopsTyped, LoopSound
    <3>2. server[s].count \in 0 .. ResyncAttempts
      BY <3>1, ResyncAttemptsAssumption DEF LoopRecord
    <3> QED
      BY <3>1, <3>2 DEF LoopRecord
  <2>2. \A s \in Servers : Len(tries[s]) < ResyncAttempts
    BY DEF LoopsSound, LoopSound
  <2> QED
    BY <2>1, <2>2 DEF LoopsSound, LoopsTyped, WorldTyped, PassesTyped, ResyncTypeOK
<1>3. LoopsSound => LoopsTyped
  BY DEF LoopsSound
<1> QED
  BY <1>1, <1>2, <1>3, LoopsSoundInit, LoopsSoundStep, PassesTypedStep, PTL DEF ResyncSpec

-----------------------------------------------------------------------------
(* What is skipped as unchanged, where nothing disturbs the loop. *)

\* One server on one repository: HEAD goes forward and can be read, the passes
\* fail less often than the loop tolerates, and nobody else publishes.
Undisturbed(setting) ==
  /\ \A s, t \in setting.servers : s = t
  /\ \A q, r \in setting.follows : q = r
  /\ ~setting.revisits /\ ~setting.forever /\ ~setting.outside /\ ~setting.unreadable
  /\ setting.failures < ResyncAttempts /\ setting.deaths = 0

SameTree(c, d) == TreeOf[c] = TreeOf[d]

\* Where a checkout under way leads, or HEAD.
Top(r) == IF checkout[r] # NoCommit THEN checkout[r] ELSE head[r]

FailuresUsed == resyncSetting.failures - budget.failures

\* Nobody but the loop publishes, and it lives.
LoneLoop ==
  /\ Undisturbed(resyncSetting)
  /\ outsidePass = NoPass /\ budget.deaths = 0
  /\ DOMAIN budget = {"moves", "failures", "deaths"}
  /\ budget.failures \in 0 .. resyncSetting.failures
  /\ \A s \in Servers : server[s].phase # "stopped" <=> s \in resyncSetting.servers
  /\ resyncLock # NoServer =>
       resyncLock \in Servers /\ server[resyncLock].phase = "rebuilding"

\* Only a checkout under way leaves a tree torn.
TreesOnDisk ==
  \A r \in Follows :
    /\ checkout[r] # NoCommit => head[r] <= checkout[r]
    /\ files[r] = TreeOf[Top(r)] \/ (files[r] = Torn /\ checkout[r] # NoCommit)

\* If the tree of a commit is the one to come, the graph describes it.
GraphDescribes(c, r) == SameTree(c, Top(r)) => graph[r] = TreeOf[c]

\* What a loop takes for described is; what it will rebuild differs; what it
\* rebuilds describes where the movement led, unless HEAD has left that again;
\* and only the machine counts against a movement HEAD has not left.
LoopDescribes(loop, r) ==
  /\ loop.heads[r] \in Commits /\ loop.heads[r] <= head[r]
  /\ r \in DOMAIN loop.pending => loop.pending[r].from <= loop.heads[r]
  /\ loop.phase = "polling" => GraphDescribes(Origin(loop, r), r)
  /\ loop.phase \in {"comparing", "rebuilding"} =>
       /\ r \in DOMAIN loop.batch /\ loop.batch[r].from <= loop.batch[r].to
       /\ files[r] = Torn => ~SameTree(loop.batch[r].to, Top(r))
  /\ loop.phase = "comparing" /\ SameTree(loop.batch[r].from, loop.batch[r].to) =>
       graph[r] = TreeOf[loop.batch[r].to]
  /\ loop.phase = "rebuilding" =>
       /\ loop.built \in Checkouts
       /\ SameTree(loop.batch[r].to, Top(r)) => loop.built[r] = TreeOf[loop.batch[r].to]
  /\ r \in DOMAIN loop.failed =>
       /\ loop.failed[r].to <= head[r]
       /\ SameTree(loop.failed[r].to, Top(r)) => loop.count <= FailuresUsed

SkipsSound ==
  /\ LoneLoop /\ TreesOnDisk
  /\ \A s \in resyncSetting.servers, r \in Follows : LoopDescribes(server[s], r)

LEMMA CommitsOrdered == Commits \subseteq Int /\ NoCommit \notin Commits
BY ResyncTreesAssumption, ResyncCommitsAssumption DEF Commits

LEMMA CommitsFollow ==
  \A c, d, e \in Commits : c <= c /\ (c <= d /\ d <= e => c <= e)
BY ResyncCommitsAssumption DEF Commits

\* A tree that is still there at the end was there in between.
LEMMA TreeStaysBetween ==
  ASSUME TreesNeverReturn, NEW c \in Commits, NEW d \in Commits, NEW e \in Commits,
         c <= d, d <= e, SameTree(c, e)
  PROVE  SameTree(c, d) /\ SameTree(d, e)
<1>1. c \in Int /\ d \in Int /\ e \in Int
  BY CommitsOrdered
<1>2. CASE c = d \/ d = e
  BY <1>2 DEF SameTree
<1>3. CASE c < d /\ d < e
  <2>1. TreeOf[d] = TreeOf[c]
    BY <1>3 DEF TreesNeverReturn, SameTree
  <2> QED
    BY <2>1 DEF SameTree
<1> QED
  BY <1>1, <1>2, <1>3

\* Where the checkouts lead is a commit, and HEAD is not beyond it.
LEMMA TopTyped ==
  ASSUME WorldTyped, TreesOnDisk, NEW r \in Follows
  PROVE  /\ Top(r) \in Commits /\ head[r] \in Commits /\ head[r] <= Top(r)
         /\ TreeOf[Top(r)] # Torn
<1>1. head[r] \in Commits /\ checkout[r] \in Commits \cup {NoCommit}
  BY DEF WorldTyped
<1>2. Top(r) \in Commits
  BY <1>1 DEF Top
<1>3. TreeOf[Top(r)] # Torn
  BY <1>2, ResyncTreesAssumption DEF Trees
<1>4. head[r] <= Top(r)
  <2>1. head[r] \in Int
    BY <1>1, CommitsOrdered
  <2>2. checkout[r] # NoCommit => head[r] <= checkout[r]
    BY DEF TreesOnDisk
  <2> QED
    BY <2>1, <2>2 DEF Top
<1> QED
  BY <1>1, <1>2, <1>3, <1>4

\* A checkout leads forward, and tears the files only if it changes the tree.
LEMMA CheckoutsLeadOn ==
  ASSUME WorldTyped, TreesOnDisk, ~resyncSetting.revisits, NEW q \in Follows,
         EndCheckout(q) \/ \E c \in Commits, b \in BOOLEAN : BeginCheckout(q, c, b)
  PROVE  /\ TreesOnDisk'
         /\ \A r \in Follows :
              /\ Top(r)' \in Commits /\ Top(r) <= Top(r)' /\ head[r] <= head'[r]
              /\ files'[r] = Torn => files[r] = Torn \/ ~SameTree(Top(r), Top(r)')
<1>a. /\ head \in [Follows -> Commits] /\ checkout \in [Follows -> Commits \cup {NoCommit}]
      /\ DOMAIN files = Follows
  BY DEF WorldTyped, Checkouts
<1>b. UNCHANGED resyncSetting /\ Follows' = Follows
  BY DEF EndCheckout, BeginCheckout, Follows
<1>1. ASSUME NEW r \in Follows, r # q
      PROVE  head'[r] = head[r] /\ checkout'[r] = checkout[r] /\ files'[r] = files[r]
  BY <1>a, <1>1 DEF EndCheckout, BeginCheckout
<1>2. CASE EndCheckout(q)
  <2>1. /\ checkout[q] \in Commits /\ checkout'[q] = NoCommit /\ head'[q] = checkout[q]
        /\ files'[q] = TreeOf[checkout[q]]
    BY <1>a, <1>2 DEF EndCheckout
  <2>2. Top(q) = checkout[q] /\ Top(q)' = checkout[q]
    <3>1. checkout[q] # NoCommit
      BY <2>1, CommitsOrdered
    <3> QED
      BY <2>1, <3>1 DEF Top
  <2>3. /\ Top(q)' \in Commits /\ Top(q) <= Top(q)' /\ head[q] <= head'[q]
        /\ files'[q] # Torn /\ files'[q] = TreeOf[Top(q)'] /\ checkout'[q] = NoCommit
    <3>1. head[q] <= Top(q) /\ TreeOf[Top(q)] # Torn /\ Top(q) \in Int
      BY TopTyped, CommitsOrdered
    <3> QED
      BY <2>1, <2>2, <3>1
  <2>4. ASSUME NEW r \in Follows, r # q
        PROVE  /\ Top(r)' = Top(r) /\ Top(r) \in Commits /\ Top(r) <= Top(r)
               /\ head[r] <= head[r]
    <3>1. Top(r)' = Top(r)
      BY <1>1, <2>4 DEF Top
    <3>2. Top(r) \in Commits /\ head[r] \in Commits
      BY TopTyped
    <3>3. Top(r) \in Int /\ head[r] \in Int
      BY <3>2, CommitsOrdered
    <3> QED
      BY <3>1, <3>2, <3>3
  <2>5. TreesOnDisk'
    <3> SUFFICES ASSUME NEW r \in Follows
                 PROVE  /\ checkout'[r] # NoCommit => head'[r] <= checkout'[r]
                        /\ \/ files'[r] = TreeOf[Top(r)']
                           \/ files'[r] = Torn /\ checkout'[r] # NoCommit
      BY <1>b DEF TreesOnDisk
    <3>1. CASE r = q
      BY <2>3, <3>1
    <3>2. CASE r # q
      BY <1>1, <2>4, <3>2 DEF TreesOnDisk
    <3> QED
      BY <3>1, <3>2
  <2> QED
    BY <1>1, <2>3, <2>4, <2>5
<1>3. ASSUME NEW c \in Commits, NEW b \in BOOLEAN, BeginCheckout(q, c, b)
      PROVE  /\ TreesOnDisk'
             /\ \A r \in Follows :
                  /\ Top(r)' \in Commits /\ Top(r) <= Top(r)' /\ head[r] <= head'[r]
                  /\ files'[r] = Torn => files[r] = Torn \/ ~SameTree(Top(r), Top(r)')
  <2>1. /\ checkout[q] = NoCommit /\ c > head[q] /\ checkout'[q] = c
        /\ head'[q] \in {head[q], c}
        /\ files'[q] = IF TreeOf[c] = files[q] THEN files[q] ELSE Torn
    BY <1>a, <1>3 DEF BeginCheckout
  <2>2. Top(q) = head[q] /\ Top(q)' = c /\ files[q] = TreeOf[head[q]]
    BY <2>1, CommitsOrdered DEF Top, TreesOnDisk
  <2>3. /\ Top(q)' \in Commits /\ Top(q) <= Top(q)' /\ head[q] <= head'[q] /\ head'[q] <= c
        /\ files'[q] = Torn => files[q] = Torn \/ ~SameTree(Top(q), Top(q)')
        /\ files'[q] = TreeOf[Top(q)'] \/ (files'[q] = Torn /\ checkout'[q] # NoCommit)
    BY <1>a, <2>1, <2>2, CommitsOrdered DEF SameTree
  <2>4. ASSUME NEW r \in Follows
        PROVE  /\ Top(r)' \in Commits /\ Top(r) <= Top(r)' /\ head[r] <= head'[r]
               /\ files'[r] = Torn => files[r] = Torn \/ ~SameTree(Top(r), Top(r)')
    <3>1. CASE r = q
      BY <2>3, <3>1
    <3>2. CASE r # q
      <4>1. Top(r)' = Top(r) /\ head'[r] = head[r] /\ files'[r] = files[r]
        BY <1>1, <3>2 DEF Top
      <4>2. Top(r) \in Commits /\ head[r] \in Commits
        BY TopTyped
      <4>3. Top(r) \in Int /\ head[r] \in Int
        BY <4>2, CommitsOrdered
      <4> QED
        BY <4>1, <4>2, <4>3
    <3> QED
      BY <3>1, <3>2
  <2>5. TreesOnDisk'
    <3> SUFFICES ASSUME NEW r \in Follows
                 PROVE  /\ checkout'[r] # NoCommit => head'[r] <= checkout'[r]
                        /\ \/ files'[r] = TreeOf[Top(r)']
                           \/ files'[r] = Torn /\ checkout'[r] # NoCommit
      BY <1>b DEF TreesOnDisk
    <3>1. CASE r = q
      BY <2>1, <2>3, <3>1
    <3>2. CASE r # q
      BY <1>1, <3>2 DEF TreesOnDisk, Top
    <3> QED
      BY <3>1, <3>2
  <2> QED
    BY <2>4, <2>5
<1> QED
  BY <1>2, <1>3

\* The commits a loop remembers are commits, and none is beyond HEAD.
LEMMA RemembersCommits ==
  ASSUME LoopsSound, NEW s \in Servers, NEW r \in Follows, LoopDescribes(server[s], r)
  PROVE  /\ server[s] \in LoopRecord /\ head[r] \in Commits
         /\ Origin(server[s], r) \in Commits /\ Origin(server[s], r) <= server[s].heads[r]
         /\ \A movements \in {server[s].pending, server[s].batch, server[s].failed} :
              r \in DOMAIN movements => movements[r].from \in Commits /\ movements[r].to \in Commits
         /\ server[s].phase \in {"comparing", "rebuilding"} =>
              server[s].batch[r].to = server[s].heads[r]
<1>1. server[s] \in LoopRecord /\ LoopSound(server[s], tries[s]) /\ head[r] \in Commits
  BY DEF LoopsSound, LoopsTyped, WorldTyped
<1>2. \A movements \in {server[s].pending, server[s].batch, server[s].failed} :
        r \in DOMAIN movements => movements[r].from \in Commits /\ movements[r].to \in Commits
  <2> SUFFICES ASSUME NEW movements \in {server[s].pending, server[s].batch, server[s].failed},
                      r \in DOMAIN movements
               PROVE  movements[r].from \in Commits /\ movements[r].to \in Commits
    OBVIOUS
  <2>1. movements \in Batches
    BY <1>1 DEF LoopRecord
  <2>2. movements \in [DOMAIN movements -> Movement]
    BY <2>1, BatchesTyped
  <2> QED
    BY <2>2 DEF Movement
<1>3. server[s].heads[r] \in Commits /\ server[s].heads[r] \in Int
  BY CommitsOrdered DEF LoopDescribes
<1>4. r \in DOMAIN server[s].pending =>
        /\ server[s].pending[r].from \in Commits
        /\ server[s].pending[r].from <= server[s].heads[r]
  BY <1>2 DEF LoopDescribes
<1>5. Origin(server[s], r) \in Commits /\ Origin(server[s], r) <= server[s].heads[r]
  BY <1>3, <1>4 DEF Origin
<1>6. server[s].phase \in {"comparing", "rebuilding"} =>
        server[s].batch[r].to = server[s].heads[r]
  BY <1>1 DEF LoopDescribes, LoopSound
<1> QED
  BY <1>1, <1>2, <1>5, <1>6

\* What a loop knows of a repository stays true when HEAD goes on.
LEMMA LoopLedOn ==
  ASSUME TreesNeverReturn, LoopsSound, NEW s \in Servers, NEW r \in Follows,
         LoopDescribes(server[s], r), UNCHANGED <<resyncSetting, server, graph>>,
         budget'.failures = budget.failures,
         Top(r) \in Commits, Top(r)' \in Commits, head'[r] \in Commits,
         head[r] <= Top(r), Top(r) <= Top(r)', head[r] <= head'[r],
         files'[r] = Torn => files[r] = Torn \/ ~SameTree(Top(r), Top(r)')
  PROVE  LoopDescribes(server[s], r)'
<1> DEFINE loop == server[s]
<1>a. /\ head[r] \in Commits /\ Origin(loop, r) \in Commits /\ Origin(loop, r) <= loop.heads[r]
      /\ loop.phase \in {"comparing", "rebuilding"} => loop.batch[r].to = loop.heads[r]
      /\ r \in DOMAIN loop.failed => loop.failed[r].to \in Commits
      /\ loop.heads[r] \in Commits /\ loop.heads[r] <= head[r]
  BY RemembersCommits DEF LoopDescribes
<1>1. ASSUME NEW c \in Commits, c <= head[r], SameTree(c, Top(r)')
      PROVE  SameTree(c, Top(r)) /\ SameTree(Top(r), Top(r)')
  <2>1. c <= Top(r)
    BY <1>a, <1>1, CommitsFollow
  <2>2. PICK top \in Commits : top = Top(r)'
    OBVIOUS
  <2> QED
    BY <1>1, <2>1, <2>2, TreeStaysBetween
<1>2. server'[s] = loop /\ FailuresUsed' = FailuresUsed /\ Checkouts' = Checkouts
  BY DEF FailuresUsed, Checkouts, Follows
<1>3. Origin(loop, r) <= head[r]
  BY <1>a, CommitsFollow
<1>4. loop.phase = "polling" => (SameTree(Origin(loop, r), Top(r)') => graph'[r] = TreeOf[Origin(loop, r)])
  BY <1>a, <1>1, <1>3 DEF LoopDescribes, GraphDescribes
<1>5. loop.heads[r] <= head'[r]
  BY <1>a, CommitsFollow
<1>6. loop.phase \in {"comparing", "rebuilding"} =>
        /\ r \in DOMAIN loop.batch /\ loop.batch[r].from <= loop.batch[r].to
        /\ files'[r] = Torn => ~SameTree(loop.batch[r].to, Top(r)')
  BY <1>a, <1>1 DEF LoopDescribes
<1>7. loop.phase = "rebuilding" =>
        (SameTree(loop.batch[r].to, Top(r)') => loop.built[r] = TreeOf[loop.batch[r].to])
  BY <1>a, <1>1 DEF LoopDescribes
<1>8. r \in DOMAIN loop.failed =>
        /\ loop.failed[r].to <= head'[r]
        /\ SameTree(loop.failed[r].to, Top(r)') => loop.count <= FailuresUsed
  <2>1. r \in DOMAIN loop.failed => loop.failed[r].to <= head[r]
    BY DEF LoopDescribes
  <2> QED
    BY <1>a, <1>1, <2>1, CommitsFollow DEF LoopDescribes
<1>9. Origin(loop, r)' = Origin(loop, r)
  BY <1>2 DEF Origin
<1>10. loop.phase = "polling" => GraphDescribes(Origin(loop, r), r)'
  BY <1>4, <1>9 DEF GraphDescribes, SameTree
<1> HIDE DEF loop
<1> QED
  BY <1>a, <1>2, <1>5, <1>6, <1>7, <1>8, <1>10 DEF LoopDescribes, SameTree, loop

\* So does all a loop knows.
LEMMA CheckoutSkips ==
  ASSUME TreesNeverReturn, LoopsSound, SkipsSound, NEW q \in Follows,
         EndCheckout(q) \/ \E c \in Commits, b \in BOOLEAN : BeginCheckout(q, c, b)
  PROVE  SkipsSound'
<1>a. WorldTyped /\ TreesOnDisk /\ ~resyncSetting.revisits
  BY DEF LoopsSound, LoopsTyped, SkipsSound, LoneLoop, Undisturbed
<1>b. UNCHANGED <<resyncSetting, server, graph, resyncLock, outsidePass>>
  BY DEF EndCheckout, BeginCheckout
<1>c. /\ DOMAIN budget' = {"moves", "failures", "deaths"}
      /\ budget'.deaths = budget.deaths /\ budget'.failures = budget.failures
  <2>1. DOMAIN budget = {"moves", "failures", "deaths"}
    BY DEF SkipsSound, LoneLoop
  <2> QED
    BY <2>1 DEF EndCheckout, BeginCheckout
<1>1. LoneLoop'
  BY <1>b, <1>c DEF SkipsSound, LoneLoop
<1>2. TreesOnDisk'
  BY <1>a, CheckoutsLeadOn
<1>3. ASSUME NEW s \in resyncSetting.servers, NEW r \in Follows
      PROVE  LoopDescribes(server[s], r)'
  <2>1. s \in Servers
    BY ResyncSettingsAssumption DEF LoopsSound, LoopsTyped, WorldTyped, ResyncSetting
  <2>2. LoopDescribes(server[s], r)
    BY DEF SkipsSound
  <2>3. /\ Top(r)' \in Commits /\ Top(r) <= Top(r)' /\ head[r] <= head'[r]
        /\ files'[r] = Torn => files[r] = Torn \/ ~SameTree(Top(r), Top(r)')
    BY <1>a, CheckoutsLeadOn
  <2>4. Top(r) \in Commits /\ head[r] <= Top(r)
    BY <1>a, TopTyped
  <2>5. head'[r] \in Commits
    BY <1>a DEF EndCheckout, BeginCheckout, WorldTyped
  <2> QED
    BY <1>b, <1>c, <2>1, <2>2, <2>3, <2>4, <2>5, LoopLedOn
<1>4. resyncSetting' = resyncSetting /\ Follows' = Follows
  BY <1>b DEF Follows
<1> QED
  BY <1>1, <1>2, <1>3, <1>4 DEF SkipsSound

LEMMA WorldStays ==
  ASSUME UNCHANGED <<resyncSetting, world>>
  PROVE  /\ Follows' = Follows /\ Checkouts' = Checkouts /\ (TreesOnDisk => TreesOnDisk')
         /\ \A r \in Follows : Top(r)' = Top(r) /\ head'[r] = head[r] /\ files'[r] = files[r]
<1>1. Follows' = Follows /\ head' = head /\ checkout' = checkout /\ files' = files
  BY DEF world, Follows
<1>2. \A r \in Follows : Top(r)' = Top(r)
  BY <1>1 DEF Top
<1>3. TreesOnDisk => TreesOnDisk'
  BY <1>1 DEF TreesOnDisk, Top
<1> QED
  BY <1>1, <1>2, <1>3 DEF Checkouts

\* A loop that is back to polling starts from where its heads are.
LEMMA PollsFrom ==
  ASSUME NEW s \in Servers, NEW r \in Follows, UNCHANGED <<resyncSetting, world>>,
         server'[s].phase = "polling", r \notin DOMAIN server'[s].pending,
         server'[s].heads[r] \in Commits, server'[s].heads[r] <= head[r],
         SameTree(server'[s].heads[r], Top(r)) => graph'[r] = TreeOf[server'[s].heads[r]],
         r \in DOMAIN server'[s].failed =>
           /\ server'[s].failed[r].to <= head[r]
           /\ SameTree(server'[s].failed[r].to, Top(r)) => server'[s].count <= FailuresUsed'
  PROVE  LoopDescribes(server[s], r)'
<1>1. Top(r)' = Top(r) /\ head'[r] = head[r]
  BY WorldStays
<1>2. Origin(server[s], r)' = server'[s].heads[r]
  BY DEF Origin
<1>3. GraphDescribes(Origin(server[s], r), r)'
  BY <1>1, <1>2 DEF GraphDescribes, SameTree
<1> QED
  BY <1>1, <1>3 DEF LoopDescribes, SameTree

\* What lets the rest of a lone loop be: its step leaves it alive, the lock
\* with a loop that rebuilds, and the budget of failures in its bounds.
LEMMA SkipsKept ==
  ASSUME LoopsSound, SkipsSound, NEW s \in resyncSetting.servers, LoopStep(s),
         UNCHANGED <<resyncSetting, world, outsidePass>>,
         DOMAIN budget' = DOMAIN budget, budget'.deaths = budget.deaths,
         budget'.failures \in 0 .. resyncSetting.failures,
         server'[s].phase # "stopped",
         \/ resyncLock' = NoServer
         \/ resyncLock' = resyncLock /\ server[s].phase # "rebuilding"
         \/ resyncLock' = s /\ server'[s].phase = "rebuilding",
         \A r \in Follows : LoopDescribes(server[s], r)'
  PROVE  SkipsSound'
<1>1. s \in Servers /\ \A t \in resyncSetting.servers : t = s
  BY ResyncSettingsAssumption DEF LoopsSound, LoopsTyped, WorldTyped, ResyncSetting, SkipsSound,
     LoneLoop, Undisturbed
<1>2. \A t \in Servers \ {s} : server'[t] = server[t]
  BY <1>1, OthersSteady DEF LoopsSound
<1>3. Follows' = Follows /\ TreesOnDisk'
  BY WorldStays DEF SkipsSound
<1>4. resyncLock' # NoServer =>
        resyncLock' \in Servers /\ server'[resyncLock'].phase = "rebuilding"
  <2>1. CASE resyncLock' = NoServer
    BY <2>1
  <2>2. CASE resyncLock' = resyncLock /\ server[s].phase # "rebuilding"
    BY <1>2, <2>2 DEF SkipsSound, LoneLoop
  <2>3. CASE resyncLock' = s /\ server'[s].phase = "rebuilding"
    BY <1>1, <2>3
  <2> QED
    BY <2>1, <2>2, <2>3
<1>5. LoneLoop'
  BY <1>1, <1>2, <1>4 DEF SkipsSound, LoneLoop
<1> QED
  BY <1>1, <1>3, <1>5 DEF SkipsSound

\* A poll changes neither where a movement starts nor what is described.
LEMMA PollDescribes ==
  ASSUME LoopsSound, SkipsSound, NEW s \in Servers, NEW r \in Follows,
         LoopDescribes(server[s], r), Poll(s, Follows)
  PROVE  LoopDescribes(server[s], r)'
<1> DEFINE moved == Moved(s, Follows)
<1>a. /\ server[s] \in LoopRecord /\ server \in [Servers -> LoopRecord] /\ head[r] \in Commits
      /\ Origin(server[s], r) \in Commits /\ Origin(server[s], r) <= server[s].heads[r]
      /\ server[s].heads[r] \in Commits /\ server[s].heads[r] <= head[r]
  BY RemembersCommits DEF LoopsSound, LoopsTyped, LoopDescribes
<1>b. UNCHANGED <<resyncSetting, world, graph, budget>>
  BY DEF Poll
<1>1. server'[s] = [server[s] EXCEPT !.heads = Seen(s, Follows),
                                     !.pending = MergedPending(s, moved)]
  BY <1>a DEF Poll
<1>2. /\ server'[s].phase = "polling" /\ server[s].phase = "polling"
      /\ server'[s].heads = Seen(s, Follows) /\ server'[s].pending = MergedPending(s, moved)
      /\ server'[s].failed = server[s].failed /\ server'[s].count = server[s].count
  BY <1>a, <1>1 DEF Poll, LoopRecord
<1>3. server'[s].heads[r] = head[r]
  BY <1>2 DEF Seen
<1>4. r \notin moved => server[s].heads[r] = head[r]
  BY <1>a, CommitsOrdered DEF Moved
<1>5. /\ r \in moved => /\ r \in DOMAIN server'[s].pending
                        /\ server'[s].pending[r].from = Origin(server[s], r)
      /\ r \notin moved /\ r \in DOMAIN server[s].pending =>
           /\ r \in DOMAIN server'[s].pending
           /\ server'[s].pending[r] = server[s].pending[r]
      /\ r \notin moved /\ r \notin DOMAIN server[s].pending => r \notin DOMAIN server'[s].pending
  BY <1>2 DEF MergedPending, Origin
<1>6. Origin(server[s], r)' = Origin(server[s], r)
  BY <1>3, <1>4, <1>5 DEF Origin
<1>7. r \in DOMAIN server'[s].pending => server'[s].pending[r].from <= server'[s].heads[r]
  <2>1. Origin(server[s], r) <= head[r]
    BY <1>a, CommitsFollow
  <2> QED
    BY <1>3, <1>6, <2>1 DEF Origin
<1>8. Top(r)' = Top(r) /\ head'[r] = head[r] /\ FailuresUsed' = FailuresUsed
  BY <1>b, WorldStays DEF FailuresUsed
<1>9. GraphDescribes(Origin(server[s], r), r)'
  BY <1>b, <1>2, <1>6, <1>8 DEF GraphDescribes, SameTree, LoopDescribes
<1>10. head[r] <= head[r]
  BY <1>a, CommitsFollow
<1> QED
  BY <1>a, <1>2, <1>3, <1>7, <1>8, <1>9, <1>10 DEF LoopDescribes, SameTree

\* A batch is taken when no checkout is under way: it leads to the tree on disk.
LEMMA TakeBatchDescribes ==
  ASSUME LoopsSound, SkipsSound, NEW s \in Servers, NEW r \in Follows,
         LoopDescribes(server[s], r), TakeBatch(s, Follows)
  PROVE  LoopDescribes(server[s], r)'
<1>a. /\ server[s] \in LoopRecord /\ server \in [Servers -> LoopRecord] /\ head[r] \in Commits
      /\ server[s].heads[r] \in Commits /\ server[s].heads[r] <= head[r]
  BY RemembersCommits DEF LoopsSound, LoopsTyped, LoopDescribes
<1>b. UNCHANGED <<resyncSetting, world, graph, budget>>
  BY DEF TakeBatch
<1>1. server'[s] = [server[s] EXCEPT !.phase = "comparing", !.heads = Seen(s, Follows),
                                     !.batch = server[s].pending, !.pending = NoBatch]
  BY <1>a DEF TakeBatch
<1>2. /\ server'[s].phase = "comparing" /\ server[s].phase = "polling"
      /\ server'[s].heads = Seen(s, Follows) /\ server'[s].pending = NoBatch
      /\ server'[s].batch = server[s].pending
      /\ server'[s].failed = server[s].failed /\ server'[s].count = server[s].count
  BY <1>a, <1>1 DEF TakeBatch, LoopRecord
<1>3. server'[s].heads[r] = head[r]
  BY <1>2 DEF Seen
<1>4. r \in DOMAIN server[s].pending
  <2>1. /\ DOMAIN server[s].pending \subseteq Follows
        /\ server[s].pending \in [DOMAIN server[s].pending -> Movement]
    BY <1>a, BatchesTyped DEF LoopRecord
  <2>2. DOMAIN server[s].pending # {}
    BY <2>1 DEF TakeBatch, NoBatch
  <2> QED
    BY <2>1, <2>2 DEF SkipsSound, LoneLoop, Undisturbed, Follows
<1>5. server[s].pending[r].from \in Commits /\ server[s].pending[r].from = Origin(server[s], r)
  BY <1>4, RemembersCommits DEF Origin
<1>6. checkout[r] = NoCommit
  BY <1>4 DEF TakeBatch, AnyBusy
<1>7. Top(r) = head[r] /\ files[r] = TreeOf[head[r]] /\ files[r] # Torn
  <2>1. Top(r) = head[r]
    BY <1>6 DEF Top
  <2>2. TreeOf[Top(r)] # Torn
    BY TopTyped DEF LoopsSound, LoopsTyped, SkipsSound
  <2> QED
    BY <1>6, <2>1, <2>2 DEF SkipsSound, TreesOnDisk
<1>8. server[s].pending[r].to = head[r]
  <2>1. server[s].pending[r].to = server[s].heads[r]
    BY <1>2, <1>4 DEF LoopsSound, LoopSound
  <2>2. server[s].heads[r] = head[r]
    BY <1>a, CommitsOrdered DEF TakeBatch, Moved
  <2> QED
    BY <2>1, <2>2
<1>9. server[s].pending[r].from <= server[s].pending[r].to
  <2>1. server[s].pending[r].from <= server[s].heads[r]
    BY <1>4 DEF LoopDescribes
  <2> QED
    BY <1>a, <1>5, <1>8, <2>1, CommitsFollow
<1>10. SameTree(server[s].pending[r].from, head[r]) => graph[r] = TreeOf[head[r]]
  BY <1>2, <1>5, <1>7 DEF LoopDescribes, GraphDescribes, SameTree
<1>11. Top(r)' = Top(r) /\ head'[r] = head[r] /\ files'[r] = files[r] /\ FailuresUsed' = FailuresUsed
  BY <1>b, WorldStays DEF FailuresUsed
<1>12. head[r] <= head[r] /\ r \notin DOMAIN NoBatch
  BY <1>a, CommitsFollow, BatchesTyped
<1> QED
  BY <1>a, <1>b, <1>2, <1>3, <1>4, <1>7, <1>8, <1>9, <1>10, <1>11, <1>12 DEF LoopDescribes, SameTree

\* The pass observes the tree on disk.
LEMMA StartPassDescribes ==
  ASSUME LoopsSound, SkipsSound, NEW s \in Servers, NEW r \in Follows,
         LoopDescribes(server[s], r), StartPass(s)
  PROVE  LoopDescribes(server[s], r)' /\ server'[s].phase = "rebuilding"
<1>a. /\ server[s] \in LoopRecord /\ server \in [Servers -> LoopRecord]
      /\ files \in Checkouts /\ server[s].batch[r].to \in Commits
  <2>1. r \in DOMAIN server[s].batch
    BY DEF StartPass, LoopDescribes
  <2> QED
    BY <2>1, RemembersCommits DEF LoopsSound, LoopsTyped, WorldTyped
<1>b. UNCHANGED <<resyncSetting, world, graph, budget>>
  BY DEF StartPass
<1>1. server'[s] = [server[s] EXCEPT !.phase = "rebuilding", !.built = files]
  BY <1>a DEF StartPass
<1>2. /\ server'[s].phase = "rebuilding" /\ server[s].phase = "comparing"
      /\ server'[s].heads = server[s].heads /\ server'[s].pending = server[s].pending
      /\ server'[s].batch = server[s].batch /\ server'[s].built = files
      /\ server'[s].failed = server[s].failed /\ server'[s].count = server[s].count
  BY <1>a, <1>1 DEF StartPass, LoopRecord
<1>3. SameTree(server[s].batch[r].to, Top(r)) => files[r] = TreeOf[server[s].batch[r].to]
  BY <1>2 DEF LoopDescribes, SkipsSound, TreesOnDisk, SameTree
<1>4. /\ Top(r)' = Top(r) /\ head'[r] = head[r] /\ files'[r] = files[r]
      /\ FailuresUsed' = FailuresUsed /\ Checkouts' = Checkouts
  BY <1>b, WorldStays DEF FailuresUsed
<1> QED
  BY <1>a, <1>2, <1>3, <1>4 DEF LoopDescribes, SameTree

\* Leaving a batch without a rebuild, or after one that was published, leaves
\* what its movement led to described.
LEMMA SkipDescribes ==
  ASSUME LoopsSound, SkipsSound, NEW s \in Servers, NEW r \in Follows,
         LoopDescribes(server[s], r), SkipUnchanged(s) \/ Publish(s)
  PROVE  LoopDescribes(server[s], r)' /\ server'[s].phase = "polling"
<1>a. /\ server[s] \in LoopRecord /\ server \in [Servers -> LoopRecord]
      /\ LoopSound(server[s], tries[s])
      /\ UNCHANGED <<resyncSetting, world>> /\ Skip(s)
      /\ server[s].phase \in {"comparing", "rebuilding"}
  BY DEF LoopsSound, LoopsTyped, SkipUnchanged, Publish
<1>b. /\ r \in DOMAIN server[s].batch /\ server[s].batch[r].to = server[s].heads[r]
      /\ server[s].heads[r] \in Commits /\ server[s].heads[r] <= head[r]
  BY <1>a, RemembersCommits DEF LoopDescribes
<1>1. /\ server'[s].phase = "polling" /\ server'[s].heads = server[s].heads
      /\ server'[s].pending = NoBatch /\ server'[s].failed = NoBatch
  <2>1. server'[s] = BackToPolling(ClearFailures(server[s]))
    BY <1>a DEF Skip
  <2>2. ClearFailures(server[s]) \in LoopRecord
    BY <1>a, FailuresCleared
  <2>4. ClearFailures(server[s]).heads = server[s].heads
    BY <1>a DEF ClearFailures, LoopRecord
  <2>3. server[s].pending = NoBatch
    BY <1>a DEF LoopSound
  <2> QED
    BY <1>a, <2>1, <2>2, <2>3, <2>4, FailuresCleared, PollingAgain
<1>2. SameTree(server[s].heads[r], Top(r)) => graph'[r] = TreeOf[server[s].heads[r]]
  <2>1. CASE SkipUnchanged(s)
    <3>1. /\ SameTree(server[s].batch[r].from, server[s].batch[r].to)
          /\ graph' = graph /\ server[s].phase = "comparing"
      BY <1>b, <2>1 DEF SkipUnchanged, ContentUnchanged, SameTree
    <3> QED
      BY <1>b, <3>1 DEF LoopDescribes
  <2>2. CASE Publish(s)
    BY <1>b, <2>2 DEF Publish, LoopDescribes
  <2> QED
    BY <2>1, <2>2
<1>3. r \notin DOMAIN NoBatch
  BY BatchesTyped
<1> QED
  BY <1>a, <1>b, <1>1, <1>2, <1>3, PollsFrom

LEMMA BudgetTyped ==
  ASSUME LoopsSound, SkipsSound
  PROVE  /\ resyncSetting.failures \in Nat /\ resyncSetting.failures < ResyncAttempts
         /\ ResyncAttempts \in Nat
         /\ DOMAIN budget = {"moves", "failures", "deaths"}
         /\ budget.failures \in 0 .. resyncSetting.failures
BY ResyncSettingsAssumption, ResyncAttemptsAssumption
   DEF LoopsSound, LoopsTyped, WorldTyped, ResyncSetting, SkipsSound, LoneLoop, Undisturbed

\* A failure of the machine is one of those it has left.
LEMMA FailureSpends ==
  ASSUME LoopsSound, SkipsSound, NEW s \in Servers, FailPass(s) \/ FailAttach(s)
  PROVE  /\ DOMAIN budget' = DOMAIN budget /\ budget'.deaths = budget.deaths
         /\ budget'.failures \in 0 .. resyncSetting.failures
         /\ FailuresUsed \in Nat /\ FailuresUsed' \in Nat
         /\ FailuresUsed' <= resyncSetting.failures
         /\ budget'.failures # budget.failures => FailuresUsed' = FailuresUsed + 1
         /\ FailuresUsed' = FailuresUsed \/ FailuresUsed' = FailuresUsed + 1
<1>d. /\ resyncSetting.failures \in Nat
      /\ DOMAIN budget = {"moves", "failures", "deaths"}
      /\ budget.failures \in 0 .. resyncSetting.failures
  BY BudgetTyped
<1>e. /\ DOMAIN budget' = DOMAIN budget /\ budget'.deaths = budget.deaths
      /\ \/ budget'.failures = budget.failures
         \/ budget.failures > 0 /\ budget'.failures = budget.failures - 1
  BY <1>d DEF FailPass, FailAttach
<1>f. /\ budget'.failures \in 0 .. resyncSetting.failures
      /\ FailuresUsed \in Nat /\ FailuresUsed' \in Nat /\ FailuresUsed' <= resyncSetting.failures
      /\ FailuresUsed' = FailuresUsed \/ FailuresUsed' = FailuresUsed + 1
      /\ budget'.failures # budget.failures => FailuresUsed' = FailuresUsed + 1
  BY <1>d, <1>e DEF FailuresUsed, FailPass, FailAttach
<1> QED
  BY <1>e, <1>f

\* A batch the machine failed is retried from where it started, for it fails
\* less often than the loop tolerates; one that HEAD has left may be given up.
LEMMA FailureDescribes ==
  ASSUME TreesNeverReturn, LoopsSound, SkipsSound, NEW s \in Servers, NEW r \in Follows,
         LoopDescribes(server[s], r), FailPass(s) \/ FailAttach(s)
  PROVE  LoopDescribes(server[s], r)'
<1> DEFINE loop == server[s]
           counted == RecordFailure(loop)
           count == IF loop.failed = loop.batch THEN loop.count + 1 ELSE 1
           to == loop.batch[r].to
<1>a. /\ loop \in LoopRecord /\ server \in [Servers -> LoopRecord]
      /\ LoopSound(loop, tries[s]) /\ loop.phase = "rebuilding"
      /\ server' = [server EXCEPT ![s] = AfterFailure(@)]
      /\ UNCHANGED <<resyncSetting, world>>
  BY DEF LoopsSound, LoopsTyped, FailPass, FailAttach
<1>b. /\ r \in DOMAIN loop.batch /\ to = loop.heads[r] /\ to \in Commits
      /\ loop.batch[r].from \in Commits /\ loop.batch[r].from <= to
      /\ to <= head[r] /\ head[r] \in Commits /\ loop.count \in Nat
  BY <1>a, RemembersCommits DEF LoopDescribes, LoopRecord
<1>c. Top(r) \in Commits /\ to <= Top(r)
  <2>1. WorldTyped /\ TreesOnDisk
    BY DEF LoopsSound, LoopsTyped, SkipsSound
  <2>2. Top(r) \in Commits /\ head[r] <= Top(r)
    BY <2>1, TopTyped
  <2> QED
    BY <1>b, <2>2, CommitsFollow
<1>d. /\ resyncSetting.failures \in Nat /\ resyncSetting.failures < ResyncAttempts
      /\ ResyncAttempts \in Nat
      /\ DOMAIN budget = {"moves", "failures", "deaths"}
      /\ budget.failures \in 0 .. resyncSetting.failures
  BY BudgetTyped
<1>f. /\ FailuresUsed \in Nat /\ FailuresUsed' \in Nat
      /\ FailuresUsed' <= resyncSetting.failures
      /\ budget'.failures # budget.failures => FailuresUsed' = FailuresUsed + 1
      /\ FailuresUsed' = FailuresUsed \/ FailuresUsed' = FailuresUsed + 1
  BY FailureSpends
\* Only the machine counts.
<1>1. ASSUME SameTree(to, Top(r)) PROVE count <= FailuresUsed'
  <2>1. budget'.failures = budget.failures - 1
    <3>1. CASE FailAttach(s)
      BY <1>d, <3>1 DEF FailAttach
    <3>2. CASE FailPass(s)
      <4>1. loop.built[r] = TreeOf[to] /\ files[r] = TreeOf[to]
        BY <1>1, <1>a DEF LoopDescribes, SkipsSound, TreesOnDisk, SameTree
      <4>2. \A q \in Follows : q = r
        BY DEF SkipsSound, LoneLoop, Undisturbed, Follows
      <4>3. loop.built \in Checkouts /\ files \in Checkouts
        BY <1>a DEF LoopDescribes, LoopsSound, LoopsTyped, WorldTyped
      <4>4. loop.built = files
        BY <4>1, <4>2, <4>3 DEF Checkouts
      <4> QED
        BY <1>d, <3>2, <4>4 DEF FailPass, SkipsSound, LoneLoop, Undisturbed
    <3> QED
      BY <3>1, <3>2
  <2>2. FailuresUsed' = FailuresUsed + 1
    BY <1>d, <1>f, <2>1
  <2>3. loop.failed = loop.batch => loop.count <= FailuresUsed
    BY <1>1, <1>b DEF LoopDescribes
  <2> QED
    BY <1>b, <1>f, <2>2, <2>3
<1>2. /\ counted \in LoopRecord /\ counted.failed = loop.batch /\ counted.batch = loop.batch
      /\ counted.count = count /\ counted.heads = loop.heads /\ counted.pending = NoBatch
  <2>1. loop.pending = NoBatch
    BY <1>a DEF LoopSound
  <2> QED
    BY <1>a, <2>1, FailureRecorded
<1>3. server'[s] = BackToPolling(IF counted.count < ResyncAttempts THEN Rewind(counted) ELSE counted)
  BY <1>a DEF AfterFailure
<1>4. /\ server'[s].phase = "polling" /\ server'[s].pending = NoBatch
      /\ server'[s].failed = loop.batch /\ server'[s].count = count
      /\ server'[s].heads[r] = IF count < ResyncAttempts THEN loop.batch[r].from ELSE to
  <2>1. CASE count < ResyncAttempts
    <3>1. server'[s] = BackToPolling(Rewind(counted))
      BY <1>2, <1>3, <2>1
    <3>2. /\ Rewind(counted) \in LoopRecord /\ Rewind(counted).pending = NoBatch
          /\ Rewind(counted).failed = loop.batch /\ Rewind(counted).count = count
          /\ Rewind(counted).heads[r] = loop.batch[r].from
      BY <1>2, <1>b, Rewound
    <3> QED
      BY <2>1, <3>1, <3>2, PollingAgain
  <2>2. CASE ~(count < ResyncAttempts)
    <3>1. server'[s] = BackToPolling(counted)
      BY <1>2, <1>3, <2>2
    <3> QED
      BY <1>2, <1>b, <2>2, <3>1, PollingAgain
  <2> QED
    BY <2>1, <2>2
<1> HIDE DEF count
<1>5. /\ server'[s].heads[r] \in Commits /\ server'[s].heads[r] <= head[r]
  BY <1>b, <1>4, CommitsFollow
<1>6. SameTree(server'[s].heads[r], Top(r)) => graph'[r] = TreeOf[server'[s].heads[r]]
  <2>1. CASE count < ResyncAttempts
    <3>1. ~SameTree(loop.batch[r].from, to)
      <4>1. ~ContentUnchanged(loop.batch)
        BY <1>a DEF LoopSound
      <4>2. DOMAIN loop.batch \subseteq Follows
        BY <1>a, BatchesTyped DEF LoopRecord
      <4>3. DOMAIN loop.batch = {r}
        BY <1>b, <4>2 DEF SkipsSound, LoneLoop, Undisturbed, Follows
      <4> QED
        BY <4>1, <4>3 DEF ContentUnchanged, SameTree
    <3>2. ~SameTree(loop.batch[r].from, Top(r))
      BY <1>b, <1>c, <3>1, TreeStaysBetween
    <3> QED
      BY <1>4, <2>1, <3>2
  <2>2. CASE ~(count < ResyncAttempts)
    <3>1. ~SameTree(to, Top(r))
      <4>1. count \in Nat
        BY <1>b DEF count
      <4> QED
        BY <1>1, <1>d, <1>f, <2>2, <4>1
    <3> QED
      BY <1>4, <2>2, <3>1
  <2> QED
    BY <2>1, <2>2
<1>7. r \notin DOMAIN server'[s].pending
  BY <1>4, BatchesTyped
<1>8. /\ server'[s].failed[r].to <= head[r]
      /\ SameTree(server'[s].failed[r].to, Top(r)) => server'[s].count <= FailuresUsed'
  BY <1>1, <1>b, <1>4
<1>9. UNCHANGED <<resyncSetting, world>> /\ server'[s].phase = "polling"
  BY <1>a, <1>4
<1> HIDE DEF loop, counted, to
<1> QED
  BY <1>5, <1>6, <1>7, <1>8, <1>9, PollsFrom, Zenon

LEMMA LoopSkips ==
  ASSUME TreesNeverReturn, LoopsSound, SkipsSound, NEW s \in Servers, LoopStep(s)
  PROVE  SkipsSound'
<1>a. s \in resyncSetting.servers
  <2>1. server[s].phase # "stopped"
    BY DEF LoopStep, Poll, TakeBatch, SkipUnchanged, LoseLock, StartPass, Publish, FailPass,
       FailAttach, YieldToPublisher
  <2> QED
    BY <2>1 DEF SkipsSound, LoneLoop
<1>b. \A r \in Follows : LoopDescribes(server[s], r)
  BY <1>a DEF SkipsSound
<1>c. Readable = {Follows}
  BY DEF Readable, SkipsSound, LoneLoop, Undisturbed
<1>d. budget.failures \in 0 .. resyncSetting.failures
  BY DEF SkipsSound, LoneLoop
<1>e. server \in [Servers -> LoopRecord]
  BY DEF LoopsSound, LoopsTyped
<1>1. CASE Poll(s, Follows)
  <2>1. server'[s].phase = "polling" /\ server[s].phase = "polling"
    BY <1>1, <1>e DEF Poll, LoopRecord
  <2>2. UNCHANGED <<resyncSetting, world, outsidePass, budget, resyncLock>>
    BY <1>1 DEF Poll
  <2> QED
    BY <1>1, <1>a, <1>b, <1>d, <2>1, <2>2, PollDescribes, SkipsKept
<1>2. CASE TakeBatch(s, Follows)
  <2>1. server'[s].phase = "comparing" /\ server[s].phase = "polling"
    BY <1>2, <1>e DEF TakeBatch, LoopRecord
  <2>2. UNCHANGED <<resyncSetting, world, outsidePass, budget, resyncLock>>
    BY <1>2 DEF TakeBatch
  <2> QED
    BY <1>2, <1>a, <1>b, <1>d, <2>1, <2>2, TakeBatchDescribes, SkipsKept
<1>3. CASE SkipUnchanged(s) \/ Publish(s)
  <2>1. /\ UNCHANGED <<resyncSetting, world, outsidePass, budget>>
        /\ \/ resyncLock' = NoServer
           \/ resyncLock' = resyncLock /\ server[s].phase # "rebuilding"
    BY <1>3 DEF SkipUnchanged, Publish
  <2>2. server'[s].phase = "polling"
    <3>1. /\ server'[s] = BackToPolling(ClearFailures(server[s]))
          /\ ClearFailures(server[s]) \in LoopRecord
      BY <1>3, <1>e, FailuresCleared DEF SkipUnchanged, Publish, Skip
    <3> QED
      BY <3>1, PollingAgain
  <2> QED
    BY <1>3, <1>a, <1>b, <1>d, <2>1, <2>2, SkipDescribes, SkipsKept
<1>4. ~LoseLock(s) /\ ~YieldToPublisher(s)
  <2>1. ~LoseLock(s)
    <3> SUFFICES ASSUME LoseLock(s) PROVE FALSE
      OBVIOUS
    <3>1. resyncLock \in resyncSetting.servers /\ server[resyncLock].phase = "rebuilding"
      BY DEF LoseLock, SkipsSound, LoneLoop
    <3> QED
      BY <1>a, <3>1 DEF LoseLock, SkipsSound, LoneLoop, Undisturbed
  <2> QED
    BY <2>1 DEF YieldToPublisher, SkipsSound, LoneLoop
<1>5. CASE StartPass(s)
  <2>1. /\ UNCHANGED <<resyncSetting, world, outsidePass, budget>> /\ resyncLock' = s
        /\ server'[s].phase = "rebuilding"
    BY <1>5, <1>e DEF StartPass, LoopRecord
  <2> QED
    BY <1>5, <1>a, <1>b, <1>d, <2>1, StartPassDescribes, SkipsKept
<1>6. CASE FailPass(s) \/ FailAttach(s)
  <2>1. UNCHANGED <<resyncSetting, world, outsidePass>> /\ resyncLock' = NoServer
    BY <1>6 DEF FailPass, FailAttach
  <2>2. server'[s].phase = "polling"
    <3>1. LoopRecord' = LoopRecord /\ server[s].phase = "rebuilding"
      BY <1>6, <2>1, TypesSteady DEF FailPass, FailAttach
    <3>2. /\ server'[s] = AfterFailure(server[s])
          /\ RecordFailure(server[s]) \in LoopRecord
          /\ Rewind(RecordFailure(server[s])) \in LoopRecord
      BY <1>6, <1>e, FailureRecorded, Rewound DEF FailPass, FailAttach
    <3> QED
      BY <3>2, PollingAgain DEF AfterFailure
  <2> QED
    BY <1>6, <1>a, <1>b, <2>1, <2>2, FailureDescribes, FailureSpends, SkipsKept
<1> QED
  BY <1>1, <1>2, <1>3, <1>4, <1>5, <1>6, <1>c DEF LoopStep

LEMMA SkipsSoundStep ==
  ASSUME TreesNeverReturn
  PROVE  LoopsSound /\ SkipsSound /\ [ResyncNext]_resyncVars => SkipsSound'
<1> SUFFICES ASSUME LoopsSound, SkipsSound, [ResyncNext]_resyncVars PROVE SkipsSound'
  OBVIOUS
<1>1. CASE UNCHANGED resyncVars
  <2>1. UNCHANGED <<resyncSetting, head, checkout, files, graph, resyncLock, server, outsidePass,
                    budget>>
    BY <1>1 DEF resyncVars
  <2>2. LoneLoop' /\ TreesOnDisk'
    BY <2>1 DEF SkipsSound, LoneLoop, TreesOnDisk, Top, Follows
  <2>3. ASSUME NEW s \in resyncSetting.servers, NEW r \in Follows
        PROVE  LoopDescribes(server[s], r)'
    <3>1. LoopDescribes(server[s], r)
      BY DEF SkipsSound
    <3> QED
      BY <2>1, <3>1 DEF LoopDescribes, GraphDescribes, Origin, SameTree, Top, FailuresUsed,
         Checkouts, Follows
  <2> QED
    BY <2>1, <2>2, <2>3 DEF SkipsSound, Follows
<1>2. ~\E s \in Servers : Die(s) \/ \E readable \in Readable : Start(s, readable)
  BY DEF Die, Start, SkipsSound, LoneLoop
<1>3. ~OutsideStarts /\ ~OutsideEnds
  BY DEF OutsideStarts, OutsideEnds, SkipsSound, LoneLoop, Undisturbed
<1> QED
  BY <1>1, <1>2, <1>3, CheckoutSkips, LoopSkips DEF ResyncNext

LEMMA SkipsSoundInit ==
  ASSUME \A setting \in ResyncSettings : Undisturbed(setting)
  PROVE  ResyncInit => SkipsSound
<1> SUFFICES ASSUME ResyncInit PROVE SkipsSound
  OBVIOUS
<1>a. /\ Undisturbed(resyncSetting) /\ resyncSetting.failures \in Nat
      /\ resyncSetting.servers \subseteq Servers
  BY ResyncSettingsAssumption DEF ResyncInit, ResyncSetting
<1>b. 1 \in Commits /\ TreeOf[1] # Torn
  BY ResyncCommitsAssumption, ResyncTreesAssumption DEF Commits, Trees
<1>1. \A s \in Servers : server[s] = IF s \in resyncSetting.servers THEN Primed(Follows)
                                                                  ELSE Stopped
  BY DEF ResyncInit
<1>2. LoneLoop
  <2>1. Primed(Follows).phase = "polling" /\ Stopped.phase = "stopped"
    BY DEF Primed, Stopped
  <2> QED
    BY <1>a, <1>1, <2>1 DEF ResyncInit, LoneLoop, Undisturbed
<1>3. \A r \in Follows : /\ head[r] = 1 /\ checkout[r] = NoCommit /\ Top(r) = 1
                         /\ files[r] = TreeOf[1] /\ graph[r] = TreeOf[1]
  BY DEF ResyncInit, Top
<1>4. TreesOnDisk
  BY <1>3 DEF TreesOnDisk
<1>5. ASSUME NEW s \in resyncSetting.servers, NEW r \in Follows
      PROVE  LoopDescribes(server[s], r)
  <2>1. /\ server[s].phase = "polling" /\ server[s].heads[r] = 1
        /\ server[s].pending = NoBatch /\ server[s].failed = NoBatch
    <3>1. server[s] = Primed(Follows)
      BY <1>a, <1>1
    <3>2. Primed(Follows).heads[r] = head[r]
      BY DEF Primed
    <3> QED
      BY <1>3, <3>1, <3>2 DEF Primed
  <2>2. r \notin DOMAIN NoBatch
    BY DEF NoBatch
  <2>3. Origin(server[s], r) = 1
    BY <2>1, <2>2 DEF Origin
  <2> QED
    BY <1>b, <1>3, <2>1, <2>2, <2>3 DEF LoopDescribes, GraphDescribes
<1> QED
  BY <1>2, <1>4, <1>5 DEF SkipsSound

(***************************************************************************)
(* What is skipped as unchanged is "the content [...] the graph already    *)
(* describes" (resync.go:90) where nothing disturbs the loop: one server   *)
(* follows one repository, HEAD goes forward through trees that do not     *)
(* come back, passes fail less often than the loop tolerates, and nobody   *)
(* else publishes; however checkouts overlap with batches and passes.      *)
(* Each part of this is needed: resync_skip is what the code does without. *)
(***************************************************************************)
THEOREM UndisturbedSkips ==
  ASSUME TreesNeverReturn, \A setting \in ResyncSettings : Undisturbed(setting)
  PROVE  ResyncSpec => SkippedIsDescribed
<1>1. ASSUME LoopsSound, SkipsSound, NEW s \in Servers, SkipUnchanged(s),
             NEW r \in DOMAIN server[s].batch
      PROVE  graph[r] = TreeOf[server[s].batch[r].to]
  <2>1. s \in resyncSetting.servers /\ server[s].phase = "comparing"
    BY <1>1 DEF SkipUnchanged, SkipsSound, LoneLoop
  <2>2. r \in Follows
    BY <1>1, BatchesTyped DEF LoopsSound, LoopsTyped, LoopRecord
  <2>3. SameTree(server[s].batch[r].from, server[s].batch[r].to)
    BY <1>1 DEF SkipUnchanged, ContentUnchanged, SameTree
  <2> QED
    BY <1>1, <2>1, <2>2, <2>3 DEF SkipsSound, LoopDescribes
<1>2. LoopsSound /\ SkipsSound /\ [ResyncNext]_resyncVars =>
        [\A s \in Servers : SkipUnchanged(s) =>
           \A r \in DOMAIN server[s].batch :
             graph[r] = TreeOf[server[s].batch[r].to]]_resyncVars
  BY <1>1
<1> QED
  BY <1>2, LoopsSoundInit, LoopsSoundStep, SkipsSoundInit, SkipsSoundStep, PTL
     DEF ResyncSpec, SkippedIsDescribed

-----------------------------------------------------------------------------
(* Registering and indexing: the types, and what a step leaves alone. *)

Working == {"asked", "loaded", "saved", "passing", "published", "restoring"}
Phases  == Working \cup {"orphan"} \cup Over

OperationRecord ==
  [host: Hosts, job: BOOLEAN, request: Requests, phase: Phases, cancelled: BOOLEAN,
   original: Registries, read: Registries, changed: BOOLEAN]

IndexTyped ==
  /\ indexSetting \in IndexSetting
  /\ registry \in Registries /\ indexed \in Registries
  /\ operations \in Seq(OperationRecord)
  /\ jobs \in [Hosts -> [order: Seq(Nat), active: Nat, closed: BOOLEAN]]
  /\ gate \in [Hosts -> Nat]

LEMMA RequestsTyped ==
  \A request \in Requests :
    /\ DOMAIN request \subseteq Projects
    /\ \A p \in DOMAIN request : request[p] \in Languages
<1>1. DOMAIN <<>> = {}
  OBVIOUS
<1>2. \A request \in Requests :
        request = <<>> \/ \E p \in Projects : request \in [{p} -> Languages]
  <2> SUFFICES ASSUME NEW request \in Requests, request # <<>>
               PROVE  \E p \in Projects : request \in [{p} -> Languages]
    OBVIOUS
  <2>1. request \in UNION {[{p} -> Languages] : p \in Projects}
    <3> DEFINE single == UNION {[{p} -> Languages] : p \in Projects}
    <3>1. request \in {<<>>} \cup single
      BY DEF Requests
    <3> HIDE DEF single
    <3>2. request \in single
      BY <3>1
    <3> QED
      BY <3>2 DEF single
  <2>2. PICK S \in {[{p} -> Languages] : p \in Projects} : request \in S
    BY <2>1, Zenon
  <2> QED
    BY <2>2
<1>3. ASSUME NEW request \in Requests
      PROVE  /\ DOMAIN request \subseteq Projects
             /\ \A p \in DOMAIN request : request[p] \in Languages
  <2>1. CASE request = <<>>
    BY <1>1, <2>1
  <2>2. ASSUME NEW p \in Projects, request \in [{p} -> Languages]
        PROVE  /\ DOMAIN request \subseteq Projects
               /\ \A q \in DOMAIN request : request[q] \in Languages
    BY <2>2
  <2> QED
    BY <1>2, <2>1, <2>2
<1> QED
  BY <1>3

LEMMA OperationTyped ==
  ASSUME IndexTyped, NEW o \in Asked
  PROVE  Op(o) \in OperationRecord /\ o \in Nat \ {0} /\ o <= Len(operations)
BY DEF IndexTyped, Asked, Op

LEMMA CandidateTyped ==
  ASSUME IndexTyped, NEW o \in Asked
  PROVE  /\ Candidate(o) \in Registries
         /\ \A p \in DOMAIN Op(o).request : Candidate(o)[p] # Unregistered
         /\ \A p \in Projects : Op(o).original[p] # Unregistered =>
                                  Candidate(o)[p] # Unregistered
<1>1. /\ DOMAIN Op(o).request \subseteq Projects
      /\ \A p \in DOMAIN Op(o).request : Op(o).request[p] \in Languages
      /\ Op(o).original \in Registries
  BY OperationTyped, RequestsTyped DEF OperationRecord
<1> QED
  BY <1>1, UnregisteredAssumption DEF Candidate, Registries

LEMMA EndedTyped ==
  ASSUME NEW op \in OperationRecord, NEW outcome \in Phases
  PROVE  /\ Ended(op, outcome) \in OperationRecord
         /\ Ended(op, outcome).host = op.host /\ Ended(op, outcome).job = op.job
         /\ Ended(op, outcome).request = op.request /\ Ended(op, outcome).phase = outcome
         /\ Ended(op, outcome).cancelled = FALSE
<1> DEFINE fresh == NewOperation(op.host, op.job, op.request)
<1>1. Empty \in Registries
  BY DEF Empty, Registries
<1>2. /\ fresh \in OperationRecord /\ fresh.host = op.host /\ fresh.job = op.job
      /\ fresh.request = op.request /\ fresh.cancelled = FALSE
  BY <1>1 DEF NewOperation, OperationRecord, Phases, Working
<1>3. Ended(op, outcome) = [fresh EXCEPT !.phase = outcome]
  BY DEF Ended
<1> HIDE DEF fresh
<1> QED
  BY <1>2, <1>3 DEF OperationRecord

LEMMA NewOperationTyped ==
  ASSUME NEW h \in Hosts, NEW job \in BOOLEAN, NEW request \in Requests
  PROVE  /\ NewOperation(h, job, request) \in OperationRecord
         /\ NewOperation(h, job, request).host = h /\ NewOperation(h, job, request).job = job
         /\ NewOperation(h, job, request).phase = "asked"
         /\ NewOperation(h, job, request).cancelled = FALSE
<1>1. Empty \in Registries
  BY DEF Empty, Registries
<1> QED
  BY <1>1 DEF NewOperation, OperationRecord, Phases, Working

\* What one operation becomes, the others being as they were.
Became(o, new) ==
  /\ operations' \in Seq(OperationRecord) /\ Len(operations') = Len(operations)
  /\ DOMAIN operations' = DOMAIN operations
  /\ operations'[o] = new
  /\ \A p \in Asked \ {o} : operations'[p] = operations[p]

LEMMA Replaced ==
  ASSUME IndexTyped, NEW o \in Asked, NEW new \in OperationRecord,
         operations' = [operations EXCEPT ![o] = new]
  PROVE  Became(o, new)
BY DEF IndexTyped, Asked, Became

LEMMA PhaseChanged ==
  ASSUME IndexTyped, NEW o \in Asked, NEW phase \in Phases, Goes(o, phase)
  PROVE  Became(o, [Op(o) EXCEPT !.phase = phase])
<1>1. [Op(o) EXCEPT !.phase = phase] \in OperationRecord
  BY OperationTyped DEF OperationRecord
<1>2. operations' = [operations EXCEPT ![o] = [Op(o) EXCEPT !.phase = phase]]
  BY DEF Goes, Op, Asked
<1> QED
  BY <1>1, <1>2, Replaced

LEMMA Left ==
  ASSUME IndexTyped, NEW o \in Asked, NEW outcome \in Phases, Leave(o, outcome)
  PROVE  Became(o, Ended(Op(o), outcome))
BY OperationTyped, EndedTyped, Replaced DEF Leave

\* An operation keeps what it was asked for, and by whom.
LEMMA StepOfOne ==
  ASSUME IndexTyped, NEW o \in Asked, OperationStep(o) \/ Enter(o) \/ CallerLeaves(o)
  PROVE  \E new \in OperationRecord :
           /\ Became(o, new)
           /\ new.host = Op(o).host /\ new.job = Op(o).job /\ new.request = Op(o).request
           /\ ~indexSetting.cancels => (new.cancelled => Op(o).cancelled)
<1> DEFINE Good(new) ==
             /\ new \in OperationRecord /\ Became(o, new)
             /\ new.host = Op(o).host /\ new.job = Op(o).job /\ new.request = Op(o).request
             /\ ~indexSetting.cancels => (new.cancelled => Op(o).cancelled)
<1>a. Op(o) \in OperationRecord /\ operations[o] = Op(o)
  BY OperationTyped DEF Op
<1>b. registry \in Registries /\ Candidate(o) \in Registries
  BY CandidateTyped DEF IndexTyped
<1>1. ASSUME NEW outcome \in Phases, Leave(o, outcome) PROVE \E new : Good(new)
  BY <1>a, <1>1, Left, EndedTyped
<1>2. ASSUME NEW phase \in Phases, Goes(o, phase) PROVE \E new : Good(new)
  <2>1. Became(o, [Op(o) EXCEPT !.phase = phase])
    BY <1>2, PhaseChanged
  <2> QED
    BY <1>a, <2>1 DEF OperationRecord
<1>3. ASSUME NEW outcome \in Phases,
             operations' = [operations EXCEPT ![o] = Ended(Op(o), outcome)]
      PROVE  \E new : Good(new)
  BY <1>a, <1>3, EndedTyped, Replaced
<1>4. CASE Enter(o)
  <2> DEFINE new == [Op(o) EXCEPT !.phase = "loaded", !.original = registry]
  <2>1. /\ new \in OperationRecord /\ new.host = Op(o).host /\ new.job = Op(o).job
        /\ new.request = Op(o).request /\ new.cancelled = Op(o).cancelled
    BY <1>a, <1>b DEF OperationRecord, Phases, Working
  <2>2. operations' = [operations EXCEPT ![o] = new]
    BY <1>4 DEF Enter, Op
  <2> HIDE DEF new
  <2> QED
    BY <2>1, <2>2, Replaced
<1>5. CASE SaveRegistry(o)
  <2> DEFINE differs == Candidate(o) # Op(o).original
             new == [Op(o) EXCEPT !.phase = "saved", !.changed = differs]
  <2>1. /\ new \in OperationRecord /\ new.host = Op(o).host /\ new.job = Op(o).job
        /\ new.request = Op(o).request /\ new.cancelled = Op(o).cancelled
    <3>1. differs \in BOOLEAN
      OBVIOUS
    <3> HIDE DEF differs
    <3> QED
      BY <1>a, <3>1 DEF OperationRecord, Phases, Working
  <2>2. operations' = [operations EXCEPT ![o] = new]
    BY <1>5 DEF SaveRegistry, Op, Candidate
  <2> HIDE DEF new
  <2> QED
    BY <2>1, <2>2, Replaced
<1>6. CASE PassReads(o)
  <2> DEFINE new == [Op(o) EXCEPT !.phase = "passing", !.read = registry]
  <2>1. /\ new \in OperationRecord /\ new.host = Op(o).host /\ new.job = Op(o).job
        /\ new.request = Op(o).request /\ new.cancelled = Op(o).cancelled
    BY <1>a, <1>b DEF OperationRecord, Phases, Working
  <2>2. operations' = [operations EXCEPT ![o] = new]
    BY <1>6 DEF PassReads, Op
  <2> HIDE DEF new
  <2> QED
    BY <2>1, <2>2, Replaced
<1>7. CASE CallerLeaves(o)
  <2> DEFINE new == [Op(o) EXCEPT !.cancelled = TRUE]
  <2>1. /\ new \in OperationRecord /\ new.host = Op(o).host /\ new.job = Op(o).job
        /\ new.request = Op(o).request
    BY <1>a DEF OperationRecord
  <2>2. operations' = [operations EXCEPT ![o] = new] /\ indexSetting.cancels
    BY <1>7 DEF CallerLeaves, Op
  <2> HIDE DEF new
  <2> QED
    BY <2>1, <2>2, Replaced
<1>8. CASE GiveUpWaiting(o) \/ Refuse(o) \/ RestoreRegistry(o) \/ Complete(o) \/ FailToServe(o)
  BY <1>1, <1>8 DEF GiveUpWaiting, Refuse, RestoreRegistry, Complete, FailToServe, Phases, Over
<1>9. CASE ChildPublishes(o) \/ PassFailsOrDies(o) \/ OrphanFails(o)
  BY <1>2, <1>3, <1>9 DEF ChildPublishes, PassFailsOrDies, OrphanFails, Phases, Working, Over
<1>10. \E new : Good(new)
  BY <1>4, <1>5, <1>6, <1>7, <1>8, <1>9 DEF OperationStep
<1> QED
  BY <1>10


LEMMA IndexTypedInit == IndexInit => IndexTyped
<1> SUFFICES ASSUME IndexInit PROVE IndexTyped
  OBVIOUS
<1>1. Empty \in Registries
  BY DEF Empty, Registries
<1>2. NoJobs \in [order: Seq(Nat), active: Nat, closed: BOOLEAN]
  BY DEF NoJobs, NoOperation
<1> QED
  BY <1>1, <1>2, IndexSettingsAssumption DEF IndexInit, IndexTyped, NoOperation

LEMMA PrunedTyped ==
  ASSUME NEW order \in Seq(Nat)
  PROVE  /\ Pruned(order) \in Seq(Nat)
         /\ Len(order) <= JobHistory => Pruned(order) = order
         /\ Len(order) > JobHistory =>
              /\ Len(Pruned(order)) = JobHistory
              /\ \A i \in 1 .. JobHistory : Pruned(order)[i] = order[Len(order) - JobHistory + i]
<1>1. CASE Len(order) <= JobHistory
  BY <1>1, JobHistoryAssumption DEF Pruned
<1>2. CASE Len(order) > JobHistory
  <2> DEFINE first == Len(order) - JobHistory + 1
  <2>1. /\ first \in Nat /\ first >= 1 /\ first <= Len(order)
        /\ Len(order) - first + 1 = JobHistory /\ JobHistory \in Nat
    BY <1>2, JobHistoryAssumption
  <2>2. Pruned(order) = SubSeq(order, first, Len(order))
    BY <1>2, JobHistoryAssumption DEF Pruned
  <2>3. SubSeq(order, first, Len(order)) =
          [i \in 1 .. JobHistory |-> order[Len(order) - JobHistory + i]]
    <3>1. SubSeq(order, first, Len(order)) = [i \in 1 .. JobHistory |-> order[first + i - 1]]
      BY <2>1
    <3>2. \A i \in 1 .. JobHistory : first + i - 1 = Len(order) - JobHistory + i
      BY <2>1
    <3> HIDE DEF first
    <3> QED
      BY <3>1, <3>2
  <2>4. \A i \in 1 .. JobHistory : order[Len(order) - JobHistory + i] \in Nat
    BY <2>1
  <2>5. SubSeq(order, first, Len(order)) \in [1 .. JobHistory -> Nat]
    BY <2>3, <2>4
  <2> HIDE DEF first
  <2> QED
    BY <1>2, <2>1, <2>2, <2>3, <2>5
<1> QED
  BY <1>1, <1>2, JobHistoryAssumption

LEMMA IndexTypedStep == IndexTyped /\ [IndexNext]_indexVars => IndexTyped'
<1> SUFFICES ASSUME IndexTyped, [IndexNext]_indexVars PROVE IndexTyped'
  OBVIOUS
<1> DEFINE JobsOk(j) == j \in [Hosts -> [order: Seq(Nat), active: Nat, closed: BOOLEAN]]
<1>a. /\ registry \in Registries /\ indexed \in Registries
      /\ operations \in Seq(OperationRecord) /\ Len(operations) \in Nat
      /\ JobsOk(jobs) /\ gate \in [Hosts -> Nat] /\ indexSetting \in IndexSetting
  BY DEF IndexTyped
<1>b. indexSetting.hosts \subseteq Hosts
  BY <1>a DEF IndexSetting
<1>1. CASE UNCHANGED indexVars
  BY <1>1 DEF indexVars, IndexTyped
<1>2. ASSUME NEW h \in Hosts, NEW request \in Requests,
             StartJob(h, request) \/ CallIndex(h, request)
      PROVE  IndexTyped'
  <2>1. operations' \in Seq(OperationRecord)
    <3>1. /\ NewOperation(h, TRUE, request) \in OperationRecord
          /\ NewOperation(h, FALSE, request) \in OperationRecord
      BY NewOperationTyped
    <3>2. \E op \in OperationRecord : operations' = Append(operations, op)
      BY <1>2, <3>1 DEF StartJob, CallIndex
    <3> QED
      BY <1>a, <3>2
  <2>2. JobsOk(jobs')
    <3>1. CASE StartJob(h, request)
      <4>1. jobs[h] \in [order: Seq(Nat), active: Nat, closed: BOOLEAN]
        BY <1>a
      <4> DEFINE longer == Append(jobs[h].order, Len(operations) + 1)
                 new == [jobs[h] EXCEPT !.order = longer, !.active = Len(operations) + 1]
      <4>2. new \in [order: Seq(Nat), active: Nat, closed: BOOLEAN]
        <5>1. longer \in Seq(Nat) /\ Len(operations) + 1 \in Nat
          BY <1>a, <4>1
        <5> HIDE DEF longer
        <5> QED
          BY <4>1, <5>1
      <4>3. jobs' = [jobs EXCEPT ![h] = new]
        BY <3>1 DEF StartJob
      <4> HIDE DEF new
      <4> QED
        BY <1>a, <4>2, <4>3
    <3>2. CASE CallIndex(h, request)
      BY <1>a, <3>2 DEF CallIndex
    <3> QED
      BY <1>2, <3>1, <3>2
  <2> QED
    BY <1>2, <1>a, <2>1, <2>2 DEF StartJob, CallIndex, IndexTyped
<1>3. ASSUME NEW h \in Hosts, CloseJobs(h) PROVE IndexTyped'
  BY <1>3, <1>a DEF CloseJobs, IndexTyped
<1>4. ASSUME NEW h \in Hosts, HostDies(h) PROVE IndexTyped'
  <2>1. \A o \in Asked : operations'[o] \in OperationRecord
    <3> SUFFICES ASSUME NEW o \in Asked PROVE operations'[o] \in OperationRecord
      OBVIOUS
    <3>1. Op(o) \in OperationRecord /\ Op(o).read \in Registries
      BY OperationTyped DEF OperationRecord
    <3>2. Ended(Op(o), "dead") \in OperationRecord /\ Ended(Op(o), "orphan") \in OperationRecord
      BY <3>1, EndedTyped DEF Phases, Over
    <3>3. [Ended(Op(o), "orphan") EXCEPT !.read = Op(o).read] \in OperationRecord
      BY <3>1, <3>2 DEF OperationRecord
    <3> QED
      BY <1>4, <3>1, <3>2, <3>3 DEF HostDies
  <2>2. DOMAIN operations' = 1 .. Len(operations) /\ operations' = [o \in Asked |-> operations'[o]]
    BY <1>a, <1>4 DEF HostDies, Asked
  <2>3. operations' \in Seq(OperationRecord)
    <3>1. operations' \in [1 .. Len(operations) -> OperationRecord]
      BY <1>a, <2>1, <2>2 DEF Asked
    <3> QED
      BY <1>a, <3>1, SMTT(20)
  <2>4. NoJobs \in [order: Seq(Nat), active: Nat, closed: BOOLEAN]
    BY DEF NoJobs, NoOperation
  <2> QED
    BY <1>4, <1>a, <2>3, <2>4 DEF HostDies, IndexTyped, NoOperation
<1>5. ASSUME NEW o \in Asked, OperationStep(o) \/ Enter(o) \/ CallerLeaves(o) PROVE IndexTyped'
  <2>a. Op(o) \in OperationRecord /\ Op(o).host \in Hosts /\ o \in Nat /\ Op(o).read \in Registries
        /\ Op(o).original \in Registries /\ Candidate(o) \in Registries
    BY OperationTyped, CandidateTyped DEF OperationRecord
  <2>1. operations' \in Seq(OperationRecord) /\ UNCHANGED indexSetting
    <3>1. operations' \in Seq(OperationRecord)
      BY <1>5, StepOfOne DEF Became
    <3> QED
      BY <1>5, <3>1 DEF OperationStep, Enter, CallerLeaves, GiveUpWaiting, SaveRegistry, Refuse,
         PassReads, ChildPublishes, PassFailsOrDies, OrphanFails, RestoreRegistry, Complete,
         FailToServe
  <2>2. JobsOk(JobsAfter(o))
    <3>1. jobs[Op(o).host] \in [order: Seq(Nat), active: Nat, closed: BOOLEAN]
      BY <1>a, <2>a
    <3>2. Pruned(jobs[Op(o).host].order) \in Seq(Nat)
      BY <3>1, PrunedTyped
    <3> DEFINE new == [jobs[Op(o).host] EXCEPT !.active = NoOperation,
                                               !.order = Pruned(jobs[Op(o).host].order)]
    <3>3. new \in [order: Seq(Nat), active: Nat, closed: BOOLEAN]
      BY <3>1, <3>2 DEF NoOperation
    <3>4. JobsAfter(o) = IF ~Op(o).job THEN jobs ELSE [jobs EXCEPT ![Op(o).host] = new]
      BY DEF JobsAfter
    <3> HIDE DEF new
    <3> QED
      BY <1>a, <2>a, <3>3, <3>4
  <2>3. JobsOk(jobs') /\ gate' \in [Hosts -> Nat]
    <3>1. ASSUME NEW outcome, Leave(o, outcome) PROVE JobsOk(jobs') /\ gate' \in [Hosts -> Nat]
      BY <1>a, <2>a, <2>2, <3>1 DEF Leave, NoOperation
    <3>2. CASE Enter(o)
      BY <1>a, <2>a, <3>2 DEF Enter
    <3> QED
      BY <1>5, <1>a, <3>1, <3>2 DEF OperationStep, CallerLeaves, GiveUpWaiting, SaveRegistry, Refuse,
         PassReads, ChildPublishes, PassFailsOrDies, OrphanFails, RestoreRegistry, Complete,
         FailToServe
  <2>4. registry' \in Registries /\ indexed' \in Registries
    BY <1>5, <1>a, <2>a DEF OperationStep, Enter, CallerLeaves, GiveUpWaiting, SaveRegistry, Refuse,
       PassReads, ChildPublishes, PassFailsOrDies, OrphanFails, RestoreRegistry, Complete,
       FailToServe
  <2> QED
    BY <1>a, <2>1, <2>3, <2>4 DEF IndexTyped
<1> QED
  BY <1>1, <1>2, <1>3, <1>4, <1>5 DEF IndexNext

-----------------------------------------------------------------------------
(* The jobs of a host: what was accepted can be polled. *)

\* The jobs of the same host that were accepted after o.
Newer(o) == {n \in Asked : n > o /\ Op(n).host = Op(o).host /\ Op(n).job}

\* The retained jobs of a host, oldest first; the active one is the latest.
OrderSound(h) ==
  LET order == jobs[h].order
  IN  /\ \A i \in 1 .. Len(order) :
           order[i] \in Asked /\ Op(order[i]).host = h /\ Op(order[i]).job
      /\ \A i, j \in 1 .. Len(order) : i < j => order[i] < order[j]
      /\ jobs[h].active # NoOperation =>
           Len(order) > 0 /\ order[Len(order)] = jobs[h].active

\* A job under way is the active one of its host; a forgotten one is over and
\* as many were accepted since as the history holds.
JobSound(o) ==
  Op(o).job =>
    /\ Op(o).phase \in Working => jobs[Op(o).host].active = o
    /\ Op(o).phase \notin {"dead", "orphan"} =>
         \/ \E i \in 1 .. Len(jobs[Op(o).host].order) : jobs[Op(o).host].order[i] = o
         \/ Op(o).phase \in Over /\ Cardinality(Newer(o)) >= JobHistory

JobsSound ==
  /\ IndexTyped
  /\ \A h \in Hosts : OrderSound(h)
  /\ \A o \in Asked : JobSound(o)

LEMMA NewerFinite ==
  ASSUME IndexTyped, NEW o \in Asked
  PROVE  IsFiniteSet(Newer(o)) /\ Cardinality(Newer(o)) \in Nat
<1>1. Len(operations) \in Nat /\ Asked = 1 .. Len(operations)
  BY DEF IndexTyped, Asked
<1>2. IsFiniteSet(1 .. Len(operations))
  BY <1>1, FS_Interval
<1>3. IsFiniteSet(Newer(o))
  BY <1>1, <1>2, FS_Subset DEF Newer
<1> QED
  BY <1>3, FS_CardinalityType

\* The operations that are there keep their place, host and kind.
Grown ==
  /\ Asked \subseteq Asked' /\ IndexTyped'
  /\ \A o \in Asked : Op(o)'.host = Op(o).host /\ Op(o)'.job = Op(o).job

LEMMA NewerGrows ==
  ASSUME IndexTyped, Grown, NEW o \in Asked
  PROVE  Cardinality(Newer(o)) <= Cardinality(Newer(o))' /\ Cardinality(Newer(o))' \in Nat
<1>1. IsFiniteSet(Newer(o))'
  <2>1. Len(operations') \in Nat /\ Asked' = 1 .. Len(operations')
    BY DEF Grown, IndexTyped, Asked
  <2>2. IsFiniteSet(1 .. Len(operations'))
    BY <2>1, FS_Interval
  <2> QED
    BY <2>1, <2>2, FS_Subset DEF Newer
<1>2. Newer(o) \subseteq Newer(o)'
  BY DEF Grown, Newer
<1>3. Cardinality(Newer(o))' \in Nat
  BY <1>1, FS_CardinalityType
<1> QED
  BY <1>1, <1>2, <1>3, FS_Subset

\* What pruneLocked forgets is followed by a whole history of newer jobs.
LEMMA ForgottenHasNewer ==
  ASSUME IndexTyped, NEW h \in Hosts, OrderSound(h),
         NEW i \in 1 .. Len(jobs[h].order), i <= Len(jobs[h].order) - JobHistory
  PROVE  Cardinality(Newer(jobs[h].order[i])) >= JobHistory
<1> DEFINE order == jobs[h].order
           o == order[i]
           f == [k \in 1 .. JobHistory |-> order[Len(order) - JobHistory + k]]
<1>1. order \in Seq(Nat) /\ JobHistory \in Nat
  BY JobHistoryAssumption DEF IndexTyped
<1>2. o \in Asked /\ Op(o).host = h
  BY DEF OrderSound
<1>3. \A k \in 1 .. JobHistory :
        Len(order) - JobHistory + k \in 1 .. Len(order) /\ i < Len(order) - JobHistory + k
  BY <1>1
<1>4. \A k \in 1 .. JobHistory : f[k] \in Newer(o)
  <2> SUFFICES ASSUME NEW k \in 1 .. JobHistory PROVE f[k] \in Newer(o)
    OBVIOUS
  <2> DEFINE j == Len(order) - JobHistory + k
  <2>1. j \in 1 .. Len(order) /\ i < j /\ f[k] = order[j]
    BY <1>3
  <2> HIDE DEF j, f
  <2>2. order[j] \in Asked /\ Op(order[j]).host = h /\ Op(order[j]).job /\ o < order[j]
    BY <2>1 DEF OrderSound
  <2> QED
    BY <1>2, <2>1, <2>2, OperationTyped DEF Newer
<1>5. f \in [1 .. JobHistory -> Newer(o)]
  BY <1>4
<1>6. \A a, b \in 1 .. JobHistory : f[a] = f[b] => a = b
  <2> SUFFICES ASSUME NEW a \in 1 .. JobHistory, NEW b \in 1 .. JobHistory, a < b
               PROVE  f[a] # f[b]
    BY <1>1
  <2> DEFINE k == Len(order) - JobHistory + a
             l == Len(order) - JobHistory + b
  <2>1. k \in 1 .. Len(order) /\ l \in 1 .. Len(order) /\ k < l
    BY <1>1, <1>3
  <2>2. f[a] = order[k] /\ f[b] = order[l]
    OBVIOUS
  <2> HIDE DEF k, l, f
  <2>3. order[k] < order[l] /\ order[k] \in Nat /\ order[l] \in Nat
    BY <1>1, <2>1, SMTT(20) DEF OrderSound
  <2> QED
    BY <2>2, <2>3
<1>7. f \in Injection(1 .. JobHistory, Newer(o))
  BY <1>5, <1>6 DEF Injection, IsInjective
<1>8. Cardinality(1 .. JobHistory) <= Cardinality(Newer(o))
  BY <1>2, <1>7, NewerFinite, FS_Injection
<1>9. Cardinality(1 .. JobHistory) = JobHistory
  BY <1>1, FS_Interval, JobHistoryAssumption
<1> QED
  BY <1>8, <1>9

LEMMA JobsSoundInit == IndexInit => JobsSound
<1> SUFFICES ASSUME IndexInit PROVE JobsSound
  OBVIOUS
<1>1. Asked = {} /\ \A h \in Hosts : jobs[h].order = <<>> /\ jobs[h].active = NoOperation
  BY DEF IndexInit, NoJobs, Asked
<1> QED
  BY <1>1, IndexTypedInit DEF JobsSound, OrderSound

\* A step that touches no job list, and ends an orphan or moves an operation on.
LEMMA JobsUntouched ==
  ASSUME JobsSound, Grown, \A h \in Hosts : /\ jobs'[h].order = jobs[h].order
                                            /\ jobs'[h].active = jobs[h].active,
         \A o \in Asked : \/ Op(o)'.phase = Op(o).phase
                          \/ Op(o).phase \in Working /\ Op(o)'.phase \in Working
                          \/ Op(o).phase = "orphan" /\ Op(o)'.phase = "dead",
         \A o \in Asked' \ Asked : ~Op(o)'.job
  PROVE  JobsSound'
<1>1. ASSUME NEW h \in Hosts PROVE OrderSound(h)'
  <2>1. OrderSound(h)
    BY DEF JobsSound
  <2> QED
    BY <2>1 DEF OrderSound, Grown
<1>2. ASSUME NEW o \in Asked', Op(o)'.job PROVE JobSound(o)'
  <2>1. /\ o \in Asked /\ Op(o)'.host = Op(o).host /\ Op(o).job /\ JobSound(o)
        /\ Op(o).host \in Hosts /\ JobHistory \in Nat /\ Cardinality(Newer(o)) \in Nat
    BY <1>2, OperationTyped, NewerFinite, JobHistoryAssumption
       DEF JobsSound, Grown, OperationRecord
  <2>2. Cardinality(Newer(o)) <= Cardinality(Newer(o))' /\ Cardinality(Newer(o))' \in Nat
    BY <2>1, NewerGrows DEF JobsSound
  <2>3. /\ jobs'[Op(o)'.host].order = jobs[Op(o).host].order
        /\ jobs'[Op(o)'.host].active = jobs[Op(o).host].active
    BY <2>1
  <2>4. \/ Op(o)'.phase = Op(o).phase
        \/ Op(o).phase \in Working /\ Op(o)'.phase \in Working
        \/ Op(o).phase = "orphan" /\ Op(o)'.phase = "dead"
    BY <2>1
  <2> QED
    BY <2>1, <2>2, <2>3, <2>4 DEF JobSound, Working, Over
<1> QED
  BY <1>1, <1>2 DEF JobsSound, JobSound, Grown

\* An operation is accepted: the newest of all, and the active one of its host.
LEMMA AcceptedSound ==
  ASSUME JobsSound, IndexTyped', NEW h \in Hosts, NEW request \in Requests, StartJob(h, request)
  PROVE  JobsSound'
<1> DEFINE old == jobs[h].order
<1>n. PICK n : n = Len(operations) + 1
  OBVIOUS
<1>a. /\ operations \in Seq(OperationRecord) /\ n \in Nat \ {0} /\ Asked = 1 .. n - 1
      /\ jobs \in [Hosts -> [order: Seq(Nat), active: Nat, closed: BOOLEAN]]
      /\ old \in Seq(Nat)
  BY <1>n DEF JobsSound, IndexTyped, Asked
<1>1. /\ operations' = Append(operations, NewOperation(h, TRUE, request))
      /\ jobs'[h].order = Append(old, n) /\ jobs'[h].active = n
      /\ \A g \in Hosts \ {h} : jobs'[g] = jobs[g]
      /\ jobs[h].active = NoOperation
  BY <1>n, <1>a DEF StartJob
<1>2. /\ Asked' = 1 .. n /\ n \notin Asked
      /\ \A o \in Asked : Op(o)' = Op(o)
      /\ Op(n)'.host = h /\ Op(n)'.job /\ Op(n)'.phase = "asked"
  <2>1. /\ NewOperation(h, TRUE, request) \in OperationRecord
        /\ NewOperation(h, TRUE, request).host = h /\ NewOperation(h, TRUE, request).job
        /\ NewOperation(h, TRUE, request).phase = "asked"
    BY NewOperationTyped
  <2>2. /\ Len(operations') = n /\ operations' \in Seq(OperationRecord)
        /\ operations'[n] = NewOperation(h, TRUE, request)
        /\ \A o \in 1 .. n - 1 : operations'[o] = operations[o]
    <3>1. PICK op \in OperationRecord : op = NewOperation(h, TRUE, request)
      BY <2>1
    <3>2. operations' = Append(operations, op)
      BY <1>1, <3>1
    <3>3. /\ Len(operations') = n /\ operations' \in Seq(OperationRecord)
          /\ operations'[n] = op
          /\ \A o \in 1 .. n - 1 : operations'[o] = operations[o]
      BY <1>n, <1>a, <3>2
    <3> QED
      BY <3>1, <3>3
  <2>3. Asked' = 1 .. n /\ n \notin Asked
    <3>1. DOMAIN operations' = 1 .. Len(operations')
      BY <2>2
    <3> QED
      BY <1>a, <2>2, <3>1 DEF Asked
  <2>4. \A o \in Asked : Op(o)' = Op(o)
    BY <1>a, <2>2 DEF Op
  <2>5. Op(n)' = NewOperation(h, TRUE, request)
    BY <2>2 DEF Op
  <2> QED
    BY <2>1, <2>3, <2>4, <2>5
<1>3. Grown
  BY <1>a, <1>2 DEF Grown
<1>4. /\ Len(jobs'[h].order) = Len(old) + 1 /\ jobs'[h].order[Len(old) + 1] = n
      /\ \A i \in 1 .. Len(old) : jobs'[h].order[i] = old[i]
      /\ Len(old) \in Nat
  BY <1>a, <1>1
<1> HIDE DEF old
<1>5. ASSUME NEW g \in Hosts PROVE OrderSound(g)'
  <2>1. OrderSound(g)
    BY DEF JobsSound
  <2>2. CASE g = h
    <3>1. \A i \in 1 .. Len(jobs'[h].order) :
            \/ i = Len(old) + 1 /\ jobs'[h].order[i] = n
            \/ i \in 1 .. Len(old) /\ jobs'[h].order[i] = old[i]
      BY <1>4
    <3>2. \A i \in 1 .. Len(old) : old[i] \in Asked /\ Op(old[i]).host = h /\ Op(old[i]).job
      BY <2>1, <2>2 DEF OrderSound, old
    <3>3. \A i, j \in 1 .. Len(old) : i < j => old[i] < old[j]
      BY <2>1, <2>2 DEF OrderSound, old
    <3>4. \A i \in 1 .. Len(jobs'[h].order) :
            /\ jobs'[h].order[i] \in Asked' /\ operations'[jobs'[h].order[i]].host = h
            /\ operations'[jobs'[h].order[i]].job
      <4> SUFFICES ASSUME NEW i \in 1 .. Len(jobs'[h].order)
                   PROVE  /\ jobs'[h].order[i] \in Asked' /\ operations'[jobs'[h].order[i]].host = h
                          /\ operations'[jobs'[h].order[i]].job
        OBVIOUS
      <4>1. CASE jobs'[h].order[i] = n
        BY <1>a, <1>2, <4>1 DEF Op
      <4>2. CASE i \in 1 .. Len(old) /\ jobs'[h].order[i] = old[i]
        <5>1. old[i] \in Asked /\ Op(old[i]).host = h /\ Op(old[i]).job
          BY <3>2, <4>2
        <5>2. operations'[old[i]] = operations[old[i]]
          BY <1>2, <5>1 DEF Op
        <5> QED
          BY <1>a, <1>2, <4>2, <5>1, <5>2 DEF Op
      <4> QED
        BY <3>1, <4>1, <4>2
    <3>5. \A i, j \in 1 .. Len(jobs'[h].order) :
            i < j => jobs'[h].order[i] < jobs'[h].order[j]
      <4> SUFFICES ASSUME NEW i \in 1 .. Len(jobs'[h].order),
                          NEW j \in 1 .. Len(jobs'[h].order), i < j
                   PROVE  jobs'[h].order[i] < jobs'[h].order[j]
        OBVIOUS
      <4>1. i \in 1 .. Len(old) /\ jobs'[h].order[i] = old[i]
        BY <1>4, <3>1
      <4>2. CASE j = Len(old) + 1 /\ jobs'[h].order[j] = n
        <5>1. old[i] \in 1 .. n - 1
          BY <1>a, <3>2, <4>1
        <5> QED
          BY <1>a, <4>1, <4>2, <5>1
      <4>3. CASE j \in 1 .. Len(old) /\ jobs'[h].order[j] = old[j]
        BY <3>3, <4>1, <4>3
      <4> QED
        BY <3>1, <4>2, <4>3
    <3> QED
      <4>1. Len(jobs'[h].order) > 0 /\ jobs'[h].order[Len(jobs'[h].order)] = jobs'[h].active
        BY <1>1, <1>4
      <4>2. OrderSound(h)'
        BY <3>4, <3>5, <4>1 DEF OrderSound, Op
      <4> QED
        BY <2>2, <4>2
  <2>3. CASE g # h
    <3>1. jobs'[g] = jobs[g]
      BY <1>1, <2>3
    <3> QED
      BY <1>a, <1>2, <2>1, <3>1 DEF OrderSound
  <2> QED
    BY <2>2, <2>3
<1>6. JobSound(n)'
  <2>1. jobs'[h].active = n /\ Len(old) + 1 \in 1 .. Len(jobs'[h].order)
    BY <1>1, <1>4
  <2> QED
    BY <1>2, <1>4, <2>1 DEF JobSound
<1>7. ASSUME NEW o \in Asked PROVE JobSound(o)'
  <2> SUFFICES ASSUME Op(o).job PROVE JobSound(o)'
    BY <1>2 DEF JobSound
  <2>1. /\ Op(o)' = Op(o) /\ Op(o).host \in Hosts /\ JobSound(o) /\ o # NoOperation
        /\ Cardinality(Newer(o)) \in Nat /\ JobHistory \in Nat
    BY <1>2, OperationTyped, NewerFinite, JobHistoryAssumption
       DEF JobsSound, OperationRecord, NoOperation
  <2>2. Cardinality(Newer(o)) <= Cardinality(Newer(o))' /\ Cardinality(Newer(o))' \in Nat
    BY <1>3, NewerGrows DEF JobsSound
  <2>3. CASE Op(o).host = h
    <3>1. Op(o).phase \notin Working
      BY <1>1, <2>1, <2>3 DEF JobSound
    <3>2. (\E i \in 1 .. Len(old) : old[i] = o) =>
            \E i \in 1 .. Len(jobs'[h].order) : jobs'[h].order[i] = o
      BY <1>4
    <3> QED
      BY <2>1, <2>2, <2>3, <3>1, <3>2 DEF JobSound, old
  <2>4. CASE Op(o).host # h
    <3>1. jobs'[Op(o).host] = jobs[Op(o).host]
      BY <1>1, <2>1, <2>4
    <3> QED
      BY <2>1, <2>2, <3>1 DEF JobSound
  <2> QED
    BY <2>3, <2>4
<1>8. \A o \in Asked' : o = n \/ o \in Asked
  BY <1>a, <1>2
<1> QED
  BY <1>5, <1>6, <1>7, <1>8 DEF JobsSound

\* The outcome of a job: it is the active one, and its list is pruned.
LEMMA OutcomeSound ==
  ASSUME JobsSound, IndexTyped', NEW o \in Asked, Op(o).phase \in Working,
         NEW outcome \in Over, outcome # "dead", Leave(o, outcome)
  PROVE  JobsSound'
<1> DEFINE h == Op(o).host
           old == jobs[h].order
           new == jobs'[h].order
<1>a. /\ operations \in Seq(OperationRecord) /\ Op(o) \in OperationRecord /\ h \in Hosts
      /\ jobs \in [Hosts -> [order: Seq(Nat), active: Nat, closed: BOOLEAN]]
      /\ old \in Seq(Nat) /\ outcome \in Phases /\ outcome \notin Working
      /\ outcome # "orphan" /\ Asked \subseteq Nat \ {0} /\ IndexTyped
      /\ Len(old) \in Nat /\ JobHistory \in Nat \ {0}
  <2>1. IndexTyped /\ Op(o) \in OperationRecord
    BY OperationTyped DEF JobsSound
  <2>2. /\ operations \in Seq(OperationRecord) /\ h \in Hosts
        /\ jobs \in [Hosts -> [order: Seq(Nat), active: Nat, closed: BOOLEAN]]
    BY <2>1 DEF IndexTyped, OperationRecord
  <2>3. old \in Seq(Nat) /\ Len(old) \in Nat /\ Asked \subseteq Nat \ {0}
    BY <2>2 DEF Asked
  <2>4. outcome \in Phases /\ outcome \notin Working /\ outcome # "orphan"
    BY DEF Phases, Over, Working
  <2> QED
    BY <2>1, <2>2, <2>3, <2>4, JobHistoryAssumption
<1>b. Became(o, Ended(Op(o), outcome))
  BY <1>a, Left
<1>1. /\ Asked' = Asked /\ Op(o)'.host = h /\ Op(o)'.job = Op(o).job /\ Op(o)'.phase = outcome
      /\ \A p \in Asked \ {o} : Op(p)' = Op(p)
  <2>1. /\ DOMAIN operations' = DOMAIN operations
        /\ operations'[o] = Ended(Op(o), outcome)
        /\ \A p \in Asked \ {o} : operations'[p] = operations[p]
    BY <1>b DEF Became
  <2>2. /\ Ended(Op(o), outcome).host = h /\ Ended(Op(o), outcome).job = Op(o).job
        /\ Ended(Op(o), outcome).phase = outcome
    BY <1>a, EndedTyped
  <2> QED
    BY <2>1, <2>2 DEF Asked, Op
<1>2. Grown
  BY <1>1 DEF Grown
<1>3. CASE ~Op(o).job
  <2>1. jobs' = jobs
    BY <1>3 DEF Leave, JobsAfter
  <2>2. ASSUME NEW g \in Hosts PROVE OrderSound(g)'
    <3>1. OrderSound(g)
      BY DEF JobsSound
    <3> QED
      BY <1>2, <2>1, <3>1 DEF OrderSound, Grown
  <2>3. ASSUME NEW p \in Asked PROVE JobSound(p)'
    <3>1. CASE p = o
      BY <1>1, <1>3, <3>1 DEF JobSound
    <3>2. CASE p # o
      <4>1. /\ Op(p)' = Op(p) /\ JobSound(p) /\ Cardinality(Newer(p)) \in Nat
            /\ Cardinality(Newer(p)) <= Cardinality(Newer(p))'
            /\ Cardinality(Newer(p))' \in Nat
        BY <1>a, <1>1, <1>2, <3>2, NewerGrows, NewerFinite DEF JobsSound
      <4> QED
        BY <1>a, <2>1, <4>1 DEF JobSound
    <3> QED
      BY <3>1, <3>2
  <2> QED
    BY <1>1, <2>2, <2>3 DEF JobsSound
<1>4. CASE Op(o).job
  <2>1. /\ jobs'[h].active = NoOperation /\ new = Pruned(old)
        /\ \A g \in Hosts \ {h} : jobs'[g] = jobs[g]
    BY <1>a, <1>4 DEF Leave, JobsAfter
  <2>2. /\ OrderSound(h) /\ jobs[h].active = o /\ Len(old) > 0 /\ old[Len(old)] = o
    <3>1. OrderSound(h) /\ JobSound(o)
      BY <1>a DEF JobsSound
    <3> QED
      BY <1>4, <1>a, <3>1 DEF JobSound, OrderSound, NoOperation
  <2>3. PICK cut \in Nat :
          /\ cut <= Len(old) /\ cut < Len(old) /\ Len(new) = Len(old) - cut
          /\ \A i \in 1 .. Len(new) : new[i] = old[cut + i]
          /\ cut > 0 => cut = Len(old) - JobHistory
    <3>1. CASE Len(old) <= JobHistory
      <4>1. new = old
        BY <1>a, <2>1, <3>1, PrunedTyped
      <4> QED
        BY <1>a, <2>2, <4>1
    <3>2. CASE Len(old) > JobHistory
      <4>1. /\ Len(new) = JobHistory
            /\ \A i \in 1 .. JobHistory : new[i] = old[Len(old) - JobHistory + i]
        BY <1>a, <2>1, <3>2, PrunedTyped
      <4>2. Len(old) - JobHistory \in Nat /\ Len(old) - JobHistory < Len(old)
        BY <1>a, <3>2
      <4> QED
        <5>1. PICK c \in Nat : c = Len(old) - JobHistory
          BY <4>2
        <5>2. \A i \in 1 .. Len(new) : new[i] = old[c + i]
          BY <4>1, <5>1
        <5>3. c <= Len(old) /\ c < Len(old) /\ Len(new) = Len(old) - c
          BY <1>a, <4>1, <4>2, <5>1
        <5> QED
          BY <5>1, <5>2, <5>3
    <3> QED
      BY <1>a, <3>1, <3>2
  <2> HIDE DEF new, old
  <2>4. \A i \in 1 .. Len(new) : cut + i \in 1 .. Len(old)
    BY <1>a, <2>3
  <2>5. ASSUME NEW g \in Hosts PROVE OrderSound(g)'
    <3>1. OrderSound(g)
      BY DEF JobsSound
    <3>2. CASE g = h
      <4>1. \A i \in 1 .. Len(old) : old[i] \in Asked /\ Op(old[i]).host = h /\ Op(old[i]).job
        BY <2>2 DEF OrderSound, old
      <4>2. \A i, j \in 1 .. Len(old) : i < j => old[i] < old[j]
        BY <2>2 DEF OrderSound, old
      <4>3. \A i \in 1 .. Len(new) : new[i] \in Asked /\ operations'[new[i]].host = h /\ operations'[new[i]].job
        <5> SUFFICES ASSUME NEW i \in 1 .. Len(new)
                     PROVE  new[i] \in Asked /\ operations'[new[i]].host = h /\ operations'[new[i]].job
          OBVIOUS
        <5>1. new[i] = old[cut + i] /\ cut + i \in 1 .. Len(old)
          BY <2>3, <2>4
        <5>2. new[i] \in Asked /\ Op(new[i]).host = h /\ Op(new[i]).job
          BY <4>1, <5>1
        <5> QED
          BY <1>1, <5>2 DEF Op
      <4>4. \A i, j \in 1 .. Len(new) : i < j => new[i] < new[j]
        BY <2>3, <2>4, <4>2
      <4> QED
        BY <1>1, <2>1, <3>2, <4>3, <4>4 DEF OrderSound, new, Op
    <3>3. CASE g # h
      <4>1. jobs'[g] = jobs[g]
        BY <2>1, <3>3
      <4> QED
        BY <1>2, <3>1, <4>1 DEF OrderSound, Grown
    <3> QED
      BY <3>2, <3>3
  <2>6. ASSUME NEW p \in Asked, Op(p).job PROVE JobSound(p)'
    <3>1. /\ JobSound(p) /\ Cardinality(Newer(p)) \in Nat /\ Op(p).host \in Hosts
          /\ Cardinality(Newer(p)) <= Cardinality(Newer(p))'
          /\ Cardinality(Newer(p))' \in Nat /\ Op(p) \in OperationRecord
      BY <1>a, <1>2, OperationTyped, NewerGrows, NewerFinite DEF JobsSound, OperationRecord
    <3>2. CASE p = o
      <4>1. Len(new) \in 1 .. Len(new) /\ new[Len(new)] = o
        BY <1>a, <2>2, <2>3
      <4> QED
        BY <1>a, <1>1, <3>2, <4>1 DEF JobSound, new
    <3>3. CASE p # o /\ Op(p).host # h
      <4>1. jobs'[Op(p).host] = jobs[Op(p).host] /\ Op(p)' = Op(p)
        BY <1>1, <2>1, <3>1, <3>3
      <4> QED
        BY <1>a, <3>1, <4>1 DEF JobSound
    <3>4. CASE p # o /\ Op(p).host = h
      <4>1. Op(p)' = Op(p) /\ Op(p).phase \notin Working
        BY <1>1, <2>2, <2>6, <3>1, <3>4 DEF JobSound
      <4>2. ASSUME NEW i \in 1 .. Len(old), old[i] = p, Op(p).phase \notin {"dead", "orphan"}
            PROVE  \/ \E k \in 1 .. Len(new) : new[k] = p
                   \/ Op(p).phase \in Over /\ Cardinality(Newer(p)) >= JobHistory
        <5>1. CASE i > cut
          <6>1. i - cut \in 1 .. Len(new) /\ new[i - cut] = old[i]
            BY <1>a, <2>3, <5>1
          <6> QED
            BY <4>2, <6>1
        <5>2. CASE i <= cut
          <6>1. i <= Len(old) - JobHistory
            BY <1>a, <2>3, <5>2
          <6>2. Cardinality(Newer(p)) >= JobHistory
            BY <1>a, <2>2, <4>2, <6>1, ForgottenHasNewer DEF old
          <6>3. Op(p).phase \in Over
            BY <3>1, <4>1, <4>2 DEF OperationRecord, Phases
          <6> QED
            BY <6>2, <6>3
        <5> QED
          BY <1>a, <2>3, <5>1, <5>2
      <4>3. Op(p).phase \notin {"dead", "orphan"} =>
              \/ \E k \in 1 .. Len(new) : new[k] = p
              \/ Op(p).phase \in Over /\ Cardinality(Newer(p)) >= JobHistory
        <5>1. Op(p).phase \notin {"dead", "orphan"} =>
                \/ \E i \in 1 .. Len(old) : old[i] = p
                \/ Op(p).phase \in Over /\ Cardinality(Newer(p)) >= JobHistory
          BY <2>6, <3>1, <3>4 DEF JobSound, old
        <5> QED
          BY <4>2, <5>1
      <4>4. Cardinality(Newer(p)) >= JobHistory => Cardinality(Newer(p))' >= JobHistory
        BY <1>a, <3>1
      <4>5. Op(p)'.host = h /\ Op(p)'.phase = Op(p).phase
        BY <3>4, <4>1
      <4> QED
        BY <4>1, <4>3, <4>4, <4>5 DEF JobSound, new
    <3> QED
      BY <3>2, <3>3, <3>4
  <2>7. \A p \in Asked : JobSound(p)'
    BY <1>1, <2>6 DEF JobSound
  <2> QED
    BY <1>1, <2>5, <2>7 DEF JobsSound
<1> QED
  BY <1>3, <1>4

\* A host that dies forgets its jobs; those of the others are as they were.
LEMMA DeathSound ==
  ASSUME JobsSound, IndexTyped', NEW h \in Hosts, HostDies(h)
  PROVE  JobsSound'
<1>a. /\ IndexTyped /\ Asked' = Asked
      /\ jobs \in [Hosts -> [order: Seq(Nat), active: Nat, closed: BOOLEAN]]
  BY DEF JobsSound, IndexTyped, Asked, HostDies
<1>1. \A o \in Asked : /\ Op(o) \in OperationRecord
                       /\ Op(o).host # h => Op(o)' = Op(o)
                       /\ Op(o).host = h => Op(o)'.phase \in {"dead", "orphan"}
                       /\ Op(o)'.host = Op(o).host /\ Op(o)'.job = Op(o).job
  <2> SUFFICES ASSUME NEW o \in Asked
               PROVE  /\ Op(o) \in OperationRecord
                      /\ Op(o).host # h => Op(o)' = Op(o)
                      /\ Op(o).host = h => Op(o)'.phase \in {"dead", "orphan"}
                      /\ Op(o)'.host = Op(o).host /\ Op(o)'.job = Op(o).job
    OBVIOUS
  <2>1. Op(o) \in OperationRecord
    BY <1>a, OperationTyped
  <2> DEFINE dead == Ended(Op(o), "dead")
             orphan == Ended(Op(o), "orphan")
             child == [orphan EXCEPT !.read = Op(o).read]
  <2>2. /\ dead \in OperationRecord /\ dead.host = Op(o).host /\ dead.job = Op(o).job
        /\ dead.phase = "dead"
        /\ orphan \in OperationRecord /\ orphan.host = Op(o).host /\ orphan.job = Op(o).job
        /\ orphan.phase = "orphan"
    BY <2>1, EndedTyped DEF Phases, Over
  <2>3. Op(o)' = IF Op(o).host # h THEN Op(o)
                 ELSE IF Op(o).phase \in {"passing", "orphan"} THEN child ELSE dead
    BY DEF HostDies, Op
  <2> HIDE DEF dead, orphan
  <2>4. child.host = Op(o).host /\ child.job = Op(o).job /\ child.phase = "orphan"
    BY <2>2 DEF OperationRecord
  <2> HIDE DEF child
  <2> QED
    BY <2>1, <2>2, <2>3, <2>4
<1>2. /\ jobs'[h] = NoJobs /\ \A g \in Hosts \ {h} : jobs'[g] = jobs[g]
  BY <1>a DEF HostDies
<1>3. Grown
  BY <1>a, <1>1 DEF Grown
<1>4. ASSUME NEW g \in Hosts PROVE OrderSound(g)'
  <2>1. CASE g = h
    <3>1. jobs'[g].order = <<>> /\ jobs'[g].active = NoOperation
      BY <1>2, <2>1 DEF NoJobs
    <3> QED
      BY <3>1 DEF OrderSound, NoOperation
  <2>2. CASE g # h
    <3>1. jobs'[g] = jobs[g] /\ OrderSound(g)
      BY <1>2, <2>2 DEF JobsSound
    <3> QED
      BY <1>3, <3>1 DEF OrderSound, Grown
  <2> QED
    BY <2>1, <2>2
<1>5. ASSUME NEW o \in Asked PROVE JobSound(o)'
  <2>1. CASE Op(o).host = h
    BY <1>1, <2>1 DEF JobSound, Working
  <2>2. CASE Op(o).host # h
    <3>1. /\ Op(o)' = Op(o) /\ JobSound(o) /\ Cardinality(Newer(o)) \in Nat
          /\ Cardinality(Newer(o)) <= Cardinality(Newer(o))'
          /\ Cardinality(Newer(o))' \in Nat /\ JobHistory \in Nat
      BY <1>a, <1>1, <1>3, <2>2, NewerGrows, NewerFinite, JobHistoryAssumption DEF JobsSound
    <3>2. jobs'[Op(o).host] = jobs[Op(o).host]
      BY <1>1, <1>2, <2>2 DEF OperationRecord
    <3> QED
      BY <3>1, <3>2 DEF JobSound
  <2> QED
    BY <2>1, <2>2
<1> QED
  BY <1>a, <1>4, <1>5 DEF JobsSound

LEMMA JobsSoundStep == JobsSound /\ [IndexNext]_indexVars => JobsSound'
<1> SUFFICES ASSUME JobsSound, [IndexNext]_indexVars PROVE JobsSound'
  OBVIOUS
<1>a. IndexTyped /\ IndexTyped'
  BY IndexTypedStep DEF JobsSound
<1>1. CASE UNCHANGED indexVars
  <2>1. Grown
    BY <1>1, <1>a DEF Grown, indexVars, Asked, Op
  <2> QED
    BY <1>1, <2>1, JobsUntouched DEF indexVars, Asked, Op
<1>2. ASSUME NEW h \in Hosts, NEW request \in Requests, CallIndex(h, request) PROVE JobsSound'
  <2>1. PICK op \in OperationRecord : op = NewOperation(h, FALSE, request) /\ ~op.job
    BY NewOperationTyped
  <2>2. /\ operations' = Append(operations, op) /\ operations \in Seq(OperationRecord)
        /\ jobs' = jobs
    BY <1>2, <1>a, <2>1 DEF CallIndex, IndexTyped
  <2>3. /\ Len(operations) \in Nat /\ Asked = 1 .. Len(operations)
        /\ Asked' = 1 .. Len(operations) + 1
        /\ operations'[Len(operations) + 1] = op
        /\ \A o \in Asked : operations'[o] = operations[o]
    BY <2>2 DEF Asked
  <2>4. Grown
    BY <1>a, <2>3 DEF Grown, Op
  <2>5. \A o \in Asked' \ Asked : ~Op(o)'.job
    <3>1. \A o \in Asked' \ Asked : o = Len(operations) + 1
      BY <2>3
    <3> QED
      BY <2>1, <2>3, <3>1 DEF Op
  <2> QED
    BY <2>2, <2>3, <2>4, <2>5, JobsUntouched DEF Op
<1>3. ASSUME NEW h \in Hosts, CloseJobs(h) PROVE JobsSound'
  <2>1. operations' = operations
    BY <1>3 DEF CloseJobs
  <2>2. Grown
    BY <1>a, <2>1 DEF Grown, Asked, Op
  <2>3. \A g \in Hosts : jobs'[g].order = jobs[g].order /\ jobs'[g].active = jobs[g].active
    <3>1. jobs \in [Hosts -> [order: Seq(Nat), active: Nat, closed: BOOLEAN]]
      BY <1>a DEF IndexTyped
    <3> QED
      BY <1>3, <3>1 DEF CloseJobs
  <2> QED
    BY <2>1, <2>2, <2>3, JobsUntouched DEF Asked, Op
<1>4. ASSUME NEW o \in Asked, OperationStep(o) \/ Enter(o) \/ CallerLeaves(o) PROVE JobsSound'
  <2>1. PICK new \in OperationRecord :
          /\ Became(o, new) /\ new.host = Op(o).host /\ new.job = Op(o).job
    BY <1>4, <1>a, StepOfOne
  <2>2. /\ Asked' = Asked /\ operations'[o] = new
        /\ \A p \in Asked \ {o} : operations'[p] = operations[p]
    BY <2>1 DEF Became, Asked
  <2>3. Grown
    BY <1>a, <2>1, <2>2 DEF Grown, Op
  <2>4. ASSUME jobs' = jobs,
               \/ Op(o)'.phase = Op(o).phase
               \/ Op(o).phase \in Working /\ Op(o)'.phase \in Working
               \/ Op(o).phase = "orphan" /\ Op(o)'.phase = "dead"
        PROVE  JobsSound'
    BY <2>2, <2>3, <2>4, JobsUntouched DEF Op
  <2>5. CASE GiveUpWaiting(o) \/ Refuse(o) \/ RestoreRegistry(o) \/ Complete(o) \/ FailToServe(o)
    <3>1. \E outcome \in Over : outcome # "dead" /\ Leave(o, outcome)
      BY <2>5 DEF GiveUpWaiting, Refuse, RestoreRegistry, Complete, FailToServe, Over
    <3>2. Op(o).phase \in Working
      BY <2>5 DEF GiveUpWaiting, Refuse, RestoreRegistry, Complete, FailToServe, Working
    <3> QED
      BY <1>a, <3>1, <3>2, OutcomeSound
  <2>a. Op(o) \in OperationRecord /\ operations[o] = Op(o) /\ operations'[o] = Op(o)'
        /\ operations \in Seq(OperationRecord) /\ o \in DOMAIN operations
    BY <1>a, OperationTyped DEF Op, IndexTyped, Asked
  <2>6. CASE Enter(o)
    <3>1. Op(o).phase = "asked" /\ Op(o)'.phase = "loaded" /\ jobs' = jobs
      BY <2>a, <2>6 DEF Enter, OperationRecord
    <3> QED
      BY <2>4, <3>1 DEF Working
  <2>7. CASE CallerLeaves(o)
    <3>1. Op(o)'.phase = Op(o).phase /\ jobs' = jobs
      BY <2>a, <2>7 DEF CallerLeaves, OperationRecord
    <3> QED
      BY <2>4, <3>1
  <2>8. CASE SaveRegistry(o)
    <3>1. Op(o).phase = "loaded" /\ Op(o)'.phase = "saved" /\ jobs' = jobs
      BY <2>a, <2>8 DEF SaveRegistry, OperationRecord
    <3> QED
      BY <2>4, <3>1 DEF Working
  <2>9. CASE PassReads(o)
    <3>1. Op(o).phase = "saved" /\ Op(o)'.phase = "passing" /\ jobs' = jobs
      BY <2>a, <2>9 DEF PassReads, OperationRecord
    <3> QED
      BY <2>4, <3>1 DEF Working
  <2>10. CASE ChildPublishes(o)
    <3>1. CASE Op(o).phase = "passing"
      <4>1. Op(o)'.phase = "published" /\ jobs' = jobs
        BY <2>a, <2>10, <3>1 DEF ChildPublishes, Goes, OperationRecord
      <4> QED
        BY <2>4, <3>1, <4>1 DEF Working
    <3>2. CASE Op(o).phase = "orphan"
      <4>1. Op(o)' = Ended(Op(o), "dead") /\ jobs' = jobs
        BY <2>a, <2>10, <3>2 DEF ChildPublishes
      <4>2. Op(o)'.phase = "dead"
        <5>1. "dead" \in Phases
          BY DEF Phases, Over
        <5>2. Ended(Op(o), "dead").phase = "dead"
          BY <2>a, <5>1, EndedTyped
        <5> QED
          BY <4>1, <5>2
      <4> QED
        BY <2>4, <3>2, <4>1, <4>2
    <3> QED
      BY <2>10, <3>1, <3>2 DEF ChildPublishes
  <2>11. CASE PassFailsOrDies(o)
    <3>1. Op(o).phase \in Working /\ Op(o)'.phase = "restoring" /\ jobs' = jobs
      BY <2>a, <2>11 DEF PassFailsOrDies, Goes, OperationRecord, Working
    <3> QED
      BY <2>4, <3>1 DEF Working
  <2>12. CASE OrphanFails(o)
    <3>1. Op(o).phase = "orphan" /\ Op(o)' = Ended(Op(o), "dead") /\ jobs' = jobs
      BY <2>a, <2>12 DEF OrphanFails
    <3>2. Op(o)'.phase = "dead"
      <4>1. "dead" \in Phases
        BY DEF Phases, Over
      <4>2. Ended(Op(o), "dead").phase = "dead"
        BY <2>a, <4>1, EndedTyped
      <4> QED
        BY <3>1, <4>2
    <3> QED
      BY <2>4, <3>1, <3>2
  <2> QED
    BY <1>4, <2>5, <2>6, <2>7, <2>8, <2>9, <2>10, <2>11, <2>12 DEF OperationStep
<1> QED
  BY <1>a, <1>1, <1>2, <1>3, <1>4, AcceptedSound, DeathSound DEF IndexNext

\* An operation that was accepted can be polled until a whole history of newer
\* ones of its host was accepted and it is over, whatever hosts, jobs, calls,
\* failures, cancellations and deaths there are (ADR 0114, pruneLocked).
THEOREM AcceptedStaysPollable == IndexingSpec => []AcceptedIsPollable
<1>1. JobsSound => AcceptedIsPollable
  <2> SUFFICES ASSUME JobsSound, NEW o \in Asked, Op(o).job, Op(o).phase \notin {"dead", "orphan"}
               PROVE  \/ o \in ToSet(jobs[Op(o).host].order)
                      \/ Cardinality(Newer(o)) >= JobHistory /\ Op(o).phase \in Over
    BY DEF AcceptedIsPollable, Newer
  <2>1. \/ \E i \in 1 .. Len(jobs[Op(o).host].order) : jobs[Op(o).host].order[i] = o
        \/ Op(o).phase \in Over /\ Cardinality(Newer(o)) >= JobHistory
    BY DEF JobsSound, JobSound
  <2>2. jobs[Op(o).host].order \in Seq(Nat)
    BY OperationTyped DEF JobsSound, IndexTyped, OperationRecord
  <2> QED
    BY <2>1, <2>2 DEF ToSet
<1> QED
  BY <1>1, JobsSoundInit, JobsSoundStep, PTL DEF IndexingSpec

-----------------------------------------------------------------------------
(* The types of the operations and of what their hosts hold. *)

\* A host retains the history and the job at work; what is at work, or inside
\* the gate, was asked for.
Holds(h) ==
  /\ jobs[h].active \in Asked \cup {NoOperation}
  /\ gate[h] \in Asked \cup {NoOperation}
  /\ Len(jobs[h].order) <= JobHistory + 1
  /\ jobs[h].active = NoOperation => Len(jobs[h].order) <= JobHistory

JobsBounded ==
  /\ indexSetting \in IndexSettings
  /\ \A o \in Asked : o <= indexSetting.asked
  /\ \A h \in Hosts : Holds(h)

LEMMA JobsBoundedStep == IndexTyped /\ JobsBounded /\ [IndexNext]_indexVars => JobsBounded'
<1> SUFFICES ASSUME IndexTyped, JobsBounded, [IndexNext]_indexVars PROVE JobsBounded'
  OBVIOUS
<1>a. /\ operations \in Seq(OperationRecord) /\ Len(operations) \in Nat
      /\ Asked = 1 .. Len(operations)
      /\ jobs \in [Hosts -> [order: Seq(Nat), active: Nat, closed: BOOLEAN]]
      /\ gate \in [Hosts -> Nat] /\ JobHistory \in Nat \ {0}
      /\ indexSetting.asked \in Nat
  BY IndexSettingsAssumption, JobHistoryAssumption DEF IndexTyped, Asked, IndexSetting
<1>b. /\ indexSetting \in IndexSettings /\ \A o \in Asked : o <= indexSetting.asked
      /\ \A h \in Hosts : Holds(h)
  BY DEF JobsBounded
<1>c. \A h \in Hosts : jobs[h].order \in Seq(Nat) /\ Len(jobs[h].order) \in Nat
  BY <1>a
<1>1. CASE UNCHANGED indexVars
  BY <1>1 DEF indexVars, JobsBounded, Holds, Asked
<1>2. ASSUME NEW h \in Hosts, NEW request \in Requests, StartJob(h, request) PROVE JobsBounded'
  <2> DEFINE n == Len(operations) + 1
             longer == Append(jobs[h].order, n)
             new == [jobs[h] EXCEPT !.order = longer, !.active = n]
  <2>1. /\ UNCHANGED <<indexSetting, gate>> /\ n \in Nat /\ n <= indexSetting.asked
        /\ Asked' = 1 .. n /\ jobs[h].active = NoOperation
    <3>1. UNCHANGED <<indexSetting, gate>> /\ Len(operations) < indexSetting.asked
          /\ jobs[h].active = NoOperation
      BY <1>2 DEF StartJob
    <3>2. Asked' = 1 .. n
      BY <1>2, <1>a DEF StartJob, Asked
    <3> QED
      BY <1>a, <3>1, <3>2
  <2>2. jobs' = [jobs EXCEPT ![h] = new]
    BY <1>2 DEF StartJob
  <2>3. Len(longer) = Len(jobs[h].order) + 1
    BY <1>c, <2>1
  <2>4. new.order = longer /\ new.active = n
    BY <1>a
  <2> HIDE DEF new, longer
  <2>5. ASSUME NEW g \in Hosts PROVE Holds(g)'
    <3>1. Holds(g) /\ Holds(h)
      BY <1>b
    <3>2. gate'[g] \in Asked' \cup {NoOperation}
      BY <1>a, <2>1, <3>1 DEF Holds
    <3>3. CASE g = h
      <4>1. jobs'[g].order = longer /\ jobs'[g].active = n
        BY <1>a, <2>2, <2>4, <3>3
      <4>2. Len(longer) <= JobHistory + 1
        BY <1>a, <1>c, <2>1, <2>3, <3>1 DEF Holds
      <4>3. n # NoOperation /\ n \in Asked'
        BY <1>a, <2>1 DEF NoOperation
      <4> QED
        BY <3>2, <4>1, <4>2, <4>3 DEF Holds
    <3>4. CASE g # h
      <4>1. jobs'[g] = jobs[g]
        BY <1>a, <2>2, <3>4
      <4> QED
        BY <1>a, <2>1, <3>1, <3>2, <4>1 DEF Holds
    <3> QED
      BY <3>3, <3>4
  <2> QED
    BY <1>a, <1>b, <2>1, <2>5 DEF JobsBounded
<1>3. ASSUME NEW h \in Hosts, NEW request \in Requests, CallIndex(h, request) PROVE JobsBounded'
  <2>1. UNCHANGED <<indexSetting, gate, jobs>> /\ Len(operations) < indexSetting.asked
    BY <1>3 DEF CallIndex
  <2>2. Asked' = 1 .. Len(operations) + 1
    BY <1>3, <1>a DEF CallIndex, Asked
  <2>3. Asked \subseteq Asked' /\ \A o \in Asked' : o <= indexSetting.asked
    BY <1>a, <2>1, <2>2
  <2> QED
    BY <1>b, <2>1, <2>3 DEF JobsBounded, Holds
<1>4. ASSUME NEW h \in Hosts, CloseJobs(h) PROVE JobsBounded'
  <2>1. UNCHANGED <<indexSetting, gate, operations>>
        /\ \A g \in Hosts : jobs'[g].order = jobs[g].order /\ jobs'[g].active = jobs[g].active
    BY <1>4, <1>a DEF CloseJobs
  <2> QED
    BY <1>b, <2>1 DEF JobsBounded, Holds, Asked
<1>5. ASSUME NEW h \in Hosts, HostDies(h) PROVE JobsBounded'
  <2>1. UNCHANGED indexSetting /\ Asked' = Asked
    BY <1>5 DEF HostDies, Asked
  <2>2. /\ jobs'[h] = NoJobs /\ gate'[h] = NoOperation
        /\ \A g \in Hosts \ {h} : jobs'[g] = jobs[g] /\ gate'[g] = gate[g]
    BY <1>5, <1>a DEF HostDies
  <2>3. NoJobs.active = NoOperation /\ NoJobs.order = <<>> /\ Len(<<>>) = 0
    BY DEF NoJobs
  <2>4. Holds(h)'
    <3>1. jobs'[h].active = NoOperation /\ Len(jobs'[h].order) = 0
      BY <2>2, <2>3
    <3> QED
      BY <1>a, <2>2, <3>1 DEF Holds
  <2> QED
    BY <1>b, <2>1, <2>2, <2>4 DEF JobsBounded, Holds
<1>6. ASSUME NEW o \in Asked, OperationStep(o) \/ Enter(o) \/ CallerLeaves(o) PROVE JobsBounded'
  <2>1. Asked' = Asked
    BY <1>6, StepOfOne DEF Became, Asked
  <2>2. UNCHANGED indexSetting /\ jobs' \in {jobs, JobsAfter(o)}
        /\ \A g \in Hosts : gate'[g] \in {gate[g], o, NoOperation}
    <3>1. ASSUME NEW outcome, Leave(o, outcome)
          PROVE  jobs' = JobsAfter(o) /\ \A g \in Hosts : gate'[g] \in {gate[g], NoOperation}
      BY <1>a, <3>1 DEF Leave
    <3>2. CASE Enter(o)
      BY <1>a, <3>2 DEF Enter
    <3> QED
      BY <1>6, <3>1, <3>2 DEF OperationStep, CallerLeaves, GiveUpWaiting, SaveRegistry, Refuse,
         PassReads, ChildPublishes, PassFailsOrDies, OrphanFails, RestoreRegistry, Complete,
         FailToServe
  <2>3. ASSUME NEW g \in Hosts
        PROVE  \/ jobs'[g] = jobs[g]
               \/ jobs'[g].active = NoOperation /\ Len(jobs'[g].order) <= JobHistory
    <3>1. CASE jobs' = [jobs EXCEPT ![g].active = NoOperation, ![g].order = Pruned(@)]
      <4>1. jobs'[g].active = NoOperation /\ jobs'[g].order = Pruned(jobs[g].order)
        BY <1>a, <3>1
      <4>2. \/ Pruned(jobs[g].order) = jobs[g].order /\ Len(jobs[g].order) <= JobHistory
            \/ Len(Pruned(jobs[g].order)) = JobHistory
        BY <1>a, <1>c, PrunedTyped
      <4> QED
        BY <1>a, <4>1, <4>2
    <3>2. CASE jobs' = JobsAfter(o) /\ Op(o).host # g
      BY <1>a, <3>2 DEF JobsAfter
    <3> QED
      BY <2>2, <3>1, <3>2 DEF JobsAfter
  <2>4. ASSUME NEW g \in Hosts PROVE Holds(g)'
    <3>1. Holds(g) /\ gate'[g] \in {gate[g], o, NoOperation}
      BY <1>b, <2>2
    <3>2. gate'[g] \in Asked \cup {NoOperation}
      BY <3>1 DEF Holds
    <3>3. CASE jobs'[g] = jobs[g]
      BY <2>1, <3>1, <3>2, <3>3 DEF Holds
    <3>4. CASE jobs'[g].active = NoOperation /\ Len(jobs'[g].order) <= JobHistory
      <4>1. Len(jobs'[g].order) <= JobHistory + 1
        <5>1. jobs' \in [Hosts -> [order: Seq(Nat), active: Nat, closed: BOOLEAN]]
          BY IndexTypedStep DEF IndexTyped
        <5>2. Len(jobs'[g].order) \in Nat
          BY <5>1
        <5> QED
          BY <1>a, <3>4, <5>2
      <4> QED
        BY <2>1, <3>2, <3>4, <4>1 DEF Holds
    <3> QED
      BY <2>3, <3>3, <3>4
  <2> QED
    BY <1>b, <2>1, <2>2, <2>4 DEF JobsBounded
<1> QED
  BY <1>1, <1>2, <1>3, <1>4, <1>5, <1>6 DEF IndexNext

(***************************************************************************)
(* Every reachable state of the index operations is well typed: a host     *)
(* retains no more than its history and the job at work, and its list, its *)
(* active job and its gate name operations that were asked for             *)
(* (index_jobs.go, profile_indexer.go).                                    *)
(***************************************************************************)
THEOREM JobsTyped == IndexingSpec => []JobTypeOK
<1>1. IndexInit => JobsBounded
  <2> SUFFICES ASSUME IndexInit PROVE JobsBounded
    OBVIOUS
  <2>1. Asked = {} /\ indexSetting \in IndexSettings
    BY DEF IndexInit, Asked
  <2>2. ASSUME NEW h \in Hosts PROVE Holds(h)
    <3>1. jobs[h] = NoJobs /\ gate[h] = NoOperation
      BY DEF IndexInit
    <3>2. NoJobs.active = NoOperation /\ NoJobs.order = <<>> /\ Len(<<>>) = 0
      BY DEF NoJobs
    <3> QED
      BY <3>1, <3>2, JobHistoryAssumption DEF Holds
  <2> QED
    BY <2>1, <2>2 DEF JobsBounded
<1>2. JobsSound /\ JobsBounded => JobTypeOK
  <2> SUFFICES ASSUME JobsSound, JobsBounded PROVE JobTypeOK
    OBVIOUS
  <2>1. /\ IndexTyped /\ registry \in Registries /\ indexed \in Registries
        /\ indexSetting \in IndexSettings
    BY DEF JobsSound, JobsBounded, IndexTyped
  <2>2. Asked \subseteq Operations
    <3>1. Asked \subseteq Nat \ {0} /\ indexSetting.asked \in 0 .. MaxOperations
      BY <2>1, OperationTyped DEF IndexTyped, IndexSetting
    <3> QED
      BY <3>1, MaxOperationsAssumption DEF JobsBounded, Operations
  <2>3. ASSUME NEW o \in Asked
        PROVE  Op(o) \in
          [host: Hosts, job: BOOLEAN, request: Requests,
           phase: {"asked", "loaded", "saved", "passing", "published", "restoring",
                   "orphan"} \cup Over,
           cancelled: BOOLEAN, original: Registries, read: Registries, changed: BOOLEAN]
    <3>1. Phases = {"asked", "loaded", "saved", "passing", "published", "restoring",
                    "orphan"} \cup Over
      BY DEF Phases, Working
    <3> QED
      BY <2>1, <3>1, OperationTyped DEF OperationRecord
  <2>4. ASSUME NEW h \in Hosts
        PROVE  /\ ToSet(jobs[h].order) \subseteq Asked /\ Len(jobs[h].order) <= JobHistory + 1
               /\ jobs[h].active \in Operations \cup {NoOperation} /\ jobs[h].closed \in BOOLEAN
               /\ gate[h] \in Operations \cup {NoOperation}
    <3>1. /\ jobs[h].closed \in BOOLEAN /\ jobs[h].order \in Seq(Nat)
          /\ OrderSound(h) /\ Holds(h)
      BY <2>1 DEF IndexTyped, JobsSound, JobsBounded
    <3>2. ToSet(jobs[h].order) \subseteq Asked
      BY <3>1 DEF OrderSound, ToSet
    <3> QED
      BY <2>2, <3>1, <3>2 DEF Holds
  <2> QED
    BY <2>1, <2>2, <2>3, <2>4 DEF JobTypeOK
<1>3. JobsSound => IndexTyped
  BY DEF JobsSound
<1> QED
  BY <1>1, <1>2, <1>3, JobsSoundInit, JobsSoundStep, JobsBoundedStep, PTL DEF IndexingSpec

-----------------------------------------------------------------------------
(* The registry and the graph, in a process that has the file to itself. *)

Inside == {"loaded", "saved", "passing", "published", "restoring"}

\* One process, which does not die.
Sole ==
  /\ ~indexSetting.deaths
  /\ \A g, h \in indexSetting.hosts : g = h

\* What the operation inside the gate has done to the file so far.
InsideSound(o) ==
  /\ gate[Op(o).host] = o
  /\ registry = IF Op(o).phase = "loaded" THEN Op(o).original ELSE Candidate(o)
  /\ Op(o).phase # "loaded" => (Op(o).changed <=> Candidate(o) # Op(o).original)
  /\ Op(o).phase \in {"passing", "published"} => Op(o).read = registry
  /\ ~indexSetting.cancels =>
       indexed = IF Op(o).phase = "published" THEN registry ELSE Op(o).original

\* What completed is registered, and in the copy the one inside would restore.
CompletedKept(o) ==
  \A p \in DOMAIN Op(o).request :
    /\ registry[p] # Unregistered
    /\ \A i \in Asked : Op(i).phase \in Inside => Op(i).original[p] # Unregistered

GateSound(h) ==
  gate[h] # NoOperation => /\ gate[h] \in Asked
                           /\ Op(gate[h]).phase \in Inside /\ Op(gate[h]).host = h

SoleSound ==
  /\ \A o \in Asked : Op(o).host \in indexSetting.hosts /\ Op(o).phase # "orphan"
  /\ \A h \in Hosts : GateSound(h)
  /\ ~indexSetting.cancels => /\ \A h \in Hosts : ~jobs[h].closed
                              /\ \A o \in Asked : ~Op(o).cancelled
  /\ \A o \in Asked : Op(o).phase \in Inside => InsideSound(o)
  /\ ~indexSetting.cancels /\ (\A h \in Hosts : gate[h] = NoOperation) => indexed = registry
  /\ \A o \in Asked : Op(o).phase = "completed" => CompletedKept(o)

RegistrySound == IndexTyped /\ (Sole => SoleSound)

\* At most one operation is inside, and it is the one the gate names.
LEMMA OneInside ==
  ASSUME IndexTyped, Sole, SoleSound, NEW o \in Asked
  PROVE  /\ Op(o).host \in Hosts
         /\ \A i \in Asked : Op(i).host = Op(o).host
         /\ \A i \in Asked : Op(i).phase \in Inside => i = gate[Op(o).host]
         /\ \A g \in Hosts : gate[g] # NoOperation => g = Op(o).host
         /\ ~indexSetting.cancels => ~Cancelled(o)
<1>1. Op(o).host \in Hosts /\ Op(o) \in OperationRecord
  BY OperationTyped DEF OperationRecord
<1>2. \A i \in Asked : Op(i).host = Op(o).host
  BY DEF Sole, SoleSound
<1>3. \A i \in Asked : Op(i).phase \in Inside => i = gate[Op(o).host]
  BY <1>2 DEF SoleSound, InsideSound
<1>4. \A g \in Hosts : gate[g] # NoOperation => g = Op(o).host
  BY <1>2 DEF SoleSound, GateSound
<1>5. ~indexSetting.cancels => ~Cancelled(o)
  BY <1>1 DEF SoleSound, Cancelled
<1> QED
  BY <1>1, <1>2, <1>3, <1>4, <1>5

LEMMA RegistrySoundInit == IndexInit => RegistrySound
<1> SUFFICES ASSUME IndexInit PROVE IndexTyped /\ SoleSound
  BY DEF RegistrySound
<1>1. /\ Asked = {} /\ registry = indexed
      /\ \A h \in Hosts : jobs[h].closed = FALSE /\ gate[h] = NoOperation
  BY DEF IndexInit, NoJobs, Asked
<1> QED
  BY <1>1, IndexTypedInit DEF SoleSound, GateSound

\* A step that leaves the registry, the graph, the gates and what the operation
\* inside knows alone.
LEMMA QuietSound ==
  ASSUME IndexTyped, Sole, SoleSound, UNCHANGED <<indexSetting, registry, indexed, gate>>,
         Asked \subseteq Asked',
         \A o \in Asked' : Op(o)'.host \in indexSetting.hosts /\ Op(o)'.phase # "orphan",
         \A o \in Asked' \ Asked : Op(o)'.phase \notin Inside \cup {"completed"},
         \A o \in Asked :
           \/ /\ Op(o)'.host = Op(o).host /\ Op(o)'.request = Op(o).request
              /\ Op(o)'.phase = Op(o).phase /\ Op(o)'.original = Op(o).original
              /\ Op(o)'.read = Op(o).read /\ Op(o)'.changed = Op(o).changed
           \/ /\ Op(o)'.phase \notin Inside \cup {"completed"} /\ Op(o).phase \notin Inside,
         ~indexSetting.cancels => /\ \A h \in Hosts : ~jobs'[h].closed
                                  /\ \A o \in Asked' : ~Op(o)'.cancelled
  PROVE  SoleSound'
<1>1. ASSUME NEW o \in Asked', Op(o)'.phase \in Inside \cup {"completed"}
      PROVE  /\ o \in Asked /\ Op(o)'.host = Op(o).host /\ Op(o)'.request = Op(o).request
             /\ Op(o)'.phase = Op(o).phase /\ Op(o)'.original = Op(o).original
             /\ Op(o)'.read = Op(o).read /\ Op(o)'.changed = Op(o).changed
             /\ Candidate(o)' = Candidate(o)
  <2>1. /\ o \in Asked /\ Op(o)'.host = Op(o).host /\ Op(o)'.request = Op(o).request
        /\ Op(o)'.phase = Op(o).phase /\ Op(o)'.original = Op(o).original
        /\ Op(o)'.read = Op(o).read /\ Op(o)'.changed = Op(o).changed
    BY <1>1
  <2> QED
    BY <2>1 DEF Candidate
<1>2. ASSUME NEW h \in Hosts PROVE GateSound(h)'
  <2> SUFFICES ASSUME gate[h] # NoOperation
               PROVE  /\ gate[h] \in Asked' /\ operations'[gate[h]].phase \in Inside
                      /\ operations'[gate[h]].host = h
    BY DEF GateSound, Op, NoOperation
  <2>1. gate[h] \in Asked /\ Op(gate[h]).phase \in Inside /\ Op(gate[h]).host = h
    BY DEF SoleSound, GateSound
  <2>2. PICK i \in Asked : i = gate[h]
    BY <2>1
  <2>3. Op(i)'.host = Op(i).host /\ Op(i)'.phase = Op(i).phase
    BY <2>1, <2>2
  <2> QED
    BY <2>1, <2>2, <2>3 DEF Op
<1>3. ASSUME NEW o \in Asked', Op(o)'.phase \in Inside PROVE InsideSound(o)'
  <2>1. InsideSound(o)
    BY <1>1, <1>3 DEF SoleSound
  <2> QED
    BY <1>1, <1>3, <2>1 DEF InsideSound
<1>4. ASSUME NEW o \in Asked', Op(o)'.phase = "completed" PROVE CompletedKept(o)'
  <2>1. CompletedKept(o)
    BY <1>1, <1>4 DEF SoleSound
  <2>2. ASSUME NEW p \in DOMAIN Op(o)'.request
        PROVE  /\ registry'[p] # Unregistered
               /\ \A i \in Asked' : Op(i)'.phase \in Inside => Op(i)'.original[p] # Unregistered
    <3>1. p \in DOMAIN Op(o).request
      BY <1>1, <1>4, <2>2
    <3> QED
      BY <1>1, <2>1, <3>1 DEF CompletedKept
  <2> QED
    BY <2>2 DEF CompletedKept
<1> QED
  BY <1>2, <1>3, <1>4 DEF SoleSound, NoOperation

\* A step of the operation inside, which stays inside.
LEMMA WorkSound ==
  ASSUME IndexTyped, Sole, SoleSound, UNCHANGED <<indexSetting, gate, jobs>>,
         NEW o \in Asked, Op(o).phase \in Inside, NEW new \in OperationRecord, Became(o, new),
         new.host = Op(o).host, new.request = Op(o).request, new.original = Op(o).original,
         ~indexSetting.cancels => ~new.cancelled, new.phase \in Inside,
         registry' = registry \/ registry' = Candidate(o),
         InsideSound(o)'
  PROVE  SoleSound'
<1>1. /\ Asked' = Asked /\ Op(o)' = new /\ \A p \in Asked \ {o} : Op(p)' = Op(p)
  BY DEF Became, Asked, Op
<1>2. gate[Op(o).host] = o /\ \A i \in Asked : Op(i).phase \in Inside => i = o
  BY OneInside DEF SoleSound, InsideSound
<1>3. \A i \in Asked' : /\ Op(i)'.host \in indexSetting.hosts /\ Op(i)'.phase # "orphan"
                        /\ ~indexSetting.cancels => ~Op(i)'.cancelled
  BY <1>1 DEF SoleSound, Inside
<1>4. ASSUME NEW h \in Hosts PROVE GateSound(h)'
  <2> SUFFICES ASSUME gate[h] # NoOperation
               PROVE  /\ gate[h] \in Asked' /\ operations'[gate[h]].phase \in Inside
                      /\ operations'[gate[h]].host = h
    BY DEF GateSound, Op, NoOperation
  <2>1. gate[h] \in Asked /\ Op(gate[h]).phase \in Inside /\ Op(gate[h]).host = h
    BY DEF SoleSound, GateSound
  <2>2. gate[h] = o
    BY <1>2, <2>1
  <2> QED
    BY <1>1, <2>1, <2>2 DEF Op
<1>5. \A i \in Asked' : Op(i)'.phase \in Inside => i = o
  BY <1>1, <1>2
<1>6. ASSUME NEW c \in Asked', Op(c)'.phase = "completed" PROVE CompletedKept(c)'
  <2>1. c # o
    BY <1>1, <1>6 DEF Inside
  <2>2. Op(c)' = Op(c) /\ CompletedKept(c)
    BY <1>1, <1>6, <2>1 DEF SoleSound
  <2>3. ASSUME NEW p \in DOMAIN Op(c)'.request
        PROVE  /\ registry'[p] # Unregistered
               /\ \A i \in Asked' : Op(i)'.phase \in Inside => Op(i)'.original[p] # Unregistered
    <3>1. registry[p] # Unregistered /\ Op(o).original[p] # Unregistered
      BY <2>2, <2>3 DEF CompletedKept
    <3>2. p \in Projects
      BY <1>1, <2>2, <2>3, OperationTyped, RequestsTyped DEF OperationRecord
    <3>3. Candidate(o)[p] # Unregistered
      BY <3>1, <3>2, CandidateTyped
    <3> QED
      BY <1>1, <1>5, <3>1, <3>3
  <2> QED
    BY <2>3 DEF CompletedKept
<1>7. gate'[Op(o).host] # NoOperation /\ Op(o).host \in Hosts
  BY <1>2, OneInside, OperationTyped DEF NoOperation
<1> QED
  BY <1>1, <1>3, <1>4, <1>5, <1>6, <1>7 DEF SoleSound, NoOperation

\* The operation inside leaves.
LEMMA LeaveSound ==
  ASSUME IndexTyped, Sole, SoleSound, UNCHANGED <<indexSetting, indexed>>,
         NEW o \in Asked, Op(o).phase \in Inside,
         NEW outcome \in {"failed", "unserved", "completed"}, Leave(o, outcome),
         registry' = registry \/ registry' = Op(o).original,
         ~indexSetting.cancels => indexed = registry',
         outcome = "completed" => registry' = Candidate(o)
  PROVE  SoleSound'
<1>a. /\ outcome \in Phases /\ outcome \notin Inside /\ outcome # "orphan"
      /\ Op(o) \in OperationRecord
  BY OperationTyped DEF Phases, Over, Inside
<1>b. Became(o, Ended(Op(o), outcome))
  BY <1>a, Left
<1>1. /\ Asked' = Asked /\ Op(o)' = Ended(Op(o), outcome)
      /\ \A p \in Asked \ {o} : Op(p)' = Op(p)
  BY <1>b DEF Became, Asked, Op
<1>c. /\ Op(o)'.host = Op(o).host /\ Op(o)'.request = Op(o).request /\ Op(o)'.phase = outcome
      /\ Op(o)'.cancelled = FALSE
  <2>1. /\ Ended(Op(o), outcome).host = Op(o).host /\ Ended(Op(o), outcome).phase = outcome
        /\ Ended(Op(o), outcome).request = Op(o).request
        /\ Ended(Op(o), outcome).cancelled = FALSE
    BY <1>a, EndedTyped
  <2> QED
    BY <1>1, <2>1
<1>2. gate[Op(o).host] = o /\ \A i \in Asked : Op(i).phase \in Inside => i = o
  BY OneInside DEF SoleSound, InsideSound
<1>3. \A i \in Asked' : /\ Op(i)'.host \in indexSetting.hosts /\ Op(i)'.phase # "orphan"
                        /\ ~indexSetting.cancels => ~Op(i)'.cancelled
  BY <1>a, <1>c, <1>1 DEF SoleSound
<1>4. \A h \in Hosts : gate'[h] = NoOperation
  <2>1. gate \in [Hosts -> Nat] /\ \A h \in Hosts : gate[h] # NoOperation => h = Op(o).host
    BY OneInside DEF IndexTyped
  <2> QED
    BY <1>2, <2>1 DEF Leave
<1>5. \A i \in Asked' : Op(i)'.phase \notin Inside
  BY <1>a, <1>c, <1>1, <1>2
<1>6. ASSUME NEW c \in Asked', Op(c)'.phase = "completed" PROVE CompletedKept(c)'
  <2>1. ASSUME NEW p \in DOMAIN Op(c)'.request PROVE registry'[p] # Unregistered
    <3>1. CASE c = o
      BY <1>1, <1>c, <1>6, <2>1, <3>1, CandidateTyped
    <3>2. CASE c # o
      <4>1. Op(c)' = Op(c) /\ CompletedKept(c)
        BY <1>1, <1>6, <3>2 DEF SoleSound
      <4> QED
        BY <2>1, <4>1 DEF CompletedKept
    <3> QED
      BY <3>1, <3>2
  <2> QED
    BY <1>5, <2>1 DEF CompletedKept
<1>7. ~indexSetting.cancels => \A h \in Hosts : ~jobs'[h].closed
  <2>1. jobs \in [Hosts -> [order: Seq(Nat), active: Nat, closed: BOOLEAN]]
    BY DEF IndexTyped
  <2>2. \A h \in Hosts : jobs'[h].closed = jobs[h].closed
    BY <2>1 DEF Leave, JobsAfter
  <2> QED
    BY <2>2 DEF SoleSound
<1> QED
  BY <1>1, <1>3, <1>4, <1>5, <1>6, <1>7 DEF SoleSound, GateSound, NoOperation

\* The gate opens: nobody is inside, and the registry is read.
LEMMA EnterSound ==
  ASSUME IndexTyped, Sole, SoleSound, NEW o \in Asked, Enter(o)
  PROVE  SoleSound'
<1> DEFINE h == Op(o).host
<1>a. /\ Op(o) \in OperationRecord /\ operations[o] = Op(o) /\ h \in Hosts /\ o # NoOperation
      /\ registry \in Registries /\ gate \in [Hosts -> Nat] /\ gate[h] = NoOperation
      /\ Op(o).phase = "asked" /\ operations \in Seq(OperationRecord)
      /\ o \in DOMAIN operations
  <2>1. Op(o) \in OperationRecord /\ o # NoOperation
    BY OperationTyped DEF NoOperation
  <2> QED
    BY <2>1, OneInside DEF IndexTyped, Enter, Op, Asked
<1>1. /\ Asked' = Asked /\ Op(o)'.host = h /\ Op(o)'.request = Op(o).request
      /\ Op(o)'.phase = "loaded" /\ Op(o)'.original = registry
      /\ Op(o)'.cancelled = Op(o).cancelled
      /\ \A p \in Asked \ {o} : Op(p)' = Op(p)
  <2> DEFINE new == [Op(o) EXCEPT !.phase = "loaded", !.original = registry]
  <2>1. /\ new.host = h /\ new.request = Op(o).request /\ new.phase = "loaded"
        /\ new.original = registry /\ new.cancelled = Op(o).cancelled
    BY <1>a DEF OperationRecord
  <2>2. operations' = [operations EXCEPT ![o] = new]
    BY <1>a DEF Enter
  <2> HIDE DEF new
  <2> QED
    BY <1>a, <2>1, <2>2 DEF Asked, Op
<1>2. \A g \in Hosts : gate[g] = NoOperation
  BY <1>a, OneInside
<1>3. \A i \in Asked : Op(i).phase \notin Inside
  <2>1. ASSUME NEW i \in Asked, Op(i).phase \in Inside PROVE FALSE
    <3>1. i = NoOperation
      BY <1>a, <2>1, OneInside
    <3> QED
      BY <3>1, OperationTyped DEF NoOperation
  <2> QED
    BY <2>1
<1>4. \A i \in Asked' : Op(i)'.phase \in Inside => i = o
  BY <1>1, <1>3
<1>5. /\ gate'[h] = o /\ \A g \in Hosts \ {h} : gate'[g] = NoOperation
      /\ registry' = registry /\ indexed' = indexed /\ jobs' = jobs
      /\ indexSetting' = indexSetting
  BY <1>a, <1>2 DEF Enter
<1>6. ASSUME NEW g \in Hosts PROVE GateSound(g)'
  <2> SUFFICES ASSUME gate'[g] # NoOperation
               PROVE  /\ gate'[g] \in Asked' /\ operations'[gate'[g]].phase \in Inside
                      /\ operations'[gate'[g]].host = g
    BY DEF GateSound, Op, NoOperation
  <2>1. g = h /\ gate'[g] = o
    BY <1>5
  <2> QED
    BY <1>1, <2>1 DEF Op, Inside
<1>7. InsideSound(o)'
  <2>1. ~indexSetting.cancels => indexed = registry
    BY <1>2 DEF SoleSound
  <2> QED
    BY <1>1, <1>5, <2>1 DEF InsideSound
<1>8. ASSUME NEW c \in Asked', Op(c)'.phase = "completed" PROVE CompletedKept(c)'
  <2>1. Op(c)' = Op(c) /\ CompletedKept(c)
    BY <1>1, <1>8 DEF SoleSound
  <2> QED
    BY <1>1, <1>4, <1>5, <2>1 DEF CompletedKept
<1>9. \A i \in Asked' : /\ Op(i)'.host \in indexSetting.hosts /\ Op(i)'.phase # "orphan"
                        /\ ~indexSetting.cancels => ~Op(i)'.cancelled
  BY <1>1 DEF SoleSound
<1> QED
  BY <1>1, <1>4, <1>5, <1>6, <1>7, <1>8, <1>9, <1>a DEF SoleSound, NoOperation

\* What the operation inside does to the registry and the graph, step by step.
LEMMA InsideStep ==
  ASSUME IndexTyped, Sole, SoleSound, NEW o \in Asked, OperationStep(o), Op(o).phase \in Inside
  PROVE  SoleSound'
<1>a. /\ Op(o) \in OperationRecord /\ operations[o] = Op(o) /\ InsideSound(o)
      /\ operations \in Seq(OperationRecord) /\ o \in DOMAIN operations
      /\ ~indexSetting.cancels => ~Cancelled(o)
  <2>1. Op(o) \in OperationRecord /\ (~indexSetting.cancels => ~Cancelled(o))
    BY OperationTyped, OneInside
  <2> QED
    BY <2>1 DEF IndexTyped, Op, Asked, SoleSound
<1>b. PICK new \in OperationRecord :
        /\ Became(o, new)
        /\ new.host = Op(o).host /\ new.job = Op(o).job /\ new.request = Op(o).request
        /\ ~indexSetting.cancels => (new.cancelled => Op(o).cancelled)
  BY StepOfOne
<1>c. operations'[o] = new /\ Op(o)' = new /\ (~indexSetting.cancels => ~new.cancelled)
  BY <1>b DEF Became, Op, SoleSound
<1>1. ASSUME UNCHANGED <<indexSetting, gate, jobs>>, new.phase \in Inside,
             new.original = Op(o).original, registry' = registry \/ registry' = Candidate(o),
             registry' = IF new.phase = "loaded" THEN new.original ELSE Candidate(o),
             new.phase # "loaded" => (new.changed <=> Candidate(o) # Op(o).original),
             new.phase \in {"passing", "published"} => new.read = registry',
             ~indexSetting.cancels =>
               indexed' = IF new.phase = "published" THEN registry' ELSE new.original
      PROVE  SoleSound'
  <2>1. Candidate(o)' = Candidate(o)
    BY <1>1, <1>b, <1>c DEF Candidate
  <2>2. gate'[Op(o)'.host] = o
    BY <1>1, <1>a, <1>b, <1>c DEF InsideSound
  <2>3. InsideSound(o)'
    BY <1>1, <1>c, <2>1, <2>2 DEF InsideSound
  <2> QED
    BY <1>1, <1>b, <1>c, <2>3, WorkSound
<1>2. CASE SaveRegistry(o)
  <2> DEFINE differs == Candidate(o) # Op(o).original
  <2>1. /\ Op(o).phase = "loaded" /\ UNCHANGED <<indexSetting, gate, jobs, indexed>>
        /\ registry' = IF differs THEN Candidate(o) ELSE registry
        /\ operations' = [operations EXCEPT ![o].phase = "saved", ![o].changed = differs]
    BY <1>2 DEF SaveRegistry
  <2>2. differs \in BOOLEAN
    OBVIOUS
  <2>3. /\ registry = Op(o).original
        /\ ~indexSetting.cancels => indexed = Op(o).original
    BY <1>a, <2>1 DEF InsideSound
  <2>4. registry' = Candidate(o)
    BY <2>1, <2>3
  <2>5. /\ new.phase = "saved" /\ new.original = Op(o).original /\ new.changed = differs
    <3> DEFINE old == Op(o)
    <3>1. old \in OperationRecord
      BY <1>a
    <3> HIDE DEF differs
    <3>2. new = [old EXCEPT !.phase = "saved", !.changed = differs]
      BY <1>a, <1>c, <2>1
    <3> HIDE DEF old
    <3>3. new.phase = "saved" /\ new.original = old.original /\ new.changed = differs
      BY <3>1, <3>2 DEF OperationRecord
    <3> QED
      BY <3>3 DEF old
  <2> QED
    BY <1>1, <2>1, <2>3, <2>4, <2>5 DEF Inside
<1>3. CASE PassReads(o)
  <2>1. /\ Op(o).phase = "saved" /\ UNCHANGED <<indexSetting, registry, indexed, gate, jobs>>
        /\ operations' = [operations EXCEPT ![o].phase = "passing", ![o].read = registry]
    BY <1>3 DEF PassReads
  <2>2. /\ new.phase = "passing" /\ new.original = Op(o).original /\ new.read = registry
        /\ new.changed = Op(o).changed
    <3>1. PICK seen : seen = registry
      OBVIOUS
    <3>2. new = [Op(o) EXCEPT !.phase = "passing", !.read = seen]
      BY <1>a, <1>c, <2>1, <3>1
    <3>3. /\ new.phase = "passing" /\ new.original = Op(o).original /\ new.read = seen
          /\ new.changed = Op(o).changed
      BY <1>a, <3>2 DEF OperationRecord
    <3> QED
      BY <3>1, <3>3
  <2>3. /\ registry = Candidate(o) /\ (Op(o).changed <=> Candidate(o) # Op(o).original)
        /\ ~indexSetting.cancels => indexed = Op(o).original
    BY <1>a, <2>1 DEF InsideSound
  <2> QED
    BY <1>1, <2>1, <2>2, <2>3 DEF Inside
<1>4. CASE ChildPublishes(o)
  <2>1. /\ Op(o).phase = "passing" /\ UNCHANGED <<indexSetting, registry, gate, jobs>>
        /\ indexed' = Op(o).read /\ operations' = [operations EXCEPT ![o].phase = "published"]
    BY <1>4 DEF ChildPublishes, Inside, Goes
  <2>2. /\ new.phase = "published" /\ new.original = Op(o).original /\ new.read = Op(o).read
        /\ new.changed = Op(o).changed
    BY <1>a, <1>c, <2>1 DEF OperationRecord
  <2>3. /\ registry = Candidate(o) /\ (Op(o).changed <=> Candidate(o) # Op(o).original)
        /\ Op(o).read = registry
    BY <1>a, <2>1 DEF InsideSound
  <2> QED
    BY <1>1, <2>1, <2>2, <2>3 DEF Inside
<1>5. CASE PassFailsOrDies(o)
  <2>1. /\ Op(o).phase \in {"saved", "passing", "published"}
        /\ Op(o).phase = "passing" \/ Cancelled(o)
        /\ UNCHANGED <<indexSetting, registry, indexed, gate, jobs>>
        /\ operations' = [operations EXCEPT ![o].phase = "restoring"]
    BY <1>5 DEF PassFailsOrDies, Goes
  <2>2. /\ new.phase = "restoring" /\ new.original = Op(o).original
        /\ new.changed = Op(o).changed
    BY <1>a, <1>c, <2>1 DEF OperationRecord
  <2>3. /\ registry = Candidate(o) /\ (Op(o).changed <=> Candidate(o) # Op(o).original)
        /\ ~indexSetting.cancels => indexed = Op(o).original
    BY <1>a, <2>1 DEF InsideSound
  <2> QED
    BY <1>1, <2>1, <2>2, <2>3 DEF Inside
<1>6. CASE Refuse(o)
  <2>1. /\ Op(o).phase = "loaded" /\ Leave(o, "failed")
        /\ UNCHANGED <<indexSetting, registry, indexed>>
    BY <1>6 DEF Refuse
  <2>2. registry = Op(o).original /\ (~indexSetting.cancels => indexed = Op(o).original)
    BY <1>a, <2>1 DEF InsideSound
  <2> QED
    BY <2>1, <2>2, LeaveSound
<1>7. CASE RestoreRegistry(o)
  <2>1. /\ Op(o).phase = "restoring" /\ Leave(o, "failed") /\ UNCHANGED <<indexSetting, indexed>>
        /\ registry' = IF Op(o).changed THEN Op(o).original ELSE registry
    BY <1>7 DEF RestoreRegistry
  <2>2. /\ registry = Candidate(o) /\ (Op(o).changed <=> Candidate(o) # Op(o).original)
        /\ ~indexSetting.cancels => indexed = Op(o).original
    BY <1>a, <2>1 DEF InsideSound
  <2>3. registry' = Op(o).original
    BY <2>1, <2>2
  <2> QED
    BY <2>1, <2>2, <2>3, LeaveSound
<1>8. CASE Complete(o) \/ FailToServe(o)
  <2>1. PICK outcome \in {"unserved", "completed"} :
          /\ Op(o).phase = "published" /\ Leave(o, outcome)
          /\ UNCHANGED <<indexSetting, registry, indexed>>
    BY <1>8 DEF Complete, FailToServe
  <2>2. registry = Candidate(o) /\ (~indexSetting.cancels => indexed = registry)
    BY <1>a, <2>1 DEF InsideSound
  <2> QED
    BY <2>1, <2>2, LeaveSound
<1>9. ~GiveUpWaiting(o) /\ ~OrphanFails(o)
  BY DEF GiveUpWaiting, OrphanFails, Inside
<1> QED
  BY <1>2, <1>3, <1>4, <1>5, <1>6, <1>7, <1>8, <1>9 DEF OperationStep

LEMMA RegistrySoundStep == RegistrySound /\ [IndexNext]_indexVars => RegistrySound'
<1> SUFFICES ASSUME RegistrySound, [IndexNext]_indexVars, Sole' PROVE SoleSound'
  BY IndexTypedStep DEF RegistrySound
<1>a. IndexTyped /\ UNCHANGED indexSetting
  <2>1. ASSUME NEW o \in Asked, OperationStep(o) PROVE UNCHANGED indexSetting
    BY <2>1 DEF OperationStep, GiveUpWaiting, SaveRegistry, Refuse, PassReads, ChildPublishes,
       PassFailsOrDies, OrphanFails, RestoreRegistry, Complete, FailToServe
  <2> QED
    BY <2>1 DEF RegistrySound, IndexNext, indexVars, StartJob, CallIndex, CloseJobs, HostDies,
       CallerLeaves, Enter
<1>b. Sole /\ SoleSound
  BY <1>a DEF RegistrySound, Sole
<1>1. CASE UNCHANGED indexVars
  BY <1>1, <1>a, <1>b, QuietSound DEF indexVars, Asked, Op, SoleSound
<1>2. ASSUME NEW h \in Hosts, NEW request \in Requests,
             StartJob(h, request) \/ CallIndex(h, request)
      PROVE  SoleSound'
  <2>1. PICK op \in OperationRecord :
          /\ op.host = h /\ op.phase = "asked" /\ op.cancelled = FALSE
          /\ operations' = Append(operations, op)
    BY <1>2, NewOperationTyped DEF StartJob, CallIndex
  <2>2. /\ h \in indexSetting.hosts /\ UNCHANGED <<indexSetting, registry, indexed, gate>>
        /\ \A g \in Hosts : jobs'[g].closed = jobs[g].closed
    <3>1. jobs \in [Hosts -> [order: Seq(Nat), active: Nat, closed: BOOLEAN]]
      BY <1>a DEF IndexTyped
    <3> QED
      <4>1. CASE StartJob(h, request)
        <5>1. \E order, active :
                jobs' = [jobs EXCEPT ![h] = [jobs[h] EXCEPT !.order = order, !.active = active]]
          BY <3>1, <4>1 DEF StartJob
        <5>2. \A g \in Hosts : jobs'[g].closed = jobs[g].closed
          BY <3>1, <5>1
        <5> QED
          BY <4>1, <5>2 DEF StartJob
      <4>2. CASE CallIndex(h, request)
        BY <4>2 DEF CallIndex
      <4> QED
        BY <1>2, <4>1, <4>2
  <2>3. /\ Asked \subseteq Asked' /\ \A o \in Asked' \ Asked : Op(o)' = op
        /\ \A o \in Asked : Op(o)' = Op(o)
    <3>1. operations \in Seq(OperationRecord) /\ Len(operations) \in Nat
      BY <1>a DEF IndexTyped
    <3>2. /\ DOMAIN operations = 1 .. Len(operations)
          /\ DOMAIN operations' = 1 .. Len(operations) + 1
          /\ operations'[Len(operations) + 1] = op
          /\ \A o \in 1 .. Len(operations) : operations'[o] = operations[o]
      BY <2>1, <3>1
    <3>3. \A o \in Asked' \ Asked : o = Len(operations) + 1
      BY <3>1, <3>2 DEF Asked
    <3> QED
      BY <3>1, <3>2, <3>3 DEF Asked, Op
  <2>4. \A o \in Asked' : Op(o)'.host \in indexSetting.hosts /\ Op(o)'.phase # "orphan"
    BY <1>b, <2>1, <2>2, <2>3 DEF SoleSound
  <2>5. ~indexSetting.cancels => /\ \A g \in Hosts : ~jobs'[g].closed
                                 /\ \A o \in Asked' : ~Op(o)'.cancelled
    BY <1>b, <2>1, <2>2, <2>3 DEF SoleSound
  <2>6. \A o \in Asked' \ Asked : Op(o)'.phase \notin Inside \cup {"completed"}
    BY <2>1, <2>3 DEF Inside
  <2> QED
    BY <1>a, <1>b, <2>2, <2>3, <2>4, <2>5, <2>6, QuietSound
<1>3. ASSUME NEW h \in Hosts, CloseJobs(h) PROVE SoleSound'
  BY <1>3, <1>a, <1>b, QuietSound DEF CloseJobs, Asked, Op, SoleSound
<1>4. ASSUME NEW h \in Hosts, HostDies(h) PROVE FALSE
  BY <1>4, <1>b DEF HostDies, Sole
<1>5. ASSUME NEW o \in Asked, CallerLeaves(o) PROVE SoleSound'
  <2>1. /\ indexSetting.cancels /\ UNCHANGED <<indexSetting, registry, indexed, gate>>
        /\ operations' = [operations EXCEPT ![o].cancelled = TRUE]
    BY <1>5 DEF CallerLeaves
  <2>2. \A p \in Asked : /\ Op(p)'.host = Op(p).host /\ Op(p)'.request = Op(p).request
                         /\ Op(p)'.phase = Op(p).phase /\ Op(p)'.original = Op(p).original
                         /\ Op(p)'.read = Op(p).read /\ Op(p)'.changed = Op(p).changed
    <3>1. \A p \in Asked : operations[p] \in OperationRecord
      BY <1>a, OperationTyped DEF Op
    <3> QED
      BY <2>1, <3>1 DEF Op, Asked, OperationRecord
  <2>3. Asked' = Asked
    BY <2>1 DEF Asked
  <2>4. \A p \in Asked' : Op(p)'.host \in indexSetting.hosts /\ Op(p)'.phase # "orphan"
    BY <1>b, <2>2, <2>3 DEF SoleSound
  <2> QED
    BY <1>a, <1>b, <2>1, <2>2, <2>3, <2>4, QuietSound
<1>6. ASSUME NEW o \in Asked, Enter(o) PROVE SoleSound'
  BY <1>6, <1>a, <1>b, EnterSound
<1>7. ASSUME NEW o \in Asked, OperationStep(o) PROVE SoleSound'
  <2>1. CASE Op(o).phase \in Inside
    BY <1>7, <1>a, <1>b, <2>1, InsideStep
  <2>2. CASE Op(o).phase \notin Inside
    <3>1. GiveUpWaiting(o)
      <4>1. Op(o).phase # "orphan"
        BY <1>b DEF SoleSound
      <4> QED
        BY <1>7, <2>2, <4>1 DEF OperationStep, SaveRegistry, Refuse, PassReads, ChildPublishes,
           PassFailsOrDies, OrphanFails, RestoreRegistry, Complete, FailToServe, Inside
    <3>2. /\ Op(o).phase = "asked" /\ Leave(o, "failed")
          /\ UNCHANGED <<indexSetting, registry, indexed>>
      BY <3>1 DEF GiveUpWaiting
    <3>3. "failed" \in Phases /\ Op(o) \in OperationRecord /\ gate \in [Hosts -> Nat]
      BY <1>a, OperationTyped DEF Phases, Over, IndexTyped
    <3>4. Became(o, Ended(Op(o), "failed"))
      BY <1>a, <3>2, <3>3, Left
    <3>5. /\ Asked' = Asked /\ Op(o)' = Ended(Op(o), "failed")
          /\ \A p \in Asked \ {o} : Op(p)' = Op(p)
      BY <3>4 DEF Became, Asked, Op
    <3>6. /\ Ended(Op(o), "failed").host = Op(o).host /\ Ended(Op(o), "failed").phase = "failed"
          /\ Ended(Op(o), "failed").cancelled = FALSE
      BY <3>3, EndedTyped
    <3>7. gate' = gate
      <4>1. Op(o).host \in Hosts /\ (gate[Op(o).host] = o => Op(o).phase \in Inside)
        BY <1>a, <1>b, OneInside, OperationTyped DEF SoleSound, GateSound, NoOperation
      <4> QED
        BY <2>2, <3>2, <3>3, <4>1 DEF Leave
    <3>8. \A g \in Hosts : jobs'[g].closed = jobs[g].closed
      <4>1. jobs \in [Hosts -> [order: Seq(Nat), active: Nat, closed: BOOLEAN]]
        BY <1>a DEF IndexTyped
      <4> QED
        BY <3>2, <4>1 DEF Leave, JobsAfter
    <3>9. \A p \in Asked' : /\ Op(p)'.host \in indexSetting.hosts /\ Op(p)'.phase # "orphan"
                            /\ ~indexSetting.cancels => ~Op(p)'.cancelled
      BY <1>b, <3>5, <3>6 DEF SoleSound
    <3>10. Op(o)'.phase \notin Inside \cup {"completed"}
      BY <3>5, <3>6 DEF Inside
    <3>11. ~indexSetting.cancels => \A g \in Hosts : ~jobs'[g].closed
      BY <1>b, <3>8 DEF SoleSound
    <3> QED
      BY <1>a, <1>b, <2>2, <3>2, <3>5, <3>7, <3>9, <3>10, <3>11, QuietSound
  <2> QED
    BY <2>1, <2>2
<1> QED
  BY <1>1, <1>2, <1>3, <1>4, <1>5, <1>6, <1>7 DEF IndexNext

\* In a process that has the registry to itself, the published graph was built
\* from exactly what is registered whenever nobody is inside, if no context ends;
\* and what completed stays registered, whatever fails or is cancelled after it
\* (service.go:256-271).
THEOREM RegistryStaysKept == IndexingSpec => []RegistryIsKept
<1>1. RegistrySound => RegistryIsKept
  <2> SUFFICES ASSUME RegistrySound, Cardinality(indexSetting.hosts) <= 1, ~indexSetting.deaths
               PROVE  /\ ~indexSetting.cancels /\ (\A h \in Hosts : gate[h] = NoOperation) =>
                           indexed = registry
                      /\ \A o \in Asked : Op(o).phase = "completed" =>
                           \A p \in DOMAIN Op(o).request : registry[p] # Unregistered
    BY DEF RegistryIsKept, RegistryIsIndexed, SuccessStaysRegistered
  <2>1. indexSetting.hosts \subseteq Hosts
    BY DEF RegistrySound, IndexTyped, IndexSetting
  <2>2. IsFiniteSet(indexSetting.hosts)
    BY <2>1, HostsAssumption, FS_Subset
  <2>3. Cardinality(indexSetting.hosts) = 0 \/ Cardinality(indexSetting.hosts) = 1
    BY <2>2, FS_CardinalityType
  <2>4. \A g, h \in indexSetting.hosts : g = h
    BY <2>2, <2>3, FS_EmptySet, FS_Singleton
  <2>5. SoleSound
    BY <2>4 DEF RegistrySound, Sole
  <2> QED
    BY <2>5 DEF SoleSound, CompletedKept
<1> QED
  BY <1>1, RegistrySoundInit, RegistrySoundStep, PTL DEF IndexingSpec
=============================================================================
