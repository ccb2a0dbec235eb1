----------------------------- MODULE BundleUpdate -----------------------------
(***************************************************************************)
(* The swap of the installed bundle in internal/update/update.go: what      *)
(* installRelease and replaceBundle do to the directory of the bundle and   *)
(* to the backup beside it once a release is downloaded and verified.       *)
(* Nothing locks it: several updates may be under way, each with a staging  *)
(* directory of its own.                                                    *)
(*                                                                         *)
(* Which release a bundle holds makes no difference here.  A bundle whose   *)
(* removal has begun is torn.                                               *)
(***************************************************************************)
EXTENDS Naturals

CONSTANTS
  Updaters,
  UpdateSettings   \* the circumstances one run covers

Bundles == {"none", "torn", "whole"}

(* How many updates are started, whether one starts beside another, and how *)
(* many calls fail and processes die.                                       *)
UpdateSetting == [updates: Nat, rivals: BOOLEAN, failures: Nat, deaths: Nat]

ASSUME UpdateSettingsAssumption == UpdateSettings \subseteq UpdateSetting

VARIABLES
  updateSetting,  \* constant in a behaviour
  installed,      \* the bundle under its name
  previous,       \* the bundle under its name with ".previous"
  updater,        \* per process: how far it is
  updateBudget    \* bound: updates, failures and deaths still to come

updateVars == <<updateSetting, installed, previous, updater, updateBudget>>

UpdaterAt(u, stage) == updater[u] = stage
Reaches(u, stage)      == updater' = [updater EXCEPT ![u] = stage]
Take(trouble) ==
  /\ updateBudget[trouble] > 0
  /\ updateBudget' = [updateBudget EXCEPT ![trouble] = @ - 1]
Happened(trouble) == updateSetting[trouble] - updateBudget[trouble]

-----------------------------------------------------------------------------
(* installRelease *)

(* Up to validateBundle: a verified bundle is staged.  The process that does *)
(* it runs out of the installed bundle.                                      *)
Stage(u) ==
  /\ UpdaterAt(u, "idle") /\ installed = "whole"
  /\ updateSetting.rivals \/ \A v \in Updaters : UpdaterAt(v, "idle")
  /\ Take("updates")
  /\ Reaches(u, "staged")
  /\ UNCHANGED <<updateSetting, installed, previous>>

-----------------------------------------------------------------------------
(* replaceBundle.  A rename is refused if its target exists. *)

InspectBackup(u) ==
  /\ UpdaterAt(u, "staged")
  /\ Reaches(u, IF previous = "none" THEN "cleared" ELSE "clearing")
  /\ UNCHANGED <<updateSetting, installed, previous, updateBudget>>

(* RemoveAll on the backup, before the swap or after it: file by file, then  *)
(* the directory.                                                            *)
RemoveBackup(u) ==
  /\ updater[u] \in {"clearing", "removing"}
  /\ IF previous = "whole"
     THEN previous' = "torn" /\ UNCHANGED updater
     ELSE previous' = "none" /\ Reaches(u, IF UpdaterAt(u, "clearing") THEN "cleared" ELSE "idle")
  /\ UNCHANGED <<updateSetting, installed, updateBudget>>

(* It cannot be removed, or not all of it: the running binary on Windows.    *)
(* Before the swap that ends the update; after it, the update is done.       *)
RemoveBackupFails(u) ==
  /\ updater[u] \in {"clearing", "removing"}
  /\ Take("failures")
  /\ Reaches(u, "idle")
  /\ UNCHANGED <<updateSetting, installed, previous>>

MoveAside(u) ==
  /\ UpdaterAt(u, "cleared")
  /\ \/ /\ installed # "none" /\ previous = "none"
        /\ previous' = installed /\ installed' = "none"
        /\ Reaches(u, "moved")
        /\ UNCHANGED updateBudget
     \/ /\ installed = "none" \/ previous # "none"
        /\ Reaches(u, "idle")
        /\ UNCHANGED <<installed, previous, updateBudget>>
     \/ /\ Take("failures")
        /\ Reaches(u, "idle")
        /\ UNCHANGED <<installed, previous>>
  /\ UNCHANGED updateSetting

(* Mutant: the deferred rollback is not there. *)
PlaceOrLeave(u) ==
  /\ UpdaterAt(u, "moved")
  /\ \/ /\ installed = "none"
        /\ installed' = "whole"
        /\ Reaches(u, "removing")
        /\ UNCHANGED updateBudget
     \/ /\ Take("failures")
        /\ Reaches(u, "idle")
        /\ UNCHANGED installed
  /\ UNCHANGED <<updateSetting, previous>>

Place(u) ==
  /\ UpdaterAt(u, "moved")
  /\ \/ /\ installed = "none"
        /\ installed' = "whole"
        /\ Reaches(u, "removing")
        /\ UNCHANGED updateBudget
     \/ /\ IF installed = "none" THEN Take("failures") ELSE UNCHANGED updateBudget
        /\ Reaches(u, "undoing")
        /\ UNCHANGED installed
  /\ UNCHANGED <<updateSetting, previous>>

(* The deferred rollback; what fails in it is ignored. *)
UndoPlace(u) ==
  /\ UpdaterAt(u, "undoing")
  /\ IF installed = "whole"
     THEN installed' = "torn" /\ UNCHANGED updater
     ELSE installed' = "none" /\ Reaches(u, "restoring")
  /\ UNCHANGED <<updateSetting, previous, updateBudget>>

RestorePrevious(u) ==
  /\ UpdaterAt(u, "restoring")
  /\ Reaches(u, "idle")
  /\ \/ /\ installed = "none" /\ previous # "none"
        /\ installed' = previous /\ previous' = "none"
        /\ UNCHANGED updateBudget
     \/ /\ IF installed = "none" /\ previous # "none" THEN Take("failures")
                                                  ELSE UNCHANGED updateBudget
        /\ UNCHANGED <<installed, previous>>
  /\ UNCHANGED updateSetting

(* A staging directory stays behind that nobody reads. *)
UpdaterDies(u) ==
  /\ ~UpdaterAt(u, "idle") /\ Take("deaths")
  /\ Reaches(u, "idle")
  /\ UNCHANGED <<updateSetting, installed, previous>>

-----------------------------------------------------------------------------

(* A bundle is installed; an earlier update may have left its backup. *)
UpdateInit ==
  /\ updateSetting \in UpdateSettings
  /\ installed = "whole"
  /\ previous \in IF updateSetting.updates = 0 THEN {"none"} ELSE {"none", "torn"}
  /\ updater = [u \in Updaters |-> "idle"]
  /\ updateBudget = [updates |-> updateSetting.updates, failures |-> updateSetting.failures,
                     deaths |-> updateSetting.deaths]

UpdateStep(u) ==
  \/ Stage(u)
  \/ InspectBackup(u)
  \/ RemoveBackup(u)
  \/ RemoveBackupFails(u)
  \/ MoveAside(u)
  \/ Place(u)
  \/ UndoPlace(u)
  \/ RestorePrevious(u)
  \/ UpdaterDies(u)

UpdateNext == \E u \in Updaters : UpdateStep(u)

UpdateSpec == UpdateInit /\ [][UpdateNext]_updateVars

-----------------------------------------------------------------------------

UpdateTypeOK ==
  /\ updateSetting \in UpdateSettings
  /\ installed \in Bundles /\ previous \in Bundles
  /\ updater \in [Updaters -> {"idle", "staged", "clearing", "cleared", "moved", "removing",
                               "undoing", "restoring"}]
  /\ updateBudget \in [updates: Nat, failures: Nat, deaths: Nat]

Untroubled == Happened("failures") + Happened("deaths") = 0
Midway(u)  == UpdaterAt(u, "moved")

(***************************************************************************)
(* The user does not lose the program to an update.  There is always a      *)
(* whole bundle: under its name, as the backup, or staged by the process    *)
(* that is about to rename it.  And when no update is under way it is under *)
(* its name, if nobody died and one thing at most went wrong: the rollback  *)
(* puts back what was moved aside, and updates that overlap stop each other *)
(* without harm.  (A death between the two renames leaves the program       *)
(* under ".previous" only, though the README calls the replacement atomic,  *)
(* and overlapping updates lose it altogether if one of them fails or dies  *)
(* there.)                                                                  *)
(***************************************************************************)
BundleSurvives ==
  /\ ~updateSetting.rivals \/ Untroubled =>
       \/ "whole" \in {installed, previous}
       \/ \E u \in Updaters : Midway(u)
  /\ (\A u \in Updaters : UpdaterAt(u, "idle"))
       /\ Happened("deaths") = 0
       /\ Happened("failures") <= (IF updateSetting.rivals THEN 0 ELSE 1)
       => installed = "whole"

=============================================================================
