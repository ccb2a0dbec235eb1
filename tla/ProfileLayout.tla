---------------------------- MODULE ProfileLayout ----------------------------
(***************************************************************************)
(* Profiles on disk, internal/config/profiles.go: the migration of an       *)
(* installation older than profiles, and the commands that create, select   *)
(* and remove them and register repositories in them.  Commands run in      *)
(* processes of their own and may overlap; any may die.                     *)
(*                                                                         *)
(* Of the state a profile owns the model keeps the registry, a set of       *)
(* entries; the graph beside it is copied and removed with it.  While the   *)
(* default profile is the only one, the legacy registry stands for its own. *)
(***************************************************************************)
EXTENDS FiniteSets, Naturals

CONSTANTS
  Profiles,         \* names of profiles
  FirstProfile,     \* the one profiles.default names at first
  Members,          \* repositories that may be registered
  Clients,          \* processes that run commands
  Missing,          \* no such directory
  Bare,             \* a directory without a registry
  ProfileSettings   \* the circumstances one run covers

ASSUME ProfilesAssumption ==
  /\ IsFiniteSet(Profiles) /\ FirstProfile \in Profiles
  /\ Missing # Bare
  /\ \A registry \in SUBSET Members : registry \notin {Missing, Bare}

CommandKinds == {"init", "list", "register", "create", "use", "remove"}

(* The commands that are given and how many, whether they overlap, whether   *)
(* one may remove the last profile beside the default, and how many edits of *)
(* the registry by hand, failed writes and deaths there are.                 *)
ProfileSetting ==
  [kinds: SUBSET CommandKinds, together: BOOLEAN, shrinks: BOOLEAN,
   commands: Nat, edits: Nat, failures: Nat, deaths: Nat]

ASSUME ProfileSettingsAssumption == ProfileSettings \subseteq ProfileSetting

VARIABLES
  profileSetting,  \* constant in a behaviour
  legacy,          \* the registry that config.yaml names
  directory,       \* profiles/<name>: its registry, Bare or Missing
  kept,            \* the backup beside the state directory, or Missing
  pointer,         \* profiles.default
  command,         \* per process: its command and how far it is
  registered,      \* history: what has been registered in each profile
  profileBudget    \* bound: commands, edits, failures and deaths still to come

profileVars == <<profileSetting, legacy, directory, kept, pointer, command, registered,
                 profileBudget>>

RegistryContents == SUBSET Members

Stages == {"idle", "config", "resolving", "copied", "backed", "listing", "listed",
           "registering", "adopted", "claimed", "made", "pointing", "removing"}

NoCommand == [stage |-> "idle", kind |-> "list", name |-> FirstProfile,
              default |-> FirstProfile, adopted |-> FirstProfile, listed |-> {},
              onLegacy |-> FALSE, copy |-> {}]

CommandAt(c, stage) == command[c].stage = stage
Advance(c, stage)   == command' = [command EXCEPT ![c].stage = stage]
Ends(c)             == command' = [command EXCEPT ![c] = NoCommand]
Name(c)             == command[c].name
Default(c)          == command[c].default
DirectoryBecomes(p, content) == directory' = [directory EXCEPT ![p] = content]
SpendProfile(what) ==
  /\ profileBudget[what] > 0
  /\ profileBudget' = [profileBudget EXCEPT ![what] = @ - 1]

(* What listProfiles finds. *)
Present == {p \in Profiles : directory[p] \notin {Missing, Bare}}

(* A file lock goes with the process that holds it. *)
MigrationLocked == \E c \in Clients : command[c].stage \in {"copied", "backed"}
\* Unless commands overlap, one comes when the one before it is over.
MayCome == profileSetting.together \/ \A c \in Clients : CommandAt(c, "idle")
ConfigLocked ==
  \E c \in Clients :
    \/ CommandAt(c, "pointing")
    \/ command[c].kind = "init"
       /\ command[c].stage \in {"resolving", "copied", "backed", "listing"}

FilesOnly  == UNCHANGED <<profileSetting, pointer, registered, profileBudget>>
NoFile     == UNCHANGED <<legacy, directory, kept>>

-----------------------------------------------------------------------------
(* The configuration is read, once or, by create, twice. *)

StartCommand(c, kind, name) ==
  /\ CommandAt(c, "idle")
  /\ kind \in profileSetting.kinds \ {"use"}
  /\ MayCome
  /\ kind = "init" => ~ConfigLocked /\ name = pointer
  /\ SpendProfile("commands")
  /\ command' = [command EXCEPT ![c] =
       [NoCommand EXCEPT !.stage = IF kind = "create" THEN "config" ELSE "resolving",
                         !.kind = kind, !.name = name, !.default = pointer,
                         !.adopted = pointer]]
  /\ UNCHANGED <<profileSetting, pointer, registered>> /\ NoFile

ReadAgain(c) ==
  /\ CommandAt(c, "config")
  /\ command' = [command EXCEPT ![c].stage = "resolving", ![c].default = pointer]
  /\ FilesOnly /\ NoFile

-----------------------------------------------------------------------------
(* ensureDefaultProfile *)

(* A default profile that is there must load.  Otherwise the migration: it   *)
(* is refused while another one runs or other profiles exist.                *)
Resolve(c) ==
  /\ CommandAt(c, "resolving")
  /\ CASE Default(c) \in Present -> Advance(c, "listing")
       [] directory[Default(c)] = Missing /\ ~MigrationLocked /\ Present = {} ->
            command' = [command EXCEPT ![c].stage = "copied", ![c].copy = legacy]
       [] OTHER -> Ends(c)
  /\ FilesOnly /\ NoFile

(* Mutant: whatever an earlier attempt kept will do. *)
KeepAnyBackup(c) ==
  /\ CommandAt(c, "copied")
  /\ kept' = IF kept = Missing THEN command[c].copy ELSE kept
  /\ Advance(c, "backed")
  /\ FilesOnly /\ UNCHANGED <<legacy, directory>>

(* The backup of an earlier attempt must be what was copied now. *)
KeepBackup(c) ==
  /\ CommandAt(c, "copied")
  /\ IF kept \in {Missing, command[c].copy}
     THEN kept' = command[c].copy /\ Advance(c, "backed")
     ELSE UNCHANGED kept /\ Ends(c)
  /\ FilesOnly /\ UNCHANGED <<legacy, directory>>

PublishDefault(c) ==
  /\ CommandAt(c, "backed")
  /\ IF directory[Default(c)] = Missing
     THEN DirectoryBecomes(Default(c), command[c].copy) /\ Advance(c, "listing")
     ELSE UNCHANGED directory /\ Ends(c)
  /\ FilesOnly /\ UNCHANGED <<legacy, kept>>

(* listProfiles; `list` is done. *)
ListPresent(c) ==
  /\ CommandAt(c, "listing") /\ command[c].kind # "init"
  /\ IF Default(c) \in Present /\ command[c].kind # "list"
     THEN command' = [command EXCEPT ![c].stage = "listed", ![c].listed = Present]
     ELSE Ends(c)
  /\ FilesOnly /\ NoFile

-----------------------------------------------------------------------------
(* A registration: the registry is chosen and read, and later written.  What *)
(* a failed pass puts back is not followed here.                             *)

LoadRegistry(c) ==
  /\ CommandAt(c, "listed") /\ command[c].kind = "register"
  /\ LET alone == command[c].listed = {Default(c)} /\ Name(c) = Default(c)
     IN  IF alone \/ Name(c) \in Present
         THEN command' = [command EXCEPT ![c].stage = "registering", ![c].onLegacy = alone,
                                         ![c].copy = IF alone THEN legacy ELSE directory[Name(c)]]
         ELSE Ends(c)
  /\ FilesOnly /\ NoFile

(* init --repository, after Initialize has let go of the configuration. *)
LoadLegacy(c) ==
  /\ CommandAt(c, "listing") /\ command[c].kind = "init"
  /\ command' = [command EXCEPT ![c].stage = "registering", ![c].onLegacy = TRUE,
                                ![c].copy = legacy]
  /\ FilesOnly /\ NoFile

SaveMember(c, e) ==
  /\ CommandAt(c, "registering")
  /\ LET saved == command[c].copy \cup {e}
     IN  \/ /\ command[c].onLegacy
            /\ legacy' = saved
            /\ UNCHANGED directory
         \/ /\ ~command[c].onLegacy /\ directory[Name(c)] # Missing
            /\ DirectoryBecomes(Name(c), saved)
            /\ UNCHANGED legacy
  /\ registered' = [registered EXCEPT ![Name(c)] = @ \cup {e}]
  /\ Ends(c)
  /\ UNCHANGED <<profileSetting, kept, pointer, profileBudget>>

SaveFails(c) ==
  /\ CommandAt(c, "registering")
  /\ IF ~command[c].onLegacy /\ directory[Name(c)] = Missing
     THEN UNCHANGED profileBudget
     ELSE SpendProfile("failures")
  /\ Ends(c)
  /\ UNCHANGED <<profileSetting, pointer, registered>> /\ NoFile

-----------------------------------------------------------------------------
(* CreateProfile *)

(* Mutant: the default profile goes on with what the migration copied. *)
AdoptNothing(c) ==
  /\ CommandAt(c, "listed") /\ command[c].kind = "create"
  /\ Advance(c, "adopted")
  /\ FilesOnly /\ NoFile

(* The registry the default profile had while it was alone becomes its own. *)
Adopt(c) ==
  /\ CommandAt(c, "listed") /\ command[c].kind = "create"
  /\ IF Cardinality(command[c].listed) = 1
     THEN IF directory[command[c].adopted] = Missing
          THEN UNCHANGED directory /\ Ends(c)
          ELSE DirectoryBecomes(command[c].adopted, legacy) /\ Advance(c, "adopted")
     ELSE UNCHANGED directory /\ Advance(c, "adopted")
  /\ FilesOnly /\ UNCHANGED <<legacy, kept>>

ClaimName(c) ==
  /\ CommandAt(c, "adopted")
  /\ IF directory[Name(c)] = Missing THEN Advance(c, "claimed") ELSE Ends(c)
  /\ FilesOnly /\ NoFile

MakeDirectory(c) ==
  /\ CommandAt(c, "claimed")
  /\ DirectoryBecomes(Name(c), IF directory[Name(c)] = Missing THEN Bare ELSE directory[Name(c)])
  /\ Advance(c, "made")
  /\ FilesOnly /\ UNCHANGED <<legacy, kept>>

SaveEmptyRegistry(c) ==
  /\ CommandAt(c, "made")
  /\ \/ /\ directory[Name(c)] # Missing
        /\ DirectoryBecomes(Name(c), {})
        /\ UNCHANGED profileBudget
     \/ /\ IF directory[Name(c)] = Missing THEN UNCHANGED profileBudget
                                           ELSE SpendProfile("failures")
        /\ DirectoryBecomes(Name(c), Missing)
  /\ registered' = [registered EXCEPT ![Name(c)] = {}]
  /\ Ends(c)
  /\ UNCHANGED <<profileSetting, legacy, kept, pointer>>

-----------------------------------------------------------------------------
(* UseProfile, under the lock of the configuration. *)

StartUse(c, name) ==
  /\ CommandAt(c, "idle") /\ "use" \in profileSetting.kinds
  /\ MayCome
  /\ ~ConfigLocked /\ name \in Present
  /\ SpendProfile("commands")
  /\ command' = [command EXCEPT ![c] = [NoCommand EXCEPT !.stage = "pointing", !.kind = "use",
                                                         !.name = name]]
  /\ UNCHANGED <<profileSetting, pointer, registered>> /\ NoFile

MovePointer(c) ==
  /\ CommandAt(c, "pointing")
  /\ pointer' = Name(c)
  /\ Ends(c)
  /\ UNCHANGED <<profileSetting, registered, profileBudget>> /\ NoFile

-----------------------------------------------------------------------------
(* RemoveProfile: RemoveAll takes the registry some time before the          *)
(* directory.  Unless the setting shrinks, nobody asks for the last profile  *)
(* beside the default to be removed.                                         *)

AcceptRemoval(c) ==
  /\ CommandAt(c, "listed") /\ command[c].kind = "remove"
  /\ IF /\ Name(c) \in command[c].listed \ {Default(c)}
        /\ profileSetting.shrinks \/ Cardinality(command[c].listed) > 2
     THEN Advance(c, "removing")
     ELSE Ends(c)
  /\ FilesOnly /\ NoFile

RemoveState(c) ==
  /\ CommandAt(c, "removing")
  /\ IF Name(c) \in Present
     THEN DirectoryBecomes(Name(c), Bare) /\ UNCHANGED command
     ELSE DirectoryBecomes(Name(c), Missing) /\ Ends(c)
  /\ registered' = [registered EXCEPT ![Name(c)] = {}]
  /\ UNCHANGED <<profileSetting, legacy, kept, pointer, profileBudget>>

-----------------------------------------------------------------------------
(* The user edits the registry that counts; a process dies. *)

EditByHand(content) ==
  /\ MayCome /\ Present \subseteq {pointer} /\ content # legacy
  /\ SpendProfile("edits")
  /\ legacy' = content
  /\ registered' = [registered EXCEPT ![pointer] = content]
  /\ UNCHANGED <<profileSetting, directory, kept, pointer, command>>

CommandDies(c) ==
  /\ ~CommandAt(c, "idle")
  /\ SpendProfile("deaths")
  /\ Ends(c)
  /\ UNCHANGED <<profileSetting, pointer, registered>> /\ NoFile

-----------------------------------------------------------------------------

ProfileInit ==
  /\ profileSetting \in ProfileSettings
  /\ legacy \in RegistryContents
  /\ directory = [p \in Profiles |-> Missing]
  /\ kept = Missing
  /\ pointer = FirstProfile
  /\ command = [c \in Clients |-> NoCommand]
  /\ registered = [p \in Profiles |-> IF p = FirstProfile THEN legacy ELSE {}]
  /\ profileBudget = [what \in {"commands", "edits", "failures", "deaths"}
                        |-> profileSetting[what]]

CommandStep(c) ==
  \/ ReadAgain(c) \/ Resolve(c) \/ KeepBackup(c) \/ PublishDefault(c) \/ ListPresent(c)
  \/ LoadRegistry(c) \/ LoadLegacy(c) \/ \E e \in Members : SaveMember(c, e)
  \/ SaveFails(c) \/ Adopt(c) \/ ClaimName(c) \/ MakeDirectory(c) \/ SaveEmptyRegistry(c)
  \/ MovePointer(c) \/ AcceptRemoval(c) \/ RemoveState(c)

ProfileNext ==
  \/ \E c \in Clients :
       \/ \E kind \in CommandKinds, name \in Profiles : StartCommand(c, kind, name)
       \/ \E name \in Profiles : StartUse(c, name)
       \/ CommandStep(c)
       \/ CommandDies(c)
  \/ \E content \in RegistryContents : EditByHand(content)

ProfileSpec == ProfileInit /\ [][ProfileNext]_profileVars

-----------------------------------------------------------------------------
(* Properties *)

CommandType ==
  [stage: Stages, kind: CommandKinds, name: Profiles, default: Profiles, adopted: Profiles,
   listed: SUBSET Profiles, onLegacy: BOOLEAN, copy: RegistryContents]

ProfileTypeOK ==
  /\ profileSetting \in ProfileSettings
  /\ legacy \in RegistryContents
  /\ DOMAIN directory = Profiles /\ \A p \in Present : directory[p] \in RegistryContents
  /\ kept = Missing \/ kept \in RegistryContents
  /\ pointer \in Profiles
  /\ command \in [Clients -> CommandType]
  /\ registered \in [Profiles -> RegistryContents]
  /\ profileBudget \in [{"commands", "edits", "failures", "deaths"} -> Nat]

(* The registry loadProfile takes for profile p. *)
RegistryOf(p) == IF Present = {p} /\ pointer = p THEN legacy ELSE directory[p]

(* Every profile owns a registry: what a command finds in it is what has     *)
(* been registered in that profile since it was created, no more and no less *)
(* (profiles.go:29, "one independently indexed repository registry"),        *)
(* wherever commands before it ended or died, though the default profile's   *)
(* changes its place when a second one is created.                           *)
ProfilesKeepTheirRegistry == \A p \in Present : RegistryOf(p) = registered[p]

(* An installation is migrated once, and as it was kept: commands that start *)
(* together, die on the way or run after the registry was edited never       *)
(* replace a backup, and never publish a profile that differs from it        *)
(* (profiles.go:53-55).                                                      *)
UpgradeIsWhole ==
  [][/\ kept # Missing => kept' = kept
     /\ \A p \in Profiles :
          directory[p] = Missing /\ directory'[p] \notin {Missing, Bare} => directory'[p] = kept
    ]_profileVars

=============================================================================
