------------------------------ MODULE MCServer ------------------------------
(* The components a server hosts beside its stores, each under circumstances *)
(* of its own: in a behaviour one of them runs and the others stay quiet, so *)
(* that one run checks each of them for itself.                              *)
EXTENDS MCResync, MCTsWorker, MCDaemonEndpoint, ContentFreshness, ProjectIndexing,
        SourceWatch, FactCache, BundleUpdate, MCProfileLayout

-----------------------------------------------------------------------------
(* Content freshness. *)

FreshnessQuiet == [monitored |-> FALSE, edits |-> 0, passes |-> {}, others |-> FALSE,
                   faults |-> FALSE, directories |-> FALSE]
Monitored == [FreshnessQuiet EXCEPT !.monitored = TRUE, !.edits = 2]
AllPasses == [Monitored EXCEPT !.passes = {"index", "reindex"}, !.others = TRUE,
                               !.directories = TRUE]

MCFreshnessSettings ==
  {FreshnessQuiet,
   \* Others publish, and watches fail.
   [Monitored EXCEPT !.others = TRUE, !.faults = TRUE],
   \* Only index_project.
   [Monitored EXCEPT !.passes = {"index"}],
   \* Everything with one edit, and all but faults with two.
   [AllPasses EXCEPT !.faults = TRUE, !.edits = 1],
   AllPasses}

-----------------------------------------------------------------------------
(* Registering and indexing. *)

IndexQuiet == [hosts |-> {}, failures |-> FALSE, cancels |-> FALSE, deaths |-> FALSE,
               asked |-> 0]
OneHost == [IndexQuiet EXCEPT !.hosts = One(Hosts), !.asked = MaxOperations]

MCIndexSettings ==
  {IndexQuiet,
   \* As many operations as there may be, and two that fail or are cancelled.
   OneHost,
   [OneHost EXCEPT !.failures = TRUE, !.cancels = TRUE, !.asked = 2],
   \* Two hosts, which may die.
   [OneHost EXCEPT !.hosts = Hosts, !.deaths = TRUE, !.asked = 2]}

-----------------------------------------------------------------------------
(* The source monitor. *)

WatchQuiet == [runs |-> FALSE, initial |-> FALSE, reconciles |-> FALSE, moves |-> FALSE,
               changes |-> 0, losses |-> 0, errors |-> 0, refusals |-> 0]
EventsOnly == [WatchQuiet EXCEPT !.runs = TRUE, !.initial = TRUE, !.changes = 3]
Refusing   == [EventsOnly EXCEPT !.changes = 2, !.refusals = 1]

MCWatchSettings ==
  {WatchQuiet,
   \* Changes alone, and a consumer that refuses once.
   EventsOnly,
   Refusing,
   \* The directory comes and goes.
   [EventsOnly EXCEPT !.initial = FALSE, !.moves = TRUE],
   \* Whatever goes wrong, and the reconciliation.
   [Refusing EXCEPT !.reconciles = TRUE, !.moves = TRUE, !.losses = 1, !.errors = 1]}

-----------------------------------------------------------------------------
(* The fact cache, with a package and a consumer of it. *)

CONSTANTS lib, app

MCProvidersOf == [u \in {lib, app} |-> IF u = app THEN {lib} ELSE {}]

CacheQuiet == [kinds |-> {}, modes |-> {"on"}, passes |-> 0, edits |-> 0, ages |-> FALSE]
FullPasses == [CacheQuiet EXCEPT !.kinds = {"index"}, !.passes = 2, !.edits = 2]

MCCacheSettings ==
  {CacheQuiet,
   \* What a pass leaves behind for the next one.
   FullPasses,
   \* Entries that are verified, and entries that expire.
   [FullPasses EXCEPT !.modes = {"on", "verify"}, !.ages = TRUE, !.edits = 1],
   \* A graph upgrade beside it, while nothing changes.
   [FullPasses EXCEPT !.kinds = Kinds, !.edits = 0]}

-----------------------------------------------------------------------------
(* The update of the installed bundle. *)

UpdateQuiet == [updates |-> 0, rivals |-> FALSE, failures |-> 0, deaths |-> 0]
OneByOne    == [UpdateQuiet EXCEPT !.updates = 3, !.failures = 2, !.deaths = 1]

MCUpdateSettings ==
  {UpdateQuiet,
   OneByOne,
   [UpdateQuiet EXCEPT !.updates = 3, !.rivals = TRUE],
   [OneByOne EXCEPT !.rivals = TRUE]}

-----------------------------------------------------------------------------

(* Component c runs just when it is the hosted one. *)
Runs(c, hosted, setting, quiet) == (setting # quiet) <=> (c = hosted)

\* Nothing happens to a quiet component, whatever it starts with.
QuietFreshness == freshnessSetting = FreshnessQuiet => current = 0
QuietWatch     == watchSetting = WatchQuiet => \A f \in Files : disk[f] = 1
QuietProfiles  == profileSetting = ProfileQuiet => legacy = {}
QuietEndpoint  == daemonSetting = DaemonQuiet => endpoint = NoPort

ServerInit == \E hosted \in 1 .. 9 :
  /\ ResyncInit    /\ Runs(1, hosted, resyncSetting, ResyncQuiet)
  /\ FreshnessInit /\ Runs(2, hosted, freshnessSetting, FreshnessQuiet) /\ QuietFreshness
  /\ WorkerInit    /\ Runs(3, hosted, workerSetting, WorkerQuiet)
  /\ IndexInit     /\ Runs(4, hosted, indexSetting, IndexQuiet)
  /\ WatchInit     /\ Runs(5, hosted, watchSetting, WatchQuiet) /\ QuietWatch
  /\ EndpointInit  /\ Runs(6, hosted, daemonSetting, DaemonQuiet) /\ QuietEndpoint
  /\ CacheInit     /\ Runs(7, hosted, cacheSetting, CacheQuiet)
  /\ UpdateInit    /\ Runs(8, hosted, updateSetting, UpdateQuiet)
  /\ ProfileInit   /\ Runs(9, hosted, profileSetting, ProfileQuiet) /\ QuietProfiles

\* A component takes steps just where it is the one that runs: the quiet
\* setting of each leaves nothing enabled.
LoopVars   == <<resyncVars, freshnessVars, workerVars, indexVars, watchVars>>
OtherVars  == <<endpointVars, factCacheVars, updateVars, profileVars>>

ServerNext ==
  \/ /\ resyncSetting # ResyncQuiet /\ ResyncNext
     /\ UNCHANGED <<freshnessVars, workerVars, indexVars, watchVars, OtherVars>>
  \/ /\ freshnessSetting # FreshnessQuiet /\ FreshnessNext
     /\ UNCHANGED <<resyncVars, workerVars, indexVars, watchVars, OtherVars>>
  \/ /\ workerSetting # WorkerQuiet /\ WorkerNext
     /\ UNCHANGED <<resyncVars, freshnessVars, indexVars, watchVars, OtherVars>>
  \/ /\ indexSetting # IndexQuiet /\ IndexNext
     /\ UNCHANGED <<resyncVars, freshnessVars, workerVars, watchVars, OtherVars>>
  \/ /\ watchSetting # WatchQuiet /\ WatchNext
     /\ UNCHANGED <<resyncVars, freshnessVars, workerVars, indexVars, OtherVars>>
  \/ /\ daemonSetting # DaemonQuiet /\ EndpointNext
     /\ UNCHANGED <<LoopVars, factCacheVars, updateVars, profileVars>>
  \/ /\ cacheSetting # CacheQuiet /\ CacheNext
     /\ UNCHANGED <<LoopVars, endpointVars, updateVars, profileVars>>
  \/ /\ updateSetting # UpdateQuiet /\ UpdateNext
     /\ UNCHANGED <<LoopVars, endpointVars, factCacheVars, profileVars>>
  \/ /\ profileSetting # ProfileQuiet /\ ProfileNext
     /\ UNCHANGED <<LoopVars, endpointVars, factCacheVars, updateVars>>

serverVars == <<LoopVars, OtherVars>>

ServerSpec ==
  /\ ServerInit /\ [][ServerNext]_serverVars
  /\ ResyncFairness /\ FreshnessFairness /\ WorkerFairness /\ WatchFairness
  /\ EndpointFairness

ServerTypeOK ==
  /\ ResyncTypeOK /\ FreshnessTypeOK /\ WorkerTypeOK /\ JobTypeOK /\ WatchTypeOK
  /\ EndpointTypeOK /\ CacheTypeOK /\ UpdateTypeOK /\ ProfileTypeOK

=============================================================================
