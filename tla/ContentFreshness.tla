-------------------------- MODULE ContentFreshness --------------------------
(***************************************************************************)
(* Whether the sources still match the graph that is served, as one server *)
(* knows it for one profile: the cached observation (internal/freshness),  *)
(* the monitor that turns file events into it and verifies it once, the    *)
(* passes the server runs itself (cmd/kivgraph/profile_indexer.go,         *)
(* internal/indexing), and the follower that changes what is served.       *)
(*                                                                         *)
(* A version of the sources stands for their inventory digest; events      *)
(* arrive some time after the edit they are about.                         *)
(***************************************************************************)
EXTENDS Naturals, FiniteSets

CONSTANTS
  MaxGeneration,     \* bound: generations published in one behaviour
  MaxEdits,          \* bound: edits of the sources
  NoRecord,          \* a generation without a readable attestation
  FreshnessSettings  \* the circumstances one run covers

Versions    == 0 .. MaxEdits
GraphIds    == 0 .. MaxGeneration       \* 0: no generation
States      == {"fresh", "stale", "unverified", "unavailable"}
Status      == [generation : GraphIds, state : States]

(***************************************************************************)
(* Whether the server monitors its sources, how often they are edited,     *)
(* which passes it runs (index: index_project, reindex: the resynchroniser *)
(* and the invalidation scheduler), whether other processes publish,       *)
(* whether a watch or a record may fail, and whether whole directories of  *)
(* sources are moved into a repository.                                    *)
(***************************************************************************)
FreshnessSetting ==
  [monitored: BOOLEAN, edits: Versions, passes: SUBSET {"index", "reindex"},
   others: BOOLEAN, faults: BOOLEAN, directories: BOOLEAN]

ASSUME FreshnessBounds == MaxGeneration \in Nat \ {0} /\ MaxEdits \in Nat
ASSUME NoRecordAssumption == NoRecord \notin Versions
ASSUME FreshnessSettingsAssumption == FreshnessSettings \subseteq FreshnessSetting

VARIABLES
  freshnessSetting,  \* constant in a behaviour
  sources,           \* the version of the registered sources on disk
  builtFrom,         \* the version each generation was built from
  record,            \* the attested version of each generation, or NoRecord
  current,           \* the generation CURRENT names
  serving,           \* the generation the server serves (ActiveID)
  cache,             \* freshness.Cache
  monitor,           \* the freshness monitor
  pass,              \* the pass the server runs, if any
  compared           \* history: generations found equal to the sources

graphVars     == <<builtFrom, record, current>>
freshnessVars == <<freshnessSetting, sources, graphVars, serving, cache, monitor,
                   pass, compared>>

NoVerify   == [generation |-> 0, state |-> "none"]
NoMonitor  == [phase |-> "none", queued |-> FALSE, verify |-> NoVerify]
NewMonitor == [NoMonitor EXCEPT !.phase = "setup"]
IdlePass   == [kind |-> "none", phase |-> "idle", version |-> 0, id |-> 0,
               published |-> FALSE]

Unverified(g) == [generation |-> g, state |-> "unverified"]
Fresh(g)      == [generation |-> g, state |-> "fresh"]

-----------------------------------------------------------------------------
(* The cache. *)

(* Mutant: whatever the observation is about. *)
ReportedOfAny == cache

(* ContentFreshness: what graph_status answers. *)
Reported == IF serving = 0 \/ cache.generation # serving THEN Unverified(serving)
                                                         ELSE cache

Marked(state) ==
  [cache EXCEPT !.state = state]

(* Mutant: a change is of interest only to what was found fresh. *)
MarkStaleIfFresh == cache' = IF cache.state = "fresh" THEN Marked("stale") ELSE cache

(* MarkStale keeps the generation; a second mark changes nothing. *)
MarkStale == cache' = IF cache.state = "stale" THEN cache ELSE Marked("stale")

MarkUnavailable == cache' = Marked("unavailable")

(* StoreIfUnverified: a verification yields to whatever came meanwhile. *)
StoreIfUnverified(status) ==
  cache' = IF cache.state = "unverified" /\ cache.generation = status.generation
           THEN status ELSE cache

-----------------------------------------------------------------------------
(* The monitor. *)

(* The trees are watched; then what nobody has verified yet is verified. *)
MonitorWatches ==
  /\ monitor.phase = "setup"
  /\ monitor' = [phase |-> "watching", queued |-> FALSE,
                 verify |-> IF cache.generation > 0 /\ cache.state = "unverified"
                            THEN [generation |-> cache.generation, state |-> "reading"]
                            ELSE NoVerify]
  /\ UNCHANGED <<freshnessSetting, sources, graphVars, serving, cache, pass, compared>>

(* A registry or a tree that cannot be watched. *)
MonitorFails ==
  /\ freshnessSetting.faults /\ monitor.phase = "setup"
  /\ MarkUnavailable
  /\ monitor' = NoMonitor
  /\ UNCHANGED <<freshnessSetting, sources, graphVars, serving, pass, compared>>

MonitorHears ==
  /\ monitor.phase = "watching" /\ monitor.queued
  /\ MarkStale
  /\ monitor' = [monitor EXCEPT !.queued = FALSE]
  /\ UNCHANGED <<freshnessSetting, sources, graphVars, serving, pass, compared>>

(* The watch reports an error: events may have been lost. *)
WatchFails ==
  /\ freshnessSetting.faults /\ monitor.phase = "watching"
  /\ MarkUnavailable
  /\ monitor' = [monitor EXCEPT !.queued = FALSE]
  /\ UNCHANGED <<freshnessSetting, sources, graphVars, serving, pass, compared>>

(* Check: the record of a generation against an inventory of the sources. *)
CheckedState(g) ==
  IF record[g] = NoRecord THEN {"unverified"}
  ELSE (IF freshnessSetting.faults THEN {"unavailable"} ELSE {})
         \cup {IF record[g] = sources THEN "fresh" ELSE "stale"}

VerifyReads ==
  /\ monitor.verify.state = "reading"
  /\ \E state \in CheckedState(monitor.verify.generation) :
       /\ monitor' = [monitor EXCEPT !.verify.state = state]
       /\ compared' = IF state = "fresh" THEN compared \cup {monitor.verify.generation}
                                         ELSE compared
  /\ UNCHANGED <<freshnessSetting, sources, graphVars, serving, cache, pass>>

VerifyStores ==
  /\ monitor.verify.state \in States
  /\ StoreIfUnverified(monitor.verify)
  /\ monitor' = [monitor EXCEPT !.verify = NoVerify]
  /\ UNCHANGED <<freshnessSetting, sources, graphVars, serving, pass, compared>>

-----------------------------------------------------------------------------
(* The sources. *)

(* A watched file changes: the running monitor will hear of it. *)
Edit ==
  /\ sources < freshnessSetting.edits
  /\ sources' = sources + 1
  /\ monitor' = [monitor EXCEPT !.queued = @ \/ monitor.phase = "watching"]
  /\ UNCHANGED <<freshnessSetting, graphVars, serving, cache, pass, compared>>

(* A directory with sources in it is moved into a repository: one event, for *)
(* the directory, which is no monitored input (monitoredInput); its files    *)
(* are watched from then on, and raise no event of their own.                *)
MoveDirectoryIn ==
  /\ freshnessSetting.directories /\ sources < freshnessSetting.edits
  /\ sources' = sources + 1
  /\ UNCHANGED <<freshnessSetting, graphVars, serving, cache, monitor, pass, compared>>

-----------------------------------------------------------------------------
(* A pass of the server: the gate lets one at a time through. *)

PassAt(phase) == pass.phase = phase
PassGoes(phase) == pass' = [pass EXCEPT !.phase = phase]

PassStarts(kind) ==
  /\ kind \in freshnessSetting.passes /\ PassAt("idle") /\ current < MaxGeneration
  /\ pass' = [IdlePass EXCEPT !.kind = kind, !.phase = "indexing", !.version = sources]
  /\ UNCHANGED <<freshnessSetting, sources, graphVars, serving, cache, monitor, compared>>

(* The sources are not what the pass observed: nothing is published. *)
PassFails ==
  /\ PassAt("indexing") /\ sources # pass.version
  /\ pass' = IdlePass
  /\ UNCHANGED <<freshnessSetting, sources, graphVars, serving, cache, monitor, compared>>

NextGeneration(version) ==
  /\ current' = current + 1
  /\ builtFrom' = [builtFrom EXCEPT ![current + 1] = version]

PassPublishes ==
  /\ PassAt("indexing") /\ sources = pass.version /\ current < MaxGeneration
  /\ NextGeneration(pass.version)
  /\ pass' = [pass EXCEPT !.phase = "recording", !.id = current + 1]
  /\ UNCHANGED <<freshnessSetting, sources, record, serving, cache, monitor, compared>>

(* freshness.Save; a failure only leaves the generation unattested. *)
PassRecords ==
  /\ PassAt("recording")
  /\ \E kept \in {TRUE, ~freshnessSetting.faults} :
       record' = [record EXCEPT ![pass.id] = IF kept THEN pass.version ELSE NoRecord]
  /\ PassGoes("attaching")
  /\ UNCHANGED <<freshnessSetting, sources, builtFrom, current, serving, cache, monitor,
                 compared>>

(* publishActiveSnapshot: the server serves its generation, unless CURRENT   *)
(* has moved on or the follower was there first.                             *)
PassAttaches ==
  /\ PassAt("attaching")
  /\ LET wins == current = pass.id /\ serving < pass.id
     IN  /\ serving' = IF wins THEN pass.id ELSE serving
         /\ pass' = [pass EXCEPT !.phase = "rechecking", !.published = wins]
  /\ UNCHANGED <<freshnessSetting, sources, graphVars, cache, monitor, compared>>

(* CURRENT is read again; markFreshGeneration then asks what is served. *)
PassRechecks ==
  /\ PassAt("rechecking")
  /\ LET own == pass.published /\ current = pass.id /\ serving = pass.id
     IN  /\ pass' = [pass EXCEPT !.phase = "storing", !.published = own]
         /\ compared' = IF own THEN compared \cup {pass.id} ELSE compared
  /\ UNCHANGED <<freshnessSetting, sources, graphVars, serving, cache, monitor>>

(* The service's own observation, if it is about what is served by now. *)
Observation ==
  IF pass.published /\ serving = pass.id THEN Fresh(pass.id) ELSE Unverified(serving)

(* Mutant: the old monitor stays. *)
PassStoresOnly ==
  /\ PassAt("storing")
  /\ cache' = Observation
  /\ pass' = IdlePass
  /\ UNCHANGED <<freshnessSetting, sources, graphVars, serving, monitor, compared>>

(* The observation goes into the cache, over whatever is there. *)
PassStores ==
  /\ PassAt("storing")
  /\ cache' = Observation
  /\ pass' = IF pass.kind = "index" THEN [pass EXCEPT !.phase = "restarting"] ELSE IdlePass
  /\ UNCHANGED <<freshnessSetting, sources, graphVars, serving, monitor, compared>>

(* index_project replaces the monitor: the old one and its events are gone   *)
(* before the new one is set up.                                             *)
PassRestartsMonitor ==
  /\ PassAt("restarting")
  /\ monitor' = NewMonitor
  /\ pass' = IdlePass
  /\ UNCHANGED <<freshnessSetting, sources, graphVars, serving, cache, compared>>

-----------------------------------------------------------------------------
(* Other processes, and the follower of CURRENT. *)

OthersPublish ==
  /\ freshnessSetting.others /\ current < MaxGeneration
  /\ NextGeneration(sources)
  /\ \E kept \in {TRUE, ~freshnessSetting.faults} :
       record' = [record EXCEPT ![current + 1] = IF kept THEN sources ELSE NoRecord]
  /\ UNCHANGED <<freshnessSetting, sources, serving, cache, monitor, pass, compared>>

Follow ==
  /\ serving < current
  /\ serving' = current
  /\ UNCHANGED <<freshnessSetting, sources, graphVars, cache, monitor, pass, compared>>

-----------------------------------------------------------------------------

(* A server starts on an installation that may have a generation, built from *)
(* the sources as they are or as they were, attested or not.                 *)
FreshnessInit ==
  /\ freshnessSetting \in FreshnessSettings
  /\ sources \in {0, 1} \cap 0 .. freshnessSetting.edits
  /\ current \in {0, 1}
  /\ builtFrom = [g \in GraphIds |-> 0]
  /\ \E known \in {0, NoRecord} :
       record = [g \in GraphIds |-> IF g = 1 /\ current = 1 THEN known ELSE NoRecord]
  /\ serving = current
  /\ cache = Unverified(current)
  /\ monitor = IF freshnessSetting.monitored THEN NewMonitor ELSE NoMonitor
  /\ pass = IdlePass
  /\ compared = {}

PassStep ==
  \/ PassFails
  \/ PassPublishes
  \/ PassRecords
  \/ PassAttaches
  \/ PassRechecks
  \/ PassStores
  \/ PassRestartsMonitor

FreshnessNext ==
  \/ MonitorWatches
  \/ MonitorFails
  \/ MonitorHears
  \/ WatchFails
  \/ VerifyReads
  \/ VerifyStores
  \/ Edit
  \/ MoveDirectoryIn
  \/ \E kind \in {"index", "reindex"} : PassStarts(kind)
  \/ PassStep
  \/ OthersPublish
  \/ Follow

(* The goroutines of the server run on. *)
FreshnessFairness ==
  /\ WF_freshnessVars(MonitorWatches)
  /\ WF_freshnessVars(MonitorHears)
  /\ WF_freshnessVars(VerifyReads)
  /\ WF_freshnessVars(VerifyStores)
  /\ WF_freshnessVars(PassStep)
  /\ WF_freshnessVars(Follow)

FreshnessSpec == FreshnessInit /\ [][FreshnessNext]_freshnessVars /\ FreshnessFairness

-----------------------------------------------------------------------------

FreshnessTypeOK ==
  /\ freshnessSetting \in FreshnessSettings
  /\ sources \in Versions
  /\ builtFrom \in [GraphIds -> Versions]
  /\ record \in [GraphIds -> Versions \cup {NoRecord}]
  /\ current \in GraphIds /\ serving \in 0 .. current
  /\ cache \in Status
  /\ monitor \in [phase: {"none", "setup", "watching"}, queued: BOOLEAN,
                  verify: [generation: GraphIds, state: States \cup {"none", "reading"}]]
  /\ pass \in [kind: {"none", "index", "reindex"}, version: Versions, id: GraphIds,
               phase: {"idle", "indexing", "recording", "attaching", "rechecking",
                       "storing", "restarting"}, published: BOOLEAN]
  /\ compared \subseteq GraphIds

(***************************************************************************)
(* graph_status never says fresh of a graph nobody compared: the one it    *)
(* answers for was verified against the sources, or published by a pass of *)
(* this server, whatever the follower installs in between.                 *)
(***************************************************************************)
FreshWasCompared == Reported.state = "fresh" => serving \in compared

(***************************************************************************)
(* "A watched registered input changed after that generation was built" is *)
(* told (landing/src/content/docs/docs/tools/graph-status.md:237): once the *)
(* sources rest, what is reported fresh was built from them.  Where the     *)
(* server runs passes of its own, an edit between the pass's last check and *)
(* its Store escapes; where directories are moved in, they do.              *)
(***************************************************************************)
ChangesAreReported ==
  <>[](freshnessSetting.passes = {} /\ ~freshnessSetting.directories
         /\ Reported.state = "fresh" => builtFrom[serving] = sources)

(***************************************************************************)
(* What is served and attested does not stay unverified: the monitor        *)
(* verifies it at the start, and of what an index_project publishes either  *)
(* its pass attests it or the monitor it starts over verifies it, also when *)
(* the follower installed the generation before the pass could.  What other *)
(* processes or reindexers publish may stay unverified.                     *)
(***************************************************************************)
AttestedIsVerified ==
  LET verifiable == /\ freshnessSetting.monitored /\ freshnessSetting.passes \subseteq {"index"}
                    /\ ~freshnessSetting.others /\ ~freshnessSetting.faults
  IN  []<>(verifiable /\ record[serving] # NoRecord => Reported.state # "unverified")

(* Both of them: in the end the status says what it can, and no more. *)
FreshnessSettles == ChangesAreReported /\ AttestedIsVerified

=============================================================================
