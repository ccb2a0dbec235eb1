---------------------------- MODULE Server_proofs ----------------------------
(***************************************************************************)
(* The server as a whole: each component it hosts behaves, beside the      *)
(* others, as it was specified by itself, so that what the other proof     *)
(* modules show of a component holds of the server.                        *)
(***************************************************************************)
EXTENDS MCServer, Operations_proofs, Sources_proofs, TsWorker_proofs

\* The server begins as each of its components does.
LEMMA ServerBegins ==
  ServerInit =>
    /\ ResyncInit /\ FreshnessInit /\ WorkerInit /\ IndexInit /\ WatchInit
    /\ EndpointInit /\ CacheInit /\ UpdateInit /\ ProfileInit
BY DEF ServerInit

\* A step of the server is a step of one component, and the others stutter.
LEMMA ServerSteps ==
  [ServerNext]_serverVars =>
    /\ [ResyncNext]_resyncVars /\ [FreshnessNext]_freshnessVars /\ [WorkerNext]_workerVars
    /\ [IndexNext]_indexVars /\ [WatchNext]_watchVars /\ [EndpointNext]_endpointVars
    /\ [CacheNext]_factCacheVars /\ [UpdateNext]_updateVars /\ [ProfileNext]_profileVars
<1> SUFFICES ASSUME [ServerNext]_serverVars
             PROVE  /\ [ResyncNext]_resyncVars /\ [FreshnessNext]_freshnessVars
                    /\ [WorkerNext]_workerVars /\ [IndexNext]_indexVars
                    /\ [WatchNext]_watchVars /\ [EndpointNext]_endpointVars
                    /\ [CacheNext]_factCacheVars /\ [UpdateNext]_updateVars
                    /\ [ProfileNext]_profileVars
  OBVIOUS
<1>1. CASE UNCHANGED serverVars
  BY <1>1 DEF serverVars, LoopVars, OtherVars
<1>2. CASE ServerNext
  BY <1>2 DEF ServerNext, LoopVars, OtherVars
<1> QED
  BY <1>1, <1>2

(***************************************************************************)
(* A server hosts its components as they are: whatever it does is, seen    *)
(* from the variables of any of them, what that component may do by itself *)
(* (the server of cmd/kivgraph starts each in goroutines of its own).      *)
(***************************************************************************)
THEOREM ServerHostsComponents ==
  ServerSpec =>
    /\ ResyncSpec /\ FreshnessSpec /\ WorkerSpec /\ IndexingSpec /\ WatchSpec
    /\ EndpointSpec /\ CacheSpec /\ UpdateSpec /\ ProfileSpec
<1>1. ServerSpec => ResyncSpec
  BY ServerBegins, ServerSteps, PTL DEF ServerSpec, ResyncSpec
<1>2. ServerSpec => FreshnessSpec
  BY ServerBegins, ServerSteps, PTL DEF ServerSpec, FreshnessSpec
<1>3. ServerSpec => WorkerSpec
  BY ServerBegins, ServerSteps, PTL DEF ServerSpec, WorkerSpec
<1>4. ServerSpec => IndexingSpec
  BY ServerBegins, ServerSteps, PTL DEF ServerSpec, IndexingSpec
<1>5. ServerSpec => WatchSpec
  BY ServerBegins, ServerSteps, PTL DEF ServerSpec, WatchSpec
<1>6. ServerSpec => EndpointSpec
  BY ServerBegins, ServerSteps, PTL DEF ServerSpec, EndpointSpec
<1>7. ServerSpec => CacheSpec
  BY ServerBegins, ServerSteps, PTL DEF ServerSpec, CacheSpec
<1>8. ServerSpec => UpdateSpec
  BY ServerBegins, ServerSteps, PTL DEF ServerSpec, UpdateSpec
<1>9. ServerSpec => ProfileSpec
  BY ServerBegins, ServerSteps, PTL DEF ServerSpec, ProfileSpec
<1> QED
  BY <1>1, <1>2, <1>3, <1>4, <1>5, <1>6, <1>7, <1>8, <1>9

(***************************************************************************)
(* Every reachable state of a server is well typed, in each of the         *)
(* components it hosts.                                                    *)
(***************************************************************************)
THEOREM ServerTyped == ServerSpec => []ServerTypeOK
<1>1. ResyncTypeOK /\ FreshnessTypeOK /\ WorkerTypeOK /\ JobTypeOK /\ WatchTypeOK
        /\ EndpointTypeOK /\ CacheTypeOK /\ UpdateTypeOK /\ ProfileTypeOK => ServerTypeOK
  BY DEF ServerTypeOK
<1> QED
  BY <1>1, ServerHostsComponents, ResyncTyped, FreshnessTyped, SupervisorTyped, JobsTyped,
     MonitorTyped, EndpointTyped, CacheIsTyped, BundlesTyped, ProfilesTyped, PTL

\* The circumstances the profiles of a server are checked under let commands
\* come in turn, or found an installation.
LEMMA ProfilesInTurn ==
  ASSUME profileSetting \in MCProfileSettings
  PROVE  InTurn \/ Founding
<1>1. /\ ProfileQuiet.kinds = {} /\ ~ProfileQuiet.together /\ ~ProfileQuiet.shrinks
      /\ ProfileQuiet.edits = 0 /\ ProfileQuiet.failures = 0
  BY DEF ProfileQuiet
<1>2. /\ Orderly.kinds = {"register", "create", "use", "remove"}
      /\ ~Orderly.together /\ ~Orderly.shrinks
  BY DEF Orderly, ProfileQuiet
<1>3. \/ ~profileSetting.together /\ ~profileSetting.shrinks
         /\ profileSetting.kinds \in {{}, Orderly.kinds, {"init", "register"}}
      \/ profileSetting.kinds = {"list"}
      \/ profileSetting.kinds = {"create", "use"}
         /\ profileSetting.edits = 0 /\ profileSetting.failures = 0
  BY <1>1, <1>2 DEF MCProfileSettings, Orderly, ProfileQuiet
<1> QED
  BY <1>2, <1>3 DEF InTurn, Founding

(***************************************************************************)
(* What is promised of the components holds in a server that hosts them,   *)
(* for every number of processes, files and commands: the freshness that   *)
(* is told, the worker's calls, the jobs and the registry, the watches,    *)
(* the facts, the bundle, the profiles, the loops that follow HEAD and the *)
(* daemon's address.                                                       *)
(***************************************************************************)
THEOREM ServerIsSafe ==
  ASSUME ProfileSettings \subseteq MCProfileSettings
  PROVE  ServerSpec =>
           /\ []FreshWasCompared
           /\ []ReadinessIsTold /\ []AnswersStayInTheirSession /\ []NothingOutlivesClose
           /\ []AcceptedIsPollable /\ []RegistryIsKept
           /\ []PendingCoversTheGap /\ []WatchFollowsTree
           /\ []FactsAreReproducible
           /\ []BundleSurvives
           /\ []ProfilesKeepTheirRegistry /\ UpgradeIsWhole
           /\ AbandonsOnlyRepeats /\ UrlMovesOnlyIfTaken
<1>1. ProfileTypeOK => InTurn \/ Founding
  BY ProfilesInTurn DEF ProfileTypeOK
<1>2. ProfileSpec => []ProfilesKeepTheirRegistry
  BY <1>1, ProfilesTyped, RegistriesAreKept, PTL
<1> QED
  BY <1>2, ServerHostsComponents, FreshMeansCompared, ReadinessIsAlwaysTold, AnswersStay,
     CloseLeavesNobody, AcceptedStaysPollable, RegistryStaysKept, NothingUntold, WatchIsFresh,
     FactsReproduced, UpdateKeepsABundle, MigrationIsWhole, AbandonedOnlyRepeats, UrlIsStable, PTL

=============================================================================
