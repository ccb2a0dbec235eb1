--------------------------- MODULE ProjectIndexing ---------------------------
(***************************************************************************)
(* Registering and indexing projects: the asynchronous operations of a      *)
(* hosting process (internal/mcp/tools/index_jobs.go), the gate of its      *)
(* profile indexer (cmd/kivgraph/profile_indexer.go), and the service that  *)
(* saves the registry, runs a pass in a child process and puts the registry *)
(* back when it fails (internal/indexing/service.go).  Several processes    *)
(* share the registry file and the published graph.                         *)
(***************************************************************************)
EXTENDS Naturals, FiniteSets, Sequences, SequencesExt

CONSTANTS
  Hosts,           \* processes that host an indexer
  NoHost,
  Projects,        \* names a registry may hold
  Languages,       \* what a project may be registered with
  Unregistered,    \* the entry of a project that is not in the registry
  JobHistory,      \* index_jobs.go:20
  MaxOperations,   \* bound: index operations in one behaviour
  IndexSettings    \* the circumstances one run covers

Operations == 1 .. MaxOperations
Registries == [Projects -> Languages \cup {Unregistered}]
Empty      == [p \in Projects |-> Unregistered]

(* What is asked: one project, or a reindex of what is registered. *)
Requests == {<<>>} \cup UNION {[{p} -> Languages] : p \in Projects}

(***************************************************************************)
(* Which processes run and how much is asked of them, whether passes, the   *)
(* writes around them and the attaching of what was published fail, whether *)
(* callers or hosts give up what is running, and whether hosts die.         *)
(***************************************************************************)
IndexSetting ==
  [hosts: SUBSET Hosts, failures: BOOLEAN, cancels: BOOLEAN, deaths: BOOLEAN,
   asked: 0 .. MaxOperations]

ASSUME JobHistoryAssumption     == JobHistory \in Nat \ {0}
ASSUME MaxOperationsAssumption  == MaxOperations \in Nat
ASSUME IndexSettingsAssumption  == IndexSettings \subseteq IndexSetting
ASSUME UnregisteredAssumption   == Unregistered \notin Languages /\ NoHost \notin Hosts
ASSUME HostsAssumption          == IsFiniteSet(Hosts)

VARIABLES
  indexSetting,   \* constant in a behaviour
  registry,       \* repositories.yaml
  indexed,        \* the registry the published generation was built from
  operations,     \* every index operation, in the order they were asked for
  jobs,           \* per host: the retained job ids, the active one, closed or not
  gate            \* per host: the operation inside, or 0

indexVars == <<indexSetting, registry, indexed, operations, jobs, gate>>

NewOperation(h, job, request) ==
  [host |-> h, job |-> job, request |-> request, phase |-> "asked",
   cancelled |-> FALSE, original |-> Empty, read |-> Empty, changed |-> FALSE]

NoOperation == 0
Asked == DOMAIN operations
NoJobs == [order |-> <<>>, active |-> NoOperation, closed |-> FALSE]

Op(o) == operations[o]
Ended(op, outcome) == [NewOperation(op.host, op.job, op.request) EXCEPT !.phase = outcome]
Goes(o, phase) == operations' = [operations EXCEPT ![o].phase = phase]
Over == {"completed", "failed", "unserved", "dead"}

(* The context of a job belongs to its host, that of a call to its caller. *)
Cancelled(o) ==
  IF Op(o).job THEN jobs[Op(o).host].closed ELSE Op(o).cancelled

-----------------------------------------------------------------------------
(* The operations of one host (IndexJobs). *)

(* start: one at a time; a second one is refused and changes nothing. *)
StartJob(h, request) ==
  /\ h \in indexSetting.hosts /\ Len(operations) < indexSetting.asked
  /\ jobs[h].active = NoOperation
  /\ operations' = Append(operations, NewOperation(h, TRUE, request))
  /\ jobs' = [jobs EXCEPT ![h].order = Append(@, Len(operations) + 1),
                          ![h].active = Len(operations) + 1]
  /\ UNCHANGED <<indexSetting, registry, indexed, gate>>

(* Mutant: the latest are forgotten. *)
PrunedLatest(order) ==
  IF Len(order) <= JobHistory THEN order ELSE SubSeq(order, 1, JobHistory)

(* pruneLocked: the oldest are forgotten, beyond the history. *)
Pruned(order) ==
  IF Len(order) <= JobHistory THEN order
  ELSE SubSeq(order, Len(order) - JobHistory + 1, Len(order))

(* run, when the indexer has returned: a job's outcome can be polled. *)
JobsAfter(o) ==
  IF ~Op(o).job THEN jobs
  ELSE [jobs EXCEPT ![Op(o).host].active = NoOperation,
                    ![Op(o).host].order = Pruned(@)]

(* Close: what runs in the background of this host is cancelled. *)
CloseJobs(h) ==
  /\ indexSetting.cancels /\ h \in indexSetting.hosts /\ ~jobs[h].closed
  /\ jobs' = [jobs EXCEPT ![h].closed = TRUE]
  /\ UNCHANGED <<indexSetting, registry, indexed, operations, gate>>

-----------------------------------------------------------------------------
(* index_project and the reindexers, which hold their caller's context. *)

CallIndex(h, request) ==
  /\ h \in indexSetting.hosts /\ Len(operations) < indexSetting.asked
  /\ operations' = Append(operations, NewOperation(h, FALSE, request))
  /\ UNCHANGED <<indexSetting, registry, indexed, jobs, gate>>

CallerLeaves(o) ==
  /\ indexSetting.cancels /\ ~Op(o).job /\ Op(o).phase \notin Over /\ ~Op(o).cancelled
  /\ operations' = [operations EXCEPT ![o].cancelled = TRUE]
  /\ UNCHANGED <<indexSetting, registry, indexed, jobs, gate>>

-----------------------------------------------------------------------------
(* IndexProjects and Reindex. *)

(* Every way out leaves the gate and, for a job, tells the outcome. *)
Leave(o, outcome) ==
  /\ operations' = [operations EXCEPT ![o] = Ended(Op(o), outcome)]
  /\ gate' = [gate EXCEPT ![Op(o).host] = IF @ = o THEN NoOperation ELSE @]
  /\ jobs' = JobsAfter(o)

(* upsertRepository over the registry the operation has read. *)
Candidate(o) ==
  [p \in Projects |-> IF p \in DOMAIN Op(o).request THEN Op(o).request[p]
                                                    ELSE Op(o).original[p]]

(* Mutant: no gate. *)
EnterUngated(o) ==
  /\ Op(o).phase = "asked"
  /\ gate' = [gate EXCEPT ![Op(o).host] = o]
  /\ operations' = [operations EXCEPT ![o].phase = "loaded", ![o].original = registry]
  /\ UNCHANGED <<indexSetting, registry, indexed, jobs>>

(* The gate of the process, then the configuration is read. *)
Enter(o) ==
  /\ Op(o).phase = "asked" /\ gate[Op(o).host] = NoOperation
  /\ gate' = [gate EXCEPT ![Op(o).host] = o]
  /\ operations' = [operations EXCEPT ![o].phase = "loaded", ![o].original = registry]
  /\ UNCHANGED <<indexSetting, registry, indexed, jobs>>

GiveUpWaiting(o) ==
  /\ Op(o).phase = "asked" /\ Cancelled(o)
  /\ Leave(o, "failed")
  /\ UNCHANGED <<indexSetting, registry, indexed>>

(* A candidate that changes nothing leaves the file alone. *)
SaveRegistry(o) ==
  /\ Op(o).phase = "loaded" /\ ~Cancelled(o)
  /\ registry' = IF Candidate(o) # Op(o).original THEN Candidate(o) ELSE registry
  /\ operations' = [operations EXCEPT ![o].phase = "saved",
                                      ![o].changed = Candidate(o) # Op(o).original]
  /\ UNCHANGED <<indexSetting, indexed, jobs, gate>>

(* The request, its registry or the write is refused: nothing was changed. *)
Refuse(o) ==
  /\ Op(o).phase = "loaded" /\ (indexSetting.failures \/ Cancelled(o))
  /\ Leave(o, "failed")
  /\ UNCHANGED <<indexSetting, registry, indexed>>

(* The child reads the registry from disk. *)
PassReads(o) ==
  /\ Op(o).phase = "saved" /\ ~Cancelled(o)
  /\ operations' = [operations EXCEPT ![o].phase = "passing", ![o].read = registry]
  /\ UNCHANGED <<indexSetting, registry, indexed, jobs, gate>>

(* The child's generation becomes the published one; its report follows. *)
ChildPublishes(o) ==
  /\ Op(o).phase \in {"passing", "orphan"}
  /\ indexed' = Op(o).read
  /\ IF Op(o).phase = "passing" THEN Goes(o, "published")
     ELSE operations' = [operations EXCEPT ![o] = Ended(Op(o), "dead")]
  /\ UNCHANGED <<indexSetting, registry, jobs, gate>>

(* The pass fails; or its context ends and the child is killed, before or     *)
(* after it published: either way there is no report.                        *)
PassFailsOrDies(o) ==
  /\ \/ Op(o).phase = "passing" /\ indexSetting.failures
     \/ Op(o).phase \in {"saved", "passing", "published"} /\ Cancelled(o)
  /\ Goes(o, "restoring")
  /\ UNCHANGED <<indexSetting, registry, indexed, jobs, gate>>

OrphanFails(o) ==
  /\ Op(o).phase = "orphan"
  /\ operations' = [operations EXCEPT ![o] = Ended(Op(o), "dead")]
  /\ UNCHANGED <<indexSetting, registry, indexed, jobs, gate>>

(* The registry as it was read goes back over the file. *)
RestoreRegistry(o) ==
  /\ Op(o).phase = "restoring"
  /\ registry' = IF Op(o).changed THEN Op(o).original ELSE registry
  /\ Leave(o, "failed")
  /\ UNCHANGED <<indexSetting, indexed>>

Complete(o) ==
  /\ Op(o).phase = "published"
  /\ Leave(o, "completed")
  /\ UNCHANGED <<indexSetting, registry, indexed>>

(* What was published cannot be attached: an error, the registry stays. *)
FailToServe(o) ==
  /\ Op(o).phase = "published" /\ (indexSetting.failures \/ Cancelled(o))
  /\ Leave(o, "unserved")
  /\ UNCHANGED <<indexSetting, registry, indexed>>

(* A host dies and starts again: its children live on without a parent. *)
HostDies(h) ==
  /\ indexSetting.deaths /\ h \in indexSetting.hosts
  /\ \E o \in Asked : Op(o).host = h /\ Op(o).phase \notin Over
  /\ operations' = [o \in Asked |->
       IF Op(o).host # h THEN Op(o)
       ELSE IF Op(o).phase \in {"passing", "orphan"}
            THEN [Ended(Op(o), "orphan") EXCEPT !.read = Op(o).read]
            ELSE Ended(Op(o), "dead")]
  /\ jobs' = [jobs EXCEPT ![h] = NoJobs]
  /\ gate' = [gate EXCEPT ![h] = NoOperation]
  /\ UNCHANGED <<indexSetting, registry, indexed>>

-----------------------------------------------------------------------------

IndexInit ==
  /\ indexSetting \in IndexSettings
  /\ registry = Empty /\ indexed = Empty
  /\ operations = <<>>
  /\ jobs = [h \in Hosts |-> NoJobs]
  /\ gate = [h \in Hosts |-> NoOperation]

OperationStep(o) ==
  \/ GiveUpWaiting(o)
  \/ SaveRegistry(o)
  \/ Refuse(o)
  \/ PassReads(o)
  \/ ChildPublishes(o)
  \/ PassFailsOrDies(o)
  \/ OrphanFails(o)
  \/ RestoreRegistry(o)
  \/ Complete(o)
  \/ FailToServe(o)

IndexNext ==
  \/ \E h \in Hosts, request \in Requests : StartJob(h, request)
  \/ \E h \in Hosts, request \in Requests : CallIndex(h, request)
  \/ \E h \in Hosts : CloseJobs(h)
  \/ \E h \in Hosts : HostDies(h)
  \/ \E o \in Asked : CallerLeaves(o)
  \/ \E o \in Asked : Enter(o)
  \/ \E o \in Asked : OperationStep(o)

IndexingSpec == IndexInit /\ [][IndexNext]_indexVars

-----------------------------------------------------------------------------

JobTypeOK ==
  /\ indexSetting \in IndexSettings
  /\ registry \in Registries /\ indexed \in Registries
  /\ Asked \subseteq Operations
  /\ \A o \in Asked : Op(o) \in
       [host: Hosts, job: BOOLEAN, request: Requests,
        phase: {"asked", "loaded", "saved", "passing", "published", "restoring",
                "orphan"} \cup Over,
        cancelled: BOOLEAN, original: Registries, read: Registries, changed: BOOLEAN]
  /\ \A h \in Hosts :
       /\ ToSet(jobs[h].order) \subseteq Asked /\ Len(jobs[h].order) <= JobHistory + 1
       /\ jobs[h].active \in Operations \cup {NoOperation} /\ jobs[h].closed \in BOOLEAN
       /\ gate[h] \in Operations \cup {NoOperation}

(***************************************************************************)
(* "Completed history is bounded to the latest 32 operations" (ADR 0114):   *)
(* an operation that was accepted can be polled until as many newer ones    *)
(* were accepted and have ended, and the one that works always can.         *)
(***************************************************************************)
AcceptedIsPollable ==
  \A o \in Asked :
    (Op(o).job /\ Op(o).phase \notin {"dead", "orphan"}) =>
      LET h == Op(o).host
          newer == {n \in Asked : n > o /\ Op(n).host = h /\ Op(n).job}
      IN  \/ o \in ToSet(jobs[h].order)
          \/ Cardinality(newer) >= JobHistory /\ Op(o).phase \in Over

(***************************************************************************)
(* A process by itself keeps the registry and the graph together: when no   *)
(* operation is inside, the published graph was built from exactly what is  *)
(* registered, whatever failed, in whatever order calls and jobs came.      *)
(* It takes one process, that does not die, and contexts that do not end:   *)
(* a child killed after it published leaves its graph and loses its entry,  *)
(* and two processes overwrite each other's registrations.                  *)
(***************************************************************************)
RegistryIsIndexed ==
  Cardinality(indexSetting.hosts) <= 1 /\ ~indexSetting.deaths /\ ~indexSetting.cancels
    => ((\A h \in Hosts : gate[h] = NoOperation) => indexed = registry)

(***************************************************************************)
(* What one operation registered successfully is not lost to another one of *)
(* the same process that fails or is cancelled: its registry is read inside *)
(* the gate, so the copy it restores holds everything that came before.     *)
(***************************************************************************)
SuccessStaysRegistered ==
  Cardinality(indexSetting.hosts) <= 1 /\ ~indexSetting.deaths =>
    \A o \in Asked : Op(o).phase = "completed" =>
      \A p \in DOMAIN Op(o).request : registry[p] # Unregistered

(* The registry a pass is saved and restored around (service.go:256-271) is  *)
(* neither left ahead of the graph nor put back over another one's success.  *)
RegistryIsKept == RegistryIsIndexed /\ SuccessStaysRegistered

=============================================================================
