------------------------------ MODULE FactCache ------------------------------
(***************************************************************************)
(* The fact cache of internal/indexer/factcache.go between passes: what an  *)
(* analysis is keyed by and when that is looked at, what a pass stages, and *)
(* when its caller admits it.  Two callers run passes over one cache        *)
(* directory: RunFull (internal/indexing/full.go), which observes the       *)
(* sources before and verifies them before it publishes, and the graph      *)
(* upgrade (internal/upgrade/upgrade.go), which does neither.               *)
(*                                                                         *)
(* A content is a version; an analysis yields what it read of each of its   *)
(* inputs, one input at a time, so that its facts are those of a consistent *)
(* source only if they are the versions of one moment.                      *)
(***************************************************************************)
EXTENDS Naturals

CONSTANTS
  Units,           \* analysis units, each with the tree it is analysed from
  ProvidersOf,     \* the units whose trees a unit's analysis reads as providers
  Revisions,       \* what a tree may hold
  CacheSettings    \* the circumstances one run covers

(* Its own tree stands for every local input: configuration and lockfiles.   *)
InputsOf(u) == {u} \cup ProvidersOf[u]

(* RunFull holds analyzer-targets.lock, so there is one of it; the model has *)
(* one upgrade at a time as well.                                            *)
Kinds == {"index", "upgrade"}

(* Which passes run and in which mode, how many, and how often an input is  *)
(* edited; whether entries age until they are pruned.                       *)
CacheSetting == [kinds: SUBSET Kinds, modes: SUBSET {"on", "verify"}, passes: Nat,
                 edits: Nat, ages: BOOLEAN]

ASSUME ProvidersAssumption ==
  ProvidersOf \in [Units -> SUBSET Units] /\ \A u \in Units : u \notin ProvidersOf[u]
ASSUME CacheSettingsAssumption == CacheSettings \subseteq CacheSetting
ASSUME RevisionsAssumption == Revisions # {}

VARIABLES
  cacheSetting,  \* constant in a behaviour
  content,         \* the inputs as they are
  entries,       \* the cache directory
  cachePass,     \* per kind: how far its pass is, its mode, and the sources it observed
  memo,         \* fingerprintMemo: of the local trees, and of the providers
  analysis,      \* per unit of the pass: its result, or what it has read so far
  staged,        \* the pass's staging directory
  unseen,        \* history: an input was edited where no gate of a running pass looks
  cacheBudget    \* bound: passes and edits still to come

passVars  == <<cachePass, memo, analysis, staged>>
factCacheVars == <<cacheSetting, content, entries, passVars, unseen, cacheBudget>>

NoMemo     == [local |-> <<>>, provider |-> <<>>]
Unanalysed == [phase |-> "waiting", facts |-> <<>>, stored |-> {}]
PassOver     == [stage |-> "idle", mode |-> "on", observed |-> <<>>]

Sources == [u \in Units |-> content[u]]
Unchanged(k) == cachePass[k].observed = Sources
SameAddress(e, f) == e.unit = f.unit /\ e.seen[e.unit] = f.seen[f.unit]

-----------------------------------------------------------------------------
(* The pass and its end.  An error, a cancellation or the death of the       *)
(* process leaves at most a staging directory that nobody reads.             *)

EndPass(k) ==
  /\ cachePass' = [cachePass EXCEPT ![k] = PassOver]
  /\ memo' = [memo EXCEPT ![k] = NoMemo]
  /\ analysis' = [analysis EXCEPT ![k] = [u \in Units |-> Unanalysed]]
  /\ staged' = [staged EXCEPT ![k] = {}]

Step(k, stage) == cachePass' = [cachePass EXCEPT ![k].stage = stage]

(* RunFull up to FullWithRepositories: ObserveSources and freshness.Capture  *)
(* look at the same sources.  Upgrade's Run calls Full right away.           *)
BeginPass(k, mode) ==
  /\ k \in cacheSetting.kinds /\ mode \in cacheSetting.modes
  /\ cachePass[k].stage = "idle" /\ cacheBudget.passes > 0
  /\ cacheBudget' = [cacheBudget EXCEPT !.passes = @ - 1]
  /\ cachePass' = [cachePass EXCEPT ![k] =
       [stage |-> "analysing", mode |-> mode,
        observed |-> IF k = "index" THEN Sources ELSE <<>>]]
  /\ UNCHANGED <<cacheSetting, content, entries, memo, analysis, staged, unseen>>

Abandon(k) ==
  /\ cachePass[k].stage # "idle"
  /\ EndPass(k)
  /\ UNCHANGED <<cacheSetting, content, entries, unseen, cacheBudget>>

-----------------------------------------------------------------------------
(* One unit: factCache.analyse. *)

(* compute: an input is looked at once in a pass. *)
Memoised(known, inputs) ==
  [i \in DOMAIN known \cup inputs |-> IF i \in DOMAIN known THEN known[i] ELSE content[i]]

(* describeInputs: what is local was fingerprinted for the address already,  *)
(* and a provider is under a key of its own.                                 *)
Described(u, local, provider) ==
  [i \in InputsOf(u) |-> IF i = u THEN local[i] ELSE provider[i]]

(* localAddress and load, before any analysis: the entry at the address is   *)
(* good if every provider it recorded still looks the same.  The fingerprints *)
(* are taken at one moment.                                                   *)
Look(k, u) ==
  /\ cachePass[k].stage = "analysing" /\ analysis[k][u].phase = "waiting"
  /\ LET local     == Memoised(memo[k].local, {u})
         addressed == {e \in entries : e.unit = u /\ e.seen[u] = local[u]}
         provider  == IF addressed = {} THEN memo[k].provider
                      ELSE Memoised(memo[k].provider, ProvidersOf[u])
         good      == {e \in addressed : \A i \in ProvidersOf[u] : e.seen[i] = provider[i]}
     IN  /\ memo' = [memo EXCEPT ![k] = [local |-> local, provider |-> provider]]
         /\ \/ /\ good # {} /\ cachePass[k].mode = "on"
               /\ analysis' = [analysis EXCEPT ![k][u] =
                    [phase |-> "done", facts |-> (CHOOSE e \in good : TRUE).facts,
                     stored |-> {}]]
            \/ /\ good = {} \/ cachePass[k].mode = "verify"
               /\ analysis' = [analysis EXCEPT ![k][u] =
                    [phase |-> "reading", facts |-> <<>>, stored |-> {e.facts : e \in good}]]
  /\ UNCHANGED <<cacheSetting, content, entries, cachePass, staged, unseen, cacheBudget>>

(* analyseUnit, reading one input. *)
ReadInput(k, u, i) ==
  /\ analysis[k][u].phase = "reading" /\ i \in InputsOf(u) \ DOMAIN analysis[k][u].facts
  /\ analysis' = [analysis EXCEPT ![k][u].facts =
       [j \in DOMAIN @ \cup {i} |-> IF j = i THEN content[i] ELSE @[j]]]
  /\ UNCHANGED <<cacheSetting, content, entries, cachePass, memo, staged, unseen, cacheBudget>>

Analysed(k, u) ==
  analysis[k][u].phase = "reading" /\ DOMAIN analysis[k][u].facts = InputsOf(u)
Settle(k, u) == analysis' = [analysis EXCEPT ![k][u].phase = "done", ![k][u].stored = {}]

(* Mutant: the entry is admitted at once. *)
StoreUnstaged(k, u) ==
  /\ Analysed(k, u) /\ analysis[k][u].stored = {}
  /\ Settle(k, u)
  /\ LET provider == Memoised(memo[k].provider, ProvidersOf[u])
         entry    == [unit |-> u, seen |-> Described(u, memo[k].local, provider),
                      facts |-> analysis[k][u].facts]
     IN  /\ memo' = [memo EXCEPT ![k].provider = provider]
         /\ entries' = {e \in entries : ~SameAddress(e, entry)} \cup {entry}
  /\ UNCHANGED <<cacheSetting, content, cachePass, staged, unseen, cacheBudget>>

(* store: the providers are fingerprinted after the analysis that read them. *)
Store(k, u) ==
  /\ Analysed(k, u) /\ analysis[k][u].stored = {}
  /\ Settle(k, u)
  /\ LET provider == Memoised(memo[k].provider, ProvidersOf[u])
     IN  /\ memo' = [memo EXCEPT ![k].provider = provider]
         /\ staged' = [staged EXCEPT ![k] = @ \cup
              {[unit |-> u, seen |-> Described(u, memo[k].local, provider),
                facts |-> analysis[k][u].facts]}]
  /\ UNCHANGED <<cacheSetting, content, entries, cachePass, unseen, cacheBudget>>

(* A unit that could not be loaded is not stored. *)
NotLoaded(k, u) ==
  /\ Analysed(k, u) /\ analysis[k][u].stored = {}
  /\ Settle(k, u)
  /\ UNCHANGED <<cacheSetting, content, entries, cachePass, memo, staged, unseen, cacheBudget>>

(* CacheVerify: the stored facts must be the ones found. *)
Compare(k, u) ==
  /\ Analysed(k, u) /\ analysis[k][u].stored # {}
  /\ IF analysis[k][u].facts \in analysis[k][u].stored
     THEN Settle(k, u) /\ UNCHANGED <<cachePass, memo, staged>>
     ELSE EndPass(k)
  /\ UNCHANGED <<cacheSetting, content, entries, unseen, cacheBudget>>

-----------------------------------------------------------------------------
(* After the analysis. *)

(* The end of analyse, with prune, and the merge.  Full then commits; RunFull *)
(* has its gates first.                                                       *)
Merge(k) ==
  /\ cachePass[k].stage = "analysing" /\ \A u \in Units : analysis[k][u].phase = "done"
  /\ Step(k, IF k = "index" THEN "merged" ELSE "committing")
  /\ \E aged \in SUBSET entries :
       /\ aged # {} => cacheSetting.ages
       /\ entries' = entries \ aged
  /\ UNCHANGED <<cacheSetting, content, memo, analysis, staged, unseen, cacheBudget>>

(* The second freshness.Capture. *)
Recheck ==
  /\ cachePass["index"].stage = "merged"
  /\ IF Unchanged("index") THEN Step("index", "checked") /\ UNCHANGED <<memo, analysis, staged>>
                           ELSE EndPass("index")
  /\ UNCHANGED <<cacheSetting, content, entries, unseen, cacheBudget>>

(* rebuild.Run, whose last gate is VerifySources. *)
PublishFacts ==
  /\ cachePass["index"].stage = "checked"
  /\ IF Unchanged("index") THEN Step("index", "committing") /\ UNCHANGED <<memo, analysis, staged>>
                           ELSE EndPass("index")
  /\ UNCHANGED <<cacheSetting, content, entries, unseen, cacheBudget>>

(* commit, one staged entry; or its rename fails, and it is removed. *)
Commit(k, entry) ==
  /\ cachePass[k].stage = "committing" /\ entry \in staged[k]
  /\ staged' = [staged EXCEPT ![k] = @ \ {entry}]
  /\ \/ entries' = {e \in entries : ~SameAddress(e, entry)} \cup {entry}
     \/ UNCHANGED entries
  /\ UNCHANGED <<cacheSetting, content, cachePass, memo, analysis, unseen, cacheBudget>>

(* Run returns; of the upgrade, rebuild.Run comes here, with nothing to      *)
(* verify its facts against.                                                 *)
Return(k) ==
  /\ cachePass[k].stage = "committing" /\ staged[k] = {}
  /\ EndPass(k)
  /\ UNCHANGED <<cacheSetting, content, entries, unseen, cacheBudget>>

-----------------------------------------------------------------------------

Running(k) == cachePass[k].stage # "idle"

(* Where a running pass would not notice: its looks at the sources tell      *)
(* nothing of what was changed and changed back, and an upgrade does not     *)
(* look at all.                                                              *)
SlipsBy(i, version) ==
  \/ Running("upgrade")
  \/ Running("index") /\ cachePass["index"].observed[i] = version

EditInput(i, version) ==
  /\ version # content[i]
  /\ cacheBudget.edits > 0
  /\ cacheBudget' = [cacheBudget EXCEPT !.edits = @ - 1]
  /\ content' = [content EXCEPT ![i] = version]
  /\ unseen' = (unseen \/ SlipsBy(i, version))
  /\ UNCHANGED <<cacheSetting, entries, passVars>>

(* An empty cache; the versions are interchangeable. *)
CacheInit ==
  /\ cacheSetting \in CacheSettings
  /\ content = [i \in Units |-> CHOOSE version \in Revisions : TRUE]
  /\ entries = {}
  /\ cachePass = [k \in Kinds |-> PassOver]
  /\ memo = [k \in Kinds |-> NoMemo]
  /\ analysis = [k \in Kinds |-> [u \in Units |-> Unanalysed]]
  /\ staged = [k \in Kinds |-> {}]
  /\ unseen = FALSE
  /\ cacheBudget = [passes |-> cacheSetting.passes, edits |-> cacheSetting.edits]

UnitStep(k, u) ==
  \/ Look(k, u)
  \/ \E i \in InputsOf(u) : ReadInput(k, u, i)
  \/ Store(k, u)
  \/ NotLoaded(k, u)
  \/ Compare(k, u)

CachePassStep(k) ==
  \/ \E mode \in {"on", "verify"} : BeginPass(k, mode)
  \/ \E u \in Units : UnitStep(k, u)
  \/ Merge(k)
  \/ \E entry \in staged[k] : Commit(k, entry)
  \/ Return(k)
  \/ Abandon(k)

CacheNext ==
  \/ \E k \in Kinds : CachePassStep(k)
  \/ Recheck
  \/ PublishFacts
  \/ \E i \in Units, version \in Revisions : EditInput(i, version)

CacheSpec == CacheInit /\ [][CacheNext]_factCacheVars

-----------------------------------------------------------------------------

FactsOf(u) == [InputsOf(u) -> Revisions]
Entries    == UNION {[unit: {u}, seen: FactsOf(u), facts: FactsOf(u)] : u \in Units}

CacheTypeOK ==
  /\ cacheSetting \in CacheSettings
  /\ content \in [Units -> Revisions]
  /\ entries \subseteq Entries
  /\ \A e, f \in entries : SameAddress(e, f) => e = f
  /\ cachePass \in [Kinds -> [stage: {"idle", "analysing", "merged", "checked", "committing"},
                         mode: {"on", "verify"},
                         observed: [Units -> Revisions] \cup {<<>>}]]
  /\ \A k \in Kinds :
       /\ staged[k] \subseteq Entries
       /\ \A i \in DOMAIN memo[k].local    : i \in Units /\ memo[k].local[i] \in Revisions
       /\ \A i \in DOMAIN memo[k].provider : i \in Units /\ memo[k].provider[i] \in Revisions
       /\ \A u \in Units :
            /\ analysis[k][u].phase \in {"waiting", "reading", "done"}
            /\ analysis[k][u].stored \subseteq FactsOf(u)
            /\ \A i \in DOMAIN analysis[k][u].facts :
                 i \in InputsOf(u) /\ analysis[k][u].facts[i] \in Revisions
  /\ unseen \in BOOLEAN
  /\ cacheBudget \in [passes: Nat, edits: Nat]

(***************************************************************************)
(* "an entry is valid exactly while the fingerprints it recorded still      *)
(* describe the content" (factcache.go:142): its facts are those of the       *)
(* contents it fingerprinted.                                               *)
(***************************************************************************)
EntriesDescribeTheirInputs == \A e \in entries : e.facts = e.seen

(***************************************************************************)
(* Unless an edit slips past the gates of the pass it happens in, the cache *)
(* gives only facts a fresh analysis would give, however the edits fall     *)
(* between the fingerprints, the analysis, the gates and the commit, and    *)
(* whatever became of the passes before; and a graph a full pass published, *)
(* out of the cache or not, has the facts of the sources its manifest says. *)
(***************************************************************************)
FactsAreReproducible ==
  ~unseen =>
    /\ EntriesDescribeTheirInputs
    /\ cachePass["index"].stage = "committing" =>
         \A u \in Units : \A i \in InputsOf(u) :
           analysis["index"][u].facts[i] = cachePass["index"].observed[i]

=============================================================================
