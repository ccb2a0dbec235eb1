--------------------------- MODULE Sources_proofs ---------------------------
(***************************************************************************)
(* Theorems about what a server knows of its sources, for any files,       *)
(* units, budgets and circumstances: the facts the cache gives are those   *)
(* of the sources (FactCache), the source monitor keeps its consumer and   *)
(* its watches up with the tree (SourceWatch), and graph_status never says *)
(* fresh of a graph nobody compared (ContentFreshness).                    *)
(***************************************************************************)
EXTENDS FactCache, SourceWatch, ContentFreshness, TLAPS

-----------------------------------------------------------------------------
(* The fact cache: the types. *)

PassStages == {"idle", "analysing", "merged", "checked", "committing"}

\* Some inputs, each with a version.
Fingerprints == UNION {[D -> Revisions] : D \in SUBSET Units}

CachePasses ==
  [stage: PassStages, mode: {"on", "verify"}, observed: [Units -> Revisions] \cup {<<>>}]
Memos    == [local: Fingerprints, provider: Fingerprints]
Analyses == [phase: {"waiting", "reading", "done"}, facts: Fingerprints,
             stored: SUBSET Fingerprints]

Typed ==
  /\ cacheSetting \in CacheSettings
  /\ content \in [Units -> Revisions]
  /\ entries \subseteq Entries
  /\ cachePass \in [Kinds -> CachePasses]
  /\ memo \in [Kinds -> Memos]
  /\ analysis \in [Kinds -> [Units -> Analyses]]
  /\ staged \in [Kinds -> SUBSET Entries]
  /\ unseen \in BOOLEAN
  /\ cacheBudget \in [passes: Nat, edits: Nat]

\* A pass that is over holds nothing.
Resting(k) ==
  /\ memo[k] = NoMemo /\ staged[k] = {}
  /\ \A u \in Units : analysis[k][u] = Unanalysed

\* How far a pass may be: what an analysis has read, and what it is keyed by.
Analysing(k, u) ==
  /\ DOMAIN analysis[k][u].facts \subseteq InputsOf(u)
  /\ analysis[k][u].stored \subseteq FactsOf(u)
  /\ analysis[k][u].phase # "waiting" => u \in DOMAIN memo[k].local
  /\ analysis[k][u].phase = "done" => DOMAIN analysis[k][u].facts = InputsOf(u)

Progressing(k) ==
  /\ cachePass[k].stage = "idle" => Resting(k)
  /\ k = "index" /\ cachePass[k].stage # "idle"
       => cachePass[k].observed \in [Units -> Revisions]
  /\ \A u \in Units :
       /\ Analysing(k, u)
       /\ cachePass[k].stage \in {"merged", "checked", "committing"}
            => analysis[k][u].phase = "done"

Shape == Typed /\ \A k \in Kinds : Progressing(k)

-----------------------------------------------------------------------------
(* The fact cache: what it knows. *)

\* Whatever pass k has noted of input i is version v.
Says(k, i, v) ==
  /\ i \in DOMAIN memo[k].local => memo[k].local[i] = v
  /\ i \in DOMAIN memo[k].provider => memo[k].provider[i] = v
  /\ \A u \in Units : i \in DOMAIN analysis[k][u].facts => analysis[k][u].facts[i] = v
  /\ \A e \in staged[k] : i \in InputsOf(e.unit) => e.seen[i] = v /\ e.facts[i] = v

\* The version pass k stands for, and whether it is known to be what it read: nobody
\* edits under an upgrade, and an input a pass observed is as it was, or was so when
\* the last gate was passed.
Version(k, i) == IF k = "upgrade" THEN content[i] ELSE cachePass[k].observed[i]
InputSettled(k, i) ==
  k = "upgrade" \/ cachePass[k].stage = "committing" \/ content[i] = cachePass[k].observed[i]

Honest ==
  \A k \in Kinds : Running(k) =>
    \A i \in Units : InputSettled(k, i) => Says(k, i, Version(k, i))

Reproducible == ~unseen => EntriesDescribeTheirInputs /\ Honest

-----------------------------------------------------------------------------
(* Functions from some of the units. *)

LEMMA InputsAreUnits ==
  ASSUME NEW u \in Units
  PROVE  /\ InputsOf(u) \subseteq Units /\ u \in InputsOf(u)
         /\ ProvidersOf[u] \subseteq Units /\ InputsOf(u) = {u} \cup ProvidersOf[u]
BY ProvidersAssumption DEF InputsOf

LEMMA NothingRead == <<>> \in Fingerprints /\ DOMAIN <<>> = {}
<1>1. <<>> = [i \in {} |-> CHOOSE v \in Revisions : TRUE]
  OBVIOUS
<1>2. <<>> \in [{} -> Revisions] /\ {} \in SUBSET Units
  BY <1>1
<1> QED
  BY <1>2 DEF Fingerprints

LEMMA FingerprintOf ==
  ASSUME NEW f \in Fingerprints
  PROVE  /\ DOMAIN f \subseteq Units /\ f \in [DOMAIN f -> Revisions]
         /\ \A i \in DOMAIN f : f[i] \in Revisions
BY DEF Fingerprints

LEMMA IsFingerprint ==
  ASSUME NEW D \in SUBSET Units, NEW f \in [D -> Revisions]
  PROVE  f \in Fingerprints /\ DOMAIN f = D
BY DEF Fingerprints

LEMMA FactsAreFingerprints == \A u \in Units : FactsOf(u) \subseteq Fingerprints
<1> SUFFICES ASSUME NEW u \in Units, NEW f \in FactsOf(u) PROVE f \in Fingerprints
  OBVIOUS
<1> QED
  BY InputsAreUnits, IsFingerprint DEF FactsOf

LEMMA EntryOf ==
  ASSUME NEW e \in Entries
  PROVE  e.unit \in Units /\ e.seen \in FactsOf(e.unit) /\ e.facts \in FactsOf(e.unit)
BY DEF Entries

LEMMA IsEntry ==
  ASSUME NEW u \in Units, NEW s \in FactsOf(u), NEW f \in FactsOf(u)
  PROVE  [unit |-> u, seen |-> s, facts |-> f] \in Entries
BY DEF Entries

\* What is looked at for the first time is as it is; the rest is as it was noted.
LEMMA MemoisedTyped ==
  ASSUME content \in [Units -> Revisions], NEW noted \in Fingerprints,
         NEW inputs \in SUBSET Units
  PROVE  /\ Memoised(noted, inputs) \in Fingerprints
         /\ DOMAIN Memoised(noted, inputs) = DOMAIN noted \cup inputs
         /\ \A i \in DOMAIN noted : Memoised(noted, inputs)[i] = noted[i]
         /\ \A i \in inputs \ DOMAIN noted : Memoised(noted, inputs)[i] = content[i]
<1>1. Memoised(noted, inputs) \in [DOMAIN noted \cup inputs -> Revisions]
  BY FingerprintOf DEF Memoised
<1>2. (DOMAIN noted \cup inputs) \in SUBSET Units
  BY FingerprintOf
<1>3. \A i \in DOMAIN noted \cup inputs :
        Memoised(noted, inputs)[i] = IF i \in DOMAIN noted THEN noted[i] ELSE content[i]
  BY DEF Memoised
<1>4. Memoised(noted, inputs) \in Fingerprints
      /\ DOMAIN Memoised(noted, inputs) = DOMAIN noted \cup inputs
  BY <1>1, <1>2, IsFingerprint
<1> QED
  BY <1>3, <1>4

LEMMA DescribedTyped ==
  ASSUME NEW u \in Units, NEW local \in Fingerprints, NEW provider \in Fingerprints,
         u \in DOMAIN local, ProvidersOf[u] \subseteq DOMAIN provider
  PROVE  /\ Described(u, local, provider) \in FactsOf(u)
         /\ Described(u, local, provider)[u] = local[u]
         /\ \A i \in ProvidersOf[u] : Described(u, local, provider)[i] = provider[i]
<1>1. \A i \in InputsOf(u) : Described(u, local, provider)[i]
                               = IF i = u THEN local[i] ELSE provider[i]
  BY DEF Described
<1>2. Described(u, local, provider) \in [InputsOf(u) -> Revisions]
  BY InputsAreUnits, FingerprintOf DEF Described
<1>3. u \notin ProvidersOf[u]
  BY ProvidersAssumption
<1> QED
  BY <1>1, <1>2, <1>3, InputsAreUnits DEF FactsOf

-----------------------------------------------------------------------------
(* Every step of a pass leaves the other pass alone. *)

Others(k) ==
  \A j \in Kinds \ {k} :
    /\ cachePass'[j] = cachePass[j] /\ memo'[j] = memo[j]
    /\ analysis'[j] = analysis[j] /\ staged'[j] = staged[j]

LEMMA OthersProgress ==
  ASSUME NEW k \in Kinds, NEW j \in Kinds \ {k}, Others(k), Progressing(j)
  PROVE  Progressing(j)'
BY DEF Others, Progressing, Resting, Analysing

LEMMA EndPassTyped ==
  ASSUME Typed, NEW k \in Kinds, EndPass(k)
  PROVE  /\ cachePass' \in [Kinds -> CachePasses] /\ memo' \in [Kinds -> Memos]
         /\ analysis' \in [Kinds -> [Units -> Analyses]]
         /\ staged' \in [Kinds -> SUBSET Entries]
         /\ Others(k) /\ Resting(k)' /\ Progressing(k)' /\ cachePass'[k].stage = "idle"
<1>1. PassOver \in CachePasses /\ NoMemo \in Memos /\ Unanalysed \in Analyses
  BY NothingRead DEF PassOver, NoMemo, Unanalysed, CachePasses, Memos, Analyses, PassStages
<1>2. [u \in Units |-> Unanalysed] \in [Units -> Analyses]
  BY <1>1
<1>3. /\ cachePass' \in [Kinds -> CachePasses] /\ memo' \in [Kinds -> Memos]
      /\ analysis' \in [Kinds -> [Units -> Analyses]]
      /\ staged' \in [Kinds -> SUBSET Entries]
  BY <1>1, <1>2 DEF EndPass, Typed
<1>4. Others(k)
  BY DEF EndPass, Typed, Others
<1>5. /\ cachePass'[k] = PassOver /\ memo'[k] = NoMemo /\ staged'[k] = {}
      /\ \A u \in Units : analysis'[k][u] = Unanalysed
  BY DEF EndPass, Typed
<1>6. cachePass'[k].stage = "idle" /\ Resting(k)'
  BY <1>5 DEF Resting, PassOver
<1>7. \A u \in Units : Analysing(k, u)'
  BY <1>5, NothingRead DEF Analysing, Unanalysed
<1> QED
  BY <1>3, <1>4, <1>6, <1>7 DEF Progressing

\* The analysis of one unit becomes r.
LEMMA AnalysisBecomes ==
  ASSUME Typed, NEW k \in Kinds, NEW u \in Units, NEW r \in Analyses,
         analysis' = [analysis EXCEPT ![k][u] = r]
  PROVE  /\ analysis' \in [Kinds -> [Units -> Analyses]]
         /\ analysis'[k][u] = r
         /\ \A w \in Units \ {u} : analysis'[k][w] = analysis[k][w]
         /\ \A j \in Kinds \ {k} : analysis'[j] = analysis[j]
BY DEF Typed

\* The memo of one pass becomes m.
LEMMA MemoBecomes ==
  ASSUME Typed, NEW k \in Kinds, NEW m \in Memos, memo' = [memo EXCEPT ![k] = m]
  PROVE  /\ memo' \in [Kinds -> Memos] /\ memo'[k] = m
         /\ \A j \in Kinds \ {k} : memo'[j] = memo[j]
BY DEF Typed

LEMMA StepTyped ==
  ASSUME Typed, NEW k \in Kinds, NEW stage \in PassStages, Step(k, stage)
  PROVE  /\ cachePass' \in [Kinds -> CachePasses]
         /\ cachePass'[k].stage = stage /\ cachePass'[k].observed = cachePass[k].observed
         /\ \A j \in Kinds \ {k} : cachePass'[j] = cachePass[j]
BY DEF Typed, Step, CachePasses

\* A pass that looks, reads or stores keeps what it has noted and adds what is: in its
\* memo, in one unit's facts and in what it stages.  The facts of an entry it takes are
\* those of the fingerprints that it found unchanged.
Notes(k, u) ==
  /\ UNCHANGED <<cacheSetting, content, entries, cachePass, unseen, cacheBudget>>
  /\ memo' \in [Kinds -> Memos] /\ staged' \in [Kinds -> SUBSET Entries]
  /\ analysis' \in [Kinds -> [Units -> Analyses]]
  /\ Others(k)
  /\ \A w \in Units \ {u} : analysis'[k][w] = analysis[k][w]
  /\ cachePass[k].stage = "analysing"
  /\ analysis[k][u].phase # "done"
  /\ Analysing(k, u)'
  /\ DOMAIN memo[k].local \subseteq DOMAIN memo'[k].local

\* If the entries can be relied on, it notes of an input what the input is.
Truthfully(k) ==
  EntriesDescribeTheirInputs =>
    \A i \in Units : \A v \in Revisions :
      content[i] = v /\ Says(k, i, v) => Says(k, i, v)'

LEMMA NotesShape ==
  ASSUME Shape, NEW k \in Kinds, NEW u \in Units, Notes(k, u)
  PROVE  Shape'
<1>1. Typed'
  BY DEF Notes, Shape, Typed
<1>2. ASSUME NEW w \in Units PROVE Analysing(k, w)'
  <2>1. CASE w = u
    BY <2>1 DEF Notes
  <2>2. CASE w # u
    BY <2>2 DEF Notes, Shape, Progressing, Analysing
  <2> QED
    BY <2>1, <2>2
<1>3. Progressing(k)'
  BY <1>2 DEF Notes, Shape, Progressing
<1>4. \A j \in Kinds \ {k} : Progressing(j)'
  BY OthersProgress DEF Notes, Shape
<1> QED
  BY <1>1, <1>3, <1>4 DEF Shape

\* What a pass has been analysing is unfinished.
LEMMA Unfinished ==
  ASSUME Shape, NEW k \in Kinds, NEW u \in Units, analysis[k][u].phase = "reading"
  PROVE  cachePass[k].stage = "analysing"
<1>1. cachePass[k].stage # "idle"
  BY DEF Shape, Progressing, Resting, Unanalysed
<1>2. cachePass[k].stage \notin {"merged", "checked", "committing"}
  BY DEF Shape, Progressing
<1> QED
  BY <1>1, <1>2 DEF Shape, Typed, CachePasses, PassStages

-----------------------------------------------------------------------------
(* The steps of one unit: what they note, and that it is the truth. *)

LEMMA LookNotes ==
  ASSUME Shape, NEW k \in Kinds, NEW u \in Units, Look(k, u)
  PROVE  Notes(k, u) /\ Truthfully(k)
<1> DEFINE local     == Memoised(memo[k].local, {u})
           addressed == {e \in entries : e.unit = u /\ e.seen[u] = local[u]}
           provider  == IF addressed = {} THEN memo[k].provider
                        ELSE Memoised(memo[k].provider, ProvidersOf[u])
           good      == {e \in addressed : \A i \in ProvidersOf[u] : e.seen[i] = provider[i]}
           found     == CHOOSE e \in good : TRUE
           taken     == [phase |-> "done", facts |-> found.facts, stored |-> {}]
           fresh     == [phase |-> "reading", facts |-> <<>>, stored |-> {e.facts : e \in good}]
<1>1. /\ cachePass[k].stage = "analysing" /\ analysis[k][u].phase = "waiting"
      /\ memo' = [memo EXCEPT ![k] = [local |-> local, provider |-> provider]]
      /\ \/ good # {} /\ analysis' = [analysis EXCEPT ![k][u] = taken]
         \/ analysis' = [analysis EXCEPT ![k][u] = fresh]
      /\ UNCHANGED <<cacheSetting, content, entries, cachePass, staged, unseen, cacheBudget>>
  BY DEF Look
<1>2. memo[k] \in Memos /\ memo[k].local \in Fingerprints /\ memo[k].provider \in Fingerprints
  BY DEF Shape, Typed, Memos
<1>3. /\ local \in Fingerprints /\ DOMAIN local = DOMAIN memo[k].local \cup {u}
      /\ \A i \in DOMAIN memo[k].local : local[i] = memo[k].local[i]
      /\ \A i \in {u} \ DOMAIN memo[k].local : local[i] = content[i]
  <2>1. content \in [Units -> Revisions] /\ {u} \in SUBSET Units
    BY DEF Shape, Typed
  <2> QED
    BY <1>2, <2>1, MemoisedTyped
<1>4. /\ provider \in Fingerprints
      /\ \A i \in DOMAIN provider :
           \/ i \in DOMAIN memo[k].provider /\ provider[i] = memo[k].provider[i]
           \/ i \notin DOMAIN memo[k].provider /\ provider[i] = content[i]
      /\ addressed # {} => ProvidersOf[u] \subseteq DOMAIN provider
  <2>1. CASE addressed = {}
    BY <1>2, <2>1
  <2>2. CASE addressed # {}
    <3>1. provider = Memoised(memo[k].provider, ProvidersOf[u])
      BY <2>2
    <3>2. ProvidersOf[u] \in SUBSET Units
      BY InputsAreUnits
    <3> HIDE DEF provider, addressed
    <3>3. content \in [Units -> Revisions] /\ memo[k].provider \in Fingerprints
      BY <1>2 DEF Shape, Typed
    <3> DEFINE seen == Memoised(memo[k].provider, ProvidersOf[u])
    <3>4. /\ seen \in Fingerprints
          /\ DOMAIN seen = DOMAIN memo[k].provider \cup ProvidersOf[u]
          /\ \A i \in DOMAIN memo[k].provider : seen[i] = memo[k].provider[i]
          /\ \A i \in ProvidersOf[u] \ DOMAIN memo[k].provider : seen[i] = content[i]
      BY <3>2, <3>3, MemoisedTyped
    <3> HIDE DEF seen
    <3>5. provider = seen
      BY <3>1 DEF seen
    <3> QED
      BY <3>4, <3>5
  <2> QED
    BY <2>1, <2>2
<1>5. /\ memo' \in [Kinds -> Memos]
      /\ memo'[k].local = local /\ memo'[k].provider = provider
      /\ \A j \in Kinds \ {k} : memo'[j] = memo[j]
  <2> HIDE DEF local, provider
  <2> DEFINE noted == [local |-> local, provider |-> provider]
  <2>1. noted \in Memos /\ noted.local = local /\ noted.provider = provider
    BY <1>3, <1>4 DEF Memos
  <2>2. memo' = [memo EXCEPT ![k] = noted]
    BY <1>1 DEF local, provider
  <2> HIDE DEF noted
  <2> QED
    BY <2>1, <2>2, MemoBecomes DEF Shape
<1>6. ASSUME NEW e \in good
      PROVE  /\ e \in entries /\ e.facts \in FactsOf(u) /\ e.facts \in Fingerprints
             /\ DOMAIN e.facts = InputsOf(u) /\ addressed # {}
             /\ e.seen[u] = local[u] /\ \A i \in ProvidersOf[u] : e.seen[i] = provider[i]
  <2>1. e \in entries /\ e.unit = u /\ e \in addressed
        /\ e.seen[u] = local[u] /\ \A i \in ProvidersOf[u] : e.seen[i] = provider[i]
    OBVIOUS
  <2>2. e \in Entries
    BY <2>1 DEF Shape, Typed
  <2>3. e.facts \in FactsOf(u)
    BY <2>1, <2>2, EntryOf
  <2> HIDE DEF good, addressed, provider, local
  <2> QED
    BY <2>1, <2>3, FactsAreFingerprints DEF FactsOf
<1>7. good # {} => found \in good
  OBVIOUS
<1> HIDE DEF good, found, addressed, local, provider
<1>8. fresh \in Analyses /\ fresh.facts = <<>>
      /\ fresh.stored \subseteq FactsOf(u) /\ fresh.phase = "reading"
  <2>1. {e.facts : e \in good} \subseteq FactsOf(u) /\ {e.facts : e \in good} \subseteq Fingerprints
    BY <1>6
  <2> QED
    BY <2>1, NothingRead DEF Analyses
<1>9. good # {} => /\ taken \in Analyses /\ taken.facts = found.facts
                   /\ taken.stored = {} /\ taken.phase = "done"
  BY <1>6, <1>7 DEF Analyses
<1> HIDE DEF taken, fresh
<1>10. /\ analysis' \in [Kinds -> [Units -> Analyses]]
       /\ \A w \in Units \ {u} : analysis'[k][w] = analysis[k][w]
       /\ \A j \in Kinds \ {k} : analysis'[j] = analysis[j]
       /\ analysis'[k][u] = fresh \/ (good # {} /\ analysis'[k][u] = taken)
  <2>1. CASE good # {} /\ analysis' = [analysis EXCEPT ![k][u] = taken]
    BY <2>1, <1>9, AnalysisBecomes DEF Shape
  <2>2. CASE analysis' = [analysis EXCEPT ![k][u] = fresh]
    BY <2>2, <1>8, AnalysisBecomes DEF Shape
  <2> QED
    BY <1>1, <2>1, <2>2
<1>11. Analysing(k, u)'
  <2>1. u \in DOMAIN memo'[k].local
    BY <1>3, <1>5
  <2>2. CASE analysis'[k][u] = fresh
    BY <1>8, <2>1, <2>2, NothingRead DEF Analysing
  <2>3. CASE good # {} /\ analysis'[k][u] = taken
    BY <1>6, <1>7, <1>9, <2>1, <2>3 DEF Analysing
  <2> QED
    BY <1>10, <2>2, <2>3
<1>12. Notes(k, u)
  <2>1. Others(k)
    BY <1>1, <1>5, <1>10 DEF Others
  <2>2. staged' \in [Kinds -> SUBSET Entries]
    BY <1>1 DEF Shape, Typed
  <2> QED
    BY <1>1, <1>3, <1>5, <1>10, <1>11, <2>1, <2>2 DEF Notes
<1>13. ASSUME EntriesDescribeTheirInputs, NEW i \in Units, NEW v \in Revisions, content[i] = v,
              Says(k, i, v)
       PROVE  Says(k, i, v)'
  <2>1. /\ i \in DOMAIN local => local[i] = v
        /\ i \in DOMAIN provider => provider[i] = v
    BY <1>3, <1>4, <1>13 DEF Says
  <2>2. ASSUME NEW w \in Units, i \in DOMAIN analysis'[k][w].facts
        PROVE  analysis'[k][w].facts[i] = v
    <3>1. CASE w # u
      BY <1>10, <1>13, <2>2, <3>1 DEF Says
    <3>2. CASE w = u /\ analysis'[k][u] = fresh
      BY <1>8, <2>2, <3>2, NothingRead
    <3>3. CASE w = u /\ good # {} /\ analysis'[k][u] = taken
      <4>1. found \in good /\ analysis'[k][w].facts = found.facts
        BY <1>7, <1>9, <3>3
      <4>2. i \in InputsOf(u) /\ found.facts = found.seen
        BY <1>6, <1>13, <2>2, <4>1 DEF EntriesDescribeTheirInputs
      <4>3. i = u \/ i \in ProvidersOf[u]
        BY <4>2, InputsAreUnits
      <4>4. CASE i = u
        BY <1>3, <1>6, <2>1, <4>1, <4>2, <4>4
      <4>5. CASE i \in ProvidersOf[u]
        BY <1>4, <1>6, <2>1, <4>1, <4>2, <4>5
      <4> QED
        BY <4>3, <4>4, <4>5
    <3> QED
      BY <1>10, <3>1, <3>2, <3>3
  <2>3. staged'[k] = staged[k]
    BY <1>1
  <2> QED
    BY <1>5, <1>13, <2>1, <2>2, <2>3 DEF Says
<1> QED
  BY <1>12, <1>13 DEF Truthfully

LEMMA ReadInputNotes ==
  ASSUME Shape, NEW k \in Kinds, NEW u \in Units, NEW i \in InputsOf(u), ReadInput(k, u, i)
  PROVE  Notes(k, u) /\ Truthfully(k)
<1> DEFINE before == analysis[k][u].facts
           facts  == [j \in DOMAIN before \cup {i} |-> IF j = i THEN content[i] ELSE before[j]]
           read   == [analysis[k][u] EXCEPT !.facts = facts]
<1>1. /\ analysis[k][u].phase = "reading" /\ i \notin DOMAIN before
      /\ analysis' = [analysis EXCEPT ![k][u] = read]
      /\ UNCHANGED <<cacheSetting, content, entries, cachePass, memo, staged, unseen, cacheBudget>>
  BY DEF ReadInput, Shape, Typed
<1>2. analysis[k][u] \in Analyses /\ before \in Fingerprints
  BY DEF Shape, Typed, Analyses
<1>3. i \in Units /\ content \in [Units -> Revisions] /\ InputsOf(u) \subseteq Units
  BY InputsAreUnits DEF Shape, Typed
<1>4. facts \in Fingerprints /\ DOMAIN facts = DOMAIN before \cup {i}
  <2>1. (DOMAIN before \cup {i}) \in SUBSET Units
    BY <1>2, <1>3, FingerprintOf
  <2>2. facts \in [DOMAIN before \cup {i} -> Revisions]
    BY <1>2, <1>3, FingerprintOf
  <2> HIDE DEF facts
  <2> QED
    BY <2>1, <2>2, IsFingerprint
<1>5. \A j \in DOMAIN facts : facts[j] = IF j = i THEN content[i] ELSE before[j]
  OBVIOUS
<1> HIDE DEF facts
<1>6. read \in Analyses /\ read.facts = facts /\ read.phase = "reading"
      /\ read.stored = analysis[k][u].stored
  BY <1>1, <1>2, <1>4 DEF Analyses
<1> HIDE DEF read
<1>7. /\ analysis' \in [Kinds -> [Units -> Analyses]]
      /\ \A w \in Units \ {u} : analysis'[k][w] = analysis[k][w]
      /\ \A j \in Kinds \ {k} : analysis'[j] = analysis[j]
      /\ analysis'[k][u] = read
  BY <1>1, <1>6, AnalysisBecomes DEF Shape
<1>8. Analysing(k, u) /\ u \in DOMAIN memo[k].local
  BY <1>1 DEF Shape, Progressing, Analysing
<1>9. Analysing(k, u)'
  BY <1>1, <1>4, <1>6, <1>7, <1>8 DEF Analysing
<1>10. Notes(k, u)
  <2>1. Others(k)
    BY <1>1, <1>7 DEF Others
  <2>2. staged' \in [Kinds -> SUBSET Entries] /\ memo' \in [Kinds -> Memos]
    BY <1>1 DEF Shape, Typed
  <2> QED
    BY <1>1, <1>7, <1>9, <2>1, <2>2, Unfinished DEF Notes
<1>11. ASSUME NEW n \in Units, NEW v \in Revisions, content[n] = v, Says(k, n, v)
       PROVE  Says(k, n, v)'
  <2>1. ASSUME NEW w \in Units, n \in DOMAIN analysis'[k][w].facts
        PROVE  analysis'[k][w].facts[n] = v
    <3>1. CASE w # u
      BY <1>7, <1>11, <2>1, <3>1 DEF Says
    <3>2. CASE w = u
      BY <1>4, <1>5, <1>6, <1>7, <1>11, <2>1, <3>2 DEF Says
    <3> QED
      BY <3>1, <3>2
  <2> QED
    BY <1>1, <1>11, <2>1 DEF Says
<1> QED
  BY <1>10, <1>11 DEF Truthfully

\* An analysis that is done keeps the facts it has.
LEMMA SettleTyped ==
  ASSUME Shape, NEW k \in Kinds, NEW u \in Units, Analysed(k, u), Settle(k, u)
  PROVE  /\ analysis' \in [Kinds -> [Units -> Analyses]]
         /\ \A w \in Units : analysis'[k][w].facts = analysis[k][w].facts
         /\ \A w \in Units \ {u} : analysis'[k][w] = analysis[k][w]
         /\ \A j \in Kinds \ {k} : analysis'[j] = analysis[j]
         /\ analysis'[k][u].phase = "done" /\ analysis'[k][u].stored = {}
         /\ analysis[k][u].phase = "reading" /\ cachePass[k].stage = "analysing"
         /\ analysis[k][u].facts \in FactsOf(u) /\ u \in DOMAIN memo[k].local
<1> DEFINE done == [analysis[k][u] EXCEPT !.phase = "done", !.stored = {}]
<1>1. analysis[k][u] \in Analyses
  BY DEF Shape, Typed
<1>2. done \in Analyses /\ done.facts = analysis[k][u].facts /\ done.phase = "done"
      /\ done.stored = {}
  BY <1>1 DEF Analyses
<1>3. analysis' = [analysis EXCEPT ![k][u] = done]
  BY DEF Settle, Shape, Typed
<1> HIDE DEF done
<1>4. /\ analysis' \in [Kinds -> [Units -> Analyses]]
      /\ \A w \in Units \ {u} : analysis'[k][w] = analysis[k][w]
      /\ \A j \in Kinds \ {k} : analysis'[j] = analysis[j]
      /\ analysis'[k][u] = done
  BY <1>2, <1>3, AnalysisBecomes DEF Shape
<1>5. analysis[k][u].facts \in Fingerprints
  BY <1>1 DEF Analyses
<1>6. analysis[k][u].facts \in FactsOf(u)
  BY <1>5, FingerprintOf DEF Analysed, FactsOf
<1>7. analysis[k][u].phase = "reading"
  BY DEF Analysed
<1>8. u \in DOMAIN memo[k].local
  BY <1>7 DEF Shape, Progressing, Analysing
<1> QED
  BY <1>2, <1>4, <1>6, <1>7, <1>8, Unfinished

LEMMA NotLoadedNotes ==
  ASSUME Shape, NEW k \in Kinds, NEW u \in Units, Analysed(k, u), Settle(k, u),
         UNCHANGED <<cacheSetting, content, entries, cachePass, memo, staged, unseen, cacheBudget>>
  PROVE  Notes(k, u) /\ Truthfully(k)
<1>1. Others(k) /\ staged' \in [Kinds -> SUBSET Entries] /\ memo' \in [Kinds -> Memos]
  BY SettleTyped DEF Others, Shape, Typed
<1>2. Analysing(k, u)'
  BY SettleTyped, InputsAreUnits DEF Analysing, FactsOf
<1>3. Notes(k, u)
  BY <1>1, <1>2, SettleTyped DEF Notes
<1>4. Truthfully(k)
  BY SettleTyped DEF Truthfully, Says
<1> QED
  BY <1>3, <1>4

LEMMA StoreNotes ==
  ASSUME Shape, NEW k \in Kinds, NEW u \in Units, Store(k, u)
  PROVE  Notes(k, u) /\ Truthfully(k)
<1> DEFINE provider == Memoised(memo[k].provider, ProvidersOf[u])
           seen     == Described(u, memo[k].local, provider)
           entry    == [unit |-> u, seen |-> seen, facts |-> analysis[k][u].facts]
           noted    == [memo[k] EXCEPT !.provider = provider]
<1>1. /\ Analysed(k, u) /\ Settle(k, u)
      /\ memo' = [memo EXCEPT ![k] = noted]
      /\ staged' = [staged EXCEPT ![k] = staged[k] \cup {entry}]
      /\ UNCHANGED <<cacheSetting, content, entries, cachePass, unseen, cacheBudget>>
  BY DEF Store, Shape, Typed
<1>2. /\ memo[k] \in Memos /\ memo[k].local \in Fingerprints /\ memo[k].provider \in Fingerprints
      /\ content \in [Units -> Revisions] /\ ProvidersOf[u] \in SUBSET Units
  BY InputsAreUnits DEF Shape, Typed, Memos
<1>3. /\ provider \in Fingerprints
      /\ DOMAIN provider = DOMAIN memo[k].provider \cup ProvidersOf[u]
      /\ \A i \in DOMAIN memo[k].provider : provider[i] = memo[k].provider[i]
      /\ \A i \in ProvidersOf[u] \ DOMAIN memo[k].provider : provider[i] = content[i]
  BY <1>2, MemoisedTyped
<1> HIDE DEF provider
<1>4. /\ u \in DOMAIN memo[k].local /\ analysis[k][u].facts \in FactsOf(u)
      /\ analysis[k][u].phase = "reading" /\ cachePass[k].stage = "analysing"
  BY <1>1, SettleTyped
<1>5. /\ seen \in FactsOf(u) /\ seen[u] = memo[k].local[u]
      /\ \A i \in ProvidersOf[u] : seen[i] = provider[i]
  BY <1>2, <1>3, <1>4, DescribedTyped
<1> HIDE DEF seen
<1>6. /\ entry \in Entries /\ entry.unit = u /\ entry.seen = seen
      /\ entry.facts = analysis[k][u].facts
  BY <1>4, <1>5, IsEntry
<1> HIDE DEF entry
<1>7. noted \in Memos /\ noted.local = memo[k].local /\ noted.provider = provider
  BY <1>2, <1>3 DEF Memos
<1> HIDE DEF noted
<1>8. /\ memo' \in [Kinds -> Memos] /\ memo'[k].local = memo[k].local
      /\ memo'[k].provider = provider /\ \A j \in Kinds \ {k} : memo'[j] = memo[j]
  BY <1>1, <1>7, MemoBecomes DEF Shape
<1>9. /\ staged' \in [Kinds -> SUBSET Entries] /\ staged'[k] = staged[k] \cup {entry}
      /\ \A j \in Kinds \ {k} : staged'[j] = staged[j]
  BY <1>1, <1>6 DEF Shape, Typed
<1>10. Analysing(k, u)'
  BY <1>1, <1>4, <1>8, SettleTyped, InputsAreUnits DEF Analysing, FactsOf
<1>11. Notes(k, u)
  <2>1. Others(k)
    BY <1>1, <1>8, <1>9, SettleTyped DEF Others
  <2> QED
    BY <1>1, <1>4, <1>8, <1>9, <1>10, <2>1, SettleTyped DEF Notes
<1>12. ASSUME NEW i \in Units, NEW v \in Revisions, content[i] = v, Says(k, i, v)
       PROVE  Says(k, i, v)'
  <2>1. i \in DOMAIN provider => provider[i] = v
    BY <1>3, <1>12 DEF Says
  <2>2. i \in InputsOf(u) => seen[i] = v /\ analysis[k][u].facts[i] = v
    <3>1. i \in InputsOf(u) => i \in DOMAIN analysis[k][u].facts /\ (i = u \/ i \in ProvidersOf[u])
      BY <1>4, InputsAreUnits DEF FactsOf
    <3> QED
      BY <1>3, <1>4, <1>5, <1>12, <2>1, <3>1 DEF Says
  <2>3. \A e \in staged'[k] : i \in InputsOf(e.unit) => e.seen[i] = v /\ e.facts[i] = v
    BY <1>6, <1>9, <1>12, <2>2 DEF Says
  <2>4. \A w \in Units : i \in DOMAIN analysis'[k][w].facts => analysis'[k][w].facts[i] = v
    BY <1>1, <1>12, SettleTyped DEF Says
  <2> QED
    BY <1>8, <1>12, <2>1, <2>3, <2>4 DEF Says
<1> QED
  BY <1>11, <1>12 DEF Truthfully

-----------------------------------------------------------------------------
(* The invariants are inductive. *)

\* A pass that ends, whatever else its step does not touch.
LEMMA EndPassShape ==
  ASSUME Shape, NEW k \in Kinds, EndPass(k),
         UNCHANGED <<cacheSetting, content, entries, unseen, cacheBudget>>
  PROVE  Shape' /\ Others(k) /\ cachePass'[k].stage = "idle"
<1>1. Typed'
  BY EndPassTyped DEF Shape, Typed
<1>2. Others(k) /\ Progressing(k)' /\ cachePass'[k].stage = "idle"
  BY EndPassTyped DEF Shape
<1>3. \A j \in Kinds \ {k} : Progressing(j)'
  BY <1>2, OthersProgress DEF Shape
<1> QED
  BY <1>1, <1>2, <1>3 DEF Shape

\* A pass that goes from one stage to a later one, its units done.
LEMMA StepShape ==
  ASSUME Shape, NEW k \in Kinds, NEW stage \in {"merged", "checked", "committing"},
         Step(k, stage), cachePass[k].stage # "idle",
         \A u \in Units : analysis[k][u].phase = "done",
         UNCHANGED <<cacheSetting, content, memo, analysis, staged, unseen, cacheBudget>>,
         entries' \subseteq entries
  PROVE  Shape' /\ Others(k)
<1>1. /\ cachePass' \in [Kinds -> CachePasses]
      /\ cachePass'[k].stage = stage /\ cachePass'[k].observed = cachePass[k].observed
      /\ \A j \in Kinds \ {k} : cachePass'[j] = cachePass[j]
  BY StepTyped DEF Shape, PassStages
<1>2. Typed' /\ Others(k)
  BY <1>1 DEF Shape, Typed, Others
<1>3. Progressing(k)'
  BY <1>1 DEF Shape, Progressing, Analysing
<1>4. \A j \in Kinds \ {k} : Progressing(j)'
  BY <1>2, OthersProgress DEF Shape
<1> QED
  BY <1>2, <1>3, <1>4 DEF Shape

LEMMA BeginPassShape ==
  ASSUME Shape, NEW k \in Kinds, NEW mode \in {"on", "verify"}, BeginPass(k, mode)
  PROVE  /\ Shape' /\ Others(k) /\ cachePass'[k].stage = "analysing" /\ Resting(k)
         /\ UNCHANGED <<content, entries, memo, analysis, staged, unseen>>
<1> DEFINE begun == [stage |-> "analysing", mode |-> mode,
                     observed |-> IF k = "index" THEN Sources ELSE <<>>]
<1>1. /\ cachePass' = [cachePass EXCEPT ![k] = begun] /\ cachePass[k].stage = "idle"
      /\ cacheBudget' = [cacheBudget EXCEPT !.passes = @ - 1] /\ cacheBudget.passes > 0
      /\ UNCHANGED <<cacheSetting, content, entries, memo, analysis, staged, unseen>>
  BY DEF BeginPass
<1>2. Sources \in [Units -> Revisions]
  BY DEF Sources, Shape, Typed
<1>3. /\ begun \in CachePasses /\ begun.stage = "analysing"
      /\ k = "index" => begun.observed \in [Units -> Revisions]
  BY <1>2 DEF CachePasses, PassStages
<1> HIDE DEF begun
<1>4. /\ cachePass' \in [Kinds -> CachePasses] /\ cachePass'[k] = begun
      /\ \A j \in Kinds \ {k} : cachePass'[j] = cachePass[j]
  BY <1>1, <1>3 DEF Shape, Typed
<1>5. cacheBudget' \in [passes: Nat, edits: Nat]
  BY <1>1 DEF Shape, Typed
<1>6. Typed' /\ Others(k)
  BY <1>1, <1>4, <1>5 DEF Shape, Typed, Others
<1>7. Resting(k)
  BY <1>1 DEF Shape, Progressing
<1>8. Progressing(k)'
  BY <1>1, <1>3, <1>4 DEF Shape, Progressing, Analysing
<1>9. \A j \in Kinds \ {k} : Progressing(j)'
  BY <1>6, OthersProgress DEF Shape
<1> QED
  BY <1>1, <1>3, <1>4, <1>6, <1>7, <1>8, <1>9 DEF Shape

LEMMA CommitShape ==
  ASSUME Shape, NEW k \in Kinds, NEW entry \in staged[k], Commit(k, entry)
  PROVE  Shape' /\ Others(k) /\ entry \in Entries
         /\ staged'[k] \subseteq staged[k] /\ entries' \subseteq entries \cup {entry}
<1>1. entry \in Entries
  BY DEF Shape, Typed
<1>2. /\ staged' = [staged EXCEPT ![k] = @ \ {entry}]
      /\ entries' \subseteq entries \cup {entry}
      /\ UNCHANGED <<cacheSetting, content, cachePass, memo, analysis, unseen, cacheBudget>>
      /\ cachePass[k].stage = "committing"
  BY DEF Commit
<1>3. /\ staged' \in [Kinds -> SUBSET Entries] /\ staged'[k] \subseteq staged[k]
      /\ \A j \in Kinds \ {k} : staged'[j] = staged[j]
  BY <1>2 DEF Shape, Typed
<1>4. Typed' /\ Others(k)
  BY <1>1, <1>2, <1>3 DEF Shape, Typed, Others
<1>5. Progressing(k)'
  BY <1>2 DEF Shape, Progressing, Analysing
<1>6. \A j \in Kinds \ {k} : Progressing(j)'
  BY <1>4, OthersProgress DEF Shape
<1> QED
  BY <1>1, <1>2, <1>3, <1>4, <1>5, <1>6 DEF Shape

LEMMA EditInputShape ==
  ASSUME Shape, NEW i \in Units, NEW version \in Revisions, EditInput(i, version)
  PROVE  Shape'
<1>1. content' \in [Units -> Revisions] /\ cacheBudget' \in [passes: Nat, edits: Nat]
  BY DEF EditInput, Shape, Typed
<1>2. UNCHANGED <<cacheSetting, entries, cachePass, memo, analysis, staged>>
  BY DEF EditInput, passVars
<1>3. unseen' \in BOOLEAN
  BY DEF EditInput, SlipsBy, Running, Shape, Typed
<1>4. Typed'
  BY <1>1, <1>2, <1>3 DEF Shape, Typed
<1>5. \A k \in Kinds : Progressing(k)'
  BY <1>2 DEF Shape, Progressing, Resting, Analysing
<1> QED
  BY <1>4, <1>5 DEF Shape

\* The steps of a pass, by what they do.
LEMMA PassSteps ==
  ASSUME Shape, NEW k \in Kinds, CachePassStep(k)
  PROVE  \/ \E mode \in {"on", "verify"} : BeginPass(k, mode)
         \/ \E u \in Units : Notes(k, u) /\ Truthfully(k)
         \/ /\ EndPass(k)
            /\ UNCHANGED <<cacheSetting, content, entries, unseen, cacheBudget>>
         \/ Merge(k)
         \/ \E entry \in staged[k] : Commit(k, entry)
<1>1. ASSUME NEW u \in Units, UnitStep(k, u)
      PROVE  \/ Notes(k, u) /\ Truthfully(k)
             \/ /\ EndPass(k)
                /\ UNCHANGED <<cacheSetting, content, entries, unseen, cacheBudget>>
  <2>1. CASE Look(k, u)
    BY <2>1, LookNotes
  <2>2. CASE \E i \in InputsOf(u) : ReadInput(k, u, i)
    BY <2>2, ReadInputNotes
  <2>3. CASE Store(k, u)
    BY <2>3, StoreNotes
  <2>4. CASE NotLoaded(k, u)
    BY <2>4, NotLoadedNotes DEF NotLoaded
  <2>5. CASE Compare(k, u)
    BY <2>5, NotLoadedNotes DEF Compare
  <2> QED
    BY <1>1, <2>1, <2>2, <2>3, <2>4, <2>5 DEF UnitStep
<1>2. CASE Abandon(k) \/ Return(k)
  BY <1>2 DEF Abandon, Return
<1> QED
  BY <1>1, <1>2 DEF CachePassStep

LEMMA CacheInitShape == CacheInit => Shape
<1> SUFFICES ASSUME CacheInit PROVE Shape
  OBVIOUS
<1>1. PassOver \in CachePasses /\ NoMemo \in Memos /\ Unanalysed \in Analyses
      /\ PassOver.stage = "idle"
  BY NothingRead DEF PassOver, NoMemo, Unanalysed, CachePasses, Memos, Analyses, PassStages
<1>2. (CHOOSE version \in Revisions : TRUE) \in Revisions
  BY RevisionsAssumption
<1>3. cacheBudget \in [passes: Nat, edits: Nat]
  BY CacheSettingsAssumption DEF CacheInit, CacheSetting
<1>4. Typed
  BY <1>1, <1>2, <1>3 DEF CacheInit, Typed
<1>5. ASSUME NEW k \in Kinds PROVE Progressing(k)
  <2>1. /\ cachePass[k].stage = "idle" /\ memo[k] = NoMemo /\ staged[k] = {}
        /\ \A u \in Units : analysis[k][u] = Unanalysed
    BY <1>1 DEF CacheInit
  <2>2. ASSUME NEW u \in Units PROVE Analysing(k, u)
    <3>1. analysis[k][u] = Unanalysed
      BY <2>1
    <3>2. /\ Unanalysed.phase = "waiting" /\ Unanalysed.stored = {}
          /\ DOMAIN Unanalysed.facts = {}
      BY NothingRead DEF Unanalysed
    <3> QED
      BY <3>1, <3>2 DEF Analysing
  <2> QED
    BY <2>1, <2>2 DEF Progressing, Resting
<1> QED
  BY <1>4, <1>5 DEF Shape

LEMMA CacheShapeStep == Shape /\ [CacheNext]_factCacheVars => Shape'
<1> SUFFICES ASSUME Shape, [CacheNext]_factCacheVars PROVE Shape'
  OBVIOUS
<1>1. ASSUME NEW k \in Kinds, CachePassStep(k) PROVE Shape'
  <2>1. CASE \E mode \in {"on", "verify"} : BeginPass(k, mode)
    BY <2>1, BeginPassShape
  <2>2. CASE \E u \in Units : Notes(k, u)
    BY <2>2, NotesShape
  <2>3. CASE EndPass(k) /\ UNCHANGED <<cacheSetting, content, entries, unseen, cacheBudget>>
    BY <2>3, EndPassShape
  <2>4. CASE Merge(k)
    <3>1. (IF k = "index" THEN "merged" ELSE "committing") \in {"merged", "checked", "committing"}
      OBVIOUS
    <3> QED
      BY <2>4, <3>1, StepShape DEF Merge
  <2>5. CASE \E entry \in staged[k] : Commit(k, entry)
    BY <2>5, CommitShape
  <2> QED
    BY <1>1, <2>1, <2>2, <2>3, <2>4, <2>5, PassSteps
<1>2. CASE Recheck \/ PublishFacts
  <2>1. "index" \in Kinds
    BY DEF Kinds
  <2>2. cachePass["index"].stage \in {"merged", "checked"}
    BY <1>2 DEF Recheck, PublishFacts
  <2>3. \A u \in Units : analysis["index"][u].phase = "done"
    BY <2>1, <2>2 DEF Shape, Progressing
  <2>4. CASE EndPass("index")
    BY <1>2, <2>1, <2>4, EndPassShape DEF Recheck, PublishFacts
  <2>5. CASE Step("index", "checked") /\ UNCHANGED <<memo, analysis, staged>>
    BY <1>2, <2>1, <2>2, <2>3, <2>5, StepShape DEF Recheck, PublishFacts
  <2>6. CASE Step("index", "committing") /\ UNCHANGED <<memo, analysis, staged>>
    BY <1>2, <2>1, <2>2, <2>3, <2>6, StepShape DEF Recheck, PublishFacts
  <2> QED
    BY <1>2, <2>4, <2>5, <2>6 DEF Recheck, PublishFacts
<1>3. CASE UNCHANGED factCacheVars
  BY <1>3 DEF factCacheVars, passVars, Shape, Typed, Progressing, Resting, Analysing
<1>4. CASE \E i \in Units, version \in Revisions : EditInput(i, version)
  BY <1>4, EditInputShape
<1> QED
  BY <1>1, <1>2, <1>3, <1>4 DEF CacheNext

\* At one address there is one entry: a commit replaces the one before it.
OneEach == \A e, f \in entries : SameAddress(e, f) => e = f

LEMMA OneEachStep == Shape /\ OneEach /\ [CacheNext]_factCacheVars => OneEach'
<1> SUFFICES ASSUME Shape, OneEach, [CacheNext]_factCacheVars PROVE OneEach'
  OBVIOUS
<1>1. ASSUME entries' \subseteq entries PROVE OneEach'
  BY <1>1 DEF OneEach, SameAddress
<1>2. ASSUME NEW k \in Kinds, CachePassStep(k) PROVE OneEach'
  <2>1. ASSUME NEW entry \in staged[k], Commit(k, entry) PROVE OneEach'
    <3>1. \A e, f : SameAddress(e, f) <=> SameAddress(f, e)
      BY DEF SameAddress
    <3>2. CASE entries' = {e \in entries : ~SameAddress(e, entry)} \cup {entry}
      BY <3>1, <3>2 DEF OneEach, SameAddress
    <3> QED
      BY <1>1, <2>1, <3>2 DEF Commit
  <2>2. ASSUME ~\E entry \in staged[k] : Commit(k, entry) PROVE OneEach'
    <3>1. entries' \subseteq entries
      BY <1>2, <2>2, PassSteps DEF BeginPass, Notes, Merge
    <3> QED
      BY <1>1, <3>1
  <2> QED
    BY <2>1, <2>2
<1>3. CASE ~\E k \in Kinds : CachePassStep(k)
  BY <1>1, <1>3 DEF CacheNext, Recheck, PublishFacts, EditInput, factCacheVars
<1> QED
  BY <1>2, <1>3

(***************************************************************************)
(* Every reachable state of the fact cache is well typed; in particular    *)
(* there is one entry at an address, however two callers commit (commit,   *)
(* store), and an analysis holds facts of its own inputs only.             *)
(***************************************************************************)
THEOREM CacheIsTyped == CacheSpec => []CacheTypeOK
<1>1. CacheInit => OneEach
  BY DEF CacheInit, OneEach
<1>2. Shape /\ OneEach => CacheTypeOK
  <2> SUFFICES ASSUME Shape, OneEach PROVE CacheTypeOK
    OBVIOUS
  <2>1. /\ cachePass \in [Kinds -> [stage: {"idle", "analysing", "merged", "checked", "committing"},
                                    mode: {"on", "verify"},
                                    observed: [Units -> Revisions] \cup {<<>>}]]
        /\ \A k \in Kinds : staged[k] \subseteq Entries
    BY DEF Shape, Typed, CachePasses, PassStages
  <2>2. ASSUME NEW k \in Kinds
        PROVE  /\ \A i \in DOMAIN memo[k].local : i \in Units /\ memo[k].local[i] \in Revisions
               /\ \A i \in DOMAIN memo[k].provider :
                    i \in Units /\ memo[k].provider[i] \in Revisions
    BY FingerprintOf DEF Shape, Typed, Memos
  <2>3. ASSUME NEW k \in Kinds, NEW u \in Units
        PROVE  /\ analysis[k][u].phase \in {"waiting", "reading", "done"}
               /\ analysis[k][u].stored \subseteq FactsOf(u)
               /\ \A i \in DOMAIN analysis[k][u].facts :
                    i \in InputsOf(u) /\ analysis[k][u].facts[i] \in Revisions
    <3>1. analysis[k][u] \in Analyses /\ Analysing(k, u)
      BY DEF Shape, Typed, Progressing
    <3>2. analysis[k][u].facts \in Fingerprints
      BY <3>1 DEF Analyses
    <3> QED
      BY <3>1, <3>2, FingerprintOf DEF Analyses, Analysing
  <2> QED
    BY <2>1, <2>2, <2>3 DEF Shape, Typed, OneEach, CacheTypeOK
<1> QED
  BY <1>1, <1>2, CacheInitShape, CacheShapeStep, OneEachStep, PTL DEF CacheSpec

\* A step of pass k that changes neither the sources nor their history and that goes on
\* saying what it said: the other pass says what it said as well.
LEMMA OthersHonest ==
  ASSUME Shape, Honest, NEW k \in Kinds, Others(k), UNCHANGED content,
         Running(k)' => \A i \in Units : InputSettled(k, i)' => Says(k, i, Version(k, i))'
  PROVE  Honest'
<1> SUFFICES ASSUME NEW j \in Kinds, Running(j)', NEW i \in Units, InputSettled(j, i)'
             PROVE  Says(j, i, Version(j, i))'
  BY DEF Honest
<1>1. CASE j = k
  BY <1>1
<1>2. CASE j # k
  <2>1. Running(j) /\ InputSettled(j, i)
    BY <1>2 DEF Others, Running, InputSettled
  <2>2. Says(j, i, Version(j, i))
    BY <2>1 DEF Honest
  <2> QED
    BY <1>2, <2>2 DEF Others, Says, Version
<1> QED
  BY <1>1, <1>2

LEMMA RestingSays ==
  ASSUME NEW k \in Kinds, Resting(k), NEW i \in Units, NEW v
  PROVE  Says(k, i, v)
<1>1. /\ memo[k].local = <<>> /\ memo[k].provider = <<>> /\ staged[k] = {}
      /\ \A u \in Units : analysis[k][u].facts = <<>>
  BY DEF Resting, NoMemo, Unanalysed
<1> QED
  BY <1>1, NothingRead DEF Says

\* At the last gate everything is what was observed, and so it stays.
LEMMA VersionIsRevision ==
  ASSUME Shape, NEW k \in Kinds, NEW i \in Units, Running(k)
  PROVE  Version(k, i) \in Revisions
BY DEF Version, Shape, Typed, Progressing, Running, Kinds

LEMMA NotesHonest ==
  ASSUME Shape, EntriesDescribeTheirInputs, Honest,
         NEW k \in Kinds, NEW u \in Units, Notes(k, u), Truthfully(k)
  PROVE  EntriesDescribeTheirInputs' /\ Honest'
<1>1. EntriesDescribeTheirInputs'
  BY DEF Notes, EntriesDescribeTheirInputs
<1>2. ASSUME Running(k)', NEW i \in Units, InputSettled(k, i)' PROVE Says(k, i, Version(k, i))'
  <2>1. Running(k) /\ InputSettled(k, i) /\ cachePass[k].stage = "analysing"
    BY <1>2 DEF Notes, Running, InputSettled
  <2>2. PICK v \in Revisions : v = Version(k, i)
    BY <2>1, VersionIsRevision
  <2>3. content[i] = v
    BY <2>1, <2>2 DEF InputSettled, Version
  <2>4. Says(k, i, v)'
    BY <2>1, <2>2, <2>3 DEF Honest, Truthfully
  <2>5. Version(k, i)' = v
    BY <2>2 DEF Version, Notes
  <2> QED
    BY <2>4, <2>5 DEF Says
<1>3. Honest'
  BY <1>2, OthersHonest DEF Notes
<1> QED
  BY <1>1, <1>3

\* A pass that only goes on to a stage from which it was already taken at its word.
LEMMA StepHonest ==
  ASSUME Shape, Honest, NEW k \in Kinds, Others(k),
         cachePass[k].stage # "idle", cachePass'[k].observed = cachePass[k].observed,
         UNCHANGED <<content, memo, analysis, staged>>,
         \A i \in Units : InputSettled(k, i)' => InputSettled(k, i)
  PROVE  Honest'
<1>1. ASSUME Running(k)', NEW i \in Units, InputSettled(k, i)' PROVE Says(k, i, Version(k, i))'
  <2>1. Says(k, i, Version(k, i))
    BY <1>1 DEF Honest, Running
  <2> QED
    BY <2>1 DEF Says, Version
<1> QED
  BY <1>1, OthersHonest

LEMMA PassHonest ==
  ASSUME Shape, EntriesDescribeTheirInputs, Honest, NEW k \in Kinds, CachePassStep(k)
  PROVE  EntriesDescribeTheirInputs' /\ Honest'
<1>1. CASE \E mode \in {"on", "verify"} : BeginPass(k, mode)
  <2>1. /\ Others(k) /\ Resting(k)
        /\ UNCHANGED <<content, entries, memo, analysis, staged>>
    BY <1>1, BeginPassShape
  <2>2. Resting(k)'
    BY <2>1 DEF Resting
  <2>3. \A i \in Units : Says(k, i, Version(k, i))'
    <3> SUFFICES ASSUME NEW i \in Units PROVE Says(k, i, Version(k, i))'
      OBVIOUS
    <3>1. PICK v : v = Version(k, i)'
      OBVIOUS
    <3>2. Says(k, i, v)
      BY <2>1, RestingSays
    <3> QED
      BY <2>1, <3>1, <3>2 DEF Says
  <2>4. Honest'
    BY <2>1, <2>3, OthersHonest
  <2> QED
    BY <2>1, <2>4 DEF EntriesDescribeTheirInputs
<1>2. CASE \E u \in Units : Notes(k, u) /\ Truthfully(k)
  BY <1>2, NotesHonest
<1>3. CASE EndPass(k) /\ UNCHANGED <<cacheSetting, content, entries, unseen, cacheBudget>>
  <2>1. Others(k) /\ ~Running(k)'
    BY <1>3, EndPassShape DEF Running
  <2> QED
    BY <1>3, <2>1, OthersHonest DEF EntriesDescribeTheirInputs
<1>4. CASE Merge(k)
  <2>1. /\ cachePass[k].stage = "analysing" /\ entries' \subseteq entries
        /\ Step(k, IF k = "index" THEN "merged" ELSE "committing")
        /\ UNCHANGED <<content, memo, analysis, staged>>
    BY <1>4 DEF Merge
  <2>2. /\ cachePass'[k].stage = IF k = "index" THEN "merged" ELSE "committing"
        /\ cachePass'[k].observed = cachePass[k].observed
        /\ \A j \in Kinds \ {k} : cachePass'[j] = cachePass[j]
    <3>1. (IF k = "index" THEN "merged" ELSE "committing") \in PassStages
      BY DEF PassStages
    <3> QED
      BY <2>1, <3>1, StepTyped DEF Shape
  <2>3. \A i \in Units : InputSettled(k, i)' => InputSettled(k, i)
    BY <2>1, <2>2 DEF InputSettled, Kinds
  <2>4. Others(k)
    BY <2>1, <2>2 DEF Others
  <2>5. Honest'
    BY <2>1, <2>2, <2>3, <2>4, StepHonest
  <2> QED
    BY <2>1, <2>5 DEF EntriesDescribeTheirInputs
<1>5. ASSUME NEW entry \in staged[k], Commit(k, entry)
      PROVE  EntriesDescribeTheirInputs' /\ Honest'
  <2>1. /\ Others(k) /\ entry \in Entries /\ cachePass[k].stage = "committing"
        /\ staged'[k] \subseteq staged[k] /\ entries' \subseteq entries \cup {entry}
        /\ UNCHANGED <<content, cachePass, memo, analysis>>
    BY <1>5, CommitShape DEF Commit
  <2>2. \A i \in Units : Says(k, i, Version(k, i))
    BY <2>1 DEF Honest, InputSettled, Running
  <2>3. Honest'
    <3>1. \A i \in Units : Says(k, i, Version(k, i))'
      BY <2>1, <2>2 DEF Says, Version
    <3> QED
      BY <2>1, <3>1, OthersHonest
  <2>4. entry.facts = entry.seen
    <3>1. entry.unit \in Units /\ entry.seen \in FactsOf(entry.unit)
          /\ entry.facts \in FactsOf(entry.unit)
      BY <2>1, EntryOf
    <3>2. \A i \in InputsOf(entry.unit) : entry.facts[i] = entry.seen[i]
      BY <2>2, <3>1, InputsAreUnits DEF Says
    <3> QED
      BY <3>1, <3>2 DEF FactsOf
  <2> QED
    BY <2>1, <2>3, <2>4 DEF EntriesDescribeTheirInputs
<1> QED
  BY <1>1, <1>2, <1>3, <1>4, <1>5, PassSteps

\* The gates of a full pass: what they accept is what was observed.
LEMMA GatesHonest ==
  ASSUME Shape, Honest, Recheck \/ PublishFacts
  PROVE  Honest'
<1>1. /\ "index" \in Kinds /\ cachePass["index"].stage \in {"merged", "checked"}
      /\ UNCHANGED <<cacheSetting, content, entries, unseen, cacheBudget>>
  BY DEF Kinds, Recheck, PublishFacts
<1>2. CASE EndPass("index")
  <2>1. Others("index") /\ ~Running("index")'
    BY <1>1, <1>2, EndPassShape DEF Running
  <2> QED
    BY <1>1, <2>1, OthersHonest
<1>3. ASSUME NEW stage \in {"checked", "committing"}, Step("index", stage), Unchanged("index"),
             UNCHANGED <<memo, analysis, staged>>
      PROVE  Honest'
  <2>1. /\ cachePass'["index"].observed = cachePass["index"].observed
        /\ \A j \in Kinds \ {"index"} : cachePass'[j] = cachePass[j]
    BY <1>1, <1>3, StepTyped DEF Shape, PassStages
  <2>2. \A i \in Units : content[i] = cachePass["index"].observed[i]
    BY <1>3 DEF Unchanged, Sources
  <2>3. \A i \in Units : InputSettled("index", i)
    BY <2>2 DEF InputSettled
  <2>4. Others("index")
    BY <1>3, <2>1 DEF Others
  <2> QED
    BY <1>1, <1>3, <2>1, <2>3, <2>4, StepHonest
<1> QED
  BY <1>2, <1>3 DEF Recheck, PublishFacts

\* An edit that no gate misses: the input is not what any running pass observed.
LEMMA EditHonest ==
  ASSUME Shape, Honest, NEW i \in Units, NEW version \in Revisions,
         EditInput(i, version), ~SlipsBy(i, version)
  PROVE  Honest'
<1> SUFFICES ASSUME NEW k \in Kinds, Running(k)', NEW n \in Units, InputSettled(k, n)'
             PROVE  Says(k, n, Version(k, n))'
  BY DEF Honest
<1>1. /\ UNCHANGED <<cachePass, memo, analysis, staged>>
      /\ content' = [content EXCEPT ![i] = version]
  BY DEF EditInput, passVars
<1>2. Running(k) /\ k = "index" /\ cachePass["index"].observed[i] # version
  BY <1>1 DEF Running, SlipsBy, Kinds
<1>3. InputSettled(k, n)
  <2>1. CASE n = i
    BY <1>1, <1>2, <2>1 DEF InputSettled, Shape, Typed
  <2>2. CASE n # i
    BY <1>1, <1>2, <2>2 DEF InputSettled, Shape, Typed
  <2> QED
    BY <2>1, <2>2
<1>4. Says(k, n, Version(k, n))
  BY <1>2, <1>3 DEF Honest
<1> QED
  BY <1>1, <1>2, <1>4 DEF Says, Version

LEMMA ReproducibleStep ==
  Shape /\ Reproducible /\ [CacheNext]_factCacheVars => Reproducible'
<1> SUFFICES ASSUME Shape, Reproducible, [CacheNext]_factCacheVars, ~unseen'
             PROVE  EntriesDescribeTheirInputs' /\ Honest'
  BY DEF Reproducible
<1>1. ASSUME NEW k \in Kinds, CachePassStep(k)
      PROVE  EntriesDescribeTheirInputs' /\ Honest'
  <2>1. unseen' = unseen
    BY <1>1 DEF CachePassStep, UnitStep, BeginPass, Look, ReadInput, Store, NotLoaded, Compare,
                Merge, Commit, Return, Abandon
  <2> QED
    BY <1>1, <2>1, PassHonest DEF Reproducible
<1>2. CASE Recheck \/ PublishFacts
  <2>1. UNCHANGED <<unseen, entries>>
    BY <1>2 DEF Recheck, PublishFacts
  <2> QED
    BY <1>2, <2>1, GatesHonest DEF Reproducible, EntriesDescribeTheirInputs
<1>3. ASSUME NEW i \in Units, NEW version \in Revisions, EditInput(i, version)
      PROVE  EntriesDescribeTheirInputs' /\ Honest'
  <2>1. ~unseen /\ ~SlipsBy(i, version) /\ UNCHANGED entries
    BY <1>3 DEF EditInput
  <2> QED
    BY <1>3, <2>1, EditHonest DEF Reproducible, EntriesDescribeTheirInputs
<1>4. CASE UNCHANGED factCacheVars
  BY <1>4 DEF factCacheVars, passVars, Reproducible, EntriesDescribeTheirInputs, Honest,
              Running, InputSettled, Says, Version
<1> QED
  BY <1>1, <1>2, <1>3, <1>4 DEF CacheNext

LEMMA ReproducibleInit == CacheInit => Reproducible
BY DEF CacheInit, Reproducible, EntriesDescribeTheirInputs, Honest, Running, PassOver

(***************************************************************************)
(* Unless an edit slips past the gates, the cache gives only facts a fresh *)
(* analysis would give, and a published graph has the facts of the sources *)
(* its manifest says (factcache.go:142 and full.go), for any units and     *)
(* providers, however edits, the two kinds of passes, failed renames and   *)
(* abandoned passes interleave.                                            *)
(***************************************************************************)
THEOREM FactsReproduced == CacheSpec => []FactsAreReproducible
<1>1. Shape /\ Reproducible => FactsAreReproducible
  <2> SUFFICES ASSUME Shape, Reproducible, ~unseen, cachePass["index"].stage = "committing",
                      NEW u \in Units, NEW i \in InputsOf(u)
               PROVE  analysis["index"][u].facts[i] = cachePass["index"].observed[i]
    BY DEF FactsAreReproducible, Reproducible
  <2>1. "index" \in Kinds /\ i \in Units
    BY InputsAreUnits DEF Kinds
  <2>2. i \in DOMAIN analysis["index"][u].facts
    BY <2>1 DEF Shape, Progressing, Analysing
  <2>3. Says("index", i, Version("index", i))
    BY <2>1 DEF Reproducible, Honest, Running, InputSettled
  <2> QED
    BY <2>2, <2>3 DEF Says, Version
<1> QED
  BY <1>1, CacheInitShape, CacheShapeStep, ReproducibleInit, ReproducibleStep, PTL DEF CacheSpec

-----------------------------------------------------------------------------
(* The source monitor: what the consumer is told. *)

Outcomes == [change: BOOLEAN, content: Contents \cup {Absent}]

Tracked ==
  /\ disk \in Disks /\ known \in Disks /\ told \in Disks
  /\ unsent \in Results
  /\ loop \in {"setup", "watched"} => unsent = <<>>

Gap == Tracked /\ PendingCoversTheGap

LEMMA NothingPending == <<>> \in Results /\ DOMAIN <<>> = {}
<1>1. <<>> = [f \in {} |-> [change |-> FALSE, content |-> Absent]]
  OBVIOUS
<1>2. <<>> \in [{} -> Outcomes] /\ {} \in SUBSET Files
  BY <1>1 DEF Outcomes
<1> QED
  BY <1>2 DEF Results, Outcomes

LEMMA ResultOf ==
  ASSUME NEW r \in Results
  PROVE  DOMAIN r \subseteq Files /\ \A f \in DOMAIN r : r[f] \in Outcomes
BY DEF Results, Outcomes

LEMMA IsResult ==
  ASSUME NEW D \in SUBSET Files, NEW r \in [D -> Outcomes]
  PROVE  r \in Results /\ DOMAIN r = D
BY DEF Results, Outcomes

LEMMA ComparedTyped ==
  ASSUME Tracked, NEW paths
  PROVE  /\ Compared(paths) \in Results /\ DOMAIN Compared(paths) = paths \cap Files
         /\ \A f \in paths \cap Files :
              /\ Compared(paths)[f].content = disk[f]
              /\ Compared(paths)[f].change <=> disk[f] # known[f]
<1> DEFINE D == paths \cap Files
<1>1. \A f \in D : Compared(paths)[f] = IF disk[f] = known[f]
                                         THEN [change |-> FALSE, content |-> disk[f]]
                                         ELSE [change |-> TRUE, content |-> disk[f]]
  BY DEF Compared
<1>2. Compared(paths) \in [D -> Outcomes]
  <2>1. ASSUME NEW f \in D PROVE Compared(paths)[f] \in Outcomes
    <3>1. disk[f] \in Contents \cup {Absent}
      BY DEF Tracked, Disks
    <3>2. /\ [change |-> FALSE, content |-> disk[f]] \in Outcomes
          /\ [change |-> TRUE, content |-> disk[f]] \in Outcomes
      BY <3>1 DEF Outcomes
    <3> QED
      BY <1>1, <3>2
  <2> QED
    BY <2>1 DEF Compared
<1> QED
  BY <1>1, <1>2, IsResult

LEMMA CoalescedTyped ==
  ASSUME NEW p \in Results, NEW n \in Results
  PROVE  /\ Coalesced(p, n) \in Results
         /\ DOMAIN Coalesced(p, n) = DOMAIN p \cup DOMAIN n
         /\ \A f \in DOMAIN p \cup DOMAIN n :
              Coalesced(p, n)[f]
                = IF f \in DOMAIN n /\ ~(f \in DOMAIN p /\ p[f].change /\ ~n[f].change)
                  THEN n[f] ELSE p[f]
<1> DEFINE D == DOMAIN p \cup DOMAIN n
<1>1. \A f \in D :
        Coalesced(p, n)[f]
          = IF f \in DOMAIN n /\ ~(f \in DOMAIN p /\ p[f].change /\ ~n[f].change)
            THEN n[f] ELSE p[f]
  BY DEF Coalesced
<1>2. D \in SUBSET Files
  BY ResultOf
<1>3. \A f \in D : Coalesced(p, n)[f] \in Outcomes
  BY <1>1, ResultOf
<1>4. Coalesced(p, n) \in [D -> Outcomes]
  BY <1>3 DEF Coalesced
<1> QED
  BY <1>1, <1>2, <1>4, IsResult

LEMMA TakesOverTyped ==
  ASSUME Tracked, NEW r \in Results
  PROVE  /\ TakesOver(r) \in Disks
         /\ \A f \in Files : TakesOver(r)[f] = IF f \in DOMAIN r /\ r[f].change
                                                THEN r[f].content ELSE told[f]
<1>1. \A f \in DOMAIN r : r[f].content \in Contents \cup {Absent}
  BY ResultOf DEF Outcomes
<1> QED
  BY <1>1 DEF TakesOver, Tracked, Disks

LEMMA KnownAfterTyped ==
  ASSUME Tracked, NEW r \in Results
  PROVE  /\ KnownAfter(r) \in Disks
         /\ \A f \in Files : KnownAfter(r)[f] = IF f \in DOMAIN r THEN r[f].content ELSE known[f]
<1>1. \A f \in DOMAIN r : r[f].content \in Contents \cup {Absent}
  BY ResultOf DEF Outcomes
<1> QED
  BY <1>1 DEF KnownAfter, Tracked, Disks

\* Once told', unsent' and known' are as they were meant to be, nothing is missing.
LEMMA Emptied ==
  ASSUME told' \in Disks, known' = told', unsent' = <<>>
  PROVE  PendingCoversTheGap'
<1>1. \A f \in Files : f \notin DOMAIN <<>>
  BY NothingPending
<1> QED
  BY <1>1 DEF PendingCoversTheGap, TakesOver, Disks

LEMMA DeliverGap ==
  ASSUME Tracked, NEW r \in Results, Deliver(r), known' = TakesOver(r)
  PROVE  told' \in Disks /\ unsent' \in Results /\ PendingCoversTheGap'
<1>1. CASE told' = TakesOver(r) /\ unsent' = <<>>
  BY <1>1, TakesOverTyped, NothingPending, Emptied
<1>2. CASE told' = told /\ unsent' = r
  BY <1>2 DEF PendingCoversTheGap, TakesOver, Tracked
<1> QED
  BY <1>1, <1>2 DEF Deliver

\* A result that piles up on the pending one describes what the cache has become.
LEMMA ReportGap ==
  ASSUME Gap, NEW paths, Report(Compared(paths))
  PROVE  known' \in Disks /\ told' \in Disks /\ unsent' \in Results /\ PendingCoversTheGap'
<1> DEFINE r == Compared(paths)
<1>1. /\ r \in Results /\ DOMAIN r = paths \cap Files
      /\ \A f \in paths \cap Files :
           r[f].content = disk[f] /\ (r[f].change <=> disk[f] # known[f])
  BY ComparedTyped DEF Gap
<1>2. known' = KnownAfter(r)
      /\ IF HasSourceChanges(r) THEN Deliver(Coalesced(unsent, r))
                                ELSE UNCHANGED <<unsent, told, watchBudget>>
  BY DEF Report
<1> HIDE DEF r
<1>3. /\ KnownAfter(r) \in Disks
      /\ \A f \in Files : KnownAfter(r)[f] = IF f \in DOMAIN r THEN disk[f] ELSE known[f]
  BY <1>1, KnownAfterTyped DEF Gap
<1>4. \A f \in Files : known[f] = IF f \in DOMAIN unsent /\ unsent[f].change
                                   THEN unsent[f].content ELSE told[f]
  BY TakesOverTyped DEF Gap, Tracked, PendingCoversTheGap
<1>5. CASE HasSourceChanges(r)
  <2> DEFINE c == Coalesced(unsent, r)
  <2>1. /\ c \in Results /\ DOMAIN c = DOMAIN unsent \cup DOMAIN r
        /\ \A f \in DOMAIN unsent \cup DOMAIN r :
             c[f] = IF f \in DOMAIN r /\ ~(f \in DOMAIN unsent /\ unsent[f].change /\ ~r[f].change)
                    THEN r[f] ELSE unsent[f]
    BY <1>1, CoalescedTyped DEF Gap, Tracked
  <2> HIDE DEF c
  <2>2. /\ TakesOver(c) \in Disks
        /\ \A f \in Files : TakesOver(c)[f] = IF f \in DOMAIN c /\ c[f].change
                                               THEN c[f].content ELSE told[f]
    BY <2>1, TakesOverTyped DEF Gap
  <2>3. ASSUME NEW f \in Files PROVE TakesOver(c)[f] = KnownAfter(r)[f]
    <3>1. CASE f \in DOMAIN r /\ r[f].change
      BY <1>1, <1>3, <2>1, <2>2, <3>1
    <3>2. CASE f \in DOMAIN r /\ ~r[f].change
      BY <1>1, <1>3, <1>4, <2>1, <2>2, <3>2
    <3>3. CASE f \notin DOMAIN r
      BY <1>1, <1>3, <1>4, <2>1, <2>2, <3>3
    <3> QED
      BY <3>1, <3>2, <3>3
  <2>4. known' = TakesOver(c)
    BY <1>2, <1>3, <2>2, <2>3 DEF Disks
  <2>5. Deliver(c)
    BY <1>2, <1>5 DEF c
  <2> QED
    BY <1>2, <1>3, <2>1, <2>4, <2>5, DeliverGap DEF Gap
<1>6. CASE ~HasSourceChanges(r)
  <2>1. \A f \in DOMAIN r : disk[f] = known[f]
    BY <1>1, <1>6 DEF HasSourceChanges
  <2>2. \A f \in Files : KnownAfter(r)[f] = known[f]
    BY <1>3, <2>1
  <2>3. known' = known
    BY <1>2, <1>3, <2>2 DEF Gap, Tracked, Disks
  <2> QED
    BY <1>2, <1>6, <2>3 DEF Gap, Tracked, PendingCoversTheGap, TakesOver
<1> QED
  BY <1>5, <1>6

LEMMA GapInit == WatchInit => Gap
<1> SUFFICES ASSUME WatchInit PROVE Gap
  OBVIOUS
<1>1. Tracked
  BY NothingPending DEF WatchInit, Tracked, Disks
<1>2. PendingCoversTheGap
  BY NothingPending DEF WatchInit, PendingCoversTheGap, TakesOver
<1> QED
  BY <1>1, <1>2 DEF Gap

LEMMA GapStep == Gap /\ [WatchNext]_watchVars => Gap'
<1> SUFFICES ASSUME Gap, [WatchNext]_watchVars PROVE Gap'
  OBVIOUS
<1>1. ASSUME disk' \in Disks, UNCHANGED cacheVars,
             loop' = loop \/ loop' \notin {"setup", "watched"} \/ loop \in {"setup", "watched"}
      PROVE  Gap'
  BY <1>1 DEF Gap, Tracked, PendingCoversTheGap, TakesOver, cacheVars
<1>2. CASE TreeStep
  <2>1. disk' \in Disks
    BY <1>2 DEF TreeStep, ChangeFile, MoveOut, MoveIn, Gap, Tracked, Disks
  <2>2. UNCHANGED <<loop, cacheVars>>
    BY <1>2 DEF TreeStep, ChangeFile, MoveOut, MoveIn
  <2> QED
    BY <1>1, <2>1, <2>2
<1>3. CASE PipeStep \/ UNCHANGED watchVars
  <2>1. UNCHANGED <<disk, loop, cacheVars>>
    BY <1>3 DEF PipeStep, TakeRaw, Emit, Collect, TimerFires, Flush, watchVars, treeVars
  <2> QED
    BY <1>1, <2>1 DEF Gap, Tracked
<1>4. CASE InstallWatch \/ SeedFails \/ BatchFails
  <2>1. UNCHANGED <<disk, cacheVars>>
        /\ (loop' = loop \/ loop' \notin {"setup", "watched"} \/ loop \in {"setup", "watched"})
    BY <1>4 DEF InstallWatch, SeedFails, BatchFails, treeVars
  <2> QED
    BY <1>1, <2>1 DEF Gap, Tracked
<1>5. ASSUME NEW paths, Report(Compared(paths)), UNCHANGED disk, loop' = "running"
      PROVE  Gap'
  BY <1>5, ReportGap DEF Gap, Tracked
<1>6. CASE Seed
  <2>1. CASE watchSetting.initial
    BY <1>5, <1>6, <2>1 DEF Seed, treeVars
  <2>2. CASE ~watchSetting.initial
    <3>1. /\ known' = disk /\ told' = disk /\ unsent' = <<>> /\ loop' = "running"
          /\ UNCHANGED disk
      BY <1>6, <2>2 DEF Seed, treeVars, Gap, Tracked
    <3> QED
      BY <3>1, Emptied, NothingPending DEF Gap, Tracked
  <2> QED
    BY <2>1, <2>2
<1>7. CASE ProcessBatch \/ Reconcile
  BY <1>5, <1>7 DEF ProcessBatch, Reconcile, treeVars
<1>8. CASE Redeliver
  <2>1. loop = "running" /\ Deliver(unsent) /\ UNCHANGED <<disk, loop, known>>
    BY <1>8 DEF Redeliver, treeVars
  <2>2. known' = TakesOver(unsent)
    BY <2>1 DEF Gap, PendingCoversTheGap
  <2> QED
    BY <2>1, <2>2, DeliverGap DEF Gap, Tracked
<1> QED
  BY <1>2, <1>3, <1>4, <1>6, <1>7, <1>8 DEF WatchNext, LoopTurn

(***************************************************************************)
(* What the hasher has taken note of and the consumer has not been told is *)
(* exactly what is pending (sourcewatch.go, queuePending, deliverPending   *)
(* and coalesceReconciliationResults), for any tree and any run of edits,  *)
(* failed batches, refusals and reconciliations.                           *)
(***************************************************************************)
THEOREM NothingUntold == WatchSpec => []PendingCoversTheGap
<1>1. Gap => PendingCoversTheGap
  BY DEF Gap
<1> QED
  BY <1>1, GapInit, GapStep, PTL DEF WatchSpec

-----------------------------------------------------------------------------
(* The source monitor: the watch on the directory. *)

RawEvents == [path: Paths, op: {"write", "create", "rename"}]

\* The queued events that tell of the directory itself.
Noticed == {i \in 1 .. Len(raw) : raw[i].op # "write"}
Unwatched == subWatch = [watched |-> FALSE, live |-> FALSE]
Following == subWatch = [watched |-> subExists, live |-> subExists]

\* They come and go in turn, the last one says whether the directory is there, and
\* before the first of them is taken the watch is what that one expects.
Alternate == \A i, j \in Noticed :
  i < j /\ (\A m \in Noticed : ~(i < m /\ m < j)) => raw[i].op # raw[j].op
Latest == \A i \in Noticed : (\A m \in Noticed : m <= i) => (raw[i].op = "create" <=> subExists)
Expected == \A i \in Noticed : (\A m \in Noticed : i <= m) => (raw[i].op = "create" => Unwatched)

Queue == Alternate /\ Latest /\ Expected /\ (Noticed = {} => Following)

Watched ==
  /\ subExists \in BOOLEAN /\ subWatch \in [watched: BOOLEAN, live: BOOLEAN]
  /\ raw \in Seq(RawEvents)
  /\ loop = "setup" => raw = <<>>
  /\ watchSetting.losses = 0 => watchBudget.losses = 0
  /\ watchBudget \in [changes: Nat, losses: Nat, errors: Nat, refusals: Nat]
  /\ watchSetting.losses = 0 /\ Installed => Queue

LEMMA ToldOf ==
  ASSUME Watched
  PROVE  /\ Len(raw) \in Nat /\ Noticed \subseteq 1 .. Len(raw)
         /\ \A i \in 1 .. Len(raw) : i \in Noticed <=> raw[i].op # "write"
         /\ \A i \in 1 .. Len(raw) : raw[i].op \in {"write", "create", "rename"}
<1>1. raw \in Seq(RawEvents)
  BY DEF Watched
<1>2. /\ Len(raw) \in Nat
      /\ \A i \in 1 .. Len(raw) : raw[i] \in RawEvents
  BY <1>1
<1>3. \A i \in 1 .. Len(raw) : raw[i].op \in {"write", "create", "rename"}
  BY <1>2 DEF RawEvents
<1>4. Noticed \subseteq 1 .. Len(raw)
  BY DEF Noticed
<1>5. \A i \in 1 .. Len(raw) : i \in Noticed <=> raw[i].op # "write"
  BY DEF Noticed
<1> QED
  BY <1>2, <1>3, <1>4, <1>5

\* An event is queued: of a file, or of the directory as it has come to be.
LEMMA QueueGrows ==
  ASSUME Watched, Queue, NEW e \in RawEvents,
         raw' = Append(raw, e),
         \/ e.op = "write" /\ UNCHANGED <<subExists, subWatch>>
         \/ e.op = "create" /\ ~subExists /\ subExists' = TRUE /\ UNCHANGED subWatch
         \/ /\ e.op = "rename" /\ subExists /\ subExists' = FALSE
            /\ subWatch' = [subWatch EXCEPT !.live = FALSE]
  PROVE  Queue'
<1> DEFINE n == Len(raw) + 1
<1>1. /\ Len(raw') = n /\ raw'[n] = e /\ n \in Nat
      /\ \A i \in 1 .. Len(raw) : raw'[i] = raw[i]
  BY DEF Watched
<1>2. /\ n \in Nat
      /\ \A i \in Noticed : i \in Nat /\ i < n /\ raw'[i] = raw[i]
      /\ \A i \in Noticed : raw[i].op \in {"create", "rename"}
  BY <1>1, ToldOf
<1>3. Noticed' = IF e.op = "write" THEN Noticed ELSE Noticed \cup {n}
  BY <1>1, ToldOf DEF Noticed
<1> HIDE DEF n
<1>4. CASE e.op = "write"
  <2>1. Noticed' = Noticed
    BY <1>3, <1>4
  <2>2. Alternate'
    <3> SUFFICES ASSUME NEW i \in Noticed', NEW j \in Noticed', i < j,
                        \A m \in Noticed' : ~(i < m /\ m < j)
                 PROVE  raw'[i].op # raw'[j].op
      BY DEF Alternate
    <3>1. i \in Noticed /\ j \in Noticed /\ \A m \in Noticed : ~(i < m /\ m < j)
      BY <2>1
    <3>2. raw[i].op # raw[j].op
      BY <3>1 DEF Queue, Alternate
    <3> QED
      BY <1>2, <3>1, <3>2
  <2>3. Latest'
    <3> SUFFICES ASSUME NEW i \in Noticed', \A m \in Noticed' : m <= i
                 PROVE  raw'[i].op = "create" <=> subExists'
      BY DEF Latest
    <3>1. i \in Noticed /\ \A m \in Noticed : m <= i
      BY <2>1
    <3>2. raw[i].op = "create" <=> subExists
      BY <3>1 DEF Queue, Latest
    <3> QED
      BY <1>2, <1>4, <3>1, <3>2
  <2>4. Expected'
    BY <1>2, <1>4, <2>1 DEF Queue, Expected, Unwatched
  <2> QED
    BY <1>4, <2>1, <2>2, <2>3, <2>4 DEF Queue, Following
<1>5. CASE e.op # "write"
  <2>1. Noticed' = Noticed \cup {n} /\ n \notin Noticed
    BY <1>2, <1>3, <1>5
  <2>2. \A i \in Noticed : (\A m \in Noticed : m <= i) => raw[i].op # e.op
    BY <1>5 DEF Queue, Latest
  <2>3. Alternate'
    <3> SUFFICES ASSUME NEW i \in Noticed', NEW j \in Noticed', i < j,
                        \A m \in Noticed' : ~(i < m /\ m < j)
                 PROVE  raw'[i].op # raw'[j].op
      BY DEF Alternate
    <3>1. i \in Noticed
      BY <1>1, <1>2, <2>1
    <3>2. CASE j = n
      <4>1. \A m \in Noticed : m <= i
        BY <1>2, <2>1, <3>1, <3>2
      <4> QED
        BY <1>1, <1>2, <2>2, <3>1, <3>2, <4>1
    <3>3. CASE j \in Noticed
      <4>1. \A m \in Noticed : ~(i < m /\ m < j)
        BY <2>1
      <4>2. raw[i].op # raw[j].op
        BY <3>1, <3>3, <4>1 DEF Queue, Alternate
      <4> QED
        BY <1>2, <3>1, <3>3, <4>2
    <3> QED
      BY <2>1, <3>2, <3>3
  <2>4. Latest'
    <3> SUFFICES ASSUME NEW i \in Noticed', \A m \in Noticed' : m <= i
                 PROVE  raw'[i].op = "create" <=> subExists'
      BY DEF Latest
    <3>1. i = n
      BY <1>2, <2>1
    <3> QED
      BY <1>1, <1>5, <3>1
  <2>5. Expected'
    <3> SUFFICES ASSUME NEW i \in Noticed', \A m \in Noticed' : i <= m, raw'[i].op = "create"
                 PROVE  Unwatched'
      BY DEF Expected
    <3>1. CASE i \in Noticed
      <4>1. (\A m \in Noticed : i <= m) /\ raw[i].op = "create"
        BY <1>2, <2>1, <3>1
      <4>2. Unwatched
        BY <3>1, <4>1 DEF Queue, Expected
      <4> QED
        BY <4>2 DEF Unwatched, Watched
    <3>2. CASE i = n
      <4>1. Noticed = {}
        BY <1>2, <2>1, <3>2
      <4> QED
        BY <1>1, <3>2, <4>1 DEF Queue, Unwatched, Following, Watched
    <3> QED
      BY <2>1, <3>1, <3>2
  <2> QED
    BY <2>1, <2>3, <2>4, <2>5 DEF Queue
<1> QED
  BY <1>4, <1>5

\* The watcher takes the first event; the watch is then what the next one expects.
LEMMA QueueShrinks ==
  ASSUME Watched, Queue, raw # <<>>, raw' = Tail(raw), UNCHANGED subExists,
         subWatch' = CASE Head(raw).op = "create" -> AddTree
                       [] Head(raw).op = "rename" -> RemoveTree
                       [] OTHER -> subWatch
  PROVE  Queue'
<1>1. /\ Len(raw) \in Nat \ {0} /\ Len(raw') = Len(raw) - 1 /\ Head(raw) = raw[1]
      /\ \A i \in 1 .. Len(raw') : raw'[i] = raw[i + 1]
  BY DEF Watched
<1>2. /\ \A i \in Noticed' : i \in Nat /\ i >= 1 /\ i + 1 \in Noticed /\ raw'[i] = raw[i + 1]
      /\ \A i \in Noticed : i \in Nat /\ i >= 1 /\ (i = 1 \/ i - 1 \in Noticed')
      /\ 1 \in Noticed <=> raw[1].op # "write"
  BY <1>1, ToldOf DEF Noticed
<1>3. Alternate'
  <2> SUFFICES ASSUME NEW i \in Noticed', NEW j \in Noticed', i < j,
                      \A m \in Noticed' : ~(i < m /\ m < j)
               PROVE  raw'[i].op # raw'[j].op
    BY DEF Alternate
  <2>1. i + 1 \in Noticed /\ j + 1 \in Noticed /\ i + 1 < j + 1
    BY <1>2
  <2>2. ASSUME NEW m \in Noticed, i + 1 < m, m < j + 1 PROVE FALSE
    <3>1. m - 1 \in Noticed' /\ i < m - 1 /\ m - 1 < j
      BY <1>2, <2>2
    <3> QED
      BY <3>1
  <2>3. raw[i + 1].op # raw[j + 1].op
    BY <2>1, <2>2 DEF Queue, Alternate
  <2> QED
    BY <1>2, <2>3
<1>4. Latest'
  <2> SUFFICES ASSUME NEW i \in Noticed', \A m \in Noticed' : m <= i
               PROVE  raw'[i].op = "create" <=> subExists'
    BY DEF Latest
  <2>1. i + 1 \in Noticed /\ \A m \in Noticed : m <= i + 1
    BY <1>2
  <2> QED
    BY <1>2, <2>1 DEF Queue, Latest
<1>5. CASE raw[1].op = "write"
  <2>1. subWatch' = subWatch /\ 1 \notin Noticed
    BY <1>1, <1>2, <1>5
  <2>2. ASSUME NEW i \in Noticed', \A m \in Noticed' : i <= m, raw'[i].op = "create"
        PROVE  Unwatched'
    <3>1. i + 1 \in Noticed /\ \A m \in Noticed : i + 1 <= m
      BY <1>2, <2>1, <2>2
    <3> QED
      BY <1>2, <2>1, <2>2, <3>1 DEF Queue, Expected, Unwatched
  <2>3. Noticed' = {} => Following'
    BY <1>2, <2>1 DEF Queue, Following
  <2> QED
    BY <1>3, <1>4, <2>2, <2>3 DEF Queue, Expected
<1>6. CASE raw[1].op # "write"
  <2>1. 1 \in Noticed /\ \A m \in Noticed : 1 <= m
    BY <1>2, <1>6
  <2>2. raw[1].op \in {"create", "rename"}
    BY <1>1, <1>6, ToldOf
  <2>3. ASSUME NEW i \in Noticed', \A m \in Noticed' : i <= m PROVE raw'[i].op # raw[1].op
    <3>1. i + 1 \in Noticed /\ 1 < i + 1
      BY <1>2, <2>3
    <3>2. \A m \in Noticed : ~(1 < m /\ m < i + 1)
      BY <1>2, <2>3
    <3>3. raw[1].op # raw[i + 1].op
      BY <2>1, <3>1, <3>2 DEF Queue, Alternate
    <3> QED
      BY <1>2, <2>3, <3>3
  <2>4. Noticed' = {} => (raw[1].op = "create" <=> subExists)
    BY <1>2, <2>1 DEF Queue, Latest
  <2>5. CASE raw[1].op = "create"
    <3>1. Unwatched /\ subWatch' = AddTree
      BY <1>1, <2>1, <2>5 DEF Queue, Expected
    <3>2. Expected'
      BY <2>3, <2>5 DEF Expected
    <3>3. Noticed' = {} => Following'
      BY <2>4, <2>5, <3>1 DEF AddTree, Unwatched, Following, Watched
    <3> QED
      BY <1>3, <1>4, <3>2, <3>3 DEF Queue
  <2>6. CASE raw[1].op = "rename"
    <3>1. Unwatched'
      BY <1>1, <2>6 DEF RemoveTree, Unwatched
    <3>2. Noticed' = {} => Following'
      BY <2>4, <2>6, <3>1 DEF Unwatched, Following, Watched
    <3> QED
      BY <1>3, <1>4, <3>1, <3>2 DEF Queue, Expected
  <2> QED
    BY <2>2, <2>5, <2>6
<1> QED
  BY <1>5, <1>6

\* What the tree's steps do to the queue: nothing, or one event more unless it is lost.
LEMMA ReportsOnce ==
  ASSUME Watched, NEW e \in RawEvents, NEW seen \in BOOLEAN,
         Reports(e, seen), UNCHANGED watchSetting
  PROVE  /\ watchBudget' \in [changes: Nat, losses: Nat, errors: Nat, refusals: Nat]
         /\ watchSetting.losses = 0 => watchBudget'.losses = 0
         /\ raw' = raw \/ raw' = Append(raw, e)
         /\ raw' \in Seq(RawEvents)
         /\ ~Installed => raw' = raw
         /\ watchSetting.losses = 0 /\ Installed /\ seen => raw' = Append(raw, e)
<1>1. CASE Spend("changes")
  <2>1. watchBudget' \in [changes: Nat, losses: Nat, errors: Nat, refusals: Nat]
        /\ watchBudget'.losses = watchBudget.losses
    BY <1>1 DEF Watched, Spend
  <2>2. raw' = raw \/ raw' = Append(raw, e)
    BY DEF Reports
  <2>3. watchSetting.losses = 0 => watchBudget.losses = 0
    BY DEF Watched
  <2>4. watchSetting.losses = 0 /\ Installed /\ seen => raw' = Append(raw, e)
    BY <2>3 DEF Reports, Watched
  <2>5. ~Installed => raw' = raw
    BY DEF Reports
  <2>6. raw' \in Seq(RawEvents)
    <3>1. raw \in Seq(RawEvents)
      BY DEF Watched
    <3> QED
      BY <2>2, <3>1
  <2> QED
    BY <2>1, <2>2, <2>3, <2>4, <2>5, <2>6
<1>2. CASE Installed /\ watchBudget.losses > 0 /\ watchBudget.changes > 0
           /\ watchBudget' = [watchBudget EXCEPT !.losses = @ - 1, !.changes = @ - 1]
           /\ UNCHANGED raw
  <2>1. watchSetting.losses # 0
    BY <1>2 DEF Watched
  <2>2. watchBudget' \in [changes: Nat, losses: Nat, errors: Nat, refusals: Nat]
    <3>1. watchBudget \in [changes: Nat, losses: Nat, errors: Nat, refusals: Nat]
      BY DEF Watched
    <3>2. watchBudget.losses - 1 \in Nat /\ watchBudget.changes - 1 \in Nat
      BY <1>2, <3>1
    <3> QED
      BY <1>2, <3>1, <3>2
  <2>3. raw' = raw /\ raw' \in Seq(RawEvents)
    BY <1>2 DEF Watched
  <2> QED
    BY <2>1, <2>2, <2>3
<1> QED
  BY <1>1, <1>2 DEF Reports

LEMMA WatchedInit == WatchInit => Watched
<1> SUFFICES ASSUME WatchInit PROVE Watched
  OBVIOUS
<1>1. watchSetting \in WatchSetting
  BY WatchSettingsAssumption DEF WatchInit
<1>2. loop \in {"setup", "stopped"} /\ raw = <<>> /\ subExists = TRUE
      /\ subWatch = [watched |-> FALSE, live |-> FALSE]
  BY DEF WatchInit
<1>3. watchBudget \in [changes: Nat, losses: Nat, errors: Nat, refusals: Nat]
      /\ watchBudget.losses = watchSetting.losses
  BY <1>1 DEF WatchInit, WatchSetting
<1> QED
  BY <1>2, <1>3 DEF Watched, Installed

\* A step that neither tells of the directory nor takes what was told.
LEMMA WatchedStays ==
  ASSUME Watched, UNCHANGED <<watchSetting, subExists, subWatch, raw>>,
         watchBudget' = watchBudget \/ \E trouble \in {"errors", "refusals"} : Spend(trouble),
         loop' = loop \/ (loop = "watched" /\ loop' \in {"running", "stopped"})
  PROVE  Watched'
<1>1. /\ watchBudget' \in [changes: Nat, losses: Nat, errors: Nat, refusals: Nat]
      /\ watchBudget'.losses = watchBudget.losses
  BY DEF Watched, Spend
<1>2. Queue' <=> Queue
  BY DEF Queue, Alternate, Latest, Expected, Noticed, Unwatched, Following
<1>3. Installed' => Installed
  BY DEF Installed
<1> QED
  BY <1>1, <1>2, <1>3 DEF Watched

LEMMA WatchedStep == Watched /\ [WatchNext]_watchVars => Watched'
<1> SUFFICES ASSUME Watched, [WatchNext]_watchVars PROVE Watched'
  OBVIOUS
<1>1. ASSUME NEW f \in Files, NEW c \in Contents \cup {Absent}, ChangeFile(f, c) PROVE Watched'
  <2>1. Event(f, "write") \in RawEvents /\ Event(f, "write").op = "write"
    BY DEF Event, Paths, RawEvents
  <2>2. (f \in TopFiles \/ subWatch.live) \in BOOLEAN
    BY DEF Watched
  <2>3. Reports(Event(f, "write"), f \in TopFiles \/ subWatch.live)
        /\ UNCHANGED <<watchSetting, subExists, subWatch, loop>>
    BY <1>1 DEF ChangeFile
  <2>4. CASE raw' = raw
    <3>1. Queue' <=> Queue
      BY <2>3, <2>4 DEF Queue, Alternate, Latest, Expected, Noticed, Unwatched, Following
    <3> QED
      BY <2>1, <2>2, <2>3, <2>4, <3>1, ReportsOnce DEF Watched, Installed
  <2>5. CASE raw' = Append(raw, Event(f, "write")) /\ Installed
    <3>1. Queue => Queue'
      BY <2>1, <2>3, <2>5, QueueGrows
    <3> QED
      BY <2>1, <2>2, <2>3, <2>5, <3>1, ReportsOnce DEF Watched, Installed
  <2> QED
    BY <2>1, <2>2, <2>3, <2>4, <2>5, ReportsOnce
<1>2. CASE MoveOut
  <2>1. Event(Sub, "rename") \in RawEvents /\ Event(Sub, "rename").op = "rename"
    BY DEF Event, Paths, RawEvents
  <2>2. /\ subExists /\ subExists' = FALSE /\ Reports(Event(Sub, "rename"), TRUE)
        /\ subWatch' = [subWatch EXCEPT !.live = FALSE]
        /\ UNCHANGED <<watchSetting, loop>>
    BY <1>2 DEF MoveOut
  <2>3. subWatch' \in [watched: BOOLEAN, live: BOOLEAN]
    BY <2>2 DEF Watched
  <2>4. Queue /\ raw' = Append(raw, Event(Sub, "rename")) => Queue'
    BY <2>1, <2>2, QueueGrows
  <2> QED
    BY <2>1, <2>2, <2>3, <2>4, ReportsOnce DEF Watched, Installed
<1>3. ASSUME NEW c \in [SubFiles -> Contents], MoveIn(c) PROVE Watched'
  <2>1. Event(Sub, "create") \in RawEvents /\ Event(Sub, "create").op = "create"
    BY DEF Event, Paths, RawEvents
  <2>2. /\ ~subExists /\ subExists' = TRUE /\ Reports(Event(Sub, "create"), TRUE)
        /\ UNCHANGED <<watchSetting, loop, subWatch>>
    BY <1>3 DEF MoveIn
  <2>3. Queue /\ raw' = Append(raw, Event(Sub, "create")) => Queue'
    BY <2>1, <2>2, QueueGrows
  <2> QED
    BY <2>1, <2>2, <2>3, ReportsOnce DEF Watched, Installed
<1>4. CASE TakeRaw
  <2>1. /\ loop = "running" /\ raw # <<>> /\ raw' = Tail(raw)
        /\ UNCHANGED <<watchSetting, subExists, loop, watchBudget>>
        /\ subWatch' = CASE Head(raw).op = "create" -> AddTree
                         [] Head(raw).op = "rename" -> RemoveTree
                         [] OTHER -> subWatch
    BY <1>4 DEF TakeRaw
  <2>2. subWatch' \in [watched: BOOLEAN, live: BOOLEAN]
    BY <2>1 DEF Watched, AddTree, RemoveTree
  <2>3. raw' \in Seq(RawEvents)
    BY <2>1 DEF Watched
  <2>4. Queue => Queue'
    BY <2>1, QueueShrinks
  <2> QED
    BY <2>1, <2>2, <2>3, <2>4 DEF Watched, Installed
<1>5. CASE InstallWatch
  <2>1. /\ loop = "setup" /\ loop' = "watched" /\ raw = <<>> /\ raw' = raw
        /\ subWatch' = [watched |-> subExists, live |-> subExists]
        /\ UNCHANGED <<watchSetting, subExists, watchBudget>>
    BY <1>5 DEF InstallWatch, pipeVars, Watched
  <2>2. Noticed' = {} /\ Following'
    BY <2>1 DEF Noticed, Following
  <2>3. Queue'
    BY <2>2 DEF Queue, Alternate, Latest, Expected
  <2> QED
    BY <2>1, <2>3 DEF Watched
<1>6. CASE Emit \/ Collect \/ TimerFires \/ Flush
  <2>1. UNCHANGED <<watchSetting, subExists, subWatch, raw, watchBudget, loop>>
    BY <1>6 DEF Emit, Collect, TimerFires, Flush, treeVars
  <2> QED
    BY <2>1, WatchedStays
<1>7. ASSUME NEW r, Deliver(r) PROVE watchBudget' = watchBudget \/ Spend("refusals")
  BY <1>7 DEF Deliver
<1>8. ASSUME NEW r, Report(r) PROVE watchBudget' = watchBudget \/ Spend("refusals")
  BY <1>7, <1>8 DEF Report
<1>9. CASE Seed \/ SeedFails \/ ProcessBatch \/ BatchFails \/ Reconcile \/ Redeliver
  <2>1. UNCHANGED <<watchSetting, subExists, subWatch, raw>>
        /\ (loop' = loop \/ (loop = "watched" /\ loop' \in {"running", "stopped"}))
    BY <1>9 DEF Seed, SeedFails, ProcessBatch, BatchFails, Reconcile, Redeliver, treeVars, pipeVars
  <2>2. watchBudget' = watchBudget \/ Spend("refusals") \/ Spend("errors")
    BY <1>7, <1>8, <1>9 DEF Seed, SeedFails, ProcessBatch, BatchFails, Reconcile, Redeliver
  <2> QED
    BY <2>1, <2>2, WatchedStays
<1>10. CASE UNCHANGED watchVars
  BY <1>10, WatchedStays DEF watchVars, treeVars, pipeVars
<1> QED
  BY <1>1, <1>2, <1>3, <1>4, <1>5, <1>6, <1>9, <1>10 DEF WatchNext, TreeStep, PipeStep, LoopTurn

(***************************************************************************)
(* A directory that comes and goes is watched when it is there and only    *)
(* then, once the events of it are taken (watcher.go, processEvent,        *)
(* addTree and removeTree), however late they are taken and whatever the   *)
(* directory has become by then, if the system loses none.                 *)
(***************************************************************************)
THEOREM WatchIsFresh == WatchSpec => []WatchFollowsTree
<1>1. Watched => WatchFollowsTree
  <2> SUFFICES ASSUME Watched, watchSetting.losses = 0, loop = "running", raw = <<>>
               PROVE  Following
    BY DEF WatchFollowsTree, Following
  <2>1. Noticed = {}
    BY DEF Noticed
  <2> QED
    BY <2>1 DEF Watched, Installed, Queue
<1> QED
  BY <1>1, WatchedInit, WatchedStep, PTL DEF WatchSpec

-----------------------------------------------------------------------------
(* The source monitor: its channels and its budget. *)

LeftOf(limit) == [changes: 0 .. limit.changes, losses: 0 .. limit.losses,
                  errors: 0 .. limit.errors, refusals: 0 .. limit.refusals]

\* What is on its way through the three goroutines.
Piped ==
  /\ emitting \in {<<>>} \cup {<<p>> : p \in Paths}
  /\ events \in Seq(Paths) /\ Len(events) <= EventBuffer
  /\ collecting \in [paths: SUBSET Paths, flushing: BOOLEAN]
  /\ batches \in Seq(SUBSET Paths) /\ Len(batches) <= BatchBuffer
  /\ loop \in {"setup", "watched", "running", "stopped"}

Budgeted == watchSetting \in WatchSettings /\ watchBudget \in LeftOf(watchSetting)

LEMMA PipedInit == WatchInit => Piped /\ Budgeted
<1> SUFFICES ASSUME WatchInit PROVE Piped /\ Budgeted
  OBVIOUS
<1>1. Piped
  BY BuffersAssumption DEF WatchInit, Piped
<1>2. watchSetting \in WatchSettings /\ watchSetting \in WatchSetting
  BY WatchSettingsAssumption DEF WatchInit
<1>3. watchBudget \in LeftOf(watchSetting)
  BY <1>2 DEF WatchInit, LeftOf, WatchSetting
<1> QED
  BY <1>1, <1>2, <1>3 DEF Budgeted

LEMMA SpendBudgeted ==
  ASSUME Budgeted, UNCHANGED watchSetting,
         \/ watchBudget' = watchBudget
         \/ \E trouble \in {"changes", "losses", "errors", "refusals"} : Spend(trouble)
         \/ /\ watchBudget.losses > 0 /\ watchBudget.changes > 0
            /\ watchBudget' = [watchBudget EXCEPT !.losses = @ - 1, !.changes = @ - 1]
  PROVE  Budgeted'
<1>1. watchSetting \in WatchSetting
  BY WatchSettingsAssumption DEF Budgeted
<1>2. watchBudget \in LeftOf(watchSetting)
  BY DEF Budgeted
<1>3. ASSUME NEW trouble \in {"changes", "losses", "errors", "refusals"}, Spend(trouble)
      PROVE  watchBudget' \in LeftOf(watchSetting)
  BY <1>1, <1>2, <1>3 DEF Spend, LeftOf, WatchSetting
<1>4. ASSUME watchBudget.losses > 0, watchBudget.changes > 0,
             watchBudget' = [watchBudget EXCEPT !.losses = @ - 1, !.changes = @ - 1]
      PROVE  watchBudget' \in LeftOf(watchSetting)
  <2>1. /\ watchBudget.losses - 1 \in 0 .. watchSetting.losses
        /\ watchBudget.changes - 1 \in 0 .. watchSetting.changes
    BY <1>1, <1>2, <1>4 DEF LeftOf, WatchSetting
  <2> QED
    BY <1>2, <1>4, <2>1 DEF LeftOf
<1>5. watchBudget' \in LeftOf(watchSetting)
  BY <1>2, <1>3, <1>4
<1> QED
  BY <1>5 DEF Budgeted

LEMMA PipedStep == Watched /\ Piped /\ [WatchNext]_watchVars => Piped'
<1> SUFFICES ASSUME Watched, Piped, [WatchNext]_watchVars PROVE Piped'
  OBVIOUS
<1>1. CASE TreeStep \/ InstallWatch \/ Seed \/ SeedFails \/ Reconcile \/ Redeliver
           \/ UNCHANGED watchVars
  <2>1. UNCHANGED <<emitting, events, collecting, batches>>
        /\ (loop' = loop \/ loop' \in {"watched", "running", "stopped"})
    BY <1>1 DEF TreeStep, ChangeFile, MoveOut, MoveIn, InstallWatch, Seed, SeedFails, Reconcile,
                Redeliver, watchVars, pipeVars
  <2> QED
    BY <2>1 DEF Piped
<1>2. CASE TakeRaw
  <2>1. Head(raw).path \in Paths
    <3>1. raw \in Seq(RawEvents) /\ raw # <<>>
      BY <1>2 DEF TakeRaw, Watched
    <3>2. Head(raw) \in RawEvents
      BY <3>1
    <3> QED
      BY <3>2 DEF RawEvents
  <2> QED
    BY <1>2, <2>1 DEF TakeRaw, Piped
<1>3. CASE Emit
  <2>1. PICK p \in Paths : emitting = <<p>>
    BY <1>3 DEF Emit, Piped
  <2>2. events' = events \o <<p>> /\ Len(events) < EventBuffer
    BY <1>3, <2>1 DEF Emit
  <2>3. events' \in Seq(Paths) /\ Len(events') = Len(events) + 1
    BY <2>2 DEF Piped
  <2>4. Len(events') <= EventBuffer /\ emitting' = <<>> /\ UNCHANGED <<collecting, batches, loop>>
    BY <1>3, <2>2, <2>3, BuffersAssumption DEF Emit, Piped
  <2> QED
    BY <2>3, <2>4 DEF Piped
<1>4. CASE Collect
  <2>1. /\ events # <<>> /\ events' = Tail(events)
        /\ collecting' = [collecting EXCEPT !.paths = @ \cup {Head(events)}]
        /\ UNCHANGED <<emitting, batches, loop>>
    BY <1>4 DEF Collect
  <2>2. /\ Head(events) \in Paths /\ Tail(events) \in Seq(Paths)
        /\ Len(Tail(events)) = Len(events) - 1 /\ Len(events) \in Nat
    BY <2>1 DEF Piped
  <2>3. collecting' \in [paths: SUBSET Paths, flushing: BOOLEAN]
    BY <2>1, <2>2 DEF Piped
  <2> QED
    BY <2>1, <2>2, <2>3, BuffersAssumption DEF Piped
<1>5. CASE TimerFires
  BY <1>5 DEF TimerFires, Piped
<1>6. CASE Flush
  <2>1. /\ Len(batches) < BatchBuffer /\ batches' = Append(batches, collecting.paths)
        /\ collecting' = [paths |-> {}, flushing |-> FALSE]
        /\ UNCHANGED <<emitting, events, loop>>
    BY <1>6 DEF Flush
  <2>2. /\ collecting.paths \in SUBSET Paths /\ Len(batches) \in Nat
        /\ batches' \in Seq(SUBSET Paths) /\ Len(batches') = Len(batches) + 1
    BY <2>1 DEF Piped
  <2> QED
    BY <2>1, <2>2, BuffersAssumption DEF Piped
<1>7. CASE ProcessBatch \/ BatchFails
  <2>1. /\ batches # <<>> /\ batches' = Tail(batches)
        /\ UNCHANGED <<emitting, events, collecting, loop>>
    BY <1>7 DEF ProcessBatch, BatchFails
  <2>2. /\ Tail(batches) \in Seq(SUBSET Paths) /\ Len(batches) \in Nat
        /\ Len(Tail(batches)) = Len(batches) - 1
    BY <2>1 DEF Piped
  <2> QED
    BY <2>1, <2>2, BuffersAssumption DEF Piped
<1> QED
  BY <1>1, <1>2, <1>3, <1>4, <1>5, <1>6, <1>7 DEF WatchNext, PipeStep, LoopTurn

LEMMA BudgetedStep == Budgeted /\ [WatchNext]_watchVars => Budgeted'
<1> SUFFICES ASSUME Budgeted, [WatchNext]_watchVars PROVE Budgeted'
  OBVIOUS
<1>1. UNCHANGED watchSetting
  BY DEF WatchNext, TreeStep, PipeStep, LoopTurn, ChangeFile, MoveOut, MoveIn, TakeRaw, Emit,
         Collect, TimerFires, Flush, InstallWatch, Seed, SeedFails, ProcessBatch, BatchFails,
         Reconcile, Redeliver, watchVars
<1>2. CASE TreeStep
  <2>1. PICK event, seen : Reports(event, seen)
    BY <1>2 DEF TreeStep, ChangeFile, MoveOut, MoveIn
  <2> QED
    BY <1>1, <2>1, SpendBudgeted DEF Reports
<1>3. CASE PipeStep \/ InstallWatch \/ UNCHANGED watchVars
  <2>1. UNCHANGED watchBudget
    BY <1>3 DEF PipeStep, TakeRaw, Emit, Collect, TimerFires, Flush, InstallWatch, watchVars
  <2> QED
    BY <1>1, <2>1, SpendBudgeted
<1>4. CASE SeedFails \/ BatchFails
  BY <1>1, <1>4, SpendBudgeted DEF SeedFails, BatchFails
<1>5. CASE Seed \/ ProcessBatch \/ Reconcile \/ Redeliver
  <2>1. ASSUME NEW r, Deliver(r) PROVE watchBudget' = watchBudget \/ Spend("refusals")
    BY <2>1 DEF Deliver
  <2>2. ASSUME NEW r, Report(r) PROVE watchBudget' = watchBudget \/ Spend("refusals")
    BY <2>1, <2>2 DEF Report
  <2>3. watchBudget' = watchBudget \/ Spend("refusals")
    BY <1>5, <2>1, <2>2 DEF Seed, ProcessBatch, Reconcile, Redeliver
  <2> QED
    BY <1>1, <2>3, SpendBudgeted
<1> QED
  BY <1>2, <1>3, <1>4, <1>5 DEF WatchNext, LoopTurn

(***************************************************************************)
(* Every reachable state of the source monitor is well typed: nothing but  *)
(* paths of the tree is on its way, and the channels of the watcher and    *)
(* the batcher stay within their capacity (emit, flush).                   *)
(***************************************************************************)
THEOREM MonitorTyped == WatchSpec => []WatchTypeOK
<1>1. Gap /\ Watched /\ Piped /\ Budgeted => WatchTypeOK
  BY DEF Gap, Tracked, Watched, RawEvents, Piped, Budgeted, LeftOf, WatchTypeOK
<1> QED
  BY <1>1, GapInit, GapStep, WatchedInit, WatchedStep, PipedInit, PipedStep, BudgetedStep, PTL
     DEF WatchSpec

-----------------------------------------------------------------------------
(* Content freshness: the types. *)

USE FreshnessBounds, NoRecordAssumption, FreshnessSettingsAssumption

Monitors == [phase: {"none", "setup", "watching"}, queued: BOOLEAN,
             verify: [generation: GraphIds, state: States \cup {"none", "reading"}]]
Passes == [kind: {"none", "index", "reindex"}, version: Versions, id: GraphIds,
           phase: {"idle", "indexing", "recording", "attaching", "rechecking",
                   "storing", "restarting"}, published: BOOLEAN]

\* What the cache is set to is a status.
LEMMA StatusTyped ==
  ASSUME cache \in Status
  PROVE  /\ \A state \in States : Marked(state) \in Status
         /\ MarkStale => cache' \in Status
         /\ MarkUnavailable => cache' \in Status
  BY DEF Status, States, Marked, MarkStale, MarkUnavailable

\* A check of a generation answers one of the four states.
LEMMA CheckTyped == \A g \in GraphIds : CheckedState(g) \subseteq States
  BY DEF CheckedState, States

\* The circumstances bound the edits.
LEMMA FreshnessSettingTyped ==
  ASSUME freshnessSetting \in FreshnessSettings
  PROVE  /\ freshnessSetting.edits \in Versions
         /\ freshnessSetting.passes \subseteq {"index", "reindex"}
         /\ freshnessSetting.faults \in BOOLEAN
  BY DEF FreshnessSetting

\* A monitor that has nothing to verify, and one that starts.
LEMMA NewMonitorTyped ==
  /\ NoVerify \in [generation: GraphIds, state: States \cup {"none", "reading"}]
  /\ NoMonitor \in Monitors
  /\ NewMonitor \in Monitors
  <1>1. NoVerify \in [generation: GraphIds, state: States \cup {"none", "reading"}]
    BY DEF NoVerify, GraphIds, States
  <1>2. NoMonitor \in Monitors
    BY <1>1 DEF NoMonitor, Monitors
  <1> QED
    BY <1>1, <1>2 DEF NewMonitor, Monitors

LEMMA FreshnessInitTyped == FreshnessInit => FreshnessTypeOK
  <1> SUFFICES ASSUME FreshnessInit PROVE FreshnessTypeOK
    OBVIOUS
  <1> USE DEF FreshnessInit
  <1>1. freshnessSetting \in FreshnessSettings /\ freshnessSetting.edits \in Versions
    BY FreshnessSettingTyped
  <1>2. sources \in Versions
    BY <1>1 DEF Versions
  <1>3. builtFrom \in [GraphIds -> Versions]
    BY DEF Versions
  <1>4. record \in [GraphIds -> Versions \cup {NoRecord}]
    BY DEF Versions
  <1>5. current \in GraphIds /\ serving \in 0 .. current /\ compared \subseteq GraphIds
    BY DEF GraphIds
  <1>6. cache \in Status
    BY <1>5 DEF Status, States, Unverified
  <1>7. monitor \in Monitors
    <2>1. monitor \in {NewMonitor, NoMonitor}
      OBVIOUS
    <2> QED BY <2>1, NewMonitorTyped
  <1>8. pass \in Passes
    BY DEF Passes, IdlePass, GraphIds, Versions
  <1> QED
    BY <1>1, <1>2, <1>3, <1>4, <1>5, <1>6, <1>7, <1>8 DEF FreshnessTypeOK, Monitors, Passes

LEMMA MonitorStepTyped ==
  ASSUME FreshnessTypeOK,
         MonitorWatches \/ MonitorFails \/ MonitorHears \/ WatchFails
           \/ VerifyReads \/ VerifyStores
  PROVE  FreshnessTypeOK'
  <1> USE DEF FreshnessTypeOK, graphVars
  <1>1. CASE MonitorWatches
    <2>1. monitor' \in Monitors
      BY <1>1 DEF MonitorWatches, NoVerify, Monitors, Status, States, GraphIds
    <2> QED BY <1>1, <2>1 DEF MonitorWatches, Monitors
  <1>2. CASE MonitorFails
    <2>1. monitor' \in Monitors
      BY <1>2 DEF MonitorFails, NoMonitor, NoVerify, Monitors, GraphIds
    <2> QED BY <1>2, <2>1, StatusTyped DEF MonitorFails, Monitors
  <1>3. CASE MonitorHears
    BY <1>3, StatusTyped DEF MonitorHears
  <1>4. CASE WatchFails
    BY <1>4, StatusTyped DEF WatchFails
  <1>5. CASE VerifyReads
    <2>1. PICK state \in CheckedState(monitor.verify.generation) :
            /\ monitor' = [monitor EXCEPT !.verify.state = state]
            /\ compared' = IF state = "fresh"
                           THEN compared \cup {monitor.verify.generation} ELSE compared
      BY <1>5 DEF VerifyReads
    <2>2. state \in States
      BY CheckTyped
    <2> QED BY <1>5, <2>1, <2>2 DEF VerifyReads
  <1>6. CASE VerifyStores
    <2>1. monitor' \in Monitors
      BY <1>6, NewMonitorTyped DEF VerifyStores, Monitors
    <2>2. cache' \in Status
      BY <1>6 DEF VerifyStores, StoreIfUnverified, Status
    <2> QED BY <1>6, <2>1, <2>2 DEF VerifyStores, Monitors
  <1> QED
    BY <1>1, <1>2, <1>3, <1>4, <1>5, <1>6

LEMMA PassStepTyped ==
  ASSUME FreshnessTypeOK, PassStep
  PROVE  FreshnessTypeOK'
  <1> USE DEF FreshnessTypeOK, graphVars, PassAt, PassGoes
  <1>0. IdlePass \in Passes
    BY DEF IdlePass, Passes, Versions, GraphIds
  <1>1. CASE PassFails
    BY <1>0, <1>1 DEF PassFails, Passes
  <1>2. CASE PassPublishes
    <2>1. current' \in GraphIds /\ current' = current + 1 /\ serving' \in 0 .. current'
      BY <1>2 DEF PassPublishes, NextGeneration, GraphIds
    <2>2. pass' \in Passes
      BY <1>2, <2>1 DEF PassPublishes, NextGeneration, Passes
    <2>3. builtFrom' \in [GraphIds -> Versions]
      BY <1>2 DEF PassPublishes, NextGeneration
    <2> QED BY <1>2, <2>1, <2>2, <2>3 DEF PassPublishes, Passes
  <1>3. CASE PassRecords
    BY <1>3 DEF PassRecords
  <1>4. CASE PassAttaches
    <2>1. pass' \in Passes
      BY <1>4 DEF PassAttaches, Passes
    <2>2. serving' \in 0 .. current' /\ current' = current
      BY <1>4 DEF PassAttaches, GraphIds
    <2> QED BY <1>4, <2>1, <2>2 DEF PassAttaches, Passes
  <1>5. CASE PassRechecks
    BY <1>5 DEF PassRechecks
  <1>6. CASE PassStores
    <2>1. cache' \in Status
      BY <1>6 DEF PassStores, Observation, Fresh, Unverified, Status, States, GraphIds
    <2>2. pass' \in Passes
      BY <1>0, <1>6 DEF PassStores, Passes
    <2> QED BY <1>6, <2>1, <2>2 DEF PassStores, Passes
  <1>7. CASE PassRestartsMonitor
    <2> QED BY <1>0, <1>7, NewMonitorTyped DEF PassRestartsMonitor, Monitors, Passes
  <1> QED
    BY <1>1, <1>2, <1>3, <1>4, <1>5, <1>6, <1>7 DEF PassStep

LEMMA OutsideTyped ==
  ASSUME FreshnessTypeOK,
         Edit \/ MoveDirectoryIn \/ (\E kind \in {"index", "reindex"} : PassStarts(kind))
           \/ OthersPublish \/ Follow
  PROVE  FreshnessTypeOK'
  <1> USE DEF FreshnessTypeOK, graphVars, PassAt
  <1>0. freshnessSetting.edits \in Versions
    BY FreshnessSettingTyped
  <1>1. CASE Edit
    <2>1. monitor' \in Monitors
      BY <1>1 DEF Edit, Monitors
    <2>2. sources' \in Versions
      BY <1>0, <1>1 DEF Edit, Versions
    <2> QED BY <1>1, <2>1, <2>2 DEF Edit, Monitors
  <1>2. CASE MoveDirectoryIn
    BY <1>0, <1>2 DEF MoveDirectoryIn, Versions
  <1>3. ASSUME NEW kind \in {"index", "reindex"}, PassStarts(kind) PROVE FreshnessTypeOK'
    <2>1. pass' \in Passes
      <3>1. IdlePass \in Passes
        BY DEF IdlePass, Passes, Versions, GraphIds
      <3> QED BY <1>3, <3>1 DEF PassStarts, Passes
    <2> QED BY <1>3, <2>1 DEF PassStarts, Passes
  <1>4. CASE OthersPublish
    <2>1. current' \in GraphIds /\ serving' \in 0 .. current'
      BY <1>4 DEF OthersPublish, NextGeneration, GraphIds
    <2>2. builtFrom' \in [GraphIds -> Versions]
      BY <1>4 DEF OthersPublish, NextGeneration
    <2>3. record' \in [GraphIds -> Versions \cup {NoRecord}]
      BY <1>4 DEF OthersPublish
    <2> QED BY <1>4, <2>1, <2>2, <2>3 DEF OthersPublish
  <1>5. CASE Follow
    BY <1>5 DEF Follow, GraphIds
  <1> QED
    BY <1>1, <1>2, <1>3, <1>4, <1>5

LEMMA FreshnessStepTyped == FreshnessTypeOK /\ [FreshnessNext]_freshnessVars => FreshnessTypeOK'
  <1> SUFFICES ASSUME FreshnessTypeOK, [FreshnessNext]_freshnessVars
               PROVE  FreshnessTypeOK'
    OBVIOUS
  <1>1. CASE UNCHANGED freshnessVars
    BY <1>1 DEF FreshnessTypeOK, freshnessVars, graphVars
  <1>2. CASE FreshnessNext
    BY <1>2, MonitorStepTyped, PassStepTyped, OutsideTyped DEF FreshnessNext
  <1> QED
    BY <1>1, <1>2

(***************************************************************************)
(* Every reachable state of a server's freshness observation is well       *)
(* typed: the cache, the monitor and its verification, the pass under way, *)
(* the records, and a served generation that CURRENT has reached.          *)
(***************************************************************************)
THEOREM FreshnessTyped == FreshnessSpec => []FreshnessTypeOK
  BY FreshnessInitTyped, FreshnessStepTyped, PTL DEF FreshnessSpec

-----------------------------------------------------------------------------
(* Whatever says fresh on its way into the cache says so of a generation   *)
(* that was compared: the cache itself, a verification that has read but   *)
(* not stored, and a pass that has seen itself served.                     *)

FreshIsBacked ==
  /\ cache.state = "fresh" => cache.generation \in compared
  /\ monitor.verify.state = "fresh" => monitor.verify.generation \in compared
  /\ PassAt("storing") /\ pass.published => pass.id \in compared

LEMMA BackedInit == FreshnessInit => FreshIsBacked
  BY DEF FreshnessInit, FreshIsBacked, Unverified, NewMonitor, NoMonitor, NoVerify,
         PassAt, IdlePass

LEMMA BackedByMonitor ==
  ASSUME FreshnessTypeOK, FreshIsBacked,
         MonitorWatches \/ MonitorFails \/ MonitorHears \/ WatchFails
           \/ VerifyReads \/ VerifyStores
  PROVE  FreshIsBacked'
  <1> USE DEF FreshnessTypeOK, FreshIsBacked, PassAt, Status
  <1>1. CASE MonitorWatches
    BY <1>1 DEF MonitorWatches, NoVerify
  <1>2. CASE MonitorFails
    BY <1>2 DEF MonitorFails, MarkUnavailable, Marked, NoMonitor, NoVerify
  <1>3. CASE MonitorHears
    BY <1>3 DEF MonitorHears, MarkStale, Marked
  <1>4. CASE WatchFails
    BY <1>4 DEF WatchFails, MarkUnavailable, Marked
  <1>5. CASE VerifyReads
    <2>1. PICK state \in CheckedState(monitor.verify.generation) :
            /\ monitor' = [monitor EXCEPT !.verify.state = state]
            /\ compared' = IF state = "fresh"
                           THEN compared \cup {monitor.verify.generation} ELSE compared
      BY <1>5 DEF VerifyReads
    <2> QED BY <1>5, <2>1 DEF VerifyReads
  <1>6. CASE VerifyStores
    BY <1>6 DEF VerifyStores, StoreIfUnverified, NoVerify
  <1> QED
    BY <1>1, <1>2, <1>3, <1>4, <1>5, <1>6

LEMMA BackedByPass ==
  ASSUME FreshnessTypeOK, FreshIsBacked, PassStep
  PROVE  FreshIsBacked'
  <1> USE DEF FreshnessTypeOK, FreshIsBacked, PassAt, PassGoes
  <1>1. CASE PassFails
    BY <1>1 DEF PassFails, IdlePass
  <1>2. CASE PassPublishes
    BY <1>2 DEF PassPublishes
  <1>3. CASE PassRecords
    BY <1>3 DEF PassRecords
  <1>4. CASE PassAttaches
    BY <1>4 DEF PassAttaches
  <1>5. CASE PassRechecks
    BY <1>5 DEF PassRechecks
  <1>6. CASE PassStores
    BY <1>6 DEF PassStores, Observation, Fresh, Unverified, IdlePass
  <1>7. CASE PassRestartsMonitor
    BY <1>7 DEF PassRestartsMonitor, NewMonitor, NoMonitor, NoVerify, IdlePass
  <1> QED
    BY <1>1, <1>2, <1>3, <1>4, <1>5, <1>6, <1>7 DEF PassStep

LEMMA BackedByWorld ==
  ASSUME FreshnessTypeOK, FreshIsBacked,
         Edit \/ MoveDirectoryIn \/ (\E kind \in {"index", "reindex"} : PassStarts(kind))
           \/ OthersPublish \/ Follow
  PROVE  FreshIsBacked'
  <1> USE DEF FreshnessTypeOK, FreshIsBacked, PassAt
  <1>1. CASE Edit
    BY <1>1 DEF Edit
  <1>2. CASE MoveDirectoryIn
    BY <1>2 DEF MoveDirectoryIn
  <1>3. ASSUME NEW kind \in {"index", "reindex"}, PassStarts(kind) PROVE FreshIsBacked'
    BY <1>3 DEF PassStarts, IdlePass
  <1>4. CASE OthersPublish
    BY <1>4 DEF OthersPublish
  <1>5. CASE Follow
    BY <1>5 DEF Follow
  <1> QED
    BY <1>1, <1>2, <1>3, <1>4, <1>5

\* An observation about another generation than the one served says nothing of it.
LEMMA BackedReports == FreshIsBacked => FreshWasCompared
  BY DEF FreshIsBacked, FreshWasCompared, Reported, Unverified

(***************************************************************************)
(* graph_status says fresh only of a graph that was verified against the   *)
(* sources or published by a pass of this server, however verifications,   *)
(* watches, passes and the follower overtake each other.                   *)
(***************************************************************************)
THEOREM FreshMeansCompared == FreshnessSpec => []FreshWasCompared
  <1>1. FreshnessTypeOK /\ FreshIsBacked /\ [FreshnessNext]_freshnessVars => FreshIsBacked'
    <2> SUFFICES ASSUME FreshnessTypeOK, FreshIsBacked, [FreshnessNext]_freshnessVars
                 PROVE  FreshIsBacked'
      OBVIOUS
    <2>1. CASE UNCHANGED freshnessVars
      BY <2>1 DEF FreshIsBacked, PassAt, freshnessVars
    <2>2. CASE FreshnessNext
      BY <2>2, BackedByMonitor, BackedByPass, BackedByWorld DEF FreshnessNext
    <2> QED
      BY <2>1, <2>2
  <1> QED
    BY <1>1, FreshnessTyped, BackedInit, BackedReports, PTL DEF FreshnessSpec

=============================================================================
