-------------------------------- MODULE Selection --------------------------------
(***************************************************************************)
(* From the results of the gauntlet to the candidates that are selected:   *)
(* confidence scoring (confidence/orchestrator.py, gates.py, scorer.py)    *)
(* and advanced selection (selection/orchestrator.py, ranking.py,          *)
(* diversity.py).                                                          *)
(*                                                                         *)
(* A gauntlet manifest is [id, trials, dsr, pbo, stress, composite], the   *)
(* last being the weighted score computed from its summaries.  A row of    *)
(* candidates.arrow is [id, params, cv, dsr, stable, topsis, k_ratio,      *)
(* label, prob, cell]: its parameters and objective, whether its own DSR   *)
(* and the spread of its folds pass, its closeness, the label HDBSCAN      *)
(* gives it with a probability, and the cell of its behaviour.             *)
(***************************************************************************)
EXTENDS Integers, Sequences, FiniteSets, FiniteSetsExt, SequencesExt

CONSTANTS
  Ids,          \* of candidates
  Results,      \* what can be in the results of the gauntlet: [candidates, single]
  Tables,       \* sets of rows
  Configs,      \* [dsr_required, target, tenths, top_n]
  Sources,      \* scoring manifests selection may be given: "none", "aggregate", "manifests"
  MaxAttempts, MaxKills,
  NoManifest

\* Rows and manifests are numbered by their candidates, of which each has one.
ASSUME IdsAssumption == Ids \subseteq Int
ASSUME ResultsAssumption ==
  \A r \in Results : \A ms \in {r.candidates, r.single} : \A m, n \in ms :
    m.id \in Ids /\ (m.id = n.id => m = n)
ASSUME TablesAssumption ==
  \A t \in Tables :
    /\ IsFiniteSet(t)
    /\ \A r \in t : r.id \in Ids /\ {r.cv, r.topsis, r.k_ratio, r.label, r.prob} \subseteq Int
    /\ \A r, s \in t : r.id = s.id => r = s
ASSUME ConfigsAssumption ==
  \A c \in Configs : c.target \in Nat \ {0} /\ c.tenths \in 0 .. 10 /\ c.top_n \in Nat
ASSUME AttemptsAssumption == {MaxAttempts, MaxKills} \subseteq Nat

PboThreshold == 40    \* pbo_max_threshold, in hundredths
Unknown == 100        \* pbo_value when it is missing
GreenMinimum == 70
YellowMinimum == 40

VARIABLES
  results,      \* gauntlet_results_dir
  packs,        \* evidence packs on disk: id -> rating
  scoring,      \* scoring-manifest.json
  table, config, source,
  selection,    \* manifest.json of the selection
  phase,
  loaded,       \* manifests still to be scored
  scored,       \* evidence_packs of this run
  survivors,    \* funnel_survivors
  chosen,       \* selected, in order
  attempts, kills

inputs == <<table, config, source>>
outputs == <<packs, scoring, selection>>
choice == <<results, inputs, outputs, phase, loaded, scored, survivors, chosen, attempts, kills>>

----------------------------------------------------------------------------
(* Confidence scoring.                                                     *)

DsrGate(m, required) == ~required \/ m.trials <= 10 \/ m.dsr
PboGate(m) == m.pbo <= PboThreshold
CostStressGate(m) == m.stress = "survived"

HardGatesPassed(m) == DsrGate(m, config.dsr_required) /\ PboGate(m) /\ CostStressGate(m)

Rating(m) ==
  IF ~HardGatesPassed(m) THEN "RED"
  ELSE IF m.composite >= GreenMinimum THEN "GREEN"
  ELSE IF m.composite >= YellowMinimum THEN "YELLOW" ELSE "RED"

\* Per-candidate outputs first; one file for all only when there are none.
LoadedManifests(r) == IF r.candidates # {} THEN r.candidates ELSE r.single

StartScoring ==
  /\ phase = "idle" /\ attempts < MaxAttempts
  /\ attempts' = attempts + 1
  /\ loaded' = LoadedManifests(results) /\ scored' = {}
  /\ phase' = "scoring"
  /\ UNCHANGED <<results, inputs, outputs, survivors, chosen, kills>>

Entry(m) == [id |-> m.id, rating |-> Rating(m), hard_gates_passed |-> HardGatesPassed(m)]

\* The pack of one candidate is on disk before the next is scored.
ScoreCandidate(m) ==
  /\ phase = "scoring" /\ m \in loaded
  /\ loaded' = loaded \ {m}
  /\ scored' = scored \cup {Entry(m)}
  /\ packs' = [packs EXCEPT ![m.id] = Rating(m)]
  /\ UNCHANGED <<results, inputs, scoring, selection, phase, survivors, chosen, attempts, kills>>

\* The process ends; what it held is gone.
Ended ==
  /\ phase' = "idle"
  /\ loaded' = {} /\ scored' = {} /\ survivors' = {} /\ chosen' = <<>>

\* scoring-manifest.json names every candidate scored and its pack.
WriteAggregate ==
  /\ phase = "scoring" /\ loaded = {}
  /\ scoring' = scored
  /\ Ended
  /\ UNCHANGED <<results, inputs, packs, selection, attempts, kills>>

----------------------------------------------------------------------------
(* The funnel.                                                             *)

\* One row for each set of parameters, one with the best objective.
Deduplicated(rows, kept) ==
  /\ kept \subseteq rows
  /\ \A r \in rows : \E s \in kept : s.params = r.params /\ s.cv >= r.cv
  /\ \A r, s \in kept : r.params = s.params => r = s

\* The entry of a candidate in the scoring manifest selection was given.  Those of the
\* aggregate have no gate results: every gate is read as missing.
Missing(id) == [id |-> id, dsr |-> FALSE, pbo |-> Unknown, stress |-> "missing"]
ScoringEntries ==
  CASE source = "none" -> {}
    [] source = "aggregate" ->
         IF scoring = NoManifest THEN {} ELSE {Missing(e.id) : e \in scoring}
    [] source = "manifests" -> LoadedManifests(results)

\* Mutant: a candidate whose gates failed is judged like one without results.
PassesGatesByEither(row) ==
  \/ \E e \in ScoringEntries :
       e.id = row.id /\ (config.dsr_required => e.dsr) /\ PboGate(e) /\ CostStressGate(e)
  \/ config.dsr_required => row.dsr

PassesGates(row) ==
  IF \E e \in ScoringEntries : e.id = row.id
  THEN \E e \in ScoringEntries :
         e.id = row.id /\ (config.dsr_required => e.dsr) /\ PboGate(e) /\ CostStressGate(e)
  ELSE config.dsr_required => row.dsr

\* Noise shares one label; when there is nothing else, each row is its own cluster.
ClusterOf(row, rows) ==
  IF \A r \in rows : r.label = -1 THEN row.id ELSE row.label
Robustness(row) == IF row.label = -1 THEN 0 ELSE row.prob

\* By closeness; rows are numbered in the order ties are broken.
Better(r, s) == r.topsis > s.topsis \/ (r.topsis = s.topsis /\ r.id < s.id)
Sorted(rows) ==
  [i \in 1 .. Cardinality(rows) |->
     CHOOSE r \in rows : Cardinality({s \in rows : Better(s, r)}) = i - 1]
First(n, seq) == SubSeq(seq, 1, Min({n, Len(seq)}))

Dominates(r, s) ==
  /\ r.topsis >= s.topsis /\ Robustness(r) >= Robustness(s) /\ r.k_ratio >= s.k_ratio
  /\ r.topsis > s.topsis \/ Robustness(r) > Robustness(s) \/ r.k_ratio > s.k_ratio

\* The rows that have a rank after each round: all that no row still without a rank
\* dominates.
Assigned(rows) ==
  LET assigned[k \in 0 .. Cardinality(rows)] ==
        IF k = 0 THEN {}
        ELSE assigned[k - 1] \cup
             {r \in rows \ assigned[k - 1] :
                ~\E s \in rows \ assigned[k - 1] : Dominates(s, r)}
  IN  assigned

ParetoRank(row, rows) ==
  CHOOSE k \in 1 .. Cardinality(rows) :
    row \in Assigned(rows)[k] /\ row \notin Assigned(rows)[k - 1]

\* All ranks survive: the front is marked, not extracted.
Ranked(rows, all) ==
  {[id |-> r.id, topsis |-> r.topsis, cluster |-> ClusterOf(r, all), cell |-> r.cell,
    rank |-> ParetoRank(r, rows)] : r \in rows}

\* four_stage_funnel: gates, the top by TOPSIS, stability, Pareto ranks.
Funnel(distinct) ==
  LET top == First(config.top_n, Sorted({r \in distinct : PassesGates(r)}))
  IN  Ranked({r \in Range(top) : r.stable}, distinct)

StartSelection(distinct) ==
  /\ phase = "idle" /\ attempts < MaxAttempts
  /\ attempts' = attempts + 1
  /\ Deduplicated(table, distinct)
  /\ survivors' = Funnel(distinct)
  /\ chosen' = <<>>
  /\ phase' = "diversity"
  /\ UNCHANGED <<results, inputs, outputs, loaded, scored, kills>>

----------------------------------------------------------------------------
(* Diversity.                                                              *)

\* The archive: the best survivor of each cell, in the order of their scores.
Archive == Sorted({c \in survivors : \A d \in survivors : d.cell = c.cell => ~Better(d, c)})

Clusters(cs) == {c.cluster : c \in cs}

Target == Min({config.target, Cardinality(survivors)})

\* deterministic_ratio of the target, at least one unless it, or what survives, is nothing.
Deterministic ==
  LET n == (Target * config.tenths) \div 10
  IN  IF n = 0 /\ config.tenths > 0 /\ survivors # {} THEN 1 ELSE n

\* Mutant: a cluster may be used again from the start.
PreferredAnyCluster(taken, c) == IF Len(taken) >= Deterministic THEN taken ELSE Append(taken, c)

\* A cell of a cluster already used waits until every cluster of the survivors is.
Preferred(taken, c) ==
  IF \/ Len(taken) >= Deterministic
     \/ /\ c.cluster \in Clusters(Range(taken))
        /\ Cardinality(Clusters(Range(taken))) < Cardinality(Clusters(survivors))
  THEN taken ELSE Append(taken, c)

Relaxed(taken, c) ==
  IF Len(taken) >= Deterministic \/ c \in Range(taken) THEN taken ELSE Append(taken, c)

\* What is taken after each cell, in a first pass and in the one that relaxes it.
FirstPass(cells) ==
  LET taken[k \in 0 .. Len(cells)] ==
        IF k = 0 THEN <<>> ELSE Preferred(taken[k - 1], cells[k])
  IN  taken
SecondPass(cells) ==
  LET taken[k \in 0 .. Len(cells)] ==
        IF k = 0 THEN FirstPass(cells)[Len(cells)] ELSE Relaxed(taken[k - 1], cells[k])
  IN  taken

DiverseChoice == SecondPass(Archive)[Len(Archive)]

\* What is still missing is filled with the best survivors not yet selected.
Backfilled(taken) ==
  taken \o First(Target - Len(taken), Sorted(survivors \ Range(taken)))

\* select_diverse_candidates: the exploratory part is a draw among the other cells.
SelectDiverse(drawn) ==
  LET others == Range(Archive) \ Range(DiverseChoice)
  IN  /\ phase = "diversity"
      /\ drawn \subseteq others
      /\ Cardinality(drawn) = Min({Target - Deterministic, Cardinality(others)})
      /\ chosen' = Backfilled(DiverseChoice \o SetToSeq(drawn))
      /\ phase' = "publishing"
      /\ UNCHANGED <<results, inputs, outputs, loaded, scored, survivors, attempts, kills>>

PublishSelection ==
  /\ phase = "publishing"
  /\ selection' = chosen
  /\ Ended
  /\ UNCHANGED <<results, inputs, packs, scoring, attempts, kills>>

----------------------------------------------------------------------------
ChoiceInit ==
  /\ results \in Results
  /\ table \in Tables /\ config \in Configs /\ source \in Sources
  /\ packs = [id \in Ids |-> "none"] /\ scoring = NoManifest /\ selection = NoManifest
  /\ phase = "idle"
  /\ loaded = {} /\ scored = {} /\ survivors = {} /\ chosen = <<>>
  /\ attempts = 0 /\ kills = 0

\* The gauntlet is run again.
NewResults(r) ==
  /\ phase = "idle" /\ attempts < MaxAttempts
  /\ results' = r
  /\ UNCHANGED <<inputs, outputs, phase, loaded, scored, survivors, chosen, attempts, kills>>

Kill ==
  /\ phase # "idle" /\ kills < MaxKills
  /\ kills' = kills + 1
  /\ Ended
  /\ UNCHANGED <<results, inputs, outputs, attempts>>

ChoiceNext ==
  \/ StartScoring \/ WriteAggregate
  \/ \E m \in loaded : ScoreCandidate(m)
  \/ \E distinct \in SUBSET table : StartSelection(distinct)
  \/ \E drawn \in SUBSET survivors : SelectDiverse(drawn)
  \/ PublishSelection
  \/ \E r \in Results : NewResults(r)
  \/ Kill

ChoiceSpec == ChoiceInit /\ [][ChoiceNext]_choice

----------------------------------------------------------------------------
(* Properties.                                                             *)

Ratings == {"GREEN", "YELLOW", "RED"}
Entries == [id : Ids, rating : Ratings, hard_gates_passed : BOOLEAN]

ChoiceTypeOK ==
  /\ results \in Results /\ table \in Tables /\ config \in Configs /\ source \in Sources
  /\ packs \in [Ids -> Ratings \cup {"none"}]
  /\ scoring = NoManifest \/ scoring \subseteq Entries
  /\ selection = NoManifest \/ Range(selection) \subseteq [id : Ids, topsis : Int,
       cluster : Int, cell : {r.cell : r \in table}, rank : Nat \ {0}]
  /\ phase \in {"idle", "scoring", "diversity", "publishing"}
  /\ loaded \subseteq LoadedManifests(results) /\ scored \subseteq Entries
  /\ attempts \in 0 .. MaxAttempts /\ kills \in 0 .. MaxKills

\* No candidate is selected whose gates are known to have failed, although the funnel
\* reads them anew and by rules of its own (four_stage_funnel).
NoFailedGateSelected ==
  phase \in {"diversity", "publishing"} /\ source = "manifests" =>
    \A m \in LoadedManifests(results), c \in survivors \cup Range(chosen) :
      m.id = c.id => HardGatesPassed(m)

\* A candidate's Pareto rank is its depth: nothing of its own rank or a deeper one
\* dominates it, and unless it is on the front something one rank up does
\* (pareto_frontier).
RanksAreDepths ==
  phase = "diversity" =>
    \A distinct \in SUBSET table :
      Deduplicated(table, distinct) /\ survivors = Funnel(distinct) =>
        \A r \in distinct, c \in survivors : r.id = c.id =>
          /\ \A s \in distinct, d \in survivors :
               s.id = d.id /\ Dominates(s, r) => d.rank < c.rank
          /\ c.rank > 1 => \E s \in distinct, d \in survivors :
               s.id = d.id /\ Dominates(s, r) /\ d.rank = c.rank - 1

\* The selection has no candidate twice and is as large as the survivors allow, however
\* the deterministic and the exploratory part fall short (select_diverse_candidates).
FillsTarget ==
  phase = "publishing" => IsInjective(chosen) /\ Len(chosen) = Target /\ Range(chosen) \subseteq survivors

\* The deterministic part begins with a best survivor and has as many clusters as it
\* has places, or as the archive has, although cells passed over are not looked at
\* again before the constraint is relaxed.
ClustersSpread ==
  phase = "publishing" /\ Deterministic > 0 =>
    LET places == Range(First(Deterministic, chosen))
    IN  /\ \A c \in survivors : chosen[1].topsis >= c.topsis
        /\ Cardinality(Clusters(places))
             >= Min({Deterministic, Cardinality(Clusters(Range(Archive)))})

\* The funnel keeps a candidate that confidence scoring let through its hard gates.
GateDecisionsFollowScoring ==
  source = "aggregate" /\ scoring # NoManifest =>
    \A e \in scoring, row \in table : e.id = row.id /\ e.hard_gates_passed => PassesGates(row)
=============================================================================
