----------------------------- MODULE MCGauntlet -----------------------------
(***************************************************************************)
(* The validation of candidates in three parts, each explored by itself:   *)
(* the gauntlet, the ranges of bars its validators and the folds use, and  *)
(* what is scored and selected afterwards.                                 *)
(***************************************************************************)
EXTENDS Gauntlet, ValidationWindows, Selection

OneList == {<<"sound", "overfit", "plain">>}
EveryList == {l \in UNION {[1 .. n -> Params] : n \in 1 .. 3} : IsInjective(l)}
TwoLists == {<<"sound", "overfit">>, <<"overfit", "plain">>}

-----------------------------------------------------------------------------
(* Ranges of bars.                                                         *)

Job(kind, lengths, ns, ks, tenths, purges, embargos, evaluates) ==
  [kind : {kind}, length : lengths, n : ns, k : ks, tenths : tenths, purge : purges,
   embargo : embargos, evaluates : evaluates]

MCJobs ==
  Job("folds", 0 .. 16, 1 .. 4, {0}, {5}, {0}, 0 .. 5, {TRUE})
    \cup Job("walk_forward", 0 .. 24, 1 .. 4, {0}, {5, 8}, 0 .. 2, 0 .. 2, {TRUE})
    \cup Job("cpcv", {14}, {4}, {2}, {5}, 0 .. 3, 0 .. 3, {FALSE})
    \cup Job("cpcv", {0, 3, 13}, {4}, {1}, {5}, {1}, {1}, {TRUE})
    \cup Job("cpcv", {10}, {3}, {1, 2}, {5}, {2}, {1, 5}, {TRUE})
MCSharpes == {-1, 0, 2}

-----------------------------------------------------------------------------
(* Scoring and selection.                                                  *)

MCIds == 1 .. 6

Row(id, params, objective, ownDsr, stable, topsis, k, label, prob, cell) ==
  [id |-> id, params |-> params, cv |-> objective, dsr |-> ownDsr, stable |-> stable, topsis |-> topsis,
   k_ratio |-> k, label |-> label, prob |-> prob, cell |-> cell]

\* Six rows that differ in cluster and cell, ...
DiverseTables ==
  {{Row(i, i, 0, TRUE, i \notin unstable, closeness[i], 1, labels[i], 1, cells[i]) : i \in 1 .. 6} :
     unstable \in {{}, {1, 4}}, closeness \in {<<6, 5, 4, 3, 2, 1>>, <<3, 3, 2, 2, 1, 1>>},
     labels \in {<<0, a, 0, b, 1, c>> : a, b, c \in -1 .. 1} \cup {[i \in 1 .. 6 |-> -1]},
     cells \in {[i \in 1 .. 6 |-> i], [i \in 1 .. 6 |-> i % 4], [i \in 1 .. 6 |-> i \div 3]}}

\* ... four that dominate each other or not, ...
RankTables ==
  {{Row(i, i, 0, TRUE, TRUE, closeness[i], k[i], IF prob[i] = 0 THEN -1 ELSE 0, prob[i], i) : i \in 1 .. 4} :
     closeness \in {<<4, 3, 2, 1>>, <<2, 2, 1, 1>>}, k \in {<<a, b, 2, 1>> : a, b \in 1 .. 2},
     prob \in [1 .. 4 -> 0 .. 2]}

\* ... one that is not stable, so that none survives, ...
UnstableTable == {Row(1, 1, 0, TRUE, FALSE, 1, 1, 0, 1, 1)}

\* ... and three, two of which may have the same parameters.
GateTables ==
  {{Row(i, IF i = 3 THEN 3 ELSE i \div same, objectives[i], i # 2, TRUE, i, 1, 0, 1, i) : i \in 1 .. 3} :
     same \in {1, 4}, objectives \in {<<1, 2, 1>>, <<1, 1, 1>>}}

Config(required, tenths, top) ==
  [dsr_required |-> required, target |-> 5, tenths |-> tenths, top_n |-> top]

Manifest(id, trials, dsrPassed, pbo, stress, composite) ==
  [id |-> id, trials |-> trials, dsr |-> dsrPassed, pbo |-> pbo, stress |-> stress,
   composite |-> composite]
\* An entry of the gauntlet's own manifest, without the fields that are looked for.
Bare(id) == Manifest(id, 0, FALSE, 100, "missing", 0)

NoResults == [candidates |-> {}, single |-> {}]

MCManifests(id) ==
  {Manifest(id, 50, TRUE, 20, "survived", 80), Manifest(id, 50, TRUE, 60, "missing", 50),
   Manifest(id, 8, FALSE, 40, "survived", 50), Manifest(id, 50, FALSE, 20, "failed", 80)}
MCResults ==
  {[candidates |-> cs, single |-> {}] :
     cs \in {{m} : m \in MCManifests(1)} \cup {{m, n} : m \in MCManifests(1), n \in {Manifest(2, 50, TRUE, 20, "survived", 30),
                                                       Manifest(2, 50, TRUE, 60, "survived", 80)}}}
    \cup {[candidates |-> {}, single |-> {Bare(1), Bare(2)}], NoResults}
MCTables == DiverseTables \cup RankTables \cup {UnstableTable} \cup GateTables
MCConfigs == {Config(TRUE, 8, 50), Config(FALSE, 8, 50), Config(TRUE, 0, 50), Config(TRUE, 10, 5)}

PlainConfig == Config(TRUE, 8, 50)
AGateTable == CHOOSE t \in GateTables : TRUE

\* Selection alone where the tables are many, both where they are few.
SomeChoiceInit ==
  /\ \/ table \in DiverseTables /\ config \in MCConfigs /\ results = NoResults /\ source = "none"
     \/ table \in RankTables \cup {UnstableTable} /\ config = PlainConfig /\ results = NoResults /\ source = "none"
     \/ table \in GateTables /\ config \in {PlainConfig, Config(FALSE, 8, 50)}
  /\ ChoiceInit
SomeChoiceNext ==
  /\ ChoiceNext
  /\ table \notin GateTables => results' = results /\ phase' # "scoring" /\ attempts' <= 1

-----------------------------------------------------------------------------
VARIABLE part

AJob == CHOOSE j \in Jobs : TRUE

PartsInit ==
  /\ part \in {"gauntlet", "windows", "choice"}
  /\ Init
  /\ job \in IF part = "windows" THEN Jobs ELSE {AJob}
  /\ WindowsInit
  /\ IF part = "choice" THEN SomeChoiceInit
     ELSE /\ table = AGateTable /\ results = NoResults /\ source = "none" /\ config = PlainConfig
          /\ ChoiceInit

PartsNext ==
  /\ UNCHANGED part
  /\ \/ part = "gauntlet" /\ Next /\ UNCHANGED <<windows, choice>>
     \/ part = "windows" /\ WindowsNext /\ UNCHANGED <<vars, choice>>
     \/ part = "choice" /\ SomeChoiceNext /\ UNCHANGED <<vars, windows>>

\* The fairness of Gauntlet, in its part.
PartsSpec ==
  /\ PartsInit /\ [][PartsNext]_<<part, vars, windows, choice>>
  /\ WF_vars(part = "gauntlet" /\ Run)
  /\ WF_vars(part = "gauntlet" /\ manifest = <<>> /\ \E l \in Lists : Start(l))

\* Failures being finitely many, the gauntlet ends with its manifest (see Gauntlet).
GauntletCompletes == part = "gauntlet" => Completes

\* What training and testing may share with combinations, and what the gate makes of the
\* scores (see ValidationWindows, which has NoLookahead and TestedOnce too).
CpcvIsSound == WindowsTypeOK /\ TrainKeepsItsDistance /\ GateFollowsRanks

\* What is ranked, and selected, is as many and as diverse as it can be (see Selection, which
\* has NoFailedGateSelected too).
SelectionIsDiverse == ChoiceTypeOK /\ RanksAreDepths /\ FillsTarget /\ ClustersSpread
=============================================================================
