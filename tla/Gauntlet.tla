------------------------------ MODULE Gauntlet ------------------------------
(***************************************************************************)
(* The validation gauntlet (validation/gauntlet.py, with its callers in    *)
(* validation/executor.py and optimization/orchestrator.py): every         *)
(* promoted candidate goes through the stages in order, the validity gates *)
(* stop it, and a checkpoint is written after every stage.                 *)
(*                                                                         *)
(* What a validator computes is abstracted to whether its gate passes.     *)
(***************************************************************************)
EXTENDS Integers, Sequences, FiniteSets, SequencesExt

CONSTANTS
  Params,         \* parameter sets that may be promoted
  Overfit,        \* those whose probability of backtest overfitting fails the gate
  Lists,          \* lists of promoted candidates the gauntlet is run on
  ManifestKeys,   \* keys of the optimization manifest
  MaxRuns,        \* bound on the number of runs
  MaxFaults       \* bound on kills and raised exceptions

ASSUME ParamsAssumption == Overfit \subseteq Params
ASSUME ListsAssumption ==
  \A l \in Lists : l \in Seq(Params) /\ l # <<>> /\ IsInjective(l)
ASSUME LimitsAssumption == MaxRuns \in Nat /\ MaxFaults \in Nat

\* [validation] stage_order
StageOrder == <<"perturbation", "walk_forward", "cpcv", "monte_carlo", "regime">>
Stages == Range(StageOrder)

VARIABLES
  progress,  \* candidates_progress in gauntlet_checkpoint.json: stages by position
  manifest,  \* the candidates in gauntlet_manifest.json
  dsr,       \* dsr in gauntlet_manifest.json
  pc,
  list,      \* the promoted candidates of this run
  resumed,   \* progress as loaded at the start of the run
  cv,        \* the CandidateValidation being built
  at,        \* position in stage_order
  finished,  \* candidate_results
  runs, faults,
  ran        \* history: the stages ever run on a parameter set

files == <<progress, manifest, dsr>>
vars == <<files, pc, list, resumed, cv, at, finished, runs, faults, ran>>

----------------------------------------------------------------------------

NoProgress == <<>>
NewCandidate == [stages |-> {}, failures |-> {}, short_circuited |-> FALSE]

\* The position of the candidate being validated.
Current == Len(finished) + 1

\* Whether the gate of a stage passes; only CPCV has one.
StagePassed(stage, p) == stage = "cpcv" => p \notin Overfit

\* Mutant: the progress is not looked up by candidate.
CompleteForAny(stage) == \E i \in DOMAIN resumed : stage \in resumed[i]

\* A stage the checkpoint has for this position is not run again.
AlreadyComplete(stage) == Current <= Len(resumed) /\ stage \in resumed[Current]

\* Mutant: a single failed gate does not stop a candidate.
ShortCircuitsOnTwo == Cardinality(cv.failures) > 1

\* _should_short_circuit
ShortCircuits == cv.failures # {}

\* all_progress: the stages in the results of this run.
AllProgress ==
  [i \in 1 .. Current |-> IF i = Current THEN cv.stages ELSE finished[i].stages]

\* DSR needs the number of trials, under its own key, and walk-forward results.
DsrComputable ==
  /\ "total_trials" \in ManifestKeys
  /\ \E i \in DOMAIN finished : "walk_forward" \in finished[i].stages

Init ==
  /\ progress = NoProgress /\ manifest = <<>> /\ dsr = "none"
  /\ pc = "down" /\ list = <<>> /\ resumed = NoProgress
  /\ cv = NewCandidate /\ at = 1 /\ finished = <<>>
  /\ runs = 0 /\ faults = 0 /\ ran = {}

\* The checkpoint of whatever run came before is resumed from.
Start(l) ==
  /\ pc = "down"
  /\ runs < MaxRuns
  /\ runs' = runs + 1
  /\ list' = l
  /\ resumed' = progress
  /\ cv' = NewCandidate /\ at' = 1 /\ finished' = <<>>
  /\ pc' = "stage"
  /\ UNCHANGED <<files, faults, ran>>

SkipResumed ==
  /\ pc = "stage"
  /\ at <= Len(StageOrder)
  /\ AlreadyComplete(StageOrder[at])
  /\ at' = at + 1
  /\ UNCHANGED <<files, pc, list, resumed, cv, finished, runs, faults, ran>>

\* A failed gate ends the candidate before its next stage.
ShortCircuit ==
  /\ pc = "stage"
  /\ at <= Len(StageOrder)
  /\ ~AlreadyComplete(StageOrder[at])
  /\ ShortCircuits
  /\ cv' = [cv EXCEPT !.short_circuited = TRUE]
  /\ at' = Len(StageOrder) + 1
  /\ UNCHANGED <<files, pc, list, resumed, finished, runs, faults, ran>>

RunStage ==
  LET stage == StageOrder[at]
      p == list[Current]
  IN  /\ pc = "stage"
      /\ at <= Len(StageOrder)
      /\ ~AlreadyComplete(stage)
      /\ ~ShortCircuits
      /\ cv' = [cv EXCEPT !.stages = @ \cup {stage},
                          !.failures = IF StagePassed(stage, p) THEN @ ELSE @ \cup {stage}]
      /\ ran' = ran \cup {<<p, stage>>}
      /\ pc' = "save"
      /\ UNCHANGED <<files, list, resumed, at, finished, runs, faults>>

\* Mutant: the stage after a checkpoint is passed over.
CheckpointPassingOver ==
  /\ pc = "save"
  /\ progress' = AllProgress
  /\ at' = at + 2
  /\ pc' = "stage"
  /\ UNCHANGED <<manifest, dsr, list, resumed, cv, finished, runs, faults, ran>>

Checkpoint ==
  /\ pc = "save"
  /\ progress' = AllProgress
  /\ at' = at + 1
  /\ pc' = "stage"
  /\ UNCHANGED <<manifest, dsr, list, resumed, cv, finished, runs, faults, ran>>

\* Mutant: a candidate without a stage run in this run is not ended.
EndCandidateWithStages ==
  /\ pc = "stage"
  /\ at > Len(StageOrder)
  /\ cv.stages # {}
  /\ finished' = Append(finished, cv)
  /\ cv' = NewCandidate /\ at' = 1
  /\ pc' = IF Current = Len(list) THEN "manifest" ELSE "stage"
  /\ UNCHANGED <<files, list, resumed, runs, faults, ran>>

EndCandidate ==
  /\ pc = "stage"
  /\ at > Len(StageOrder)
  /\ finished' = Append(finished, cv)
  /\ cv' = NewCandidate /\ at' = 1
  /\ pc' = IF Current = Len(list) THEN "manifest" ELSE "stage"
  /\ UNCHANGED <<files, list, resumed, runs, faults, ran>>

\* DSR over all candidates: its failure is a gate failure of those not stopped
\* before.  The manifest is written; the checkpoint stays.
WriteManifest(passed) ==
  /\ pc = "manifest"
  /\ DsrComputable \/ passed
  /\ dsr' = IF ~DsrComputable THEN "none" ELSE IF passed THEN "passed" ELSE "failed"
  /\ manifest' = [i \in DOMAIN finished |->
       [params |-> list[i], stages |-> finished[i].stages,
        short_circuited |-> finished[i].short_circuited,
        failures |-> IF passed \/ finished[i].short_circuited
                     THEN finished[i].failures
                     ELSE finished[i].failures \cup {"dsr"}]]
  /\ pc' = "down"
  /\ UNCHANGED <<progress, list, resumed, cv, at, finished, runs, faults, ran>>

\* A validator raises or the process is killed.
Abort ==
  /\ pc # "down"
  /\ faults < MaxFaults
  /\ faults' = faults + 1
  /\ pc' = "down"
  /\ UNCHANGED <<files, list, resumed, cv, at, finished, runs, ran>>

Run ==
  \/ SkipResumed
  \/ ShortCircuit
  \/ RunStage
  \/ Checkpoint
  \/ EndCandidate
  \/ \E passed \in BOOLEAN : WriteManifest(passed)

Next == (\E l \in Lists : Start(l)) \/ Run \/ Abort

Spec == Init /\ [][Next]_vars

\* The gauntlet runs while it is alive, and is started again until it has written
\* its manifest.
FairSpec ==
  /\ Spec
  /\ WF_vars(Run)
  /\ WF_vars(manifest = <<>> /\ \E l \in Lists : Start(l))

----------------------------------------------------------------------------
(* Properties.                                                             *)

Candidate == [stages : SUBSET Stages, failures : SUBSET Stages, short_circuited : BOOLEAN]

TypeOK ==
  /\ progress \in Seq(SUBSET Stages) /\ resumed \in Seq(SUBSET Stages)
  /\ \A i \in DOMAIN manifest : manifest[i].params \in Params
  /\ dsr \in {"none", "passed", "failed"}
  /\ pc \in {"down", "stage", "save", "manifest"}
  /\ list \in Lists \cup {<<>>}
  /\ cv \in Candidate /\ finished \in Seq(Candidate)
  /\ at \in 1 .. Len(StageOrder) + 1
  /\ runs \in 0 .. MaxRuns /\ faults \in 0 .. MaxFaults
  /\ ran \in SUBSET (Params \X Stages)

\* The last entry of every overfit candidate in the manifest is its failed CPCV
\* gate: it is marked, stopped there, and none of the costly later stages is run.
\* Every other candidate has been through all of them.
GateApplied(entry) ==
  IF entry.params \in Overfit
  THEN /\ "cpcv" \in entry.failures /\ entry.short_circuited
       /\ entry.stages = {"perturbation", "walk_forward", "cpcv"}
  ELSE /\ "cpcv" \notin entry.failures /\ ~entry.short_circuited
       /\ entry.stages = Stages

\* The validity gate is applied to every candidate in the manifest.
ValidityGateApplied == \A i \in DOMAIN manifest : GateApplied(manifest[i])

\* A run that resumed nothing applies it, whatever was in the manifest before.
FreshRunAppliesGate ==
  [][ resumed = NoProgress => \A i \in DOMAIN manifest' : GateApplied(manifest'[i]) ]_manifest

\* Whatever kills and resumptions there were, a candidate that reaches the manifest
\* and is not overfit has been through every stage.
EveryStageRan ==
  \A i \in DOMAIN manifest :
    manifest[i].params \in Overfit \/ {manifest[i].params} \X Stages \subseteq ran

\* A stage the checkpoint lets a run skip was run on the candidate it is skipped for.
SkippedStagesRan ==
  pc \in {"stage", "save"} =>
    \A i \in 1 .. Len(list) :
      i <= Len(resumed) => {list[i]} \X resumed[i] \subseteq ran

\* Failures being finitely many, the gauntlet ends with its manifest.
Completes == <>(manifest # <<>>)
=============================================================================
