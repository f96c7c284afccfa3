---------------------------- MODULE StageGraph ----------------------------
(***************************************************************************)
(* The stages of a strategy's pipeline and the transitions between them    *)
(* (orchestrator/pipeline_state.py).  A stage is its position in           *)
(* STAGE_ORDER, so that "later than" is <.                                  *)
(***************************************************************************)
EXTENDS Integers

DATA_READY == 1
STRATEGY_READY == 2
BACKTEST_RUNNING == 3
BACKTEST_COMPLETE == 4
REVIEW_PENDING == 5
REVIEWED == 6
OPTIMIZING == 7
OPTIMIZATION_COMPLETE == 8
VALIDATING == 9
VALIDATION_COMPLETE == 10
SCORING == 11
SCORING_COMPLETE == 12
SELECTING == 13
SELECTION_COMPLETE == 14

PipelineStage == DATA_READY .. SELECTION_COMPLETE

\* The stages whose transition is TransitionType.GATED.
GatedStages == {REVIEW_PENDING, SCORING_COMPLETE, SELECTION_COMPLETE}

\* Mutant: scores are accepted without the operator.
UngatedScoring(s) == s \in GatedStages \ {SCORING_COMPLETE}

\* Mutant: the last stage is not a gate.
UngatedSelection(s) == s \in GatedStages \ {SELECTION_COMPLETE}

IsGated(s) == s \in GatedStages

\* to_stage of STAGE_GRAPH[s]: the next stage; the last one is a self-loop.
ToStage(s) == IF s = SELECTION_COMPLETE THEN SELECTION_COMPLETE ELSE s + 1
===========================================================================
