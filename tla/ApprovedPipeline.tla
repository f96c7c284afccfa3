------------------------- MODULE ApprovedPipeline -------------------------
(***************************************************************************)
(* What the orchestrator promises of one strategy: it moves along the      *)
(* transition graph one stage at a time, leaves a gated stage only by a    *)
(* decision of the operator, returns to STRATEGY_READY only when a refine  *)
(* was decided, and remembers every gate accepted since.  A strategy that  *)
(* failed for good may be discarded and started afresh.                    *)
(***************************************************************************)
EXTENDS StageGraph

VARIABLES
  stage,     \* current stage, or 0 before the first run
  approved   \* gates accepted since the last refine

Init == stage = 0 /\ approved = {}

Start ==
  /\ stage = 0
  /\ stage' = DATA_READY
  /\ approved' = {}

Proceed ==
  /\ stage # 0
  /\ ~IsGated(stage)
  /\ stage' = ToStage(stage)
  /\ UNCHANGED approved

Accept ==
  /\ IsGated(stage)
  /\ stage' = ToStage(stage)
  /\ approved' = approved \cup {stage}

Refine ==
  /\ IsGated(stage)
  /\ stage' = STRATEGY_READY
  /\ approved' = {}

Discard ==
  /\ stage # 0
  /\ stage' = 0
  /\ approved' = {}

Next == Start \/ Proceed \/ Accept \/ Refine \/ Discard

Spec == Init /\ [][Next]_<<stage, approved>>
===========================================================================
