------------------------------ MODULE MCOperator ------------------------------
(***************************************************************************)
(* One invocation at a time on the strategy, under two operators: one who  *)
(* may use any command, and one who never refines, never resumes, and      *)
(* keeps asking for the backtest to be run.                                *)
(***************************************************************************)
EXTENDS Pipeline

VARIABLE operator   \* "any" or "insistent"

InsistentCommands == {"none", "run_backtest", "accept", "reject"}

OperatorInit == Init /\ operator \in {"any", "insistent"}

OperatorNext ==
  /\ Next
  /\ UNCHANGED operator
  /\ operator = "insistent" => \A p \in Procs : cmd'[p] \in InsistentCommands

OperatorSpec ==
  /\ OperatorInit /\ [][OperatorNext]_<<vars, operator>>
  /\ \A p \in Procs : WF_vars(Step(p))
  /\ \A p \in Procs : WF_vars(operator = "insistent" /\ StartRunBacktest(p))

-----------------------------------------------------------------------------
\* Under the insistent operator, the strategy is not under review before its backtest has
\* run, and the status asks for a decision exactly when one is due (see Pipeline).
ReviewWithoutRefine ==
  operator = "insistent" => BacktestedBeforeReview /\ StatusAsksForDecision

\* Every command returns; and the strategy of the insistent operator settles at the review
\* gate or at a lasting error.
CommandsSettle ==
  /\ CommandsReturn
  /\ operator = "insistent" => SettlesAtReviewOrError
=============================================================================
