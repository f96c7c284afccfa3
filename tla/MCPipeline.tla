---------------------------- MODULE MCPipeline ----------------------------
(***************************************************************************)
(* Pipeline with interchangeable invocations, for the run in which two of  *)
(* them overlap.                                                           *)
(***************************************************************************)
EXTENDS Pipeline, TLC

Symmetry == Permutations(Procs)

\* States are told apart by what the guards and GateNotBypassed read: not by the
\* decisions on record nor by history other than the approvals.
Present(st) ==
  IF st = NoState THEN st
  ELSE [st EXCEPT !.fresh = {}, !.decided = 0, !.gates = NoDecision]
WithoutHistory ==
  <<Present(disk), pc, [p \in Procs |-> Present(mem[p])], cmd, attempt, result, faults>>
===========================================================================
