------------------------------- MODULE MCDispatch -------------------------------
(* Two parts of one evaluation, each explored by itself: the dispatch of   *)
(* generations to processes, and a persistent worker.                      *)
(*                                                                         *)
(* Two batches with one signal set in common, so that a cache of two       *)
(* entries evicts the third; one group was eliminated.                     *)
EXTENDS BatchDispatch, WorkerCache

MCSignalOf == [g1 |-> "s1", g2 |-> "s2", g3 |-> "s3", g4 |-> "s1"]
At(group, exit) == [group |-> group, exit |-> exit]

MCBatches == {<<At("g1", "x"), At("g2", "y"), At("g4", "x")>>,
              <<At("g1", "y"), At("g3", "y"), At("g1", "x")>>}
MCSurvivors == {{"g1", "g2", "g3"}}
MCLimits == {[entries |-> 2, bytes |-> 3], [entries |-> 2, bytes |-> 1]}

MCSizeOf == [f |-> 1, g |-> 2, h |-> 3, i |-> 5]

VARIABLE part

PartsInit ==
  /\ Init /\ WorkerInit
  /\ part \in {"dispatch", "worker"}
  /\ part = "worker" => ~persistent /\ manifests /\ limits.bytes = 1
  /\ limits.bytes = 1 => manifests

PartsNext ==
  /\ UNCHANGED part
  /\ \/ part = "dispatch" /\ Next /\ UNCHANGED worker
     \/ part = "worker" /\ WorkerNext /\ UNCHANGED vars

PartsSpec ==
  /\ PartsInit /\ [][PartsNext]_<<part, vars, worker>>
  /\ WF_vars(Progress) /\ WF_vars(ProcessStep)

\* The cache of signals and that of the worker hold no more than their bounds, and the
\* worker accounts for each byte of what it holds.
MemoryBounded == TypeOK /\ CacheBounded /\ WorkerTypeOK /\ Accounted

\* An evaluation sees the data last loaded, held for as long as it runs (see WorkerCache).
FreshData == LoadedData /\ HeldOnlyWhileEvaluating
=============================================================================
