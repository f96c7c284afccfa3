------------------------------- MODULE MCVersions -------------------------------
(* The cost models of a pair and the versions of a strategy, each explored *)
(* by itself: two processes that overlap or take turns, and one kill.      *)
EXTENDS CostModels, StrategyVersions

VARIABLE part

PartsInit == CostInit /\ SpecInit /\ part \in {"costs", "strategy"}

PartsNext ==
    /\ UNCHANGED part
    /\ \/ part = "costs" /\ CostNext /\ UNCHANGED specVars
       \/ part = "strategy" /\ SpecNext /\ UNCHANGED costVars

\* Bound: commands that overlap are followed as far as two versions.
OverlapsStaySmall ==
    alone \/ (file[MaxVersion] = NoModel /\ spec[MaxVersion] = NoSpec)

PartsSpec == PartsInit /\ [][PartsNext]_<<part, costVars, specVars>>

\* Both manifests describe files that are there, overstate none, and the diffs are those of
\* the versions they name (see CostModels and StrategyVersions).
ManifestsTellTheTruth ==
    /\ CostTypeOK /\ ManifestDescribesModels
    /\ SpecTypeOK /\ ManifestedSpecsExist /\ ManifestNeverOverstates /\ DiffsTellTheTruth

\* Without overlap, no version is written anew (see CostModels and StrategyVersions).
VersionsKept == ModelsKept /\ SpecsKept
=============================================================================
