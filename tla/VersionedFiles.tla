--------------------------- MODULE VersionedFiles ---------------------------
(***************************************************************************)
(* What the stores of cost models and of strategies share: versions are    *)
(* files numbered from 1, manifest.json beside them may not be there yet,  *)
(* commands are processes that may be killed, and the operator may or may  *)
(* not let them overlap.                                                   *)
(***************************************************************************)
EXTENDS Naturals, FiniteSets

CONSTANTS
    MaxVersion,   \* bound: versions of one store
    MaxKills,     \* bound: processes killed
    NoManifest

ASSUME VersionAssumption == MaxVersion \in Nat \ {0} /\ MaxKills \in Nat

Versions == 1..MaxVersion

\* The number of the last of a set of versions that is not empty.
Greatest(versions) == CHOOSE v \in versions : \A w \in versions : v >= w

VARIABLE alone    \* TRUE: the operator runs one command at a time
=============================================================================
