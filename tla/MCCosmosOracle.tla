--------------------------- MODULE MCCosmosOracle ---------------------------
(* Instances of CosmosOracle for TLC. *)
EXTENDS CosmosOracle, TLC

Symmetry == Permutations(Validators) \cup Permutations(Contents)
=============================================================================
