----------------------------- MODULE MCUserMode -----------------------------
(* UserMode for model checking: the constants are in the configurations.   *)
EXTENDS UserMode, TLC

BlockSymmetry == Permutations(Blocks)
=============================================================================
