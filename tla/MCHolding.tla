------------------------------ MODULE MCHolding ------------------------------
(* An instance of Holding for TLC: two payers, two batches of two keys.    *)
EXTENDS Holding, TLC

CONSTANTS p1, p2

PayersSymmetry == Permutations({p1, p2})
=============================================================================
