----------------------------- MODULE MCWalletAuth -----------------------------
(* An instance of WalletAuth for TLC: the operator and one other wallet.      *)
EXTENDS WalletAuth, TLC

CONSTANTS op, w1, n1, n2, n3, r1, r2, c1

RequestSymmetry == Permutations({n1, n2, n3}) \cup Permutations({r1, r2})
=============================================================================
