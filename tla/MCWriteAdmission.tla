------------------------- MODULE MCWriteAdmission --------------------------
(* Instances of WriteAdmission for TLC: account b may write from instant 1. *)
EXTENDS WriteAdmission, TLC

CONSTANTS a, b, t1, t2, t3, t4

MCAccounts == {a, b}
MCTokens == {t1, t2, t3, t4}
MCEligible == a :> 0 @@ b :> 1
Symmetry == Permutations(MCTokens)
=============================================================================
