------------------------------ MODULE MCTokens ------------------------------
(* Bounds for TLC.                                                         *)
EXTENDS RefreshTokens, TLC

ReqSymmetry == Permutations(Reqs)

=============================================================================
