---------------------------- MODULE MCAnafTokens ----------------------------
(***************************************************************************)
(* AnafTokens on small instances.                                          *)
(***************************************************************************)
EXTENDS AnafTokens, TLC

CONSTANTS a1, a2, a3, w1, w2

Symmetry == Permutations(Threads) \cup Permutations(Authorizations)
=============================================================================
