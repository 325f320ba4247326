---------------------------- MODULE MCMembership ----------------------------
(***************************************************************************)
(* Membership on small instances.                                          *)
(***************************************************************************)
EXTENDS Membership, TLC

CONSTANTS owner, u1, u2, m1, m2, m3, m4, i1, i2, w1, w2

Symmetry ==
    Permutations(Threads) \cup Permutations(Members) \cup Permutations(Invitations)
        \cup Permutations(Users \ {Owner})
=============================================================================
