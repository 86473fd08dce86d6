---------------------------- MODULE MCMarketplace ----------------------------
(* Two listings of one agent, two versions and one edit, one customer and  *)
(* four requests of any kind.                                              *)
EXTENDS Marketplace, TLC

CONSTANTS v1, v2, u1, r1, r2, r3, r4

MCVersions == {v1, v2}
MCUsers == {u1}
MCRequests == {r1, r2, r3, r4}

Symmetry == Permutations(MCRequests)
=============================================================================
