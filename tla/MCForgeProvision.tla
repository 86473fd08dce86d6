-------------------------- MODULE MCForgeProvision --------------------------
(* Two streams, so that one can be handed out while another is at work.    *)
EXTENDS ForgeProvision, TLC

CONSTANTS s1, s2

MCStreams == {s1, s2}

Symmetry == Permutations(MCStreams)
=============================================================================
