----------------------------- MODULE MCStageGate -----------------------------
(* Two requests, for stages without a guard and with each kind of guard,   *)
(* beside one build of two specialists.                                    *)
EXTENDS StageGate, TLC

CONSTANTS p1, p2, sp1, sp2

MCRequests == {p1, p2}
MCSpecialists == {sp1, sp2}
MCTargets == {"build", "review", "ship"}

Symmetry == Permutations(MCRequests) \cup Permutations(MCSpecialists)
=============================================================================
