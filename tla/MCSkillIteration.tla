-------------------------- MODULE MCSkillIteration --------------------------
(* Two skills, owned in this order.                                        *)
EXTENDS SkillIteration

CONSTANTS alpha, beta

MCOwned == <<alpha, beta>>
=============================================================================
