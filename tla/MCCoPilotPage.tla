---------------------------- MODULE MCCoPilotPage ----------------------------
(* Two builds, so that a retry may overlap the handler of the first.       *)
EXTENDS CoPilotPage

CONSTANTS h1, h2

MCHandlers == {h1, h2}
=============================================================================
