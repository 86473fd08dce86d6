--------------------------- MODULE MCBuildStream ---------------------------
(* One build of the agent; of its two connections one may come early and   *)
(* the other late, and either may be dropped.                              *)
EXTENDS BuildStream
=============================================================================
