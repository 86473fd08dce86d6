-------------------------- MODULE MCBuildPipeline --------------------------
(***************************************************************************)
(* A plan with an identity, two skills written by the loop (one call each) *)
(* and one backend route that the scaffold generates a placeholder for.    *)
(***************************************************************************)
EXTENDS BuildPipeline

MCPlanned == <<"identity", "skills", "backend">>

MCFiles == {"SOUL.md", "alpha", "beta", "route"}

MCScaffoldFiles == {"route"}

MCExpected == [identity |-> {"SOUL.md"}, skills |-> {"alpha", "beta"}, backend |-> {"route"}]

MCCalls == [identity |-> <<{"SOUL.md"}>>,
            skills   |-> <<{"alpha"}, {"beta"}>>,
            backend  |-> <<{"route"}>>]

MCLooped == {"skills"}
=============================================================================
