---------------------------- MODULE MCAgentSetup ----------------------------
(* Every manifest with at most two steps and two services, of all kinds.   *)
EXTENDS AgentSetup

UpToTwo(S) == {<<>>} \cup {<<a>> : a \in S} \cup {<<a, b>> : a, b \in S}

MCManifests == [requires : SUBSET {"postgres", "redis"}, install : BOOLEAN,
                setup : UpToTwo(StepDefs), services : UpToTwo(ServiceDefs)]
=============================================================================
