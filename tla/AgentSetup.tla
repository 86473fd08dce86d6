----------------------------- MODULE AgentSetup -----------------------------
(***************************************************************************)
(* runAgentSetup (ruh-backend/src/agentSetup.ts): carries out setup.json   *)
(* in the container.                                                       *)
(*                                                                         *)
(*   infrastructure -> install -> setup steps -> services -> summary       *)
(*                                                                         *)
(* Its caller in runAgentBuild hands the results on to summarizeBuildReport*)
(* (BuildReport): two verdicts on one setup, written in two files.         *)
(*                                                                         *)
(* Each of the shell commands, with its timeout, is an outcome chosen      *)
(* freely; several commands that only lead to one outcome are one step.    *)
(***************************************************************************)
EXTENDS Naturals, Sequences, FiniteSets, BuildReport

CONSTANT Manifests      \* what setup.json may ask for

StepDefs == [optional : BOOLEAN, conditional : BOOLEAN]

ServiceDefs == [optional : BOOLEAN]

ASSUME ManifestsAssumption ==
    Manifests \subseteq [requires : SUBSET {"postgres", "redis"}, install : BOOLEAN,
                         setup : Seq(StepDefs), services : Seq(ServiceDefs)]

VARIABLES
    manifest,       \* setup.json
    phase,          \* where the runner stands
    found,          \* result.manifest is not null
    infrastructure, \* result.infrastructure
    install,        \* result.install: empty or one outcome
    setup,          \* result.setup
    services,       \* result.services
    ok              \* result.ok

results   == <<infrastructure, install, setup, services>>
setupVars == <<manifest, phase, found, results, ok>>

SetupInit ==
    /\ manifest \in Manifests
    /\ phase = "manifest"
    /\ found = FALSE
    /\ infrastructure = <<>>
    /\ install = <<>>
    /\ setup = <<>>
    /\ services = <<>>
    /\ ok = FALSE

(* A StepResult: it does not carry the step's `optional'.                  *)
Outcome(succeeded) == [ok |-> succeeded, optional |-> FALSE, skipped |-> FALSE]

Skipped == [ok |-> TRUE, optional |-> FALSE, skipped |-> TRUE]

(* Absent, unreadable or not JSON: there is nothing to set up.             *)
NoManifest ==
    /\ phase = "manifest"
    /\ phase' = "returned"
    /\ ok' = TRUE
    /\ UNCHANGED <<manifest, found, results>>

ReadManifest ==
    /\ phase = "manifest"
    /\ phase' = "postgres"
    /\ found' = TRUE
    /\ UNCHANGED <<manifest, results, ok>>

(* Faulty variant: the failure that aborts is not among the results.       *)
InstallPostgresUnrecorded(succeeded) ==
    /\ phase = "postgres"
    /\ IF "postgres" \in manifest.requires
       THEN /\ infrastructure' = IF succeeded THEN Append(infrastructure, Outcome(TRUE))
                                              ELSE infrastructure
            /\ phase' = IF succeeded THEN "redis" ELSE "returned"
       ELSE phase' = "redis" /\ UNCHANGED infrastructure
    /\ UNCHANGED <<manifest, found, install, setup, services, ok>>

(* The only failure that ends the setup: result.ok is still FALSE.         *)
InstallPostgres(succeeded) ==
    /\ phase = "postgres"
    /\ IF "postgres" \in manifest.requires
       THEN /\ infrastructure' = Append(infrastructure, Outcome(succeeded))
            /\ phase' = IF succeeded THEN "redis" ELSE "returned"
       ELSE phase' = "redis" /\ UNCHANGED infrastructure
    /\ UNCHANGED <<manifest, found, install, setup, services, ok>>

InstallRedis(succeeded) ==
    /\ phase = "redis"
    /\ phase' = "install"
    /\ infrastructure' = IF "redis" \in manifest.requires
                         THEN Append(infrastructure, Outcome(succeeded))
                         ELSE infrastructure
    /\ UNCHANGED <<manifest, found, install, setup, services, ok>>

RunInstall(succeeded) ==
    /\ phase = "install"
    /\ phase' = "setup"
    /\ install' = IF manifest.install THEN <<Outcome(succeeded)>> ELSE <<>>
    /\ UNCHANGED <<manifest, found, infrastructure, setup, services, ok>>

(* The step the loop has come to: a failure keeps none of the others back. *)
RunStep(outcome) ==
    /\ phase = "setup"
    /\ Len(setup) < Len(manifest.setup)
    /\ outcome = Skipped => manifest.setup[Len(setup) + 1].conditional
    /\ setup' = Append(setup, outcome)
    /\ UNCHANGED <<manifest, phase, found, infrastructure, install, services, ok>>

(* Faulty variant: the services start after the first step that failed.    *)
StepsOverEarly ==
    /\ phase = "setup"
    /\ \/ Len(setup) = Len(manifest.setup)
       \/ \E i \in DOMAIN setup : ~setup[i].ok
    /\ phase' = "services"
    /\ UNCHANGED <<manifest, found, results, ok>>

StepsOver ==
    /\ phase = "setup"
    /\ Len(setup) = Len(manifest.setup)
    /\ phase' = "services"
    /\ UNCHANGED <<manifest, found, results, ok>>

(* Start and poll one service, or only poll a shared port.                 *)
StartService(healthy) ==
    /\ phase = "services"
    /\ Len(services) < Len(manifest.services)
    /\ services' = Append(services,
                       [healthy  |-> healthy,
                        optional |-> manifest.services[Len(services) + 1].optional])
    /\ UNCHANGED <<manifest, phase, found, infrastructure, install, setup, ok>>

(* failedRequired is empty.                                                *)
NothingFailed ==
    /\ \A i \in DOMAIN infrastructure : infrastructure[i].ok
    /\ \A i \in DOMAIN install : install[i].ok
    /\ \A i \in DOMAIN setup : setup[i].ok \/ setup[i].skipped
    /\ \A i \in DOMAIN services : services[i].healthy \/ services[i].optional

Summarize ==
    /\ phase = "services"
    /\ Len(services) = Len(manifest.services)
    /\ phase' = "returned"
    /\ ok' = NothingFailed
    /\ UNCHANGED <<manifest, found, results>>

(* A docker process that cannot be spawned rejects the promise.            *)
Reject ==
    /\ phase # "returned"
    /\ phase # "rejected"
    /\ phase' = "rejected"
    /\ UNCHANGED <<manifest, found, results, ok>>

SetupNext ==
    \/ NoManifest
    \/ ReadManifest
    \/ \E succeeded \in BOOLEAN :
          \/ InstallPostgres(succeeded)
          \/ InstallRedis(succeeded)
          \/ RunInstall(succeeded)
          \/ StartService(succeeded)
    \/ \E outcome \in {Outcome(TRUE), Outcome(FALSE), Skipped} : RunStep(outcome)
    \/ StepsOver
    \/ Summarize
    \/ Reject

SetupSpec == SetupInit /\ [][SetupNext]_setupVars

-----------------------------------------------------------------------------
(***************************************************************************)
(* Properties.                                                             *)
(***************************************************************************)

(* Every variable keeps to its type.                                       *)
SetupTypeOK ==
    /\ manifest \in Manifests
    /\ phase \in {"manifest", "postgres", "redis", "install", "setup", "services",
                  "returned", "rejected"}
    /\ found \in BOOLEAN
    /\ infrastructure \in Seq(StepOutcomes)
    /\ install \in Seq(StepOutcomes)
    /\ setup \in Seq(StepOutcomes)
    /\ services \in Seq(ServiceOutcomes)
    /\ ok \in BOOLEAN

(* What runAgentBuild copies into the report's inputs.                     *)
ReportedSteps ==
    {infrastructure[i] : i \in DOMAIN infrastructure}
    \cup {install[i] : i \in DOMAIN install}
    \cup {setup[i] : i \in DOMAIN setup}

ReportedServices == {services[i] : i \in DOMAIN services}

Blocks == HasBlockers(<<>>, ReportedSteps, ReportedServices)

(* The two verdicts agree: the setup answers ok exactly when its results   *)
(* put no blocker into the build report, an aborted setup included.        *)
VerdictsAgree == phase = "returned" => (ok <=> ~Blocks)

(* No failure hides what comes after it: services start when every step    *)
(* was tried, and a setup that answers has a result for everything asked,  *)
(* unless postgres, its first result, failed.                              *)
NothingDropped ==
    /\ services # <<>> => Len(setup) = Len(manifest.setup)
    /\ phase = "returned" /\ found =>
          \/ infrastructure = <<Outcome(FALSE)>> /\ "postgres" \in manifest.requires
          \/ /\ Len(infrastructure) = Cardinality(manifest.requires)
             /\ Len(install) = IF manifest.install THEN 1 ELSE 0
             /\ Len(setup) = Len(manifest.setup)
             /\ Len(services) = Len(manifest.services)
=============================================================================
