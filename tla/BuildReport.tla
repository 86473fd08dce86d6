---------------------------- MODULE BuildReport ----------------------------
(***************************************************************************)
(* summarizeBuildReport (ruh-backend/src/buildReport.ts): the verdict that *)
(* gates the Review and Test stages.  A pure function of four inputs: the  *)
(* statuses of the manifest's tasks, the results of the setup steps, the   *)
(* health of the services and the status of the verification.              *)
(*                                                                         *)
(* `optional' is undefined in a result that does not carry it, and         *)
(* undefined is falsy: such a record has optional = FALSE here.            *)
(***************************************************************************)

TaskStatus == {"pending", "running", "done", "failed"}

Readinesses == {"blocked", "test-ready", "ship-ready"}

(* A StepResult: skipped steps count neither for nor against.              *)
StepOutcomes == [ok : BOOLEAN, optional : BOOLEAN, skipped : BOOLEAN]

ServiceOutcomes == [healthy : BOOLEAN, optional : BOOLEAN]

FailedTasks(tasks) ==
    {t \in DOMAIN tasks : t # "verify" /\ tasks[t] = "failed"}

FailedSteps(setup) ==
    {s \in setup : ~s.skipped /\ ~s.ok /\ ~s.optional}

UnhealthyServices(services) ==
    {s \in services : ~s.healthy /\ ~s.optional}

HasBlockers(tasks, setup, services) ==
    \/ FailedTasks(tasks) # {}
    \/ FailedSteps(setup) # {}
    \/ UnhealthyServices(services) # {}

(* A verification that failed is a warning, not a blocker.                 *)
Readiness(tasks, setup, services, verification) ==
    IF HasBlockers(tasks, setup, services)
    THEN "blocked"
    ELSE IF verification = "done" THEN "ship-ready" ELSE "test-ready"
=============================================================================
