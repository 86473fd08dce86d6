------------------------------ MODULE StageGate ------------------------------
(***************************************************************************)
(* The lifecycle stage of an agent in creation (ruh-backend/src/app.ts).   *)
(*                                                                         *)
(*   PATCH forge/stage reads the agent, consults a guard that reads the    *)
(*   build report in the container or the eval results, stores the stage   *)
(*   and then writes back the whole Co-Pilot session as it was when it     *)
(*   read it.                                                              *)
(*                                                                         *)
(* Beside it run a build, which writes files and the report and saves its  *)
(* status into the same session (BuildStream has its saves in full), GET   *)
(* build-completion-status, which writes a favourable report of its own    *)
(* when it finds the files, and POST ship.                                 *)
(*                                                                         *)
(* Files, once written, stay.  The session keeps what the rules below ask  *)
(* about: the stage, the farthest stage and the build's status.  The       *)
(* agent's status is in ForgeProvision, and is none of the guards'.        *)
(***************************************************************************)
EXTENDS Naturals, FiniteSets

CONSTANTS Requests,     \* PATCH requests
          Targets,      \* the stages they ask for
          Specialists,  \* those whose files are checked
          MaxBuilds

StageOrder == <<"reveal", "think", "plan", "prototype", "build",
                "review", "test", "ship", "reflect">>

Stages == {StageOrder[i] : i \in 1..9} \cup {"complete"}

ASSUME TargetsAssumption == Targets \subseteq Stages
ASSUME MaxBuildsAssumption == MaxBuilds \in Nat

VARIABLES
    agent,      \* the row: stage and session
    files,      \* specialists with all their files in the main workspace
    report,     \* the readiness in the copilot workspace's build-report.json
    passing,    \* a passing eval result is on record
    patch,      \* the PATCH requests
    build,      \* the build that runs, and the save it is at
    builds,     \* how many were started
    check       \* GET build-completion-status

vars == <<agent, files, report, passing, patch, build, builds, check>>

Sessions == [dev : Stages, max : Stages, build : {"idle", "building", "failed", "done"}]

Agents == [stage : Stages, session : Sessions]

Verdicts == {"blocked", "test-ready", "ship-ready"}

Fresh == [dev |-> "think", max |-> "think", build |-> "idle"]

NoRequest(at) == [at |-> at, stage |-> "think", session |-> Fresh]

NoBuild == [at |-> "idle", status |-> "idle", session |-> Fresh]

NoCheck == [at |-> "idle", todo |-> {}, missing |-> FALSE]

(* POST agents/create sets the stage to think.                             *)
Init ==
    /\ agent = [stage |-> "think", session |-> Fresh]
    /\ files = {}
    /\ report = "none"
    /\ passing = FALSE
    /\ patch = [p \in Requests |-> NoRequest("idle")]
    /\ build = NoBuild
    /\ builds = 0
    /\ check = NoCheck

-----------------------------------------------------------------------------
(***************************************************************************)
(* PATCH forge/stage.                                                      *)
(***************************************************************************)
IndexOf(stage) == CHOOSE i \in 1..9 : StageOrder[i] = stage

Later(stage, other) == IndexOf(stage) > IndexOf(other)

(* Faulty variant: what was unlocked before stays the limit.               *)
maxForgeStageStuck(current, next) == current

maxForgeStage(current, next) == IF Later(next, current) THEN next ELSE current

(* The session a request writes: what it read, with its own stage.         *)
Synced(session, stage) ==
    [dev |-> stage,
     max |-> maxForgeStage(session.max, stage),
     build |-> IF Later(stage, "build") THEN "done" ELSE session.build]

onlyPatch == <<files, report, passing, build, builds, check>>

ReadAgent(p) ==
    /\ patch[p].at = "idle"
    /\ \E stage \in Targets :
           patch' = [patch EXCEPT ![p] =
                        [at |-> "guarding", stage |-> stage, session |-> agent.session]]
    /\ UNCHANGED <<agent, onlyPatch>>

(* Faulty variant: any report opens review.                                *)
AllowsAnyReport(stage) ==
    CASE stage \in {"review", "test"} -> report # "none"
      [] stage = "ship" -> passing
      [] OTHER -> stage # "complete"

Allows(stage) ==
    CASE stage \in {"review", "test"} -> report \in {"test-ready", "ship-ready"}
      [] stage = "ship" -> passing
      [] OTHER -> stage # "complete"

Guard(p) ==
    /\ patch[p].at = "guarding"
    /\ patch' = IF Allows(patch[p].stage) THEN [patch EXCEPT ![p].at = "updating"]
                                          ELSE [patch EXCEPT ![p] = NoRequest("over")]
    /\ UNCHANGED <<agent, onlyPatch>>

UpdateStage(p) ==
    /\ patch[p].at = "updating"
    /\ agent' = [agent EXCEPT !.stage = patch[p].stage]
    /\ patch' = [patch EXCEPT ![p].at = "syncing"]
    /\ UNCHANGED onlyPatch

Sync(p) ==
    /\ patch[p].at = "syncing"
    /\ agent' = [agent EXCEPT !.session = Synced(patch[p].session, patch[p].stage)]
    /\ patch' = [patch EXCEPT ![p] = NoRequest("over")]
    /\ UNCHANGED onlyPatch

(***************************************************************************)
(* A build.  Each save reads the session and writes it back a step later.  *)
(***************************************************************************)
onlyBuild == <<passing, patch, check>>

StartBuild ==
    /\ build.at = "idle"
    /\ builds < MaxBuilds
    /\ builds' = builds + 1
    /\ build' = [build EXCEPT !.at = "loading", !.status = "building"]
    /\ UNCHANGED <<agent, files, report, onlyBuild>>

LoadSession ==
    /\ build.at = "loading"
    /\ build' = [build EXCEPT !.at = "storing", !.session = agent.session]
    /\ UNCHANGED <<agent, files, report, builds, onlyBuild>>

(* After the verdict comes build_complete, which says done whatever the    *)
(* report was.                                                             *)
AfterSave ==
    CASE build.status = "building" -> [NoBuild EXCEPT !.at = "working"]
      [] build.status \in Verdicts -> [NoBuild EXCEPT !.at = "loading", !.status = "done"]
      [] OTHER -> NoBuild

Saved ==
    CASE build.status = "blocked" -> "failed"
      [] build.status \in {"test-ready", "ship-ready"} -> "done"
      [] OTHER -> build.status

StoreSession ==
    /\ build.at = "storing"
    /\ agent' = [agent EXCEPT !.session = [build.session EXCEPT !.build = Saved]]
    /\ build' = AfterSave
    /\ UNCHANGED <<files, report, builds, onlyBuild>>

WriteFiles(sp) ==
    /\ build.at = "working"
    /\ sp \notin files
    /\ files' = files \cup {sp}
    /\ UNCHANGED <<agent, report, build, builds, onlyBuild>>

(* A specialist without its files failed, and blocks; setup and services   *)
(* may block as well.  The write of the report may fail unnoticed.         *)
Reportable == IF files = Specialists THEN Verdicts ELSE {"blocked"}

ReportBuild ==
    /\ build.at = "working"
    /\ \E verdict \in Reportable :
           /\ report' \in {report, verdict}
           /\ build' = [build EXCEPT !.at = "loading", !.status = verdict]
    /\ UNCHANGED <<agent, files, builds, onlyBuild>>

(* Cancelled, or an exception: no report, and the error's save.            *)
BuildFails ==
    /\ build.at = "working"
    /\ build' = [build EXCEPT !.at = "loading", !.status = "failed"]
    /\ UNCHANGED <<agent, files, report, builds, onlyBuild>>

(***************************************************************************)
(* GET build-completion-status: one docker exec for each specialist, and   *)
(* a report that calls everything done.                                    *)
(***************************************************************************)
onlyCheck == <<agent, files, passing, patch, build, builds>>

BeginCheck ==
    /\ check.at = "idle"
    /\ check' = [at |-> "reading", todo |-> Specialists, missing |-> FALSE]
    /\ UNCHANGED <<report, onlyCheck>>

CheckFiles(sp) ==
    /\ sp \in check.todo
    /\ \E ok \in BOOLEAN :
           check' = [check EXCEPT !.todo = @ \ {sp}, !.missing = @ \/ ~ok \/ sp \notin files]
    /\ UNCHANGED <<report, onlyCheck>>

EndCheck ==
    /\ check.at = "reading"
    /\ check.todo = {}
    /\ check' = NoCheck
    /\ report' \in IF check.missing THEN {report} ELSE {report, "ship-ready"}
    /\ UNCHANGED onlyCheck

(***************************************************************************)
(* Ship, evaluation and the restart.                                       *)
(***************************************************************************)
inBuild == <<files, report, build, builds, check>>

(* Once the push to the repository came back.                              *)
Ship ==
    /\ agent' = [agent EXCEPT !.stage = "complete"]
    /\ UNCHANGED <<passing, patch, inBuild>>

(* The guard looks at the ten latest results only.                         *)
RecordEval ==
    /\ passing' \in BOOLEAN
    /\ UNCHANGED <<agent, patch, inBuild>>

Restart ==
    /\ patch' = [p \in Requests |->
                    IF patch[p].at \in {"idle", "over"} THEN patch[p]
                    ELSE NoRequest("lost")]
    /\ build' = NoBuild
    /\ check' = NoCheck
    /\ UNCHANGED <<agent, files, report, passing, builds>>

Next ==
    \/ \E p \in Requests : ReadAgent(p) \/ Guard(p) \/ UpdateStage(p) \/ Sync(p)
    \/ StartBuild \/ LoadSession \/ StoreSession \/ ReportBuild \/ BuildFails
    \/ \E sp \in Specialists : WriteFiles(sp) \/ CheckFiles(sp)
    \/ BeginCheck \/ EndCheck
    \/ Ship \/ RecordEval \/ Restart

Spec == Init /\ [][Next]_vars

-----------------------------------------------------------------------------
TypeOK ==
    /\ agent \in Agents
    /\ files \in SUBSET Specialists
    /\ report \in {"none"} \cup Verdicts
    /\ passing \in BOOLEAN
    /\ patch \in [Requests -> [at : {"idle", "guarding", "updating", "syncing", "over", "lost"},
                               stage : Stages, session : Sessions]]
    /\ build \in [at : {"idle", "loading", "storing", "working"},
                  status : {"idle", "building", "failed", "done"} \cup Verdicts,
                  session : Sessions]
    /\ builds \in 0..MaxBuilds
    /\ check \in [at : {"idle", "reading"}, todo : SUBSET Specialists, missing : BOOLEAN]

(* However requests, builds, checks and restarts interleave, an agent in   *)
(* review or test has every specialist's files in its workspace: the       *)
(* report the guard trusts is written by two parties and read in between.  *)
ReviewHasFiles == agent.stage \in {"review", "test"} => files = Specialists

(* No session, stored or about to be stored, is past its farthest stage:   *)
(* writing back a stale one never locks the user out of the stage he is in.*)
StageIsUnlocked == ~Later(agent.session.dev, agent.session.max)
=============================================================================
