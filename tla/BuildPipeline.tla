--------------------------- MODULE BuildPipeline ---------------------------
(***************************************************************************)
(* runAgentBuild (ruh-backend/src/agentBuild.ts): the generator that       *)
(* builds an agent inside its sandbox container.                           *)
(*                                                                         *)
(*   scaffold -> sync to the main workspace -> specialists, one by one     *)
(*            -> merge -> setup -> verification -> report -> build_complete*)
(*                                                                         *)
(* Every await is a step boundary: between two steps the user may cancel   *)
(* (the AbortSignal) and a specialist that the pipeline gave up on may     *)
(* still write files, because giving up closes the HTTP stream and leaves  *)
(* the gateway session running.                                            *)
(*                                                                         *)
(* The container holds two workspaces.  Specialists read and write `main'; *)
(* the scaffold goes to `copilot' and is copied over `main', twice.        *)
(*                                                                         *)
(* Left out: the branches for a specialist without a prompt and for the    *)
(* dashboard, which getRequiredSpecialists never plans; the wording of     *)
(* events; the pruning of legacy dashboard hooks (files no task expects);  *)
(* and build-manifest.json, saved on a best-effort basis, read by nobody.  *)
(***************************************************************************)
EXTENDS Naturals, Sequences, FiniteSets, BuildReport

CONSTANTS
    Planned,        \* the specialist tasks, in the order they run
    Files,          \* the workspace files the model tells apart
    ScaffoldFiles,  \* those that the deterministic scaffold generates
    Expected,       \* [task -> files expectedFilesForSpecialist names]
    Calls,          \* [task -> sequence of the files of each LLM call]
    Looped          \* the skills tasks that make one call per chunk or skill

SpecialistTasks == {Planned[i] : i \in DOMAIN Planned}

Tasks == SpecialistTasks \cup {"scaffold", "verify"}

ASSUME PlannedAssumption ==
    /\ Planned \in Seq(SpecialistTasks)
    /\ \A i, j \in DOMAIN Planned : Planned[i] = Planned[j] => i = j
    /\ "scaffold" \notin SpecialistTasks
    /\ "verify" \notin SpecialistTasks

ASSUME FilesAssumption ==
    /\ ScaffoldFiles \subseteq Files
    /\ Expected \in [SpecialistTasks -> SUBSET Files]
    /\ Calls \in [SpecialistTasks -> Seq(SUBSET Files)]
    /\ \A t \in SpecialistTasks : Calls[t] # <<>>
    /\ Looped \subseteq SpecialistTasks

VARIABLES
    pc,         \* where the generator stands
    idx,        \* index in Planned of the specialist that runs or is next
    call,       \* which LLM call of that specialist
    timedOut,   \* the last single call ended in a timeout or an abort
    status,     \* the manifest in memory: [task -> status]
    completed,  \* the progress counter
    aborted,    \* signal.aborted
    main,       \* [file -> what main holds at that path]
    copilot,    \* the same for workspace-copilot
    remote,     \* tasks whose gateway session outlives the pipeline's interest
    setup,      \* what the setup phase leaves for the report
    report      \* readiness in the build_report event, or "none"

vars == <<pc, idx, call, timedOut, status, completed, aborted,
          main, copilot, remote, setup, report>>

control   == <<pc, idx, call, timedOut>>
workspace == <<main, copilot, remote>>
outcome   == <<setup, report>>

Contents == {"absent", "scaffold", "specialist"}

Locations == {"scaffold", "scaffolding", "sync", "next", "probe", "reprobe",
              "callTop", "calling", "settle", "rescue", "after", "merge", "setupTop",
              "setup", "verify", "verifying", "report", "finish",
              "completed", "failed"}

SetupOutcomes == {"none", "ok", "broken"}

Stopped == pc \in {"completed", "failed"}

current == Planned[idx]

Present == {f \in Files : main[f] # "absent"}

(* What existingWorkspaceFiles returns: nothing when docker exec fails.    *)
Probed(ok) == IF ok THEN Present ELSE {}

(* A specialist call leaves files W in main.                               *)
Written(W) == [f \in Files |-> IF f \in W THEN "specialist" ELSE main[f]]

(* mergeWorkspaceCopilotToMain copies the files M of copilot over main.    *)
Merged(M) == [f \in Files |-> IF f \in M THEN copilot[f] ELSE main[f]]

InCopilot == {f \in Files : copilot[f] # "absent"}

(* The sandbox as the builder finds it: empty, or holding the scaffold of  *)
(* an earlier build and whatever its specialists got done.                 *)
FirstBuild ==
    /\ main = [f \in Files |-> "absent"]
    /\ copilot = [f \in Files |-> "absent"]

Rebuild ==
    /\ \E old \in SUBSET Files :
          main = [f \in Files |-> IF f \in old THEN "specialist"
                                ELSE IF f \in ScaffoldFiles THEN "scaffold"
                                ELSE "absent"]
    /\ copilot = [f \in Files |-> IF f \in ScaffoldFiles THEN "scaffold" ELSE "absent"]

Init ==
    /\ pc = "scaffold"
    /\ idx = 1
    /\ call = 1
    /\ timedOut = FALSE
    /\ status = [t \in Tasks |-> "pending"]
    /\ completed = 0
    /\ aborted = FALSE
    /\ \/ FirstBuild
       \/ Rebuild
    /\ remote = {}
    /\ setup = "none"
    /\ report = "none"

Goto(l) == pc' = l /\ UNCHANGED <<idx, call, timedOut>>

(***************************************************************************)
(* Cancellation.  checkCancelled throws at the head of a phase, at the     *)
(* head of each specialist and, in the skills loops, before each call; the *)
(* catch of runAgentBuild turns the throw into the error event.            *)
(***************************************************************************)
(* Faulty variant: the signal is looked at once more before build_complete.*)
CheckpointAtFinish ==
    \/ pc \in {"scaffold", "next", "setupTop", "verify", "finish"}
    \/ pc = "callTop" /\ current \in Looped /\ call <= Len(Calls[current])

Checkpoint ==
    \/ pc \in {"scaffold", "next", "setupTop", "verify"}
    \/ pc = "callTop" /\ current \in Looped /\ call <= Len(Calls[current])

Cancelled ==
    /\ aborted
    /\ Checkpoint
    /\ Goto("failed")
    /\ UNCHANGED <<status, completed, aborted, workspace, outcome>>

(* An await outside every inner try rejects (docker cannot be spawned).    *)
Throws ==
    /\ \/ pc \in {"sync", "probe", "reprobe", "rescue"}
       \/ pc = "settle" /\ current \in Looped
    /\ Goto("failed")
    /\ UNCHANGED <<status, completed, aborted, workspace, outcome>>

(***************************************************************************)
(* Phase 1: scaffold.                                                      *)
(***************************************************************************)
BeginScaffold ==
    /\ pc = "scaffold"
    /\ ~aborted
    /\ status' = [status EXCEPT !["scaffold"] = "running"]
    /\ Goto("scaffolding")
    /\ UNCHANGED <<completed, aborted, workspace, outcome>>

(* A file that could not be written is dropped from the task's list and    *)
(* the task is done all the same.                                          *)
ScaffoldDone(W) ==
    /\ pc = "scaffolding"
    /\ copilot' = [f \in Files |-> IF f \in W THEN "scaffold" ELSE copilot[f]]
    /\ status' = [status EXCEPT !["scaffold"] = "done"]
    /\ completed' = completed + 1
    /\ Goto("sync")
    /\ UNCHANGED <<aborted, main, remote, outcome>>

(* Faulty variant: a failed scaffold counts as progress.                   *)
ScaffoldFailsCounted ==
    /\ pc = "scaffolding"
    /\ status' = [status EXCEPT !["scaffold"] = "failed"]
    /\ completed' = completed + 1
    /\ Goto("sync")
    /\ UNCHANGED <<aborted, workspace, outcome>>

(* More files than a batch may hold, or a template that throws.            *)
ScaffoldFails ==
    /\ pc = "scaffolding"
    /\ status' = [status EXCEPT !["scaffold"] = "failed"]
    /\ Goto("sync")
    /\ UNCHANGED <<completed, aborted, workspace, outcome>>

(* The merge's result is not looked at: M may be less than all of copilot. *)
SyncMain(M) ==
    /\ pc = "sync"
    /\ main' = Merged(M)
    /\ Goto("next")
    /\ UNCHANGED <<status, completed, aborted, copilot, remote, outcome>>

(***************************************************************************)
(* Phase 2: the specialists, one after the other.                          *)
(***************************************************************************)
(* Faulty variant: no checkCancelled at the head of a specialist.          *)
BeginSpecialistUnchecked ==
    /\ pc = "next"
    /\ idx <= Len(Planned)
    /\ status' = [status EXCEPT ![current] = "running"]
    /\ Goto("probe")
    /\ UNCHANGED <<completed, aborted, workspace, outcome>>

BeginSpecialist ==
    /\ pc = "next"
    /\ idx <= Len(Planned)
    /\ ~aborted
    /\ status' = [status EXCEPT ![current] = "running"]
    /\ Goto("probe")
    /\ UNCHANGED <<completed, aborted, workspace, outcome>>

TaskDone(t) ==
    /\ status' = [status EXCEPT ![t] = "done"]
    /\ Goto("after")

TaskFailed(t) ==
    /\ status' = [status EXCEPT ![t] = "failed"]
    /\ Goto("after")

(* All the files are there and there are some.                             *)
AlreadyThere(t, seen) == Expected[t] # {} /\ Expected[t] \subseteq seen

(* Files found in place spare the specialist its call; the skills loops    *)
(* look a second time.                                                     *)
Probe(ok) ==
    /\ pc \in {"probe", "reprobe"}
    /\ IF AlreadyThere(current, Probed(ok))
       THEN TaskDone(current)
       ELSE /\ Goto(IF pc = "probe" /\ current \in Looped THEN "reprobe" ELSE "callTop")
            /\ UNCHANGED status
    /\ UNCHANGED <<completed, aborted, workspace, outcome>>

BeginCall ==
    /\ pc = "callTop"
    /\ call <= Len(Calls[current])
    /\ ~aborted
    /\ Goto("calling")
    /\ UNCHANGED <<status, completed, aborted, workspace, outcome>>

(* fetch with an aborted signal rejects at once: only the single-call path *)
(* gets here, the loops check the signal themselves.                       *)
CallRefused ==
    /\ pc = "callTop"
    /\ aborted
    /\ current \notin Looped
    /\ pc' = "rescue"
    /\ timedOut' = TRUE
    /\ UNCHANGED <<idx, call, status, completed, aborted, workspace, outcome>>

NextCall ==
    /\ pc' = "callTop"
    /\ call' = call + 1
    /\ UNCHANGED <<idx, timedOut>>

(* The call ends well, having written W.                                   *)
CallReturns(W) ==
    /\ pc = "calling"
    /\ main' = Written(W)
    /\ IF current \in Looped THEN NextCall ELSE Goto("settle")
    /\ UNCHANGED <<status, completed, aborted, copilot, remote, outcome>>

(* An error that is not a timeout: a loop goes on with what is left, a     *)
(* single call asks whether the files are there after all.  Where only the *)
(* connection broke, the session goes on.                                  *)
CallFails(W) ==
    /\ pc = "calling"
    /\ main' = Written(W)
    /\ IF current \in Looped THEN NextCall ELSE Goto("rescue")
    /\ remote' \in {remote, remote \cup {current}}
    /\ UNCHANGED <<status, completed, aborted, copilot, outcome>>

(* The hard timeout, or the abort of a call in flight.  Nobody tells the   *)
(* gateway: its session goes on.                                           *)
CallTimesOut(W) ==
    /\ pc = "calling"
    /\ main' = Written(W)
    /\ remote' = remote \cup {current}
    /\ IF current \in Looped
       THEN TaskFailed(current)
       ELSE /\ pc' = "rescue"
            /\ timedOut' = TRUE
            /\ UNCHANGED <<idx, call, status>>
    /\ UNCHANGED <<completed, aborted, copilot, outcome>>

(* All calls of a loop are over.                                           *)
LoopEnds ==
    /\ pc = "callTop"
    /\ call > Len(Calls[current])
    /\ Goto("settle")
    /\ UNCHANGED <<status, completed, aborted, workspace, outcome>>

(* Faulty variant: a loop that left some of its files is done.             *)
SettlePartial(ok) ==
    /\ pc = "settle"
    /\ IF Expected[current] \cap Probed(ok) # {}
       THEN TaskDone(current)
       ELSE TaskFailed(current)
    /\ UNCHANGED <<completed, aborted, workspace, outcome>>

(* reconcileSpecialistFiles after the last call.                           *)
Settle(ok) ==
    /\ pc = "settle"
    /\ \/ /\ Expected[current] \subseteq Probed(ok)
          /\ TaskDone(current)
       \/ /\ ~(Expected[current] \subseteq Probed(ok))
          /\ current \in Looped
          /\ TaskFailed(current)
       \/ /\ ~(Expected[current] \subseteq Probed(ok))
          /\ current \notin Looped
          /\ Goto("rescue")
          /\ UNCHANGED status
    /\ UNCHANGED <<completed, aborted, workspace, outcome>>

(* Faulty variant: a single call that failed is placed again.              *)
RescueRetries(ok) ==
    /\ pc = "rescue"
    /\ IF AlreadyThere(current, Probed(ok))
       THEN TaskDone(current)
       ELSE Goto("callTop") /\ UNCHANGED status
    /\ UNCHANGED <<completed, aborted, workspace, outcome>>

(* The catch of the single call: a second look, useless after a timeout.   *)
Rescue(ok) ==
    /\ pc = "rescue"
    /\ IF ~timedOut /\ AlreadyThere(current, Probed(ok))
       THEN TaskDone(current)
       ELSE TaskFailed(current)
    /\ UNCHANGED <<completed, aborted, workspace, outcome>>

EndSpecialist ==
    /\ pc = "after"
    /\ completed' = completed + 1
    /\ idx' = idx + 1
    /\ pc' = "next"
    /\ call' = 1
    /\ timedOut' = FALSE
    /\ UNCHANGED <<status, aborted, workspace, outcome>>

(* A session nobody listens to writes one of the files it was asked for.   *)
LateWrite(t, f) ==
    /\ t \in remote
    /\ main' = Written({f})
    /\ UNCHANGED <<control, status, completed, aborted, copilot, remote, outcome>>

(***************************************************************************)
(* Phases 3 and 4: merge, setup.                                           *)
(***************************************************************************)
BeginMerge ==
    /\ pc = "next"
    /\ idx > Len(Planned)
    /\ ~aborted
    /\ Goto("merge")
    /\ UNCHANGED <<status, completed, aborted, workspace, outcome>>

Merge(M) ==
    /\ pc = "merge"
    /\ main' = Merged(M)
    /\ Goto("setupTop")
    /\ UNCHANGED <<status, completed, aborted, copilot, remote, outcome>>

BeginSetup ==
    /\ pc = "setupTop"
    /\ ~aborted
    /\ Goto("setup")
    /\ UNCHANGED <<status, completed, aborted, workspace, outcome>>

(* runAgentSetup returned or threw; what it found is a report input.       *)
EndSetup(result) ==
    /\ pc = "setup"
    /\ setup' = result
    /\ Goto("verify")
    /\ UNCHANGED <<status, completed, aborted, workspace, report>>

(* checkCancelled throws inside the setup phase's own try: it becomes a    *)
(* setup warning.                                                          *)
SetupCancelled ==
    /\ pc = "setup"
    /\ aborted
    /\ setup' = "broken"
    /\ Goto("verify")
    /\ UNCHANGED <<status, completed, aborted, workspace, report>>

(***************************************************************************)
(* Phase 5 and the end.  Nothing looks at the signal after BeginVerify.    *)
(***************************************************************************)
(* Faulty variant: no checkCancelled after the setup phase.                *)
BeginVerifyUnchecked ==
    /\ pc = "verify"
    /\ status' = [status EXCEPT !["verify"] = "running"]
    /\ Goto("verifying")
    /\ UNCHANGED <<completed, aborted, workspace, outcome>>

BeginVerify ==
    /\ pc = "verify"
    /\ ~aborted
    /\ status' = [status EXCEPT !["verify"] = "running"]
    /\ Goto("verifying")
    /\ UNCHANGED <<completed, aborted, workspace, outcome>>

(* The verification specialist may repair files before it ends, and any    *)
(* error, an abort included, only fails the task.                          *)
EndVerify(verdict, W) ==
    /\ pc = "verifying"
    /\ status' = [status EXCEPT !["verify"] = verdict]
    /\ main' = Written(W)
    /\ completed' = completed + 1
    /\ Goto("report")
    /\ UNCHANGED <<aborted, copilot, remote, outcome>>

(* Faulty variant: a setup that threw leaves nothing for the report.       *)
SetupResultsLost == {}

SetupResults ==
    IF setup = "broken"
    THEN {[ok |-> FALSE, optional |-> FALSE, skipped |-> FALSE]}
    ELSE {}

(* The two copies of the report written to the workspaces are left out:    *)
(* whether they could be written changes nothing here.                     *)
EmitReport ==
    /\ pc = "report"
    /\ report' = Readiness(status, SetupResults, {}, status["verify"])
    /\ Goto("finish")
    /\ UNCHANGED <<status, completed, aborted, workspace, setup>>

Finish ==
    /\ pc = "finish"
    /\ Goto("completed")
    /\ UNCHANGED <<status, completed, aborted, workspace, outcome>>

Cancel ==
    /\ ~aborted
    /\ ~Stopped
    /\ aborted' = TRUE
    /\ UNCHANGED <<control, status, completed, workspace, outcome>>

Specialist ==
    \/ BeginSpecialist
    \/ \E ok \in BOOLEAN : Probe(ok) \/ Settle(ok) \/ Rescue(ok)
    \/ BeginCall
    \/ CallRefused
    \/ pc = "calling" /\ \E W \in SUBSET Calls[current][call] :
          CallReturns(W) \/ CallFails(W) \/ CallTimesOut(W)
    \/ LoopEnds
    \/ EndSpecialist

Phase ==
    \/ BeginScaffold
    \/ \E W \in SUBSET ScaffoldFiles : ScaffoldDone(W)
    \/ ScaffoldFails
    \/ \E M \in SUBSET InCopilot : SyncMain(M) \/ Merge(M)
    \/ BeginMerge
    \/ BeginSetup
    \/ \E result \in {"ok", "broken"} : EndSetup(result)
    \/ SetupCancelled
    \/ BeginVerify
    \/ \E verdict \in {"done", "failed"}, W \in SUBSET Files : EndVerify(verdict, W)
    \/ EmitReport
    \/ Finish

Generator == Phase \/ Specialist \/ Cancelled \/ Throws

Environment ==
    \/ Cancel
    \/ \E t \in remote : \E c \in DOMAIN Calls[t] : \E f \in Calls[t][c] : LateWrite(t, f)

Terminated == Stopped /\ UNCHANGED vars

Next == Generator \/ Environment \/ Terminated

(* Every await of the generator ends: docker exec and the specialist calls *)
(* carry timeouts.  Nothing obliges the user or a lost session to act.     *)
Spec == Init /\ [][Next]_vars /\ WF_vars(Generator)

-----------------------------------------------------------------------------
(***************************************************************************)
(* Properties.                                                             *)
(***************************************************************************)

(* Every variable keeps to its type.                                       *)
TypeOK ==
    /\ pc \in Locations
    /\ idx \in 1..(Len(Planned) + 1)
    /\ call \in Nat \ {0}
    /\ timedOut \in BOOLEAN
    /\ status \in [Tasks -> TaskStatus]
    /\ completed \in Nat
    /\ aborted \in BOOLEAN
    /\ main \in [Files -> Contents]
    /\ copilot \in [Files -> Contents]
    /\ remote \subseteq SpecialistTasks
    /\ setup \in SetupOutcomes
    /\ report \in Readinesses \cup {"none"}

(* A specialist's task is done only if every file expected of it is in the *)
(* main workspace, whichever path ended it (skip, call, loop, rescue), and *)
(* no later phase takes one away.                                          *)
DoneHasFiles ==
    \A t \in SpecialistTasks : status[t] = "done" => Expected[t] \subseteq Present

(* A ship-ready report means that nothing at all is outstanding: every     *)
(* task of the manifest ended well, none was left pending or running by a  *)
(* path the report does not look at, and the setup ran to its end.         *)
ShipReadyMeansAllDone ==
    report = "ship-ready" =>
        /\ \A t \in Tasks : status[t] = "done"
        /\ setup = "ok"

(* The progress the stream shows counts every ended task but a failed      *)
(* scaffold, and never runs ahead of the tasks.                            *)
EndedTasks == {t \in Tasks : status[t] \in {"done", "failed"}}

ProgressCounts ==
    completed = Cardinality(EndedTasks)
                - (IF status["scaffold"] = "failed" THEN 1 ELSE 0)
                - (IF pc = "after" THEN 1 ELSE 0)

(* Once the build is cancelled no task starts and no LLM call is placed:   *)
(* at most the call already in flight runs on.                             *)
NoWorkAfterCancel ==
    [][aborted => /\ \A t \in Tasks : status[t] = "pending" => status'[t] = "pending"
                  /\ pc # "calling" => pc' # "calling"]_vars

(* A cancellation that comes before the verification never ends in         *)
(* build_complete, whatever the phase it interrupts makes of it: the setup *)
(* phase swallows the throw, but the next checkpoint repeats it.           *)
EarlyCancelIsFinal ==
    [](aborted /\ pc \notin {"verifying", "report", "finish", "completed"}
         => [](pc # "completed"))

(* Every build ends, cancelled or not: the stream gets its last event.     *)
BuildEnds == <>Stopped

(* The pipeline keeps the promise its consumer relies on.                  *)
Promise == INSTANCE BuildGenerator WITH
    phase <- IF pc = "completed" THEN "completed"
             ELSE IF pc = "failed" THEN "failed"
             ELSE IF pc = "finish" THEN "reported" ELSE "building",
    open  <- {t \in Tasks : status[t] = "running"},
    ended <- EndedTasks

KeepsPromise == Promise!Spec
=============================================================================
