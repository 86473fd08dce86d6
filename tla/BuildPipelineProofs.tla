------------------------ MODULE BuildPipelineProofs ------------------------
(***************************************************************************)
(* What BuildPipeline keeps for every plan, whatever its length, the files *)
(* its tasks expect and the calls they make.                               *)
(*                                                                         *)
(* ShipReadyMeansAllDone is not inductive: that nothing is outstanding at  *)
(* the report follows from where the generator stands.  Positions ties the *)
(* location of the generator to the tasks that must have ended by then.    *)
(***************************************************************************)
EXTENDS BuildPipeline, SequenceTheorems, FiniteSetTheorems, TLAPS

Over(t) == status[t] \in {"done", "failed"}

AtSpecialist == {"probe", "reprobe", "callTop", "calling", "settle", "rescue", "after"}

AfterSetup == {"verify", "verifying", "report", "finish", "completed"}

AfterSpecialists == {"merge", "setupTop", "setup"} \cup AfterSetup

Positions ==
    /\ pc \in AtSpecialist => idx <= Len(Planned)
    /\ pc \in AfterSpecialists => idx > Len(Planned)
    /\ pc \notin {"scaffold", "scaffolding", "failed"} => Over("scaffold")
    /\ pc # "failed" => \A i \in 1..(idx - 1) : Over(Planned[i])
    /\ pc = "after" => Over(current)
    /\ pc \in AfterSetup => setup # "none"
    /\ pc \in {"report", "finish", "completed"} => Over("verify")
    /\ report # "none" => pc \in {"finish", "completed"}

(* The plan is a sequence of distinct tasks, none of them a built-in one.  *)
LEMMA PlannedFacts ==
    /\ Len(Planned) \in Nat
    /\ DOMAIN Planned = 1..Len(Planned)
    /\ \A i \in 1..Len(Planned) : Planned[i] \in SpecialistTasks
    /\ \A i, j \in 1..Len(Planned) : Planned[i] = Planned[j] => i = j
    /\ \A t \in SpecialistTasks : \E i \in 1..Len(Planned) : t = Planned[i]
    /\ "scaffold" \notin SpecialistTasks
    /\ "verify" \notin SpecialistTasks
    /\ Tasks = SpecialistTasks \cup {"scaffold", "verify"}
  <1>1. Len(Planned) \in Nat /\ DOMAIN Planned = 1..Len(Planned)
    BY PlannedAssumption, LenProperties
  <1> QED
    BY <1>1, PlannedAssumption DEF SpecialistTasks, Tasks

(***************************************************************************)
(* Types and positions, together: which task runs is known from the index. *)
(***************************************************************************)
Placed == TypeOK /\ Positions

LEMMA PlacedInit == Init => Placed
  <1> SUFFICES ASSUME Init PROVE Placed
    OBVIOUS
  <1>1. /\ main \in [Files -> Contents] /\ copilot \in [Files -> Contents]
    <2>1. CASE FirstBuild
      BY <2>1 DEF FirstBuild, Contents
    <2>2. CASE Rebuild
      BY <2>2 DEF Rebuild, Contents, Readinesses
    <2> QED
      BY <2>1, <2>2 DEF Init
  <1>2. /\ pc \in Locations /\ idx \in 1..(Len(Planned) + 1) /\ call \in Nat \ {0}
        /\ completed \in Nat /\ timedOut \in BOOLEAN /\ aborted \in BOOLEAN
    <2>1. Len(Planned) \in Nat
      BY PlannedFacts
    <2>2. timedOut \in BOOLEAN /\ aborted \in BOOLEAN
      BY DEF Init
    <2> QED
      BY <2>1, <2>2 DEF Init, Locations
  <1>3. /\ status \in [Tasks -> TaskStatus] /\ remote \subseteq SpecialistTasks
        /\ setup \in SetupOutcomes /\ report \in Readinesses \cup {"none"}
    BY DEF Init, TaskStatus, SetupOutcomes
  <1>4. TypeOK
    BY <1>1, <1>2, <1>3, Zenon DEF TypeOK
  <1>5. Positions
    BY PlannedFacts DEF Init, Positions, AtSpecialist, AfterSpecialists, AfterSetup
  <1> QED
    BY <1>4, <1>5 DEF Placed

(* A specialist's location stands for a task of the plan.                  *)
LEMMA CurrentPlanned ==
    ASSUME Placed, pc \in AtSpecialist
    PROVE  idx \in 1..Len(Planned) /\ current \in SpecialistTasks
  BY PlannedFacts DEF Placed, TypeOK, Positions, current

LEMMA FilesTypes ==
    ASSUME Placed
    PROVE  /\ \A W : Written(W) \in [Files -> Contents]
           /\ \A M : Merged(M) \in [Files -> Contents]
  BY DEF Placed, TypeOK, Written, Merged, Contents

LEMMA PlacedSpecialist == Placed /\ Specialist => Placed'
  <1> SUFFICES ASSUME Placed, Specialist
               PROVE  Placed'
    OBVIOUS
  <1> USE PlannedFacts DEF Placed, TypeOK, Positions, Over, AtSpecialist, AfterSetup,
          AfterSpecialists, Locations, TaskStatus, workspace, outcome
  <1>1. CASE BeginSpecialist
    <2>1. idx \in 1..Len(Planned) /\ current \in SpecialistTasks
      BY <1>1 DEF BeginSpecialist, current
    <2>2. \A i \in 1..(idx - 1) : Planned[i] # current /\ Planned[i] \in Tasks
      BY <2>1 DEF current
    <2>3. status' = [status EXCEPT ![current] = "running"] /\ pc = "next" /\ pc' = "probe"
      BY <1>1 DEF BeginSpecialist, Goto
    <2>4. \A i \in 1..(idx - 1) : status'[Planned[i]] = status[Planned[i]]
      BY <2>2, <2>3
    <2>5. status'["scaffold"] = status["scaffold"] /\ status' \in [Tasks -> TaskStatus]
      BY <2>1, <2>3
    <2>6. TypeOK'
      <3>1. /\ UNCHANGED <<idx, call, timedOut, completed, aborted,
                            main, copilot, remote, setup, report>>
            /\ pc' = "probe"
        BY <1>1 DEF BeginSpecialist, Goto
      <3> QED
        BY <2>5, <3>1
    <2>7. Positions'
      <3>1. UNCHANGED <<idx, setup, report>> /\ Over("scaffold")
        BY <1>1 DEF BeginSpecialist, Goto
      <3>2. \A i \in 1..(idx - 1) : Over(Planned[i])'
        BY <2>3, <2>4, <3>1
      <3>3. report' = "none"
        BY <2>3, <3>1
      <3> QED
        BY <2>1, <2>3, <2>5, <3>1, <3>2, <3>3
    <2> QED
      BY <2>6, <2>7
  <1>2. ASSUME pc \in AtSpecialist, TaskDone(current) \/ TaskFailed(current),
               UNCHANGED <<completed, aborted, workspace, outcome>>
        PROVE  Placed'
    BY <1>2, CurrentPlanned DEF TaskDone, TaskFailed, Goto, current
  <1>3. ASSUME pc \in AtSpecialist \ {"after"}, pc' \in AtSpecialist \ {"after"},
               call' \in {call, call + 1}, timedOut' \in BOOLEAN,
               remote' \in SUBSET SpecialistTasks, main' \in [Files -> Contents],
               UNCHANGED <<idx, status, completed, aborted, copilot, outcome>>
        PROVE  Placed'
    BY <1>3
  <1>4. ASSUME NEW ok \in BOOLEAN, Probe(ok) PROVE Placed'
    BY <1>2, <1>3, <1>4 DEF Probe, Goto
  <1>5. ASSUME NEW ok \in BOOLEAN, Settle(ok) PROVE Placed'
    BY <1>2, <1>3, <1>5 DEF Settle, Goto
  <1>6. ASSUME NEW ok \in BOOLEAN, Rescue(ok) PROVE Placed'
    BY <1>2, <1>6 DEF Rescue
  <1>7. CASE BeginCall \/ CallRefused \/ LoopEnds
    BY <1>3, <1>7 DEF BeginCall, CallRefused, LoopEnds, Goto
  <1>8. ASSUME NEW W, CallReturns(W) \/ CallFails(W) PROVE Placed'
    <2>1. current \in SpecialistTasks
      BY <1>8, CurrentPlanned DEF CallReturns, CallFails
    <2> QED
      BY <1>3, <1>8, <2>1, FilesTypes DEF CallReturns, CallFails, NextCall, Goto
  <1>9. ASSUME NEW W, CallTimesOut(W) PROVE Placed'
    <2>1. pc \in AtSpecialist /\ current \in SpecialistTasks
      BY <1>9, CurrentPlanned DEF CallTimesOut
    <2>2. /\ remote' \in SUBSET SpecialistTasks /\ main' \in [Files -> Contents]
          /\ UNCHANGED <<completed, aborted, copilot, outcome>>
      BY <1>9, <2>1, FilesTypes DEF CallTimesOut
    <2>3. CASE current \in Looped
      BY <1>9, <2>1, <2>2, <2>3, CurrentPlanned DEF CallTimesOut, TaskFailed, Goto, current
    <2>4. CASE current \notin Looped
      BY <1>3, <1>9, <2>2, <2>4 DEF CallTimesOut
    <2> QED
      BY <2>3, <2>4
  <1>10. CASE EndSpecialist
    <2>1. idx \in 1..Len(Planned) /\ Over(current)
      BY <1>10, CurrentPlanned DEF EndSpecialist
    <2>2. \A i \in 1..((idx + 1) - 1) : Over(Planned[i])
      BY <1>10, <2>1 DEF EndSpecialist, current
    <2>3. /\ UNCHANGED <<status, aborted, main, copilot, remote, setup, report>>
          /\ pc = "after" /\ pc' = "next" /\ idx' = idx + 1 /\ call' = 1
          /\ timedOut' = FALSE /\ completed' = completed + 1
      BY <1>10 DEF EndSpecialist
    <2>4. timedOut' \in BOOLEAN
      BY <2>3, Zenon
    <2>5. idx' \in 1..(Len(Planned) + 1) /\ completed' \in Nat
      BY <2>1, <2>3
    <2>6. TypeOK'
      BY <2>3, <2>4, <2>5
    <2>7. Positions'
      BY <2>2, <2>3
    <2> QED
      BY <2>6, <2>7
  <1> QED
    BY <1>1, <1>4, <1>5, <1>6, <1>7, <1>8, <1>9, <1>10 DEF Specialist

LEMMA PlacedPhase == Placed /\ Phase => Placed'
  <1> SUFFICES ASSUME Placed, Phase
               PROVE  Placed'
    OBVIOUS
  <1> USE PlannedFacts DEF Placed, TypeOK, Positions, Over, AtSpecialist, AfterSetup,
          AfterSpecialists, Locations, TaskStatus, workspace, outcome, Goto
  <1>0. \A i \in 1..(idx - 1) : Planned[i] \notin {"scaffold", "verify"}
    OBVIOUS
  <1>1. CASE BeginScaffold \/ ScaffoldFails
    BY <1>0, <1>1 DEF BeginScaffold, ScaffoldFails
  <1>2. ASSUME NEW W, ScaffoldDone(W) PROVE Placed'
    BY <1>0, <1>2 DEF ScaffoldDone, Contents
  <1>3. ASSUME NEW M, SyncMain(M) \/ Merge(M) PROVE Placed'
    BY <1>3, FilesTypes DEF SyncMain, Merge
  <1>4. CASE BeginMerge \/ BeginSetup \/ SetupCancelled \/ Finish
    BY <1>4 DEF BeginMerge, BeginSetup, SetupCancelled, Finish, SetupOutcomes
  <1>5. ASSUME NEW result \in {"ok", "broken"}, EndSetup(result) PROVE Placed'
    BY <1>5 DEF EndSetup, SetupOutcomes
  <1>6. CASE BeginVerify
    BY <1>0, <1>6 DEF BeginVerify
  <1>7. ASSUME NEW verdict \in {"done", "failed"}, NEW W, EndVerify(verdict, W) PROVE Placed'
    BY <1>0, <1>7, FilesTypes DEF EndVerify
  <1>8. CASE EmitReport
    <2>1. Readiness(status, SetupResults, {}, status["verify"]) \in Readinesses
      BY DEF Readiness, Readinesses
    <2> QED
      BY <1>8, <2>1 DEF EmitReport
  <1> QED
    BY <1>1, <1>2, <1>3, <1>4, <1>5, <1>6, <1>7, <1>8 DEF Phase

LEMMA PlacedNext == Placed /\ [Next]_vars => Placed'
  <1> SUFFICES ASSUME Placed, [Next]_vars
               PROVE  Placed'
    OBVIOUS
  <1> USE DEF Placed, TypeOK, Positions, Over, AtSpecialist, AfterSetup, AfterSpecialists,
          Locations, workspace, outcome
  <1>1. CASE Cancelled \/ Throws
    BY <1>1 DEF Cancelled, Throws, Checkpoint, Goto
  <1>2. CASE Cancel
    BY <1>2 DEF Cancel, control, current
  <1>3. ASSUME NEW t, NEW f, LateWrite(t, f) PROVE Placed'
    BY <1>3, FilesTypes DEF LateWrite, control, current
  <1>4. CASE UNCHANGED vars
    BY <1>4 DEF vars, current
  <1> QED
    BY <1>1, <1>2, <1>3, <1>4, PlacedSpecialist, PlacedPhase
    DEF Next, Generator, Environment, Terminated

(* For every plan, every variable keeps to its type.                       *)
THEOREM TypeCorrect == Spec => []TypeOK
  <1>1. Placed => TypeOK
    BY DEF Placed
  <1> QED
    BY <1>1, PlacedInit, PlacedNext, PTL DEF Spec

(***************************************************************************)
(* Files.  No step takes a file away from main: the merges copy what       *)
(* copilot has, the calls write.                                           *)
(***************************************************************************)
LEMMA PresentStays ==
    ASSUME Placed, [Next]_vars
    PROVE  Present \subseteq Present'
  <1>1. ASSUME NEW W, main' = Written(W) PROVE Present \subseteq Present'
    BY <1>1 DEF Written, Present
  <1>2. ASSUME NEW M \in SUBSET InCopilot, main' = Merged(M) PROVE Present \subseteq Present'
    BY <1>2 DEF Merged, Present, InCopilot
  <1>3. CASE UNCHANGED main
    BY <1>3 DEF Present
  <1>4. CASE Specialist
    BY <1>1, <1>3, <1>4
    DEF Specialist, BeginSpecialist, Probe, Settle, Rescue, BeginCall, CallRefused,
        CallReturns, CallFails, CallTimesOut, LoopEnds, EndSpecialist, workspace
  <1>5. CASE Phase
    BY <1>1, <1>2, <1>3, <1>5
    DEF Phase, BeginScaffold, ScaffoldDone, ScaffoldFails, SyncMain, BeginMerge, Merge, BeginSetup,
        EndSetup, SetupCancelled, BeginVerify, EndVerify, EmitReport, Finish, workspace
  <1>6. CASE Cancelled \/ Throws \/ Cancel \/ UNCHANGED vars
    BY <1>3, <1>6 DEF Cancelled, Throws, Cancel, vars, workspace
  <1>7. ASSUME NEW t, NEW f, LateWrite(t, f) PROVE Present \subseteq Present'
    BY <1>1, <1>7 DEF LateWrite
  <1> QED
    BY <1>4, <1>5, <1>6, <1>7 DEF Next, Generator, Environment, Terminated

(* A specialist's task becomes done only where its files were seen.        *)
LEMMA DoneSeesFiles ==
    ASSUME Placed, [Next]_vars, NEW t \in SpecialistTasks, status'[t] = "done"
    PROVE  status[t] = "done" \/ Expected[t] \subseteq Present
  <1> SUFFICES ASSUME status[t] # "done"
               PROVE  Expected[t] \subseteq Present
    OBVIOUS
  <1> USE DEF Placed, TypeOK
  <1>1. t \in Tasks /\ t # "scaffold" /\ t # "verify"
    BY PlannedFacts
  <1>2. ASSUME NEW ok \in BOOLEAN, Probe(ok) \/ Settle(ok) \/ Rescue(ok)
        PROVE  Expected[t] \subseteq Present
    <2>1. /\ Probed(ok) \subseteq Present
          /\ \/ status' = status
             \/ status' = [status EXCEPT ![current] = "failed"]
             \/ /\ status' = [status EXCEPT ![current] = "done"]
                /\ Expected[current] \subseteq Probed(ok)
      BY <1>2 DEF Probe, Settle, Rescue, TaskDone, TaskFailed, AlreadyThere, Probed
    <2> QED
      BY <1>1, <2>1
  <1>4. ASSUME NEW u, NEW x \in {"pending", "running", "failed"}, status' = [status EXCEPT ![u] = x]
        PROVE  FALSE
    BY <1>1, <1>4
  <1>5. ASSUME NEW u \in {"scaffold", "verify"}, NEW x, status' = [status EXCEPT ![u] = x]
        PROVE  FALSE
    BY <1>1, <1>5
  <1>6. ASSUME UNCHANGED status PROVE FALSE
    BY <1>6
  <1>7. CASE Specialist
    BY <1>2, <1>4, <1>6, <1>7
    DEF Specialist, BeginSpecialist, BeginCall, CallRefused, CallReturns,
        CallFails, CallTimesOut, LoopEnds, EndSpecialist, TaskFailed
  <1>8. CASE Phase
    BY <1>5, <1>6, <1>8
    DEF Phase, BeginScaffold, ScaffoldDone, ScaffoldFails, SyncMain, BeginMerge, Merge, BeginSetup,
        EndSetup, SetupCancelled, BeginVerify, EndVerify, EmitReport, Finish
  <1>9. CASE Cancelled \/ Throws \/ Cancel \/ UNCHANGED vars
    BY <1>6, <1>9 DEF Cancelled, Throws, Cancel, vars
  <1>10. ASSUME NEW u, NEW f, LateWrite(u, f) PROVE FALSE
    BY <1>6, <1>10 DEF LateWrite
  <1> QED
    BY <1>7, <1>8, <1>9, <1>10 DEF Next, Generator, Environment, Terminated

(* For every plan, and whatever the calls write, late or not at all: the   *)
(* expected files of a task that is done are in main, and stay there.      *)
THEOREM DoneHasFilesAlways == Spec => []DoneHasFiles
  <1>1. Init => DoneHasFiles
    BY PlannedFacts DEF Init, DoneHasFiles
  <1>2. Placed /\ DoneHasFiles /\ [Next]_vars => DoneHasFiles'
    <2> SUFFICES ASSUME Placed, DoneHasFiles, [Next]_vars,
                        NEW t \in SpecialistTasks, status'[t] = "done"
                 PROVE  Expected[t] \subseteq Present'
      BY DEF DoneHasFiles
    <2>1. Expected[t] \subseteq Present
      BY DoneSeesFiles DEF DoneHasFiles
    <2> QED
      BY <2>1, PresentStays
  <1> QED
    BY <1>1, <1>2, PlacedInit, PlacedNext, PTL DEF Spec

(***************************************************************************)
(* The report.                                                             *)
(***************************************************************************)
(* At the report every task has ended.                                     *)
LEMMA AllOver == ASSUME Placed, pc = "report", NEW t \in Tasks PROVE Over(t)
  <1>1. CASE t = "scaffold" \/ t = "verify"
    BY <1>1 DEF Placed, Positions
  <1>2. CASE t \in SpecialistTasks
    <2>1. PICK i \in 1..Len(Planned) : t = Planned[i]
      BY <1>2, PlannedFacts
    <2>2. idx > Len(Planned) /\ idx \in Nat
      BY PlannedFacts DEF Placed, TypeOK, Positions, AfterSpecialists, AfterSetup
    <2>3. i \in 1..(idx - 1)
      BY <2>2, PlannedFacts
    <2> QED
      BY <2>1, <2>3 DEF Placed, Positions
  <1> QED
    BY <1>1, <1>2 DEF Tasks

(* A ship-ready verdict over tasks that have all ended and a setup that    *)
(* has: nothing failed.                                                    *)
LEMMA ShipReadyVerdict ==
    ASSUME Placed, pc = "report",
           Readiness(status, SetupResults, {}, status["verify"]) = "ship-ready"
    PROVE  (\A t \in Tasks : status[t] = "done") /\ setup = "ok"
  <1>1. /\ ~HasBlockers(status, SetupResults, {})
        /\ status["verify"] = "done"
    BY DEF Readiness
  <1>2. DOMAIN status = Tasks
    BY DEF Placed, TypeOK
  <1>3. \A t \in Tasks : t # "verify" => status[t] # "failed"
    BY <1>1, <1>2 DEF HasBlockers, FailedTasks
  <1>4. setup # "broken"
    <2> SUFFICES ASSUME setup = "broken" PROVE FALSE
      OBVIOUS
    <2>1. [ok |-> FALSE, optional |-> FALSE, skipped |-> FALSE] \in FailedSteps(SetupResults)
      BY DEF SetupResults, FailedSteps
    <2> QED
      BY <1>1, <2>1 DEF HasBlockers
  <1>5. setup # "none" /\ setup \in SetupOutcomes
    BY DEF Placed, TypeOK, Positions, AfterSetup
  <1>6. \A t \in Tasks : status[t] = "done"
    BY <1>1, <1>3, AllOver DEF Over
  <1> QED
    BY <1>4, <1>5, <1>6 DEF SetupOutcomes

(* For every plan: a build is reported ship-ready only when every task of  *)
(* its manifest is done and its setup ended well.                          *)
THEOREM ShipReadyAlways == Spec => []ShipReadyMeansAllDone
  <1>1. Init => ShipReadyMeansAllDone
    BY DEF Init, ShipReadyMeansAllDone
  <1>2. Placed /\ ShipReadyMeansAllDone /\ [Next]_vars => ShipReadyMeansAllDone'
    <2> SUFFICES ASSUME Placed, ShipReadyMeansAllDone, [Next]_vars, report' = "ship-ready"
                 PROVE  (\A t \in Tasks : status'[t] = "done") /\ setup' = "ok"
      BY DEF ShipReadyMeansAllDone
    <2>1. ASSUME EmitReport
          PROVE  (\A t \in Tasks : status'[t] = "done") /\ setup' = "ok"
      BY <2>1, ShipReadyVerdict DEF EmitReport
    <2>2. CASE pc \notin {"finish", "completed"} /\ UNCHANGED report
      BY <2>2 DEF Placed, Positions
    <2>3. CASE UNCHANGED <<status, setup, report>>
      BY <2>3 DEF ShipReadyMeansAllDone
    <2>4. CASE Specialist
      BY <2>2, <2>4
      DEF Specialist, BeginSpecialist, Probe, Settle, Rescue, BeginCall, CallRefused, CallReturns,
          CallFails, CallTimesOut, LoopEnds, EndSpecialist, outcome
    <2>5. CASE Phase
      BY <2>1, <2>2, <2>3, <2>5
      DEF Phase, BeginScaffold, ScaffoldDone, ScaffoldFails, SyncMain, BeginMerge, Merge,
          BeginSetup, EndSetup, SetupCancelled, BeginVerify, EndVerify, Finish, outcome
    <2>6. CASE Cancelled \/ Throws \/ Cancel \/ UNCHANGED vars
      BY <2>3, <2>6 DEF Cancelled, Throws, Cancel, vars, outcome
    <2>7. ASSUME NEW u, NEW f, LateWrite(u, f) PROVE UNCHANGED <<status, setup, report>>
      BY <2>7 DEF LateWrite, outcome
    <2> QED
      BY <2>3, <2>4, <2>5, <2>6, <2>7 DEF Next, Generator, Environment, Terminated
  <1> QED
    BY <1>1, <1>2, PlacedInit, PlacedNext, PTL DEF Spec

(***************************************************************************)
(* The promise.  The generator maps to BuildGenerator if exactly the task  *)
(* it stands at is running, and the tasks ahead of it are pending.         *)
(***************************************************************************)
Runs(t) ==
    \/ pc = "scaffolding" /\ t = "scaffold"
    \/ pc \in AtSpecialist \ {"after"} /\ t = current
    \/ pc = "verifying" /\ t = "verify"

Ahead(t) ==
    \/ pc = "scaffold" /\ t = "scaffold"
    \/ pc \notin AfterSetup \ {"verify"} /\ t = "verify"
    \/ \E i \in 1..Len(Planned) :
          t = Planned[i] /\ (i > idx \/ (i = idx /\ pc \notin AtSpecialist))

Ledger ==
    pc # "failed" =>
        \A t \in Tasks : /\ status[t] = "running" <=> Runs(t)
                         /\ Ahead(t) => status[t] = "pending"

(* How the running task and the tasks ahead change.                        *)
NoneRuns == \A u \in Tasks : ~Runs(u)

OnlyRuns(t) == \A u \in Tasks : Runs(u) <=> u = t

SameRuns == \A u \in Tasks : Runs(u)' <=> Runs(u)

AheadShrinks == \A u \in Tasks : Ahead(u)' => Ahead(u)

AheadWithout(t) == \A u \in Tasks : Ahead(u)' => Ahead(u) /\ u # t

LEMMA LedgerInit == Init => Ledger
  <1> SUFFICES ASSUME Init PROVE Ledger
    OBVIOUS
  <1>1. NoneRuns
    BY DEF Init, Runs, NoneRuns, AtSpecialist
  <1>2. \A t \in Tasks : status[t] = "pending"
    BY DEF Init
  <1> QED
    BY <1>1, <1>2 DEF Ledger, NoneRuns

(* Steps within a task, or between two tasks: nobody's status changes.     *)
LEMMA LedgerQuiet ==
    ASSUME Placed, Ledger, UNCHANGED status, pc # "failed", SameRuns, AheadShrinks
    PROVE  Ledger'
  BY DEF Ledger, SameRuns, AheadShrinks

(* A task starts: it was ahead, and now it alone runs.                     *)
LEMMA LedgerStart ==
    ASSUME Placed, Ledger, NEW t \in Tasks, status' = [status EXCEPT ![t] = "running"],
           pc # "failed", NoneRuns, OnlyRuns(t)', AheadWithout(t)
    PROVE  Ledger'
  <1>1. status'[t] = "running" /\ \A u \in Tasks : u # t => status'[u] = status[u]
    BY DEF Placed, TypeOK
  <1> QED
    BY <1>1 DEF Ledger, NoneRuns, OnlyRuns, AheadWithout

(* The task that runs ends.                                                *)
LEMMA LedgerEnd ==
    ASSUME Placed, Ledger, NEW t \in Tasks, NEW x \in {"done", "failed"},
           status' = [status EXCEPT ![t] = x], pc # "failed",
           OnlyRuns(t), NoneRuns', AheadShrinks
    PROVE  Ledger'
  <1>1. status[t] = "running" /\ ~Ahead(t)
    BY DEF Ledger, OnlyRuns
  <1>2. status'[t] = x /\ \A u \in Tasks : u # t => status'[u] = status[u]
    BY DEF Placed, TypeOK
  <1> QED
    BY <1>1, <1>2 DEF Ledger, NoneRuns, OnlyRuns, AheadShrinks

(***************************************************************************)
(* The kinds of steps the pipeline takes, as BuildGenerator sees them.     *)
(***************************************************************************)
Settled == {"finish", "completed", "failed"}

Stays == UNCHANGED <<pc, idx, status>>

Moves ==
    /\ pc \notin Settled /\ pc' \notin Settled
    /\ UNCHANGED status
    /\ SameRuns /\ AheadShrinks

Starts(t) ==
    /\ pc \notin Settled /\ pc' \notin Settled
    /\ status' = [status EXCEPT ![t] = "running"]
    /\ NoneRuns /\ OnlyRuns(t)'
    /\ Ahead(t) /\ AheadWithout(t)

Ends(t) ==
    /\ pc \notin Settled /\ pc' \notin Settled
    /\ \E x \in {"done", "failed"} : status' = [status EXCEPT ![t] = x]
    /\ OnlyRuns(t) /\ NoneRuns'
    /\ AheadShrinks

Leaves ==
    /\ UNCHANGED <<idx, status>>
    /\ \/ pc = "report" /\ pc' = "finish"
       \/ pc = "finish" /\ pc' = "completed"
       \/ pc \notin Settled /\ pc' = "failed"

StepKind ==
    \/ Stays
    \/ Moves
    \/ \E t \in Tasks : Starts(t) \/ Ends(t)
    \/ Leaves

LEMMA SpecialistKind == ASSUME Placed, Specialist PROVE StepKind
  <1> USE PlannedFacts DEF AtSpecialist, AfterSetup, Settled
  <1>1. CASE BeginSpecialist
    <2>1. /\ pc = "next" /\ pc' = "probe" /\ idx' = idx
          /\ status' = [status EXCEPT ![current] = "running"]
      BY <1>1 DEF BeginSpecialist, Goto
    <2>2. idx \in 1..Len(Planned) /\ current = Planned[idx] /\ current \in Tasks /\ current' = current
      BY <1>1, <2>1 DEF BeginSpecialist, current, Placed, TypeOK
    <2>3. NoneRuns /\ OnlyRuns(current)'
      BY <2>1, <2>2 DEF Runs, NoneRuns, OnlyRuns
    <2>4. Ahead(current) /\ AheadWithout(current)
      BY <2>1, <2>2 DEF Ahead, AheadWithout
    <2> QED
      BY <2>1, <2>2, <2>3, <2>4 DEF StepKind, Starts
  <1>2. ASSUME pc \in AtSpecialist \ {"after"}, TaskDone(current) \/ TaskFailed(current)
        PROVE  StepKind
    <2>1. /\ pc' = "after" /\ idx' = idx
          /\ \E x \in {"done", "failed"} : status' = [status EXCEPT ![current] = x]
      BY <1>2 DEF TaskDone, TaskFailed, Goto
    <2>2. current \in Tasks
      BY <1>2, CurrentPlanned
    <2>3. OnlyRuns(current) /\ NoneRuns'
      BY <1>2, <2>1, <2>2 DEF Runs, NoneRuns, OnlyRuns
    <2>4. AheadShrinks
      BY <1>2, <2>1 DEF Ahead, AheadShrinks
    <2> QED
      BY <1>2, <2>1, <2>2, <2>3, <2>4 DEF StepKind, Ends
  <1>3. ASSUME pc \in AtSpecialist \ {"after"}, pc' \in AtSpecialist \ {"after"},
               UNCHANGED <<idx, status>>
        PROVE  StepKind
    <2>1. current' = current
      BY <1>3 DEF current
    <2>2. SameRuns
      BY <1>3, <2>1 DEF Runs, SameRuns
    <2>3. AheadShrinks
      BY <1>3 DEF Ahead, AheadShrinks
    <2> QED
      BY <1>3, <2>2, <2>3 DEF StepKind, Moves
  <1>4. ASSUME NEW ok \in BOOLEAN, Probe(ok) \/ Settle(ok) \/ Rescue(ok) PROVE StepKind
    BY <1>2, <1>3, <1>4 DEF Probe, Settle, Rescue, Goto
  <1>5. CASE BeginCall \/ CallRefused \/ LoopEnds
    BY <1>3, <1>5 DEF BeginCall, CallRefused, LoopEnds, Goto
  <1>6. ASSUME NEW W, CallReturns(W) \/ CallFails(W) \/ CallTimesOut(W) PROVE StepKind
    BY <1>2, <1>3, <1>6 DEF CallReturns, CallFails, CallTimesOut, NextCall, Goto
  <1>7. CASE EndSpecialist
    <2>1. pc = "after" /\ pc' = "next" /\ idx' = idx + 1 /\ UNCHANGED status
      BY <1>7 DEF EndSpecialist
    <2>2. NoneRuns /\ NoneRuns'
      BY <2>1 DEF Runs, NoneRuns
    <2>3. AheadShrinks
      <3>1. idx \in Nat
        BY DEF Placed, TypeOK
      <3>2. ASSUME NEW u \in Tasks, Ahead(u)' PROVE Ahead(u)
        <4>1. CASE u = "verify"
          BY <2>1, <4>1 DEF Ahead
        <4>2. CASE u # "verify"
          <5>1. PICK i \in 1..Len(Planned) : u = Planned[i] /\ i >= idx + 1
            BY <2>1, <3>1, <3>2, <4>2 DEF Ahead
          <5> QED
            BY <3>1, <5>1 DEF Ahead
        <4> QED
          BY <4>1, <4>2
      <3> QED
        BY <3>2 DEF AheadShrinks
    <2> QED
      BY <2>1, <2>2, <2>3 DEF StepKind, Moves, NoneRuns, SameRuns
  <1> QED
    BY <1>1, <1>4, <1>5, <1>6, <1>7 DEF Specialist

LEMMA PhaseKind == ASSUME Placed, Phase PROVE StepKind
  <1> USE PlannedFacts DEF AtSpecialist, AfterSetup, Settled, Goto
  <1>1. "scaffold" \in Tasks /\ "verify" \in Tasks
    OBVIOUS
  <1>2. CASE BeginScaffold
    <2>1. pc = "scaffold" /\ pc' = "scaffolding" /\ idx' = idx
          /\ status' = [status EXCEPT !["scaffold"] = "running"]
      BY <1>2 DEF BeginScaffold
    <2>2. NoneRuns /\ OnlyRuns("scaffold")'
      BY <1>1, <2>1 DEF Runs, NoneRuns, OnlyRuns
    <2>3. Ahead("scaffold") /\ AheadWithout("scaffold")
      BY <1>1, <2>1 DEF Ahead, AheadWithout
    <2> QED
      BY <1>1, <2>1, <2>2, <2>3 DEF StepKind, Starts
  <1>3. ASSUME NEW W, ScaffoldDone(W) \/ ScaffoldFails PROVE StepKind
    <2>1. /\ pc = "scaffolding" /\ pc' = "sync" /\ idx' = idx
          /\ \E x \in {"done", "failed"} : status' = [status EXCEPT !["scaffold"] = x]
      BY <1>3 DEF ScaffoldDone, ScaffoldFails
    <2>2. OnlyRuns("scaffold") /\ NoneRuns'
      BY <1>1, <2>1 DEF Runs, NoneRuns, OnlyRuns
    <2>3. AheadShrinks
      BY <2>1 DEF Ahead, AheadShrinks
    <2> QED
      BY <1>1, <2>1, <2>2, <2>3 DEF StepKind, Ends
  <1>4. ASSUME UNCHANGED <<idx, status>>,
               \/ pc = "sync" /\ pc' = "next"
               \/ pc = "next" /\ pc' = "merge" /\ idx > Len(Planned)
               \/ pc = "merge" /\ pc' = "setupTop"
               \/ pc = "setupTop" /\ pc' = "setup"
               \/ pc = "setup" /\ pc' = "verify"
        PROVE  StepKind
    <2>1. NoneRuns /\ NoneRuns'
      BY <1>4 DEF Runs, NoneRuns
    <2>2. AheadShrinks
      BY <1>4 DEF Ahead, AheadShrinks
    <2> QED
      BY <1>4, <2>1, <2>2 DEF StepKind, Moves, NoneRuns, SameRuns
  <1>5. ASSUME NEW M, SyncMain(M) \/ Merge(M) PROVE StepKind
    BY <1>4, <1>5 DEF SyncMain, Merge
  <1>6. ASSUME NEW result, BeginMerge \/ BeginSetup \/ EndSetup(result) \/ SetupCancelled PROVE StepKind
    BY <1>4, <1>6 DEF BeginMerge, BeginSetup, EndSetup, SetupCancelled
  <1>7. CASE BeginVerify
    <2>1. pc = "verify" /\ pc' = "verifying" /\ idx' = idx
          /\ status' = [status EXCEPT !["verify"] = "running"]
      BY <1>7 DEF BeginVerify
    <2>2. NoneRuns /\ OnlyRuns("verify")'
      BY <1>1, <2>1 DEF Runs, NoneRuns, OnlyRuns
    <2>3. idx > Len(Planned) /\ idx \in Nat
      BY <2>1 DEF Placed, TypeOK, Positions, AfterSpecialists
    <2>4. Ahead("verify") /\ AheadWithout("verify")
      BY <1>1, <2>1, <2>3 DEF Ahead, AheadWithout
    <2> QED
      BY <1>1, <2>1, <2>2, <2>4 DEF StepKind, Starts
  <1>8. ASSUME NEW verdict \in {"done", "failed"}, NEW W, EndVerify(verdict, W) PROVE StepKind
    <2>1. /\ pc = "verifying" /\ pc' = "report" /\ idx' = idx
          /\ \E x \in {"done", "failed"} : status' = [status EXCEPT !["verify"] = x]
      BY <1>8 DEF EndVerify
    <2>2. OnlyRuns("verify") /\ NoneRuns'
      BY <1>1, <2>1 DEF Runs, NoneRuns, OnlyRuns
    <2>3. AheadShrinks
      BY <2>1 DEF Ahead, AheadShrinks
    <2> QED
      BY <1>1, <2>1, <2>2, <2>3 DEF StepKind, Ends
  <1>9. CASE EmitReport \/ Finish
    BY <1>9 DEF EmitReport, Finish, StepKind, Leaves
  <1> QED
    BY <1>2, <1>3, <1>5, <1>6, <1>7, <1>8, <1>9 DEF Phase

LEMMA StepKinds == ASSUME Placed, [Next]_vars PROVE StepKind
  <1>1. CASE Cancelled \/ Throws
    BY <1>1 DEF Cancelled, Throws, Checkpoint, Goto, StepKind, Leaves, Settled
  <1>2. CASE Cancel \/ UNCHANGED vars
    BY <1>2 DEF Cancel, vars, control, StepKind, Stays
  <1>3. ASSUME NEW t, NEW f, LateWrite(t, f) PROVE StepKind
    BY <1>3 DEF LateWrite, control, StepKind, Stays
  <1> QED
    BY <1>1, <1>2, <1>3, SpecialistKind, PhaseKind
    DEF Next, Generator, Environment, Terminated

LEMMA LedgerNext == Placed /\ Ledger /\ [Next]_vars => Ledger'
  <1> SUFFICES ASSUME Placed, Ledger, [Next]_vars
               PROVE  Ledger'
    OBVIOUS
  <1>1. CASE Stays
    BY <1>1 DEF Stays, Ledger, Runs, NoneRuns, OnlyRuns, Ahead, AheadShrinks, AheadWithout, current
  <1>2. CASE Moves
    BY <1>2, LedgerQuiet DEF Moves, Settled
  <1>3. ASSUME NEW t \in Tasks, Starts(t) PROVE Ledger'
    BY <1>3, LedgerStart DEF Starts, Settled
  <1>4. ASSUME NEW t \in Tasks, Ends(t) PROVE Ledger'
    BY <1>4, LedgerEnd DEF Ends, Settled
  <1>5. CASE Leaves
    BY <1>5 DEF Leaves, Ledger, Runs, NoneRuns, OnlyRuns, Ahead, AheadShrinks, AheadWithout, AtSpecialist, AfterSetup, Settled
  <1> QED
    BY <1>1, <1>2, <1>3, <1>4, <1>5, StepKinds DEF StepKind

(***************************************************************************)
(* The simulation.                                                         *)
(***************************************************************************)
LEMMA PromiseInit == Init => Promise!Init
  BY DEF Init, Promise!Init, EndedTasks

LEMMA PromiseNext == Placed /\ Ledger /\ [Next]_vars => [Promise!Next]_(Promise!vars)
  <1> SUFFICES ASSUME Placed, Ledger, [Next]_vars
               PROVE  [Promise!Next]_(Promise!vars)
    OBVIOUS
  <1> DEFINE open == {t \in Tasks : status[t] = "running"}
  <1>1. CASE Stays
    BY <1>1 DEF Stays, Promise!vars, EndedTasks
  <1>2. CASE Moves
    BY <1>2 DEF Moves, Settled, Promise!vars, EndedTasks
  <1>3. ASSUME NEW t \in Tasks, Starts(t) PROVE Promise!Start(t)
    <2>1. pc \notin Settled /\ pc' \notin Settled
      BY <1>3 DEF Starts
    <2>2. status[t] = "pending" /\ \A u \in Tasks : status[u] # "running"
      BY <1>3, <2>1 DEF Starts, Ledger, Settled, NoneRuns
    <2>3. status'[t] = "running" /\ \A u \in Tasks : u # t => status'[u] = status[u]
      BY <1>3 DEF Starts, Placed, TypeOK
    <2>4. open = {} /\ open' = {t}
      BY <2>2, <2>3
    <2>5. t \notin EndedTasks /\ EndedTasks' = EndedTasks
      BY <2>2, <2>3 DEF EndedTasks
    <2> QED
      BY <2>1, <2>4, <2>5 DEF Promise!Start, Settled
  <1>4. ASSUME NEW t \in Tasks, Ends(t) PROVE Promise!End(t)
    <2>1. pc \notin Settled /\ pc' \notin Settled
      BY <1>4 DEF Ends
    <2>2. \A u \in Tasks : status[u] = "running" <=> u = t
      BY <1>4, <2>1 DEF Ends, Ledger, Settled, OnlyRuns
    <2>3. status'[t] \in {"done", "failed"} /\ \A u \in Tasks : u # t => status'[u] = status[u]
      BY <1>4 DEF Ends, Placed, TypeOK
    <2>4. open = {t} /\ open' = {}
      BY <2>2, <2>3
    <2>5. EndedTasks' = EndedTasks \cup {t}
      BY <2>3 DEF EndedTasks
    <2> QED
      BY <2>1, <2>4, <2>5 DEF Promise!End, Settled
  <1>5. CASE Leaves
    <2>1. open' = open /\ EndedTasks' = EndedTasks
      BY <1>5 DEF Leaves, EndedTasks
    <2>2. CASE pc = "report" /\ pc' = "finish"
      <3>1. \A t \in Tasks : Over(t)
        BY <2>2, AllOver
      <3>2. open = {} /\ EndedTasks = Tasks
        BY <3>1 DEF Over, EndedTasks
      <3> QED
        BY <2>1, <2>2, <3>2 DEF Promise!Next, Promise!Report
    <2>3. CASE pc = "finish" /\ pc' = "completed"
      BY <2>1, <2>3 DEF Promise!Next, Promise!Complete
    <2>4. CASE pc \notin Settled /\ pc' = "failed"
      BY <2>1, <2>4 DEF Promise!Next, Promise!Fail, Settled
    <2> QED
      BY <1>5, <2>2, <2>3, <2>4 DEF Leaves
  <1> QED
    BY <1>1, <1>2, <1>3, <1>4, <1>5, StepKinds DEF StepKind, Promise!Next

(* The pipeline implements what BuildGenerator promises: tasks one at a    *)
(* time and each once, one last event, no error after the report.          *)
THEOREM KeepsPromiseAlways == Spec => KeepsPromise
  BY PlacedInit, PlacedNext, LedgerInit, LedgerNext, PromiseInit, PromiseNext, PTL
  DEF Spec, KeepsPromise, Promise!Spec

(***************************************************************************)
(* Progress.  A task enters EndedTasks once, from running; the counter     *)
(* follows at the same step, or one step later for a specialist.           *)
(***************************************************************************)
ScaffoldLost == IF status["scaffold"] = "failed" THEN 1 ELSE 0

Owed == IF pc = "after" THEN 1 ELSE 0

LEMMA TasksFinite == IsFiniteSet(Tasks)
  <1>1. Planned \in Surjection(1..Len(Planned), SpecialistTasks)
    <2>1. Planned \in [1..Len(Planned) -> SpecialistTasks]
      BY PlannedAssumption, LenProperties
    <2> QED
      BY <2>1, PlannedFacts DEF Surjection
  <1>2. IsFiniteSet(SpecialistTasks)
    <2>1. Len(Planned) \in Int /\ 1 \in Int
      BY PlannedFacts
    <2>2. IsFiniteSet(1..Len(Planned))
      BY <2>1, FS_Interval
    <2> QED
      BY <1>1, <2>2, FS_Surjection, Zenon
  <1>3. IsFiniteSet((SpecialistTasks \cup {"scaffold"}) \cup {"verify"})
    <2>1. IsFiniteSet(SpecialistTasks \cup {"scaffold"})
      BY <1>2, FS_AddElement, Zenon
    <2> QED
      BY <2>1, FS_AddElement, Zenon
  <1>4. (SpecialistTasks \cup {"scaffold"}) \cup {"verify"} = Tasks
    BY DEF Tasks
  <1> QED
    BY <1>3, <1>4

LEMMA EndedFinite == IsFiniteSet(EndedTasks) /\ Cardinality(EndedTasks) \in Nat
  <1>1. EndedTasks \in SUBSET Tasks
    BY DEF EndedTasks
  <1> QED
    BY <1>1, TasksFinite, FS_Subset, FS_CardinalityType

(* A task that ends makes one more.                                        *)
LEMMA OneMoreEnded ==
    ASSUME Placed, Ledger, pc # "failed", NEW t \in Tasks, NEW x \in {"done", "failed"},
           Runs(t), status' = [status EXCEPT ![t] = x]
    PROVE  /\ Cardinality(EndedTasks') = Cardinality(EndedTasks) + 1
           /\ t # "scaffold" => ScaffoldLost' = ScaffoldLost
           /\ t = "scaffold" => ScaffoldLost = 0 /\ ScaffoldLost' = IF x = "failed" THEN 1 ELSE 0
  <1>1. status[t] = "running"
    BY DEF Ledger
  <1>2. status'[t] = x /\ \A u \in Tasks : u # t => status'[u] = status[u]
    BY DEF Placed, TypeOK
  <1>3. EndedTasks' = EndedTasks \cup {t} /\ t \notin EndedTasks
    BY <1>1, <1>2 DEF EndedTasks
  <1>4. Cardinality(EndedTasks \cup {t}) = Cardinality(EndedTasks) + 1
    BY <1>3, EndedFinite, FS_AddElement
  <1>5. Cardinality(EndedTasks') = Cardinality(EndedTasks) + 1
    BY <1>3, <1>4
  <1>6. "scaffold" \in Tasks
    BY DEF Tasks
  <1>7. t # "scaffold" => ScaffoldLost' = ScaffoldLost
    BY <1>2, <1>6 DEF ScaffoldLost
  <1>8. t = "scaffold" => ScaffoldLost = 0 /\ ScaffoldLost' = IF x = "failed" THEN 1 ELSE 0
    BY <1>1, <1>2 DEF ScaffoldLost
  <1> QED
    BY <1>5, <1>7, <1>8

(* A task that starts changes no count.                                    *)
LEMMA NoneEnded ==
    ASSUME Placed, Ledger, pc # "failed", NEW t \in Tasks, Ahead(t),
           status' = [status EXCEPT ![t] = "running"]
    PROVE  EndedTasks' = EndedTasks /\ ScaffoldLost' = ScaffoldLost
  <1>1. status[t] = "pending"
    BY DEF Ledger
  <1>2. status'[t] = "running" /\ \A u \in Tasks : u # t => status'[u] = status[u]
    BY DEF Placed, TypeOK
  <1>3. EndedTasks' = EndedTasks
    BY <1>1, <1>2 DEF EndedTasks
  <1>4. "scaffold" \in Tasks
    BY DEF Tasks
  <1>5. ScaffoldLost' = ScaffoldLost
    BY <1>1, <1>2, <1>4 DEF ScaffoldLost
  <1> QED
    BY <1>3, <1>5

LEMMA ProgressInit == Init => ProgressCounts
  <1> SUFFICES ASSUME Init PROVE ProgressCounts
    OBVIOUS
  <1>1. EndedTasks = {} /\ status["scaffold"] # "failed" /\ completed = 0 /\ pc # "after"
    BY DEF Init, EndedTasks, Tasks
  <1> QED
    BY <1>1, FS_EmptySet DEF ProgressCounts

LEMMA ProgressNext == Placed /\ Ledger /\ ProgressCounts /\ [Next]_vars => ProgressCounts'
  <1> SUFFICES ASSUME Placed, Ledger, ProgressCounts, [Next]_vars PROVE ProgressCounts'
    OBVIOUS
  <1> DEFINE C == Cardinality(EndedTasks)
  <1>a. completed = C - ScaffoldLost - Owed
    BY DEF ProgressCounts, ScaffoldLost, Owed
  <1>b. completed' = C' - ScaffoldLost' - Owed' => ProgressCounts'
    BY DEF ProgressCounts, ScaffoldLost, Owed
  <1>c. C \in Nat /\ ScaffoldLost \in {0, 1} /\ Owed \in {0, 1}
    BY EndedFinite DEF ScaffoldLost, Owed
  <1>1. ASSUME UNCHANGED <<status, completed>>, Owed' = Owed PROVE ProgressCounts'
    <2>1. EndedTasks' = EndedTasks /\ ScaffoldLost' = ScaffoldLost
      BY <1>1 DEF EndedTasks, ScaffoldLost
    <2> QED
      BY <1>a, <1>b, <1>1, <2>1
  <1>2. ASSUME NEW t \in Tasks, Ahead(t), pc # "failed", status' = [status EXCEPT ![t] = "running"],
               UNCHANGED completed, Owed' = Owed
        PROVE  ProgressCounts'
    <2>1. EndedTasks' = EndedTasks /\ ScaffoldLost' = ScaffoldLost
      BY <1>2, NoneEnded
    <2> QED
      BY <1>a, <1>b, <1>2, <2>1
  <1>3. ASSUME pc \in AtSpecialist \ {"after"}, TaskDone(current) \/ TaskFailed(current),
               UNCHANGED completed
        PROVE  ProgressCounts'
    <2>1. PICK x \in {"done", "failed"} : status' = [status EXCEPT ![current] = x]
      BY <1>3 DEF TaskDone, TaskFailed
    <2>2. Owed = 0 /\ Owed' = 1
      BY <1>3 DEF TaskDone, TaskFailed, Goto, Owed
    <2>3. current \in Tasks /\ current # "scaffold"
      BY <1>3, CurrentPlanned, PlannedFacts
    <2>4. pc # "failed" /\ Runs(current)
      BY <1>3 DEF AtSpecialist, Runs
    <2>5. C' = C + 1 /\ ScaffoldLost' = ScaffoldLost
      BY <2>1, <2>3, <2>4, OneMoreEnded
    <2> HIDE DEF C
    <2> QED
      BY <1>a, <1>b, <1>c, <1>3, <2>2, <2>5
  <1>4. CASE Specialist
    <2>1. CASE BeginSpecialist
      <3>1. /\ pc = "next" /\ pc' = "probe" /\ idx' = idx /\ UNCHANGED completed
            /\ status' = [status EXCEPT ![current] = "running"]
        BY <2>1 DEF BeginSpecialist, Goto
      <3>2. idx \in 1..Len(Planned) /\ current = Planned[idx] /\ current \in Tasks
        BY <2>1, PlannedFacts DEF BeginSpecialist, current, Placed, TypeOK
      <3>3. Ahead(current)
        BY <3>1, <3>2 DEF Ahead, AtSpecialist
      <3>4. Owed' = Owed
        BY <3>1 DEF Owed
      <3> QED
        BY <1>2, <3>1, <3>2, <3>3, <3>4
    <2>2. ASSUME NEW ok \in BOOLEAN, Probe(ok) \/ Settle(ok) \/ Rescue(ok) PROVE ProgressCounts'
      BY <1>1, <1>3, <2>2 DEF Probe, Settle, Rescue, Goto, Owed, AtSpecialist
    <2>3. CASE BeginCall \/ CallRefused \/ LoopEnds
      BY <1>1, <2>3 DEF BeginCall, CallRefused, LoopEnds, Goto, Owed
    <2>4. ASSUME NEW W, CallReturns(W) \/ CallFails(W) \/ CallTimesOut(W) PROVE ProgressCounts'
      BY <1>1, <1>3, <2>4 DEF CallReturns, CallFails, CallTimesOut, NextCall, Goto, Owed, AtSpecialist
    <2>5. CASE EndSpecialist
      <3>1. completed' = completed + 1 /\ Owed = 1 /\ Owed' = 0 /\ UNCHANGED status
        BY <2>5 DEF EndSpecialist, Owed
      <3>2. C' = C /\ ScaffoldLost' = ScaffoldLost
        BY <3>1 DEF EndedTasks, ScaffoldLost
      <3> HIDE DEF C
      <3> QED
        BY <1>a, <1>b, <1>c, <3>1, <3>2
    <2> QED
      BY <1>4, <2>1, <2>2, <2>3, <2>4, <2>5 DEF Specialist
  <1>5. CASE Phase
    <2> USE DEF Goto
    <2>0. "scaffold" \in Tasks /\ "verify" \in Tasks
      BY DEF Tasks
    <2>1. CASE BeginScaffold
      <3>1. /\ pc = "scaffold" /\ pc' = "scaffolding" /\ UNCHANGED completed
            /\ status' = [status EXCEPT !["scaffold"] = "running"]
        BY <2>1 DEF BeginScaffold
      <3>2. Ahead("scaffold") /\ Owed' = Owed
        BY <3>1 DEF Ahead, Owed
      <3> QED
        BY <1>2, <2>0, <3>1, <3>2
    <2>2. ASSUME NEW W, ScaffoldDone(W) PROVE ProgressCounts'
      <3>1. /\ pc = "scaffolding" /\ pc' = "sync" /\ completed' = completed + 1
            /\ status' = [status EXCEPT !["scaffold"] = "done"]
        BY <2>2 DEF ScaffoldDone
      <3>2. Runs("scaffold") /\ Owed = 0 /\ Owed' = 0
        BY <3>1 DEF Runs, Owed
      <3>3. C' = C + 1 /\ ScaffoldLost = 0 /\ ScaffoldLost' = 0
        BY <2>0, <3>1, <3>2, OneMoreEnded
      <3> HIDE DEF C
      <3> QED
        BY <1>a, <1>b, <1>c, <3>1, <3>2, <3>3
    <2>3. CASE ScaffoldFails
      <3>1. /\ pc = "scaffolding" /\ pc' = "sync" /\ completed' = completed
            /\ status' = [status EXCEPT !["scaffold"] = "failed"]
        BY <2>3 DEF ScaffoldFails
      <3>2. Runs("scaffold") /\ Owed = 0 /\ Owed' = 0
        BY <3>1 DEF Runs, Owed
      <3>3. C' = C + 1 /\ ScaffoldLost = 0 /\ ScaffoldLost' = 1
        BY <2>0, <3>1, <3>2, OneMoreEnded
      <3> HIDE DEF C
      <3> QED
        BY <1>a, <1>b, <1>c, <3>1, <3>2, <3>3
    <2>4. ASSUME NEW M, SyncMain(M) \/ Merge(M) PROVE ProgressCounts'
      BY <1>1, <2>4 DEF SyncMain, Merge, Owed
    <2>5. ASSUME NEW result, BeginMerge \/ BeginSetup \/ EndSetup(result) \/ SetupCancelled
          PROVE  ProgressCounts'
      BY <1>1, <2>5 DEF BeginMerge, BeginSetup, EndSetup, SetupCancelled, Owed
    <2>6. CASE BeginVerify
      <3>1. /\ pc = "verify" /\ pc' = "verifying" /\ UNCHANGED completed
            /\ status' = [status EXCEPT !["verify"] = "running"]
        BY <2>6 DEF BeginVerify
      <3>2. Ahead("verify") /\ Owed' = Owed
        BY <3>1 DEF Ahead, Owed, AfterSetup
      <3> QED
        BY <1>2, <2>0, <3>1, <3>2
    <2>7. ASSUME NEW verdict \in {"done", "failed"}, NEW W, EndVerify(verdict, W)
          PROVE  ProgressCounts'
      <3>1. /\ pc = "verifying" /\ pc' = "report" /\ completed' = completed + 1
            /\ status' = [status EXCEPT !["verify"] = verdict]
        BY <2>7 DEF EndVerify
      <3>2. Runs("verify") /\ Owed = 0 /\ Owed' = 0
        BY <3>1 DEF Runs, Owed
      <3>3. C' = C + 1 /\ ScaffoldLost' = ScaffoldLost
        BY <2>0, <3>1, <3>2, OneMoreEnded
      <3> HIDE DEF C
      <3> QED
        BY <1>a, <1>b, <1>c, <3>1, <3>2, <3>3
    <2>8. CASE EmitReport \/ Finish
      BY <1>1, <2>8 DEF EmitReport, Finish, Owed
    <2> QED
      BY <1>5, <2>1, <2>2, <2>3, <2>4, <2>5, <2>6, <2>7, <2>8 DEF Phase
  <1>6. CASE Cancelled \/ Throws
    BY <1>1, <1>6 DEF Cancelled, Throws, Checkpoint, Goto, Owed
  <1>7. CASE Cancel \/ UNCHANGED vars
    BY <1>1, <1>7 DEF Cancel, vars, control, Owed
  <1>8. ASSUME NEW t, NEW f, LateWrite(t, f) PROVE ProgressCounts'
    BY <1>1, <1>8 DEF LateWrite, control, Owed
  <1> QED
    BY <1>4, <1>5, <1>6, <1>7, <1>8 DEF Next, Generator, Environment, Terminated

(* The progress shown counts every ended task but a failed scaffold,       *)
(* however many tasks the plan has.                                        *)
THEOREM ProgressCountsAlways == Spec => []ProgressCounts
  BY PlacedInit, PlacedNext, LedgerInit, LedgerNext, ProgressInit, ProgressNext, PTL DEF Spec

(***************************************************************************)
(* Cancellation.                                                           *)
(***************************************************************************)
(* Every step that starts a task or places a call looked at the signal.    *)
LEMMA StartsLook ==
    ASSUME Placed, [Next]_vars, aborted
    PROVE  /\ pc # "calling" => pc' # "calling"
           /\ \A t \in Tasks : status'[t] = "running" => status[t] = "running"
  <1> USE DEF Goto, Placed, TypeOK
  <1>1. CASE UNCHANGED <<pc, status>>
    BY <1>1
  <1>2. CASE Specialist
    <2>1. ASSUME NEW W, CallReturns(W) \/ CallFails(W) \/ CallTimesOut(W)
          PROVE  /\ pc = "calling"
                 /\ \A t \in Tasks : status'[t] = "running" => status[t] = "running"
      BY <2>1 DEF CallReturns, CallFails, CallTimesOut, NextCall, TaskFailed
    <2>2. ASSUME NEW ok \in BOOLEAN, Probe(ok) \/ Settle(ok) \/ Rescue(ok)
          PROVE  /\ pc' # "calling"
                 /\ \A t \in Tasks : status'[t] = "running" => status[t] = "running"
      BY <2>2 DEF Probe, Settle, Rescue, TaskDone, TaskFailed
    <2>3. CASE CallRefused \/ LoopEnds \/ EndSpecialist
      BY <2>3 DEF CallRefused, LoopEnds, EndSpecialist
    <2> QED
      BY <1>2, <2>1, <2>2, <2>3 DEF Specialist, BeginSpecialist, BeginCall
  <1>3. CASE Phase
    <2>1. ASSUME NEW W, ScaffoldDone(W) \/ ScaffoldFails
          PROVE  /\ pc' # "calling"
                 /\ \A t \in Tasks : status'[t] = "running" => status[t] = "running"
      BY <2>1 DEF ScaffoldDone, ScaffoldFails
    <2>2. ASSUME NEW verdict \in {"done", "failed"}, NEW W, EndVerify(verdict, W)
          PROVE  /\ pc' # "calling"
                 /\ \A t \in Tasks : status'[t] = "running" => status[t] = "running"
      BY <2>2 DEF EndVerify
    <2> QED
      BY <1>3, <2>1, <2>2
      DEF Phase, BeginScaffold, SyncMain, BeginMerge, Merge, BeginSetup, EndSetup,
          SetupCancelled, BeginVerify, EmitReport, Finish
  <1>4. CASE Cancelled \/ Throws
    BY <1>4 DEF Cancelled, Throws
  <1>5. CASE Cancel \/ UNCHANGED vars
    BY <1>1, <1>5 DEF Cancel, control, vars
  <1>6. ASSUME NEW t, NEW f, LateWrite(t, f) PROVE UNCHANGED <<pc, status>>
    BY <1>6 DEF LateWrite, control
  <1> QED
    BY <1>1, <1>2, <1>3, <1>4, <1>5, <1>6 DEF Next, Generator, Environment, Terminated

(* For every plan: once the signal is aborted no task starts, and no call  *)
(* is placed beyond the one in flight.                                     *)
THEOREM NoWorkAfterCancelAlways == Spec => NoWorkAfterCancel
  <1>1. ASSUME Placed, Ledger, [Next]_vars, aborted
        PROVE  /\ \A t \in Tasks : status[t] = "pending" => status'[t] = "pending"
               /\ pc # "calling" => pc' # "calling"
    <2>1. ASSUME NEW t \in Tasks, status[t] = "pending" PROVE status'[t] = "pending"
      <3>1. CASE UNCHANGED status
        BY <2>1, <3>1
      <3>2. ASSUME NEW u \in Tasks, Starts(u) PROVE status'[t] = "pending"
        <4>1. status[u] # "running"
          BY <1>1, <3>2 DEF Starts, Ledger, Settled, NoneRuns
        <4>2. status'[u] = "running"
          BY <1>1, <3>2 DEF Starts, Placed, TypeOK
        <4> QED
          BY <1>1, <4>1, <4>2, StartsLook
      <3>3. ASSUME NEW u \in Tasks, Ends(u) PROVE status'[t] = "pending"
        <4>1. status[u] = "running"
          BY <1>1, <3>3 DEF Ends, Ledger, Settled, OnlyRuns
        <4> QED
          BY <1>1, <2>1, <3>3, <4>1 DEF Ends, Placed, TypeOK
      <3> QED
        BY <1>1, <3>1, <3>2, <3>3, StepKinds DEF StepKind, Stays, Moves, Leaves
    <2> QED
      BY <1>1, <2>1, StartsLook
  <1>2. Placed /\ Ledger /\ [Next]_vars =>
            [aborted => /\ \A t \in Tasks : status[t] = "pending" => status'[t] = "pending"
                        /\ pc # "calling" => pc' # "calling"]_vars
    BY <1>1
  <1> QED
    BY <1>2, PlacedInit, PlacedNext, LedgerInit, LedgerNext, PTL DEF Spec, NoWorkAfterCancel

-----------------------------------------------------------------------------
(***************************************************************************)
(* Early cancellations: the phases before the verification have no way out *)
(* but failure once the signal is set.                                     *)
(***************************************************************************)
Doomed == aborted /\ pc \notin {"verifying", "report", "finish", "completed"}

LEMMA DoomedNext == Doomed /\ [Next]_vars => Doomed'
  <1> SUFFICES ASSUME Doomed, [Next]_vars
               PROVE  Doomed'
    OBVIOUS
  <1> USE DEF Doomed, Goto
  <1>1. CASE Phase
    BY <1>1 DEF Phase, BeginScaffold, ScaffoldDone, ScaffoldFails, SyncMain, BeginMerge, Merge,
                BeginSetup, EndSetup, SetupCancelled, BeginVerify, EndVerify, EmitReport, Finish
  <1>2. CASE Specialist
    BY <1>2 DEF Specialist, BeginSpecialist, Probe, Settle, Rescue, BeginCall, CallRefused,
                CallReturns, CallFails, CallTimesOut, LoopEnds, EndSpecialist, TaskDone,
                TaskFailed, NextCall
  <1>3. CASE Cancelled \/ Throws
    BY <1>3 DEF Cancelled, Throws
  <1>4. CASE Cancel \/ UNCHANGED vars
    BY <1>4 DEF Cancel, vars
  <1>5. ASSUME NEW t, NEW f, LateWrite(t, f) PROVE Doomed'
    BY <1>5 DEF LateWrite, control
  <1> QED
    BY <1>1, <1>2, <1>3, <1>4, <1>5 DEF Next, Generator, Environment, Terminated

(* For every plan, a cancellation before the verification never ends in    *)
(* build_complete, although the setup phase swallows the throw.            *)
THEOREM EarlyCancelIsFinalAlways == Spec => EarlyCancelIsFinal
  <1>1. Doomed => pc # "completed"
    BY DEF Doomed
  <1>2. Spec => [](Doomed => [](pc # "completed"))
    BY <1>1, DoomedNext, PTL DEF Spec
  <1> QED
    BY <1>2 DEF EarlyCancelIsFinal, Doomed
=============================================================================
