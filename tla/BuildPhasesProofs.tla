-------------------------- MODULE BuildPhasesProofs --------------------------
(***************************************************************************)
(* Two phases of a build that runAgentBuild drives and that share no       *)
(* state: the setup (AgentSetup) and the skill iteration loop              *)
(* (SkillIteration), each for every value of its constants.                *)
(*                                                                         *)
(* Of the setup: its own verdict and the build report's agree on its       *)
(* results, for every set of manifests.  The two read different fields:    *)
(* the setup looks at ok, skipped and, of services, optional; the report   *)
(* also forgives optional steps and skipped infrastructure.  They agree    *)
(* because no result of a step is ever marked optional and only setup      *)
(* steps are skipped (Shapes).                                             *)
(*                                                                         *)
(* Of the loop: what it keeps for any number of builds sharing the queue,  *)
(* any skills and any messages.  IterationsInOrder speaks of the events    *)
(* that reached the stream; the invariant speaks of the buffer they come   *)
(* from, and of how far the loop has got when it appends.                  *)
(***************************************************************************)
EXTENDS AgentSetup, SkillIteration, SequenceTheorems, FiniteSetTheorems, TLAPS

-----------------------------------------------------------------------------
(***************************************************************************)
(* AgentSetup.                                                             *)
(***************************************************************************)
LEMMA OutcomesAreTyped ==
    /\ \A b \in BOOLEAN : Outcome(b) \in StepOutcomes
    /\ Skipped \in StepOutcomes
  BY DEF Outcome, Skipped, StepOutcomes

(* What the indices of a sequence with x appended give: x or what was there*)
LEMMA AppendIndices ==
    ASSUME NEW S, NEW seq \in Seq(S), NEW x \in S
    PROVE  /\ Append(seq, x) \in Seq(S)
           /\ DOMAIN seq \subseteq DOMAIN Append(seq, x)
           /\ \A i \in DOMAIN Append(seq, x) :
                 Append(seq, x)[i] = x \/ (i \in DOMAIN seq /\ Append(seq, x)[i] = seq[i])
           /\ \A i \in DOMAIN seq : Append(seq, x)[i] = seq[i]
           /\ \E i \in DOMAIN Append(seq, x) : Append(seq, x)[i] = x
  <1>1. /\ Append(seq, x) \in Seq(S) /\ Len(Append(seq, x)) = Len(seq) + 1
        /\ \A i \in 1..Len(seq) : Append(seq, x)[i] = seq[i]
        /\ Append(seq, x)[Len(seq) + 1] = x
    BY AppendProperties
  <1>2. /\ DOMAIN seq = 1..Len(seq) /\ Len(seq) \in Nat
        /\ DOMAIN Append(seq, x) = 1..(Len(seq) + 1)
    BY <1>1, LenProperties
  <1> QED
    BY <1>1, <1>2

-----------------------------------------------------------------------------
(***************************************************************************)
(* Types.                                                                  *)
(***************************************************************************)
LEMMA NextServiceIsTyped ==
    ASSUME SetupTypeOK, Len(services) < Len(manifest.services), NEW healthy \in BOOLEAN
    PROVE  [healthy |-> healthy, optional |-> manifest.services[Len(services) + 1].optional]
              \in ServiceOutcomes
  <1>1. manifest.services \in Seq(ServiceDefs) /\ services \in Seq(ServiceOutcomes)
    BY ManifestsAssumption DEF SetupTypeOK
  <1>2. /\ Len(services) \in Nat /\ Len(manifest.services) \in Nat
        /\ \A i \in 1..Len(manifest.services) : manifest.services[i] \in ServiceDefs
    BY <1>1, LenProperties, ElementOfSeq
  <1>3. manifest.services[Len(services) + 1].optional \in BOOLEAN
    BY <1>2 DEF ServiceDefs
  <1> QED
    BY <1>3 DEF ServiceOutcomes

LEMMA SetupTypeInit == SetupInit => SetupTypeOK
  BY EmptySeq DEF SetupInit, SetupTypeOK

LEMMA SetupTypeNext == SetupTypeOK /\ [SetupNext]_setupVars => SetupTypeOK'
  <1> SUFFICES ASSUME SetupTypeOK, [SetupNext]_setupVars
               PROVE  SetupTypeOK'
    OBVIOUS
  <1> USE DEF SetupTypeOK, results
  <1>1. CASE NoManifest
    BY <1>1 DEF NoManifest
  <1>2. CASE ReadManifest
    BY <1>2 DEF ReadManifest
  <1>3. ASSUME NEW succeeded \in BOOLEAN, InstallPostgres(succeeded) PROVE SetupTypeOK'
    <2>1. Append(infrastructure, Outcome(succeeded)) \in Seq(StepOutcomes)
      BY OutcomesAreTyped, AppendProperties
    <2> HIDE DEF SetupTypeOK
    <2>2. /\ UNCHANGED <<manifest, found, install, setup, services, ok>>
          /\ phase' \in {"redis", "returned"}
          /\ infrastructure' \in {infrastructure, Append(infrastructure, Outcome(succeeded))}
      BY <1>3 DEF InstallPostgres
    <2> QED
      BY <2>1, <2>2 DEF SetupTypeOK
  <1>4. ASSUME NEW succeeded \in BOOLEAN, InstallRedis(succeeded) PROVE SetupTypeOK'
    BY <1>4, OutcomesAreTyped, AppendProperties DEF InstallRedis
  <1>5. ASSUME NEW succeeded \in BOOLEAN, RunInstall(succeeded) PROVE SetupTypeOK'
    <2>1. <<Outcome(succeeded)>> \in Seq(StepOutcomes) /\ <<>> \in Seq(StepOutcomes)
      BY OutcomesAreTyped, EmptySeq
    <2> QED
      BY <1>5, <2>1 DEF RunInstall
  <1>6. ASSUME NEW succeeded \in BOOLEAN, StartService(succeeded) PROVE SetupTypeOK'
    BY <1>6, NextServiceIsTyped, AppendProperties DEF StartService
  <1>7. ASSUME NEW outcome \in {Outcome(TRUE), Outcome(FALSE), Skipped}, RunStep(outcome)
        PROVE  SetupTypeOK'
    BY <1>7, OutcomesAreTyped, AppendProperties DEF RunStep
  <1>8. CASE StepsOver
    BY <1>8 DEF StepsOver
  <1>9. CASE Summarize
    BY <1>9 DEF Summarize, NothingFailed
  <1>10. CASE Reject
    BY <1>10 DEF Reject
  <1>11. CASE UNCHANGED setupVars
    BY <1>11 DEF setupVars
  <1> QED
    BY <1>1, <1>2, <1>3, <1>4, <1>5, <1>6, <1>7, <1>8, <1>9, <1>10, <1>11 DEF SetupNext

(* For every set of manifests every variable keeps to its type.            *)
THEOREM SetupTypeCorrect == SetupSpec => []SetupTypeOK
  BY SetupTypeInit, SetupTypeNext, PTL DEF SetupSpec

-----------------------------------------------------------------------------
(***************************************************************************)
(* The two verdicts.                                                       *)
(***************************************************************************)
Shapes ==
    /\ \A i \in DOMAIN infrastructure :
          ~infrastructure[i].optional /\ ~infrastructure[i].skipped
    /\ \A i \in DOMAIN install : ~install[i].optional /\ ~install[i].skipped
    /\ \A i \in DOMAIN setup : ~setup[i].optional
    /\ phase = "manifest" => results = <<<<>>, <<>>, <<>>, <<>>>>

(* Of results of these shapes the report says what the setup says.         *)
LEMMA SameVerdict == Shapes => (NothingFailed <=> ~Blocks)
  <1>1. ASSUME Shapes PROVE FailedSteps(ReportedSteps) = {} <=>
           /\ \A i \in DOMAIN infrastructure : infrastructure[i].ok
           /\ \A i \in DOMAIN install : install[i].ok
           /\ \A i \in DOMAIN setup : setup[i].ok \/ setup[i].skipped
    BY <1>1 DEF Shapes, FailedSteps, ReportedSteps
  <1>2. UnhealthyServices(ReportedServices) = {} <=>
           \A i \in DOMAIN services : services[i].healthy \/ services[i].optional
    BY DEF UnhealthyServices, ReportedServices
  <1>3. FailedTasks(<<>>) = {}
    BY DEF FailedTasks
  <1> QED
    BY <1>1, <1>2, <1>3 DEF Blocks, HasBlockers, NothingFailed

LEMMA ShapesInit == SetupInit => Shapes
  BY DEF SetupInit, Shapes, results

LEMMA ShapesNext == SetupTypeOK /\ Shapes /\ [SetupNext]_setupVars => Shapes'
  <1> SUFFICES ASSUME SetupTypeOK, Shapes, [SetupNext]_setupVars
               PROVE  Shapes'
    OBVIOUS
  <1> USE DEF Shapes, results
  <1>1. CASE NoManifest \/ ReadManifest \/ StepsOver \/ Summarize \/ Reject \/ UNCHANGED setupVars
    BY <1>1 DEF NoManifest, ReadManifest, StepsOver, Summarize, Reject, setupVars
  <1>2. ASSUME NEW succeeded \in BOOLEAN, InstallPostgres(succeeded) \/ InstallRedis(succeeded)
        PROVE  Shapes'
    <2>1. \A i \in DOMAIN Append(infrastructure, Outcome(succeeded)) :
             /\ ~Append(infrastructure, Outcome(succeeded))[i].optional
             /\ ~Append(infrastructure, Outcome(succeeded))[i].skipped
      <3>1. infrastructure \in Seq(StepOutcomes) /\ Outcome(succeeded) \in StepOutcomes
        BY OutcomesAreTyped DEF SetupTypeOK
      <3>2. ~Outcome(succeeded).optional /\ ~Outcome(succeeded).skipped
        BY DEF Outcome
      <3> QED
        BY <3>1, <3>2, AppendIndices
    <2> QED
      BY <1>2, <2>1 DEF InstallPostgres, InstallRedis
  <1>3. ASSUME NEW succeeded \in BOOLEAN, RunInstall(succeeded) PROVE Shapes'
    BY <1>3 DEF RunInstall, Outcome
  <1>4. ASSUME NEW succeeded \in BOOLEAN, StartService(succeeded) PROVE Shapes'
    BY <1>4 DEF StartService
  <1>5. ASSUME NEW outcome \in {Outcome(TRUE), Outcome(FALSE), Skipped}, RunStep(outcome)
        PROVE  Shapes'
    <2>1. setup \in Seq(StepOutcomes) /\ outcome \in StepOutcomes
      BY OutcomesAreTyped DEF SetupTypeOK
    <2>2. ~outcome.optional
      BY DEF Outcome, Skipped
    <2>3. \A i \in DOMAIN Append(setup, outcome) : ~Append(setup, outcome)[i].optional
      BY <2>1, <2>2, AppendIndices
    <2> QED
      BY <1>5, <2>3 DEF RunStep
  <1> QED
    BY <1>1, <1>2, <1>3, <1>4, <1>5 DEF SetupNext


Verdicts == VerdictsAgree /\ (phase # "returned" => ok = FALSE)

LEMMA VerdictsNext == SetupTypeOK /\ Shapes /\ Verdicts /\ [SetupNext]_setupVars => Verdicts'
  <1> SUFFICES ASSUME SetupTypeOK, Shapes, Verdicts, [SetupNext]_setupVars
               PROVE  Verdicts'
    OBVIOUS
  <1> USE DEF Verdicts, VerdictsAgree
  <1>1. ASSUME UNCHANGED results PROVE Blocks' <=> Blocks
    BY <1>1 DEF results, Blocks, ReportedSteps, ReportedServices, HasBlockers,
                FailedSteps, UnhealthyServices, FailedTasks
  <1>2. CASE NoManifest
    <2>1. NothingFailed
      BY <1>2 DEF NoManifest, Shapes, results, NothingFailed
    <2> QED
      BY <1>1, <1>2, <2>1, SameVerdict DEF NoManifest
  <1>3. CASE Summarize
    BY <1>1, <1>3, SameVerdict DEF Summarize
  <1>4. ASSUME NEW succeeded \in BOOLEAN, InstallPostgres(succeeded), phase' = "returned"
        PROVE  Blocks'
    <2>1. infrastructure' = Append(infrastructure, Outcome(FALSE))
      BY <1>4 DEF InstallPostgres
    <2>2. infrastructure \in Seq(StepOutcomes) /\ Outcome(FALSE) \in StepOutcomes
      BY OutcomesAreTyped DEF SetupTypeOK
    <2>3. Outcome(FALSE) \in ReportedSteps'
      <3> DEFINE longer == Append(infrastructure, Outcome(FALSE))
      <3>1. \E i \in DOMAIN longer : longer[i] = Outcome(FALSE)
        <4> DEFINE x == Outcome(FALSE)
        <4>1. x \in StepOutcomes
          BY <2>2
        <4> HIDE DEF x
        <4>2. \E i \in DOMAIN Append(infrastructure, x) : Append(infrastructure, x)[i] = x
          BY <2>2, <4>1, AppendIndices
        <4> QED
          BY <4>2 DEF x
      <3>2. infrastructure' = longer
        BY <2>1
      <3> HIDE DEF longer
      <3> QED
        BY <3>1, <3>2 DEF ReportedSteps
    <2>4. Outcome(FALSE) \in FailedSteps(ReportedSteps')
      BY <2>3 DEF FailedSteps, Outcome
    <2> QED
      BY <2>4 DEF Blocks, HasBlockers
  <1>5. ASSUME NEW succeeded \in BOOLEAN, InstallPostgres(succeeded) PROVE Verdicts'
    BY <1>4, <1>5 DEF InstallPostgres
  <1>6. ASSUME NEW succeeded \in BOOLEAN, NEW outcome,
               \/ ReadManifest \/ InstallRedis(succeeded) \/ RunInstall(succeeded)
               \/ StartService(succeeded) \/ RunStep(outcome) \/ StepsOver \/ Reject
        PROVE  Verdicts'
    BY <1>6 DEF ReadManifest, InstallRedis, RunInstall, StartService, RunStep, StepsOver, Reject
  <1>7. CASE UNCHANGED setupVars
    BY <1>1, <1>7 DEF setupVars
  <1> QED
    BY <1>2, <1>3, <1>5, <1>6, <1>7 DEF SetupNext

(* For every set of manifests, the setup answers ok exactly when its       *)
(* results put no blocker into the build report.                           *)
THEOREM VerdictsAgreeAlways == SetupSpec => []VerdictsAgree
  <1>1. SetupInit => Verdicts
    BY DEF SetupInit, Verdicts, VerdictsAgree
  <1>2. Verdicts => VerdictsAgree
    BY DEF Verdicts
  <1> QED
    BY <1>1, <1>2, SetupTypeInit, SetupTypeNext, ShapesInit, ShapesNext, VerdictsNext, PTL DEF SetupSpec

-----------------------------------------------------------------------------
(***************************************************************************)
(* Nothing is dropped: at each place of the runner, how long the results   *)
(* are.                                                                    *)
(***************************************************************************)
Wanted(part) == IF part \in manifest.requires THEN 1 ELSE 0

WantedInstall == IF manifest.install THEN 1 ELSE 0

After(places) == phase \in places

Lengths ==
    /\ After({"manifest", "postgres"}) => infrastructure = <<>>
    /\ After({"manifest", "postgres", "redis", "install"}) => install = <<>>
    /\ After({"manifest", "postgres", "redis", "install", "setup"}) => services = <<>>
    /\ phase = "redis" => Len(infrastructure) = Wanted("postgres")
    /\ After({"install", "setup", "services"}) =>
          Len(infrastructure) = Wanted("postgres") + Wanted("redis")
    /\ After({"setup", "services"}) => Len(install) = WantedInstall
    /\ phase = "services" => Len(setup) = Len(manifest.setup)
    /\ phase = "manifest" => ~found

LEMMA RequiresAreCounted ==
    ASSUME SetupTypeOK
    PROVE  Cardinality(manifest.requires) = Wanted("postgres") + Wanted("redis")
  <1> DEFINE S == manifest.requires
  <1>1. S \in SUBSET {"postgres", "redis"}
    BY ManifestsAssumption DEF SetupTypeOK
  <1>2. CASE S = {}
    BY <1>2, FS_EmptySet DEF Wanted
  <1>3. CASE S = {"postgres"}
    BY <1>3, FS_Singleton DEF Wanted
  <1>4. CASE S = {"redis"}
    <2>1. Cardinality({"redis"}) = 1 /\ "postgres" # "redis"
      BY FS_Singleton
    <2> QED
      BY <1>4, <2>1 DEF Wanted
  <1>5. CASE S = {"postgres", "redis"}
    <2>1. IsFiniteSet({"redis"}) /\ Cardinality({"redis"}) = 1
      BY FS_Singleton
    <2>2. Cardinality({"redis"} \cup {"postgres"}) = Cardinality({"redis"}) + 1
      BY <2>1, FS_AddElement
    <2>3. S = {"redis"} \cup {"postgres"}
      BY <1>5
    <2> QED
      BY <2>1, <2>2, <2>3 DEF Wanted
  <1> QED
    BY <1>1, <1>2, <1>3, <1>4, <1>5

LEMMA LongerByOne ==
    ASSUME NEW S, NEW seq \in Seq(S), NEW x \in S
    PROVE  Len(Append(seq, x)) = Len(seq) + 1 /\ Len(seq) \in Nat
  BY AppendProperties, LenProperties

LEMMA LengthsNext ==
    SetupTypeOK /\ Lengths /\ NothingDropped /\ [SetupNext]_setupVars => Lengths' /\ NothingDropped'
  <1> SUFFICES ASSUME SetupTypeOK, Lengths, NothingDropped, [SetupNext]_setupVars
               PROVE  Lengths' /\ NothingDropped'
    OBVIOUS
  <1> USE DEF Lengths, NothingDropped, After
  <1>1. /\ Len(<<>>) = 0
        /\ Wanted("postgres") \in Nat /\ Wanted("redis") \in Nat
        /\ infrastructure \in Seq(StepOutcomes) /\ Len(infrastructure) \in Nat
    BY LenProperties DEF Wanted, SetupTypeOK
  <1>2. ASSUME UNCHANGED manifest
        PROVE  UNCHANGED <<Wanted("postgres"), Wanted("redis"), WantedInstall>>
    BY <1>2 DEF Wanted, WantedInstall
  <1>3. CASE NoManifest \/ ReadManifest
    <2>1. /\ phase = "manifest" /\ ~found /\ infrastructure = <<>> /\ install = <<>> /\ services = <<>>
          /\ (phase' = "returned" /\ found' = found) \/ phase' = "postgres"
          /\ UNCHANGED <<manifest, infrastructure, install, setup, services>>
      BY <1>3 DEF NoManifest, ReadManifest, results
    <2> QED
      BY <1>1, <1>2, <2>1
  <1>4. ASSUME NEW succeeded \in BOOLEAN, InstallPostgres(succeeded)
        PROVE  Lengths' /\ NothingDropped'
    <2>1. /\ phase = "postgres" /\ infrastructure = <<>> /\ services = <<>>
          /\ UNCHANGED <<manifest, found, install, setup, services, ok>>
      BY <1>4 DEF InstallPostgres
    <2>2. CASE "postgres" \in manifest.requires
      <3> DEFINE x == Outcome(succeeded)
      <3>1. infrastructure' = <<x>> /\ phase' = IF succeeded THEN "redis" ELSE "returned"
        BY <1>4, <2>1, <2>2 DEF InstallPostgres
      <3>2. Len(<<x>>) = 1 /\ Wanted("postgres") = 1
        BY <2>2 DEF Wanted
      <3>3. ~succeeded => x = Outcome(FALSE)
        OBVIOUS
      <3> HIDE DEF x
      <3> QED
        BY <1>2, <2>1, <2>2, <3>1, <3>2, <3>3
    <2>3. CASE "postgres" \notin manifest.requires
      <3>1. infrastructure' = <<>> /\ phase' = "redis" /\ Wanted("postgres") = 0
        BY <1>4, <2>1, <2>3 DEF InstallPostgres, Wanted
      <3> QED
        BY <1>1, <1>2, <2>1, <3>1
    <2> QED
      BY <2>2, <2>3
  <1>5. ASSUME NEW succeeded \in BOOLEAN, InstallRedis(succeeded)
        PROVE  Lengths' /\ NothingDropped'
    <2>1. Len(infrastructure') = Wanted("postgres") + Wanted("redis")
      <3>1. Len(Append(infrastructure, Outcome(succeeded))) = Len(infrastructure) + 1
        BY <1>1, OutcomesAreTyped, LongerByOne
      <3> QED
        <4>1. Len(infrastructure) = Wanted("postgres")
          BY <1>5 DEF InstallRedis
        <4>2. CASE "redis" \in manifest.requires
          <5>1. Wanted("redis") = 1 /\ infrastructure' = Append(infrastructure, Outcome(succeeded))
            BY <1>5, <4>2 DEF InstallRedis, Wanted
          <5> QED
            BY <3>1, <4>1, <5>1
        <4>3. CASE "redis" \notin manifest.requires
          <5>1. Wanted("redis") = 0 /\ infrastructure' = infrastructure
            BY <1>5, <4>3 DEF InstallRedis, Wanted
          <5> QED
            BY <1>1, <4>1, <5>1
        <4> QED
          BY <4>2, <4>3
    <2> QED
      BY <1>2, <1>5, <2>1 DEF InstallRedis
  <1>6. ASSUME NEW succeeded \in BOOLEAN, RunInstall(succeeded)
        PROVE  Lengths' /\ NothingDropped'
    <2>1. Len(install') = WantedInstall
      BY <1>6 DEF RunInstall, WantedInstall
    <2> QED
      BY <1>2, <1>6, <2>1 DEF RunInstall
  <1>7. ASSUME NEW outcome, RunStep(outcome) PROVE Lengths' /\ NothingDropped'
    BY <1>2, <1>7 DEF RunStep
  <1>8. CASE StepsOver
    BY <1>2, <1>8 DEF StepsOver, results
  <1>9. ASSUME NEW healthy \in BOOLEAN, StartService(healthy) PROVE Lengths' /\ NothingDropped'
    BY <1>2, <1>9 DEF StartService
  <1>10. CASE Summarize
    <2>1. /\ phase = "services" /\ phase' = "returned" /\ Len(services) = Len(manifest.services)
          /\ UNCHANGED <<manifest, found, infrastructure, install, setup, services>>
      BY <1>10 DEF Summarize, results
    <2> QED
      <3>1. /\ Len(infrastructure) = Cardinality(manifest.requires)
            /\ Len(install) = IF manifest.install THEN 1 ELSE 0
            /\ Len(setup) = Len(manifest.setup)
        BY <2>1, RequiresAreCounted DEF WantedInstall
      <3>2. NothingDropped'
        BY <2>1, <3>1
      <3> QED
        BY <1>2, <2>1, <3>2
  <1>11. CASE Reject \/ UNCHANGED setupVars
    <2>1. /\ phase' = "rejected" \/ phase' = phase
          /\ UNCHANGED <<manifest, found, infrastructure, install, setup, services>>
      BY <1>11 DEF Reject, results, setupVars
    <2> QED
      BY <1>2, <2>1
  <1> QED
    BY <1>3, <1>4, <1>5, <1>6, <1>7, <1>8, <1>9, <1>10, <1>11 DEF SetupNext

(* For every set of manifests, a setup that answers has a result for       *)
(* everything asked, unless it is postgres that failed.                    *)
THEOREM NothingDroppedAlways == SetupSpec => []NothingDropped
  <1>1. SetupInit => Lengths /\ NothingDropped
    BY DEF SetupInit, Lengths, NothingDropped, After
  <1> QED
    BY <1>1, SetupTypeInit, SetupTypeNext, LengthsNext, PTL DEF SetupSpec

-----------------------------------------------------------------------------
(***************************************************************************)
(* SkillIteration.                                                         *)
(***************************************************************************)
(***************************************************************************)
(* Types.                                                                  *)
(***************************************************************************)
LEMMA LenOwned ==
    /\ Len(Owned) \in Nat
    /\ DOMAIN Owned = 1..Len(Owned)
    /\ \A i \in 1..Len(Owned) : Owned[i] \in Skills
  BY OwnedAssumption, LenProperties, ElementOfSeq

LEMMA TypeInit == Init => TypeOK
  BY LenOwned DEF Init, TypeOK, Locations

LEMMA TypeLoop == ASSUME TypeOK, NEW b \in Builds, Loop(b) PROVE TypeOK'
  <1> USE LenOwned DEF TypeOK, messages, Locations
  <1>1. \A kind \in {"announce", "done"} :
           Collect(b, kind) => buffer' \in [Builds -> Seq(Events)]
    BY AppendProperties DEF Collect, Event, Events
  <1>2. CASE Throw(b) \/ EnterIteration(b)
    <2>1. CASE Throw(b)
      BY <2>1, EmptySeq DEF Throw, Move
    <2>2. CASE EnterIteration(b)
      BY <2>2 DEF EnterIteration, Move
    <2> QED
      BY <1>2, <2>1, <2>2
  <1>3. ASSUME NEW there \in BOOLEAN, SkipRemoved(b, there) PROVE TypeOK'
    BY <1>3 DEF SkipRemoved, NextIteration, Move
  <1>4. ASSUME NEW there \in BOOLEAN, AnnounceAndCall(b, there) PROVE TypeOK'
    <2>1. queue' \in Seq(Messages) /\ taken' \in Seq(Messages)
      BY <1>4, ConcatProperties, EmptySeq DEF AnnounceAndCall
    <2>2. pc' \in [Builds -> Locations]
      BY <1>4 DEF AnnounceAndCall, Move
    <2> QED
      BY <1>1, <1>4, <2>1, <2>2 DEF AnnounceAndCall
  <1>5. CASE Commit(b)
    BY <1>1, <1>5 DEF Commit, NextIteration, Move
  <1>6. ASSUME NEW there \in BOOLEAN, Reconcile(b, there) PROVE TypeOK'
    BY <1>6 DEF Reconcile, Move
  <1>7. ASSUME NEW W \in SUBSET Asked(b), CallReturns(b, W) \/ CallFails(b, W) \/ CallTimesOut(b, W)
        PROVE TypeOK'
    <2>1. W \subseteq Skills
      BY DEF Asked
    <2>2. CASE CallReturns(b, W)
      BY <2>1, <2>2 DEF CallReturns, Move
    <2>3. CASE CallFails(b, W)
      BY <2>1, <2>3 DEF CallFails, NextIteration, Move
    <2>4. CASE CallTimesOut(b, W)
      BY <2>1, <2>4 DEF CallTimesOut, Move
    <2> QED
      BY <1>7, <2>2, <2>3, <2>4
  <1>8. CASE Flush(b)
    BY <1>8, ConcatProperties, EmptySeq DEF Flush, Move
  <1> QED
    BY <1>2, <1>3, <1>4, <1>5, <1>6, <1>7, <1>8 DEF Loop

LEMMA TypeNext == TypeOK /\ [Next]_vars => TypeOK'
  <1> SUFFICES ASSUME TypeOK, [Next]_vars
               PROVE  TypeOK'
    OBVIOUS
  <1> USE DEF TypeOK, messages, loop, Locations
  <1>1. ASSUME NEW b \in Builds, NEW there \in BOOLEAN, Begin(b, there) PROVE TypeOK'
    BY <1>1 DEF Begin, Move
  <1>2. ASSUME NEW m \in Messages, PushInterject(m) PROVE TypeOK'
    BY <1>2, AppendProperties DEF PushInterject, Running
  <1>3. ASSUME NEW kept \in SUBSET Skills, EditPlan(kept) PROVE TypeOK'
    BY <1>3 DEF EditPlan
  <1>4. ASSUME NEW b \in Builds, Cancel(b) PROVE TypeOK'
    BY <1>4 DEF Cancel
  <1>5. CASE Restart
    BY <1>5, ConcatProperties, EmptySeq DEF Restart
  <1>6. CASE UNCHANGED vars
    BY <1>6 DEF vars
  <1> QED
    BY <1>1, <1>2, <1>3, <1>4, <1>5, <1>6, TypeLoop DEF Next

(* For any builds, skills and messages every variable keeps to its type.   *)
THEOREM TypeCorrect == Spec => []TypeOK
  BY TypeInit, TypeNext, PTL DEF Spec

(***************************************************************************)
(* Messages: only the drains and the pushes touch the queue.               *)
(***************************************************************************)
(* Builds may drain one queue in any interleaving: each message leaves it  *)
(* once, and in the order in which the messages came.                      *)
THEOREM NothingLostAlways == Spec => []NothingLostOrRepeated
  <1>1. Init => NothingLostOrRepeated
    BY ConcatEmptySeq DEF Init, NothingLostOrRepeated
  <1>2. TypeOK /\ NothingLostOrRepeated /\ [Next]_vars => NothingLostOrRepeated'
    <2> SUFFICES ASSUME TypeOK, NothingLostOrRepeated, [Next]_vars
                 PROVE  NothingLostOrRepeated'
      OBVIOUS
    <2> USE DEF NothingLostOrRepeated, messages
    <2>1. queue \in Seq(Messages) /\ taken \in Seq(Messages)
      BY DEF TypeOK
    <2>2. ASSUME taken' = taken \o queue, queue' = <<>>, UNCHANGED pushed
          PROVE  NothingLostOrRepeated'
      <3>1. taken \o queue \in Seq(Messages)
        BY <2>1, ConcatProperties
      <3> QED
        BY <2>2, <3>1, ConcatEmptySeq
    <2>3. ASSUME NEW m \in Messages, PushInterject(m) PROVE NothingLostOrRepeated'
      <3>1. /\ pushed' = Append(taken \o queue, m)
            /\ queue' = Append(queue, m) /\ UNCHANGED taken
        BY <2>3 DEF PushInterject
      <3>2. taken \o queue \in Seq(Messages) /\ <<m>> \in Seq(Messages)
        BY <2>1, ConcatProperties
      <3>3. /\ Append(taken \o queue, m) = (taken \o queue) \o <<m>>
            /\ Append(queue, m) = queue \o <<m>>
        BY <2>1, <3>2, AppendIsConcat
      <3>4. (taken \o queue) \o <<m>> = taken \o (queue \o <<m>>)
        BY <2>1, <3>2, ConcatAssociative
      <3> QED
        BY <3>1, <3>3, <3>4
    <2>4. CASE UNCHANGED messages
      BY <2>4
    <2>5. ASSUME NEW b \in Builds, Loop(b)
          PROVE  \/ UNCHANGED messages
                 \/ taken' = taken \o queue /\ queue' = <<>> /\ UNCHANGED pushed
      BY <2>5 DEF Loop, Throw, EnterIteration, SkipRemoved, AnnounceAndCall, Commit, Reconcile,
                  CallReturns, CallFails, CallTimesOut, Flush
    <2>6. ASSUME NEW b \in Builds, NEW there, Begin(b, there) \/ Cancel(b) PROVE UNCHANGED messages
      BY <2>6 DEF Begin, Cancel
    <2>7. ASSUME NEW kept, EditPlan(kept) PROVE UNCHANGED messages
      BY <2>7 DEF EditPlan
    <2>8. CASE Restart
      BY <2>2, <2>8 DEF Restart
    <2>9. CASE UNCHANGED vars
      BY <2>4, <2>9 DEF vars
    <2> QED
      BY <2>2, <2>3, <2>4, <2>5, <2>6, <2>7, <2>8, <2>9 DEF Next
  <1> QED
    BY <1>1, <1>2, TypeInit, TypeNext, PTL DEF Spec

(***************************************************************************)
(* Files.                                                                  *)
(***************************************************************************)
(* A task is done only of files it saw, and no step removes one, whatever  *)
(* the user does to the plan meanwhile.                                    *)
THEOREM DoneHasSkillsAlways == Spec => []DoneHasSkills
  <1>1. Init => DoneHasSkills
    BY DEF Init, DoneHasSkills
  <1>2. TypeOK /\ DoneHasSkills /\ [Next]_vars => DoneHasSkills'
    <2> SUFFICES ASSUME TypeOK, DoneHasSkills, [Next]_vars,
                        NEW b \in Builds, result'[b] = "done"
                 PROVE  OwnedSkills \subseteq files'
      BY DEF DoneHasSkills
    <2>1. files \subseteq files'
      BY DEF Next, Loop, Throw, EnterIteration, SkipRemoved, AnnounceAndCall, Commit, Reconcile,
             CallReturns, CallFails, CallTimesOut, Flush, Begin, Cancel, PushInterject, EditPlan,
             Restart, vars
    <2>2. ASSUME NEW c \in Builds, NEW there \in BOOLEAN, Begin(c, there) \/ Reconcile(c, there)
          PROVE  result' = result \/ result' = [result EXCEPT ![c] = "failed"]
                 \/ (OwnedSkills \subseteq files /\ result' = [result EXCEPT ![c] = "done"])
      BY <2>2 DEF Begin, Reconcile, AllThere
    <2>3. ASSUME NEW c \in Builds, NEW there \in BOOLEAN, Begin(c, there) \/ Reconcile(c, there)
          PROVE  result[b] = "done" \/ OwnedSkills \subseteq files
      BY <2>2, <2>3 DEF TypeOK
    <2>4. ASSUME NEW c \in Builds, NEW W, CallTimesOut(c, W)
          PROVE  result[b] = "done"
      BY <2>4 DEF CallTimesOut, TypeOK
    <2>5. result[b] = "done" \/ OwnedSkills \subseteq files
      BY <2>3, <2>4
      DEF Next, Loop, Throw, EnterIteration, SkipRemoved, AnnounceAndCall, Commit,
          CallReturns, CallFails, Flush, Cancel, PushInterject, EditPlan, Restart, vars, loop
    <2> QED
      BY <2>1, <2>5 DEF DoneHasSkills
  <1> QED
    BY <1>1, <1>2, TypeInit, TypeNext, PTL DEF Spec

(***************************************************************************)
(* Events.                                                                 *)
(***************************************************************************)
InOrder(seq) ==
    \A i, j \in DOMAIN seq :
        i < j => \/ seq[i].iteration < seq[j].iteration
                 \/ /\ seq[i].iteration = seq[j].iteration
                    /\ seq[i].kind = "announce"
                    /\ seq[j].kind = "done"

(* No event of seq is of iteration n or a later one.                       *)
Before(seq, n) == \A i \in DOMAIN seq : seq[i].iteration < n

(* ... but for the announcement of n itself.                               *)
Announced(seq, n) ==
    \A i \in DOMAIN seq : \/ seq[i].iteration < n
                          \/ seq[i].iteration = n /\ seq[i].kind = "announce"

Tape ==
    \A b \in Builds :
        /\ InOrder(buffer[b])
        /\ InOrder(out[b])
        /\ pc[b] # "over" => out[b] = <<>>
        /\ pc[b] \in {"off", "top", "readPlan"} => Before(buffer[b], iter[b])
        /\ pc[b] \in {"calling", "refused", "commit"} => Announced(buffer[b], iter[b])

LEMMA EmptyInOrder == InOrder(<<>>) /\ \A n : Before(<<>>, n)
  BY DEF InOrder, Before

LEMMA IterationsAreNat ==
    ASSUME NEW seq \in Seq(Events)
    PROVE  \A i \in DOMAIN seq : seq[i].iteration \in Nat
  <1>1. \A e \in Events : e.iteration \in Nat
    BY DEF Events
  <1>2. \A i \in DOMAIN seq : seq[i] \in Events
    BY LenProperties
  <1> QED
    BY <1>1, <1>2

LEMMA AppendInOrder ==
    ASSUME NEW seq \in Seq(Events), NEW n \in Nat \ {0}, InOrder(seq)
    PROVE  /\ Before(seq, n) =>
                 /\ InOrder(Append(seq, Event("announce", n)))
                 /\ Announced(Append(seq, Event("announce", n)), n)
           /\ Announced(seq, n) =>
                 /\ InOrder(Append(seq, Event("done", n)))
                 /\ Before(Append(seq, Event("done", n)), n + 1)
  <1> DEFINE a == Event("announce", n)
  <1> DEFINE d == Event("done", n)
  <1>1. /\ a \in Events /\ a.iteration = n /\ a.kind = "announce"
        /\ d \in Events /\ d.iteration = n /\ d.kind = "done"
    BY DEF Event, Events
  <1>2. Len(seq) \in Nat /\ DOMAIN seq = 1..Len(seq)
        /\ \A i \in DOMAIN seq : seq[i].iteration \in Nat
    BY LenProperties, IterationsAreNat
  <1>3. \A x \in Events :
           /\ DOMAIN Append(seq, x) = 1..(Len(seq) + 1)
           /\ \A i \in 1..Len(seq) : Append(seq, x)[i] = seq[i]
           /\ Append(seq, x)[Len(seq) + 1] = x
    BY AppendProperties, LenProperties
  <1> HIDE DEF a, d
  <1>4. ASSUME Before(seq, n) PROVE InOrder(Append(seq, a)) /\ Announced(Append(seq, a), n)
    BY <1>1, <1>2, <1>3, <1>4 DEF InOrder, Before, Announced
  <1>5. ASSUME Announced(seq, n) PROVE InOrder(Append(seq, d)) /\ Before(Append(seq, d), n + 1)
    BY <1>1, <1>2, <1>3, <1>5 DEF InOrder, Before, Announced
  <1> QED
    BY <1>4, <1>5 DEF a, d

LEMMA NextInOrder ==
    ASSUME NEW seq \in Seq(Events), NEW n \in Nat \ {0}
    PROVE  /\ Before(seq, n) => Before(seq, n + 1)
           /\ Announced(seq, n) => Before(seq, n + 1)
  <1>1. \A i \in DOMAIN seq : seq[i].iteration \in Nat
    BY IterationsAreNat
  <1> QED
    BY <1>1 DEF Before, Announced

LEMMA TapeInit == Init => Tape
  BY EmptyInOrder DEF Init, Tape

(* A step of one build leaves the others' tapes alone.                     *)
LEMMA TapeOfOne ==
    ASSUME TypeOK, Tape, NEW b \in Builds,
           \A c \in Builds \ {b} :
              pc'[c] = pc[c] /\ iter'[c] = iter[c] /\ buffer'[c] = buffer[c] /\ out'[c] = out[c],
           InOrder(buffer'[b]), InOrder(out'[b]),
           pc'[b] # "over" => out'[b] = <<>>,
           pc'[b] \in {"off", "top", "readPlan"} => Before(buffer'[b], iter'[b]),
           pc'[b] \in {"calling", "refused", "commit"} => Announced(buffer'[b], iter'[b])
    PROVE  Tape'
  BY DEF Tape

LEMMA TapeLoop == ASSUME TypeOK, Tape, NEW b \in Builds, Loop(b) PROVE Tape'
  <1>1. /\ buffer[b] \in Seq(Events) /\ iter[b] \in Nat \ {0}
        /\ InOrder(buffer[b]) /\ InOrder(out[b])
        /\ pc[b] # "over" => out[b] = <<>>
        /\ pc[b] \in {"off", "top", "readPlan"} => Before(buffer[b], iter[b])
        /\ pc[b] \in {"calling", "refused", "commit"} => Announced(buffer[b], iter[b])
    BY DEF TypeOK, Tape
  <1> USE DEF TypeOK
  <1>2. CASE Throw(b)
    BY <1>1, <1>2, EmptyInOrder, TapeOfOne DEF Throw, Move
  <1>3. CASE EnterIteration(b)
    BY <1>1, <1>3, TapeOfOne DEF EnterIteration, Move
  <1>4. ASSUME NEW there \in BOOLEAN, SkipRemoved(b, there) PROVE Tape'
    BY <1>1, <1>4, NextInOrder, TapeOfOne DEF SkipRemoved, NextIteration, Move
  <1>5. ASSUME NEW there \in BOOLEAN, AnnounceAndCall(b, there) PROVE Tape'
    BY <1>1, <1>5, AppendInOrder, TapeOfOne DEF AnnounceAndCall, Collect, Move
  <1>6. CASE Commit(b)
    BY <1>1, <1>6, AppendInOrder, TapeOfOne DEF Commit, Collect, NextIteration, Move
  <1>7. ASSUME NEW there \in BOOLEAN, Reconcile(b, there) PROVE Tape'
    BY <1>1, <1>7, TapeOfOne DEF Reconcile, Move
  <1>8. ASSUME NEW W, CallReturns(b, W) PROVE Tape'
    BY <1>1, <1>8, TapeOfOne DEF CallReturns, Move
  <1>9. ASSUME NEW W, CallFails(b, W) PROVE Tape'
    BY <1>1, <1>9, NextInOrder, TapeOfOne DEF CallFails, NextIteration, Move
  <1>10. ASSUME NEW W, CallTimesOut(b, W) PROVE Tape'
    BY <1>1, <1>10, TapeOfOne DEF CallTimesOut, Move
  <1>11. CASE Flush(b)
    <2>1. out[b] \o buffer[b] = buffer[b]
      BY <1>1, <1>11, ConcatEmptySeq DEF Flush, Move
    <2> QED
      BY <1>1, <1>11, <2>1, EmptyInOrder, TapeOfOne DEF Flush, Move
  <1> QED
    BY <1>2, <1>3, <1>4, <1>5, <1>6, <1>7, <1>8, <1>9, <1>10, <1>11 DEF Loop

LEMMA TapeNext == TypeOK /\ Tape /\ [Next]_vars => Tape'
  <1> SUFFICES ASSUME TypeOK, Tape, [Next]_vars
               PROVE  Tape'
    OBVIOUS
  <1>1. ASSUME NEW b \in Builds, NEW there \in BOOLEAN, Begin(b, there) PROVE Tape'
    BY <1>1 DEF Begin, Move, Tape, TypeOK
  <1>2. CASE UNCHANGED <<pc, iter, buffer, out>>
    BY <1>2 DEF Tape
  <1>3. ASSUME NEW m, NEW kept, NEW b, PushInterject(m) \/ EditPlan(kept) \/ Cancel(b)
        PROVE  UNCHANGED <<pc, iter, buffer, out>>
    BY <1>3 DEF PushInterject, EditPlan, Cancel, loop
  <1>4. CASE Restart
    BY <1>4, EmptyInOrder DEF Restart, Tape, TypeOK, Running
  <1>5. CASE UNCHANGED vars
    BY <1>2, <1>5 DEF vars, loop
  <1> QED
    BY <1>1, <1>2, <1>3, <1>4, <1>5, TapeLoop DEF Next

(* The stream of every build tells its iterations in order, announced once *)
(* and done at most once, however calls and commits fail.                  *)
THEOREM IterationsInOrderAlways == Spec => []IterationsInOrder
  <1>1. Tape => IterationsInOrder
    BY DEF Tape, InOrder, IterationsInOrder
  <1> QED
    BY <1>1, TypeInit, TypeNext, TapeInit, TapeNext, PTL DEF Spec

(***************************************************************************)
(* Cancellation.                                                           *)
(***************************************************************************)
(* Only an announcement places a call, and it finds the signal of its own  *)
(* build, whatever the other builds do.                                    *)
THEOREM NoCallAfterCancelAlways == Spec => NoCallAfterCancel
  <1>1. ASSUME TypeOK, [Next]_vars, NEW b \in Builds, aborted[b], pc[b] # "calling"
        PROVE  pc'[b] # "calling"
    <2> USE <1>1 DEF TypeOK, Move, NextIteration
    <2>1. ASSUME NEW c \in Builds, NEW there \in BOOLEAN, AnnounceAndCall(c, there)
          PROVE  pc'[b] # "calling"
      BY <2>1 DEF AnnounceAndCall
    <2>2. ASSUME NEW c \in Builds, NEW there \in BOOLEAN,
                 Throw(c) \/ EnterIteration(c) \/ SkipRemoved(c, there) \/ Commit(c) \/ Reconcile(c, there)
          PROVE  pc'[b] # "calling"
      BY <2>2 DEF Throw, EnterIteration, SkipRemoved, Commit, Reconcile
    <2>3. ASSUME NEW c \in Builds, NEW W,
                 CallReturns(c, W) \/ CallFails(c, W) \/ CallTimesOut(c, W) \/ Flush(c)
          PROVE  pc'[b] # "calling"
      BY <2>3 DEF CallReturns, CallFails, CallTimesOut, Flush
    <2>4. ASSUME NEW c \in Builds, NEW there \in BOOLEAN, Begin(c, there)
          PROVE  pc'[b] # "calling"
      BY <2>4 DEF Begin
    <2>5. CASE Restart
      BY <2>5 DEF Restart
    <2>6. ASSUME NEW c, NEW m, NEW kept,
                 Cancel(c) \/ PushInterject(m) \/ EditPlan(kept) \/ UNCHANGED vars
          PROVE  pc'[b] # "calling"
      BY <2>6 DEF Cancel, PushInterject, EditPlan, vars, loop
    <2> QED
      BY <2>1, <2>2, <2>3, <2>4, <2>5, <2>6 DEF Next, Loop
  <1>2. TypeOK /\ [Next]_vars =>
           [\A b \in Builds : aborted[b] /\ pc[b] # "calling" => pc'[b] # "calling"]_vars
    BY <1>1
  <1> QED
    BY <1>2, TypeInit, TypeNext, PTL DEF Spec, NoCallAfterCancel
=============================================================================
