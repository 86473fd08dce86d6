--------------------------- MODULE StageGateProofs ---------------------------
(***************************************************************************)
(* For any requests, targets, specialists and number of builds: review and *)
(* test have their files, and no session is past its farthest stage.       *)
(*                                                                         *)
(* Files are never taken away, so a favourable report, once true, stays    *)
(* true, and so does what a request has concluded from it.  A session is   *)
(* consistent wherever it is held: writing back an old one is writing back *)
(* a consistent one.                                                       *)
(***************************************************************************)
EXTENDS StageGate, TLAPS

ForgeStages == {StageOrder[i] : i \in 1..9}

Unlocked(session) ==
    /\ session.dev \in ForgeStages
    /\ session.max \in ForgeStages
    /\ ~Later(session.dev, session.max)

Complete == files = Specialists

SessionsAreUnlocked ==
    /\ Unlocked(agent.session)
    /\ Unlocked(build.session)
    /\ \A p \in Requests : Unlocked(patch[p].session)

ReportIsEarned == report \in {"test-ready", "ship-ready"} => Complete

(* What the guard has let through.                                         *)
PatchIsAllowed ==
    \A p \in Requests :
        patch[p].at \in {"updating", "syncing"} =>
            /\ patch[p].stage # "complete"
            /\ patch[p].stage \in {"review", "test"} => Complete

CheckHasSeen == check.at = "reading" /\ ~check.missing => Specialists \ check.todo \subseteq files

Inv ==
    /\ TypeOK
    /\ SessionsAreUnlocked
    /\ ReportIsEarned
    /\ PatchIsAllowed
    /\ CheckHasSeen
    /\ ReviewHasFiles
-----------------------------------------------------------------------------
LEMMA IndexType == ASSUME NEW stage \in ForgeStages PROVE IndexOf(stage) \in 1..9
  BY DEF ForgeStages, IndexOf

LEMMA ThinkIsForge == "think" \in ForgeStages /\ ForgeStages \subseteq Stages /\ "complete" \notin ForgeStages
  <1>1. StageOrder[2] = "think" /\ \A i \in 1..9 : StageOrder[i] # "complete"
    BY DEF StageOrder
  <1> QED
    BY <1>1 DEF ForgeStages, Stages

LEMMA FreshIsUnlocked == Fresh \in Sessions /\ Unlocked(Fresh)
  BY ThinkIsForge, IndexType DEF Fresh, Sessions, Unlocked, Later

(* A PATCH keeps the limit with the stage it writes.                       *)
LEMMA SyncedIsUnlocked ==
    ASSUME NEW session \in Sessions, Unlocked(session), NEW stage \in Stages, stage # "complete"
    PROVE  Synced(session, stage) \in Sessions /\ Unlocked(Synced(session, stage))
  <1>1. stage \in ForgeStages
    BY DEF Stages, ForgeStages
  <1>2. /\ maxForgeStage(session.max, stage) \in ForgeStages
        /\ ~Later(stage, maxForgeStage(session.max, stage))
    BY <1>1, IndexType DEF maxForgeStage, Unlocked, Later
  <1>3. Synced(session, stage) \in Sessions
    BY <1>1, <1>2, ThinkIsForge DEF Synced, Sessions
  <1> QED
    BY <1>1, <1>2, <1>3 DEF Synced, Unlocked

(* The records an action writes.                                           *)
PatchRecord == [at : {"idle", "guarding", "updating", "syncing", "over", "lost"},
                stage : Stages, session : Sessions]

BuildRecord == [at : {"idle", "loading", "storing", "working"},
                status : {"idle", "building", "failed", "done"} \cup Verdicts,
                session : Sessions]

LEMMA NoRequestType ==
    ASSUME NEW at \in {"idle", "over", "lost"}
    PROVE  /\ NoRequest(at) \in PatchRecord
           /\ NoRequest(at).at = at /\ Unlocked(NoRequest(at).session)
  BY FreshIsUnlocked, ThinkIsForge DEF NoRequest, PatchRecord

LEMMA NoBuildType ==
    ASSUME NEW at \in {"idle", "loading", "storing", "working"},
           NEW status \in {"idle", "building", "failed", "done"} \cup Verdicts
    PROVE  LET b == [NoBuild EXCEPT !.at = at, !.status = status]
           IN  b \in BuildRecord /\ Unlocked(b.session)
  BY FreshIsUnlocked DEF NoBuild, BuildRecord

LEMMA InitInv == Init => Inv
  <1> SUFFICES ASSUME Init PROVE Inv
    OBVIOUS
  <1>1. /\ NoBuild.session = Fresh /\ NoBuild.at = "idle" /\ NoBuild.status = "idle"
        /\ NoRequest("idle").session = Fresh /\ NoRequest("idle").at = "idle"
        /\ NoRequest("idle").stage = "think"
    BY DEF NoBuild, NoRequest
  <1>2. TypeOK
    <2>1. [stage |-> "think", session |-> Fresh] \in Agents
      BY FreshIsUnlocked, ThinkIsForge DEF Agents
    <2>2. patch \in [Requests -> PatchRecord]
      BY NoRequestType DEF Init
    <2>3. NoBuild \in BuildRecord
      BY FreshIsUnlocked DEF NoBuild, BuildRecord
    <2> HIDE DEF NoRequest, NoBuild
    <2>4. agent \in Agents /\ patch \in [Requests -> PatchRecord] /\ build \in BuildRecord
      BY <2>1, <2>2, <2>3 DEF Init
    <2>5. /\ files \in SUBSET Specialists /\ report \in {"none"} \cup Verdicts
          /\ passing \in BOOLEAN /\ builds \in 0..MaxBuilds
          /\ check \in [at : {"idle", "reading"}, todo : SUBSET Specialists, missing : BOOLEAN]
      <3>1. NoCheck \in [at : {"idle", "reading"}, todo : SUBSET Specialists, missing : BOOLEAN]
        BY DEF NoCheck
      <3>2. passing \in BOOLEAN /\ check = NoCheck
        BY Zenon DEF Init
      <3>3. builds \in 0..MaxBuilds
        BY MaxBuildsAssumption DEF Init
      <3>4. files \in SUBSET Specialists /\ report \in {"none"} \cup Verdicts
        BY DEF Init
      <3> QED
        BY <3>1, <3>2, <3>3, <3>4
    <2> QED
      BY <2>4, <2>5 DEF TypeOK, PatchRecord, BuildRecord
  <1>3. SessionsAreUnlocked
    BY <1>1, FreshIsUnlocked DEF Init, SessionsAreUnlocked
  <1>4. ReportIsEarned /\ PatchIsAllowed /\ CheckHasSeen /\ ReviewHasFiles
    BY <1>1 DEF Init, ReportIsEarned, PatchIsAllowed, CheckHasSeen, ReviewHasFiles, NoCheck
  <1> QED
    BY <1>2, <1>3, <1>4 DEF Inv
-----------------------------------------------------------------------------
(* One request's step.                                                     *)
LEMMA PatchUpdate ==
    ASSUME Inv, NEW p \in Requests, NEW row \in PatchRecord, Unlocked(row.session),
           patch' = [patch EXCEPT ![p] = row],
           row.at \in {"updating", "syncing"} =>
               /\ row.stage # "complete"
               /\ row.stage \in {"review", "test"} => Complete
    PROVE  /\ patch' \in [Requests -> PatchRecord]
           /\ \A q \in Requests : Unlocked(patch'[q].session)
           /\ \A q \in Requests :
                  patch'[q].at \in {"updating", "syncing"} =>
                      /\ patch'[q].stage # "complete"
                      /\ patch'[q].stage \in {"review", "test"} => Complete
  <1>1. patch \in [Requests -> PatchRecord]
    BY DEF Inv, TypeOK, PatchRecord
  <1>2. \A q \in Requests : patch'[q] = IF q = p THEN row ELSE patch[q]
    BY <1>1
  <1> QED
    BY <1>1, <1>2 DEF Inv, SessionsAreUnlocked, PatchIsAllowed

LEMMA PatchStep ==
    ASSUME Inv, NEW p \in Requests,
           ReadAgent(p) \/ Guard(p) \/ UpdateStage(p) \/ Sync(p)
    PROVE  Inv'
  <1> DEFINE row == patch[p]
  <1>1. row \in PatchRecord /\ Unlocked(row.session) /\ agent \in Agents
    BY DEF Inv, TypeOK, PatchRecord, SessionsAreUnlocked
  <1>2. agent.stage \in Stages /\ agent.session \in Sessions /\ Unlocked(agent.session)
    BY <1>1 DEF Agents, Inv, SessionsAreUnlocked
  <1>3. ASSUME NEW new \in PatchRecord, Unlocked(new.session),
               patch' = [patch EXCEPT ![p] = new],
               new.at \in {"updating", "syncing"} =>
                   /\ new.stage # "complete"
                   /\ new.stage \in {"review", "test"} => Complete,
               UNCHANGED onlyPatch,
               agent' \in Agents, Unlocked(agent'.session),
               agent'.stage \in {"review", "test"} => Complete
        PROVE  Inv'
    <2>1. /\ patch' \in [Requests -> PatchRecord]
          /\ \A q \in Requests : Unlocked(patch'[q].session)
          /\ \A q \in Requests :
                 patch'[q].at \in {"updating", "syncing"} =>
                     /\ patch'[q].stage # "complete"
                     /\ patch'[q].stage \in {"review", "test"} => Complete
      BY <1>3, PatchUpdate
    <2>2. TypeOK'
      BY <1>3, <2>1 DEF Inv, TypeOK, onlyPatch, PatchRecord
    <2>3. SessionsAreUnlocked' /\ PatchIsAllowed'
      BY <1>3, <2>1 DEF Inv, SessionsAreUnlocked, PatchIsAllowed, Complete, onlyPatch
    <2>4. ReportIsEarned' /\ CheckHasSeen' /\ ReviewHasFiles'
      BY <1>3 DEF Inv, ReportIsEarned, CheckHasSeen, ReviewHasFiles, Complete, onlyPatch
    <2> QED
      BY <2>2, <2>3, <2>4 DEF Inv
  <1>4. agent.stage \in {"review", "test"} => Complete
    BY DEF Inv, ReviewHasFiles, Complete
  <1>5. CASE ReadAgent(p)
    <2>1. PICK stage \in Targets :
             patch' = [patch EXCEPT ![p] =
                          [at |-> "guarding", stage |-> stage, session |-> agent.session]]
      BY <1>5 DEF ReadAgent
    <2> DEFINE new == [at |-> "guarding", stage |-> stage, session |-> agent.session]
    <2>2. new \in PatchRecord /\ new.at = "guarding" /\ new.session = agent.session
      BY <1>2, TargetsAssumption DEF PatchRecord
    <2> HIDE DEF new
    <2>3. patch' = [patch EXCEPT ![p] = new]
      BY <2>1 DEF new
    <2>4. UNCHANGED <<agent, onlyPatch>>
      BY <1>5 DEF ReadAgent
    <2> QED
      BY <1>1, <1>2, <1>3, <1>4, <2>2, <2>3, <2>4
  <1>6. CASE Guard(p)
    <2>1. UNCHANGED <<agent, onlyPatch>>
      BY <1>6 DEF Guard
    <2>2. CASE Allows(row.stage)
      <3> DEFINE new == [row EXCEPT !.at = "updating"]
      <3>1. /\ new \in PatchRecord /\ new.stage = row.stage /\ new.session = row.session
        BY <1>1 DEF PatchRecord
      <3>2. patch' = [patch EXCEPT ![p] = new]
        BY <1>6, <2>2, <1>1 DEF Guard
      <3>3. row.stage # "complete" /\ (row.stage \in {"review", "test"} => Complete)
        BY <2>2 DEF Allows, Inv, ReportIsEarned
      <3> HIDE DEF new
      <3> QED
        BY <1>1, <1>2, <1>3, <1>4, <2>1, <3>1, <3>2, <3>3
    <2>3. CASE ~Allows(row.stage)
      <3>1. patch' = [patch EXCEPT ![p] = NoRequest("over")]
        BY <1>6, <2>3 DEF Guard
      <3> QED
        BY <1>1, <1>2, <1>3, <1>4, <2>1, <3>1, NoRequestType
    <2> QED
      BY <2>2, <2>3
  <1>7. CASE UpdateStage(p)
    <2> DEFINE new == [row EXCEPT !.at = "syncing"]
               after == [agent EXCEPT !.stage = row.stage]
    <2>1. /\ new \in PatchRecord /\ new.stage = row.stage /\ new.session = row.session
      BY <1>1 DEF PatchRecord
    <2>2. patch' = [patch EXCEPT ![p] = new] /\ UNCHANGED onlyPatch
      BY <1>7 DEF UpdateStage
    <2>3. row.stage # "complete" /\ (row.stage \in {"review", "test"} => Complete)
      BY <1>7 DEF UpdateStage, Inv, PatchIsAllowed
    <2>4. row.stage \in Stages
      BY <1>1 DEF PatchRecord
    <2>5. after \in Agents /\ after.stage = row.stage /\ after.session = agent.session
      BY <1>1, <2>4 DEF Agents
    <2>6. agent' = after
      BY <1>7 DEF UpdateStage
    <2> HIDE DEF new, after
    <2> QED
      BY <1>1, <1>2, <1>3, <2>1, <2>2, <2>3, <2>5, <2>6
  <1>8. CASE Sync(p)
    <2> DEFINE session == Synced(row.session, row.stage)
               after == [agent EXCEPT !.session = session]
    <2>1. row.stage \in Stages /\ row.session \in Sessions /\ row.stage # "complete"
      BY <1>1, <1>8 DEF PatchRecord, Sync, Inv, PatchIsAllowed
    <2>2. session \in Sessions /\ Unlocked(session)
      BY <1>1, <2>1, SyncedIsUnlocked
    <2>3. /\ patch' = [patch EXCEPT ![p] = NoRequest("over")] /\ UNCHANGED onlyPatch
          /\ agent' = after
      BY <1>8 DEF Sync
    <2> HIDE DEF session
    <2>4. after \in Agents /\ after.stage = agent.stage /\ after.session = session
      BY <1>1, <2>2 DEF Agents
    <2> HIDE DEF after
    <2> QED
      BY <1>3, <1>4, <2>2, <2>3, <2>4, NoRequestType
  <1> QED
    BY <1>5, <1>6, <1>7, <1>8
-----------------------------------------------------------------------------
(* What a build's step may change.                                         *)
LEMMA BuildUpdate ==
    ASSUME Inv, UNCHANGED onlyBuild,
           build' \in BuildRecord, Unlocked(build'.session),
           agent' \in Agents, Unlocked(agent'.session), agent'.stage = agent.stage,
           files' \in SUBSET Specialists, files \subseteq files',
           report' \in {"none"} \cup Verdicts,
           report' \in {"test-ready", "ship-ready"} => files' = Specialists,
           builds' \in 0..MaxBuilds
    PROVE  Inv'
  <1>1. TypeOK'
    BY DEF Inv, TypeOK, onlyBuild, BuildRecord
  <1>2. SessionsAreUnlocked'
    BY DEF Inv, SessionsAreUnlocked, onlyBuild
  <1>3. Complete => files' = Specialists
    BY DEF Complete
  <1>4. ReportIsEarned' /\ PatchIsAllowed' /\ CheckHasSeen' /\ ReviewHasFiles'
    BY <1>3 DEF Inv, ReportIsEarned, PatchIsAllowed, CheckHasSeen, ReviewHasFiles, Complete, onlyBuild
  <1> QED
    BY <1>1, <1>2, <1>4 DEF Inv

LEMMA BuildStep ==
    ASSUME Inv,
           \/ StartBuild \/ LoadSession \/ StoreSession \/ ReportBuild \/ BuildFails
           \/ \E sp \in Specialists : WriteFiles(sp)
    PROVE  Inv'
  <1>1. /\ build \in BuildRecord /\ Unlocked(build.session) /\ build.session \in Sessions
        /\ agent \in Agents /\ Unlocked(agent.session) /\ agent.session \in Sessions
        /\ files \in SUBSET Specialists /\ report \in {"none"} \cup Verdicts
        /\ report \in {"test-ready", "ship-ready"} => files = Specialists
        /\ builds \in 0..MaxBuilds
    BY DEF Inv, TypeOK, BuildRecord, Agents, SessionsAreUnlocked, ReportIsEarned, Complete
  <1>2. ASSUME NEW at \in {"idle", "loading", "storing", "working"},
               NEW status \in {"idle", "building", "failed", "done"} \cup Verdicts
        PROVE  LET b == [build EXCEPT !.at = at, !.status = status]
               IN  b \in BuildRecord /\ Unlocked(b.session)
    BY <1>1 DEF BuildRecord
  <1>3. CASE StartBuild
    <2>1. builds' \in 0..MaxBuilds
      BY <1>1, <1>3, MaxBuildsAssumption DEF StartBuild
    <2> QED
      BY <1>1, <1>2, <1>3, <2>1, BuildUpdate DEF StartBuild
  <1>4. CASE LoadSession
    <2> DEFINE b == [build EXCEPT !.at = "storing", !.session = agent.session]
    <2>1. b \in BuildRecord /\ b.session = agent.session
      BY <1>1 DEF BuildRecord
    <2>2. build' = b /\ UNCHANGED <<agent, files, report, builds, onlyBuild>>
      BY <1>4 DEF LoadSession
    <2> HIDE DEF b
    <2> QED
      BY <1>1, <2>1, <2>2, BuildUpdate
  <1>5. CASE StoreSession
    <2> DEFINE session == [build.session EXCEPT !.build = Saved]
               after == [agent EXCEPT !.session = session]
    <2>1. Saved \in {"idle", "building", "failed", "done"}
      BY <1>1 DEF Saved, BuildRecord, Verdicts
    <2>2. session \in Sessions /\ Unlocked(session)
      <3>1. session \in Sessions /\ session.dev = build.session.dev /\ session.max = build.session.max
        BY <1>1, <2>1 DEF Sessions
      <3> QED
        BY <1>1, <3>1 DEF Unlocked
    <2>3. agent' = after /\ build' = AfterSave /\ UNCHANGED <<files, report, builds, onlyBuild>>
      BY <1>5 DEF StoreSession
    <2> HIDE DEF session
    <2>4. after \in Agents /\ after.stage = agent.stage /\ after.session = session
      BY <1>1, <2>2 DEF Agents
    <2>5. AfterSave \in BuildRecord /\ Unlocked(AfterSave.session)
      <3>1. /\ [NoBuild EXCEPT !.at = "working"] \in BuildRecord
            /\ Unlocked([NoBuild EXCEPT !.at = "working"].session)
            /\ NoBuild \in BuildRecord /\ Unlocked(NoBuild.session)
        BY FreshIsUnlocked DEF NoBuild, BuildRecord
      <3>2. LET b == [NoBuild EXCEPT !.at = "loading", !.status = "done"]
            IN  b \in BuildRecord /\ Unlocked(b.session)
        BY NoBuildType
      <3> QED
        BY <3>1, <3>2 DEF AfterSave
    <2> HIDE DEF after
    <2> QED
      BY <1>1, <2>2, <2>3, <2>4, <2>5, BuildUpdate
  <1>6. CASE ReportBuild
    <2>1. PICK verdict \in Reportable :
             /\ report' \in {report, verdict}
             /\ build' = [build EXCEPT !.at = "loading", !.status = verdict]
      BY <1>6 DEF ReportBuild
    <2>2. verdict \in Verdicts /\ (verdict \in {"test-ready", "ship-ready"} => files = Specialists)
      BY DEF Reportable, Verdicts
    <2>3. build' \in BuildRecord /\ Unlocked(build'.session)
      BY <1>2, <2>1, <2>2
    <2>4. UNCHANGED <<agent, files, builds, onlyBuild>>
      BY <1>6 DEF ReportBuild
    <2> QED
      BY <1>1, <2>1, <2>2, <2>3, <2>4, BuildUpdate
  <1>7. CASE BuildFails
    BY <1>1, <1>2, <1>7, BuildUpdate DEF BuildFails
  <1>8. ASSUME NEW sp \in Specialists, WriteFiles(sp) PROVE Inv'
    BY <1>1, <1>8, BuildUpdate DEF WriteFiles
  <1> QED
    BY <1>3, <1>4, <1>5, <1>6, <1>7, <1>8

(* The check: what it has not found missing is there.                      *)
LEMMA CheckStep ==
    ASSUME Inv, BeginCheck \/ EndCheck \/ \E sp \in Specialists : CheckFiles(sp)
    PROVE  Inv'
  <1>1. ASSUME UNCHANGED onlyCheck, report' \in {"none"} \cup Verdicts,
               check' \in [at : {"idle", "reading"}, todo : SUBSET Specialists, missing : BOOLEAN],
               ReportIsEarned', CheckHasSeen'
        PROVE  Inv'
    <2>1. TypeOK'
      BY <1>1 DEF Inv, TypeOK, onlyCheck
    <2>2. SessionsAreUnlocked' /\ PatchIsAllowed' /\ ReviewHasFiles'
      BY <1>1 DEF Inv, SessionsAreUnlocked, PatchIsAllowed, ReviewHasFiles, Complete, onlyCheck
    <2> QED
      BY <1>1, <2>1, <2>2 DEF Inv
  <1>2. check \in [at : {"idle", "reading"}, todo : SUBSET Specialists, missing : BOOLEAN]
    BY DEF Inv, TypeOK
  <1>3. CASE BeginCheck
    BY <1>1, <1>3 DEF BeginCheck, Inv, TypeOK, ReportIsEarned, CheckHasSeen, Complete, onlyCheck
  <1>4. CASE EndCheck
    <2>1. report' \in {report, "ship-ready"} /\ (report' = "ship-ready" => report = "ship-ready" \/ ~check.missing)
      BY <1>4 DEF EndCheck
    <2>2. check.at = "reading" /\ check.todo = {} /\ check' = NoCheck /\ UNCHANGED onlyCheck
      BY <1>4 DEF EndCheck
    <2>3. ReportIsEarned'
      BY <2>1, <2>2 DEF Inv, TypeOK, ReportIsEarned, CheckHasSeen, Complete, onlyCheck
    <2>4. CheckHasSeen' /\ check' \in [at : {"idle", "reading"}, todo : SUBSET Specialists, missing : BOOLEAN]
      BY <2>2 DEF NoCheck, CheckHasSeen
    <2>5. report' \in {"none"} \cup Verdicts
      BY <2>1 DEF Inv, TypeOK, Verdicts
    <2> QED
      BY <1>1, <2>2, <2>3, <2>4, <2>5
  <1>5. ASSUME NEW sp \in Specialists, CheckFiles(sp) PROVE Inv'
    <2>1. PICK ok \in BOOLEAN :
             check' = [check EXCEPT !.todo = @ \ {sp}, !.missing = @ \/ ~ok \/ sp \notin files]
      BY <1>5 DEF CheckFiles
    <2>2. UNCHANGED <<report, onlyCheck>>
      BY <1>5 DEF CheckFiles
    <2>3. /\ check'.at = check.at /\ check'.todo = check.todo \ {sp}
          /\ ~check'.missing => ~check.missing /\ sp \in files
          /\ check' \in [at : {"idle", "reading"}, todo : SUBSET Specialists, missing : BOOLEAN]
      BY <1>2, <2>1
    <2>4. CheckHasSeen'
      BY <2>2, <2>3 DEF Inv, CheckHasSeen, onlyCheck
    <2>5. ReportIsEarned' /\ report' \in {"none"} \cup Verdicts
      BY <2>2 DEF Inv, TypeOK, ReportIsEarned, Complete, onlyCheck
    <2> QED
      BY <1>1, <2>2, <2>3, <2>4, <2>5
  <1> QED
    BY <1>3, <1>4, <1>5

LEMMA AsideStep ==
    ASSUME Inv, Ship \/ RecordEval \/ Restart \/ UNCHANGED vars
    PROVE  Inv'
  <1>1. CASE Ship
    <2>1. /\ agent' \in Agents /\ agent'.session = agent.session /\ agent'.stage = "complete"
      BY <1>1 DEF Ship, Inv, TypeOK, Agents, Stages
    <2>2. UNCHANGED <<passing, patch, inBuild>>
      BY <1>1 DEF Ship
    <2>3. TypeOK' /\ ReviewHasFiles'
      BY <2>1, <2>2 DEF Inv, TypeOK, ReviewHasFiles, inBuild
    <2>4. SessionsAreUnlocked' /\ ReportIsEarned' /\ PatchIsAllowed' /\ CheckHasSeen'
      BY <2>1, <2>2 DEF Inv, SessionsAreUnlocked, ReportIsEarned, PatchIsAllowed, CheckHasSeen,
                        Complete, inBuild
    <2> QED
      BY <2>3, <2>4 DEF Inv
  <1>2. CASE RecordEval \/ UNCHANGED vars
    <2>1. UNCHANGED <<agent, files, report, patch, build, builds, check>> /\ passing' \in BOOLEAN
      BY <1>2 DEF RecordEval, inBuild, vars, Inv, TypeOK
    <2>2. TypeOK' /\ ReviewHasFiles'
      BY <2>1 DEF Inv, TypeOK, ReviewHasFiles
    <2>3. SessionsAreUnlocked' /\ ReportIsEarned' /\ PatchIsAllowed' /\ CheckHasSeen'
      BY <2>1 DEF Inv, SessionsAreUnlocked, ReportIsEarned, PatchIsAllowed, CheckHasSeen, Complete
    <2> QED
      BY <2>2, <2>3 DEF Inv
  <1>3. CASE Restart
    <2>1. \A p \in Requests : patch[p] \in PatchRecord
      BY DEF Inv, TypeOK, PatchRecord
    <2>2. patch' \in [Requests -> PatchRecord]
      BY <1>3, <2>1, NoRequestType DEF Restart
    <2>3. \A p \in Requests : /\ Unlocked(patch'[p].session)
                              /\ patch'[p].at \notin {"updating", "syncing"}
      BY <1>3, NoRequestType DEF Restart, Inv, SessionsAreUnlocked
    <2>4. /\ build' = NoBuild /\ NoBuild \in BuildRecord /\ Unlocked(NoBuild.session)
          /\ check' = NoCheck /\ UNCHANGED <<agent, files, report, passing, builds>>
      BY <1>3, FreshIsUnlocked DEF Restart, NoBuild, BuildRecord
    <2> HIDE DEF NoBuild
    <2>5. TypeOK'
      BY <2>2, <2>4 DEF Inv, TypeOK, PatchRecord, BuildRecord, NoCheck
    <2>6. SessionsAreUnlocked' /\ PatchIsAllowed'
      BY <2>3, <2>4 DEF Inv, SessionsAreUnlocked, PatchIsAllowed
    <2>7. ReportIsEarned' /\ CheckHasSeen' /\ ReviewHasFiles'
      BY <2>4 DEF Inv, ReportIsEarned, CheckHasSeen, ReviewHasFiles, Complete, NoCheck
    <2> QED
      BY <2>5, <2>6, <2>7 DEF Inv
  <1> QED
    BY <1>1, <1>2, <1>3
-----------------------------------------------------------------------------
THEOREM Invariance == Spec => []Inv
  <1>1. Inv /\ [Next]_vars => Inv'
    BY PatchStep, BuildStep, CheckStep, AsideStep DEF Next
  <1> QED
    BY <1>1, InitInv, PTL DEF Spec

(* Every variable keeps its type.                                          *)
THEOREM TypeCorrect == Spec => []TypeOK
  <1>1. Inv => TypeOK
    BY DEF Inv
  <1> QED
    BY <1>1, Invariance, PTL

(* An agent in review or test has every specialist's files, whichever of   *)
(* the two reports the guard read, and when.                               *)
THEOREM ReviewHasFilesAlways == Spec => []ReviewHasFiles
  <1>1. Inv => ReviewHasFiles
    BY DEF Inv
  <1> QED
    BY <1>1, Invariance, PTL

(* No write-back of a session locks its stage.                             *)
THEOREM StageIsUnlockedAlways == Spec => []StageIsUnlocked
  <1>1. Inv => StageIsUnlocked
    BY DEF Inv, SessionsAreUnlocked, Unlocked, StageIsUnlocked
  <1> QED
    BY <1>1, Invariance, PTL
=============================================================================
