------------------------ MODULE ForgeProvisionProofs ------------------------
(***************************************************************************)
(* For any set of streams: the agent and its clients only know sandboxes   *)
(* with a row, and a container without a row nobody works at was left by   *)
(* the watchdog, a store or a restart.                                     *)
(*                                                                         *)
(* The argument follows one stream through its handler: until its row is   *)
(* saved nobody has heard of it, from there to the end it has its row      *)
(* unless somebody deleted it, and its container comes up only once.       *)
(***************************************************************************)
EXTENDS ForgeProvision, TLAPS

Before == {"idle", "create"}
Early == Before \cup Boot \cup Tail \cup {"saving"}
Kept == {"linking", "approval", "marking", "finish"}

SavedOrDeleted(s) == s \in row \/ box[s] = "deleted"

Known(s) ==
    \/ agent.forge = s \/ s \in agent.ids \/ s \in told
    \/ promotion.forge = s \/ s \in promotion.ids

FreshIsIdle ==
    \A s \in Streams : /\ entry[s] \in {"none", "pending"} => handler[s].at = "idle"
                       /\ poster[s] = "clearing" => entry[s] = "none"

ReadHasForge == promotion.at = "read" => promotion.forge # None

ComesUpOnce == \A s \in Streams : handler[s].at \in Before => box[s] # "up"

KeptIsSaved == \A s \in Streams : handler[s].at \in Kept => SavedOrDeleted(s)

KnownIsSaved == \A s \in Streams : Known(s) => SavedOrDeleted(s) /\ handler[s].at \notin Early

Inv ==
    /\ TypeOK
    /\ FreshIsIdle
    /\ ReadHasForge
    /\ ComesUpOnce
    /\ KeptIsSaved
    /\ KnownIsSaved
    /\ NothingLeaks

USE DEF Boot, Tail, Generating, Working, Over

-----------------------------------------------------------------------------
LEMMA InitInv == Init => Inv
  <1> SUFFICES ASSUME Init PROVE Inv
    OBVIOUS
  <1>1. TypeOK
    BY DEF Init, TypeOK, Handlers, Agents
  <1>2. FreshIsIdle /\ ReadHasForge /\ ComesUpOnce /\ KeptIsSaved /\ NothingLeaks
    BY DEF Init, ReadHasForge, FreshIsIdle, ComesUpOnce, KeptIsSaved, NothingLeaks, Before, Kept
  <1>3. KnownIsSaved
    BY StreamsAssumption DEF Init, KnownIsSaved, Known
  <1> QED
    BY <1>1, <1>2, <1>3 DEF Inv

(***************************************************************************)
(* Types.                                                                  *)
(***************************************************************************)
Statuses == {"none", "pending", "running", "done", "error", "lost"}

LEMMA GotoType ==
    ASSUME TypeOK, NEW s \in Streams, NEW where \in {"idle"} \cup Working \cup Over, Goto(s, where)
    PROVE  /\ handler' \in [Streams -> Handlers]
           /\ handler'[s].at = where
           /\ \A q \in Streams : q # s => handler'[q] = handler[q]
  BY DEF TypeOK, Goto, Handlers

LEMMA LeaveType ==
    ASSUME TypeOK, NEW s \in Streams, NEW how \in Over, NEW status \in Statuses, Leave(s, how, status)
    PROVE  /\ handler' \in [Streams -> Handlers]
           /\ handler'[s].at = how
           /\ \A q \in Streams : q # s => handler'[q] = handler[q]
           /\ entry' \in [Streams -> Statuses]
  <1>1. Goto(s, how) /\ entry' = [entry EXCEPT ![s] = status]
    BY DEF Leave
  <1>2. entry' \in [Streams -> Statuses]
    BY <1>1 DEF TypeOK, Statuses
  <1> QED
    BY <1>1, <1>2, GotoType
(***************************************************************************)
(* A handler that moves on while rows, containers and links stay.          *)
(***************************************************************************)
Sane(s) ==
    /\ handler'[s].at \in Early => handler[s].at \in Early
    /\ handler'[s].at \in Kept => handler[s].at \in Kept
    /\ handler'[s].at \in Before => handler[s].at \in Before
    /\ handler'[s].at \in {"ended", "failed"} /\ box[s] = "up" => s \in row

LEMMA MoveInv ==
    ASSUME Inv, TypeOK', NEW s \in Streams,
           \A q \in Streams : q # s => handler'[q] = handler[q],
           Sane(s) \/ handler'[s].at = handler[s].at,
           UNCHANGED <<box, row, told, agent, promotion>>, FreshIsIdle'
    PROVE  Inv'
  <1>1. ReadHasForge' /\ ComesUpOnce'
    BY DEF Inv, ReadHasForge, ComesUpOnce, Sane
  <1>2. KeptIsSaved'
    BY DEF Inv, KeptIsSaved, Sane, SavedOrDeleted
  <1>3. KnownIsSaved'
    BY DEF Inv, KnownIsSaved, Sane, SavedOrDeleted, Known
  <1>4. NothingLeaks'
    <2> SUFFICES ASSUME NEW q \in Streams, box[q] = "up", q \notin row
                 PROVE  handler'[q].at \in Working \cup {"broke", "threw", "lost"}
      BY DEF NothingLeaks
    <2>1. handler[q].at \in Working \cup {"broke", "threw", "lost"}
      BY DEF Inv, NothingLeaks
    <2>2. handler'[q] \in Handlers
      BY DEF TypeOK
    <2>3. handler'[q].at # "idle"
      BY <2>1 DEF Sane, Inv, ComesUpOnce, Before
    <2>4. handler'[q].at \notin {"ended", "failed"}
      BY <2>1 DEF Sane
    <2> QED
      BY <2>2, <2>3, <2>4 DEF Handlers
  <1> QED
    BY <1>1, <1>2, <1>3, <1>4 DEF Inv

(* What a handler does to the entries: its own, which it has, stays used.  *)
EntryMoves(s) ==
    /\ entry[s] # "none"
    /\ entry'[s] \notin {"none", "pending"}
    /\ \A q \in Streams : q # s => entry'[q] = entry[q]

LEMMA GoInv ==
    ASSUME Inv, NEW s \in Streams, NEW where \in {"idle"} \cup Working \cup Over, Goto(s, where),
           entry' \in [Streams -> Statuses], UNCHANGED <<box, outside>>,
           where # "idle", EntryMoves(s),
           where \in Early => handler[s].at \in Early,
           where \in Kept => handler[s].at \in Kept,
           where \in Before => handler[s].at \in Before,
           where \in {"ended", "failed"} /\ box[s] = "up" => s \in row
    PROVE  Inv'
  <1>1. /\ handler' \in [Streams -> Handlers]
        /\ handler'[s].at = where
        /\ \A q \in Streams : q # s => handler'[q] = handler[q]
    BY GotoType DEF Inv
  <1>2. TypeOK'
    BY <1>1 DEF Inv, TypeOK, outside, rest, Statuses
  <1>3. Sane(s)
    BY <1>1 DEF Sane
  <1>4. FreshIsIdle'
    BY <1>1 DEF Inv, FreshIsIdle, EntryMoves, outside, rest
  <1> QED
    BY <1>1, <1>2, <1>3, <1>4, MoveInv DEF outside, rest

LEMMA LeaveInv ==
    ASSUME Inv, NEW s \in Streams, NEW how \in Over, NEW status \in Statuses,
           status \notin {"none", "pending"}, handler[s].at # "idle",
           Leave(s, how, status), UNCHANGED <<box, outside>>,
           how \in {"ended", "failed"} /\ box[s] = "up" => s \in row
    PROVE  Inv'
  <1>1. Goto(s, how) /\ entry' \in [Streams -> Statuses]
    BY LeaveType DEF Leave, Inv
  <1>2. how \notin Early \cup Kept \cup Before
    BY DEF Early, Kept, Before
  <1>3. EntryMoves(s)
    BY DEF Leave, Inv, TypeOK, EntryMoves, FreshIsIdle
  <1> QED
    BY <1>1, <1>2, <1>3, GoInv

LEMMA WorkMoves ==
    ASSUME Inv, NEW s \in Streams,
           \/ Start(s) \/ Abandon(s) \/ CreateFails(s)
           \/ Install(s) \/ Onboard(s) \/ Configure(s) \/ StartGateway(s)
           \/ InstallSkills(s) \/ InstallSoul(s) \/ YieldResult(s) \/ StoreFails(s)
           \/ DeviceApproved(s) \/ MarkApproved(s) \/ Finish(s) \/ NobodyApproves(s)
    PROVE  Inv'
  <1> USE DEF Early, Before, Kept
  <1>1. TypeOK /\ entry \in [Streams -> Statuses]
    BY DEF Inv, TypeOK, Statuses
  <1>a. handler[s].at # "idle" /\ UNCHANGED entry => EntryMoves(s)
    BY DEF Inv, FreshIsIdle, EntryMoves
  <1>2. CASE Start(s)
    <2>1. Goto(s, "create") /\ entry' = [entry EXCEPT ![s] = "running"] /\ UNCHANGED <<box, outside>>
      BY <1>2 DEF Start
    <2>2. handler[s].at = "idle"
      BY <1>2 DEF Start, Inv, FreshIsIdle
    <2>3. entry' \in [Streams -> Statuses] /\ EntryMoves(s)
      BY <1>1, <1>2, <2>1 DEF Statuses, EntryMoves, Start
    <2> QED
      BY <2>1, <2>2, <2>3, GoInv
  <1>3. CASE Abandon(s)
    BY <1>3, LeaveInv DEF Abandon, Statuses
  <1>4. CASE CreateFails(s)
    <2>1. box[s] # "up"
      BY <1>4 DEF CreateFails, At, Inv, ComesUpOnce
    <2> QED
      BY <1>4, <2>1, LeaveInv DEF CreateFails, At, Statuses
  <1>5. ASSUME NEW a \in Boot, NEW b \in Boot \cup Tail, BootStep(s, a, b) PROVE Inv'
    BY <1>1, <1>a, <1>5, GoInv DEF BootStep, At
  <1>6. ASSUME NEW a \in Tail, NEW b \in Tail, TailStep(s, a, b) PROVE Inv'
    BY <1>1, <1>a, <1>6, GoInv DEF TailStep, At
  <1>7. CASE YieldResult(s)
    <2>1. /\ handler' \in [Streams -> Handlers]
          /\ handler'[s].at = "saving" /\ handler[s].at = "pairing"
          /\ \A q \in Streams : q # s => handler'[q] = handler[q]
      <3>1. handler[s] \in Handlers /\ handler \in [Streams -> Handlers]
        BY <1>1 DEF TypeOK
      <3>2. [handler[s] EXCEPT !.at = "saving", !.completed = TRUE] \in Handlers
        BY <3>1 DEF Handlers
      <3> QED
        BY <1>7, <3>1, <3>2 DEF YieldResult, At
    <2>2. TypeOK'
      BY <1>7, <2>1 DEF Inv, TypeOK, YieldResult, outside, rest
    <2>3. Sane(s)
      BY <2>1 DEF Sane
    <2>4. FreshIsIdle'
      BY <1>7, <2>1 DEF Inv, FreshIsIdle, YieldResult, outside, rest
    <2> QED
      BY <1>7, <2>1, <2>2, <2>3, <2>4, MoveInv DEF YieldResult, outside, rest
  <1>8. CASE StoreFails(s)
    BY <1>8, LeaveInv DEF StoreFails, Statuses
  <1>9. CASE DeviceApproved(s)
    BY <1>1, <1>a, <1>9, GoInv DEF DeviceApproved, At
  <1>10. CASE MarkApproved(s)
    <2>1. Goto(s, "finish") /\ handler[s].at = "marking" /\ UNCHANGED <<box, outside>>
      BY <1>10 DEF MarkApproved, At
    <2>2. entry' \in [Streams -> Statuses] /\ EntryMoves(s)
      BY <1>1, <1>10 DEF MarkApproved, Statuses, EntryMoves, Inv, FreshIsIdle, At
    <2> QED
      BY <2>1, <2>2, GoInv
  <1>11. CASE Finish(s) \/ NobodyApproves(s)
    <2>1. handler[s].at \in Kept /\ Leave(s, "ended", "done") /\ UNCHANGED <<box, outside>>
      BY <1>11 DEF Finish, NobodyApproves, At
    <2>2. box[s] = "up" => s \in row
      BY <2>1 DEF Inv, KeptIsSaved, SavedOrDeleted
    <2> QED
      BY <2>1, <2>2, LeaveInv DEF Statuses
  <1> QED
    BY <1>2, <1>3, <1>4, <1>5, <1>6, <1>7, <1>8, <1>9, <1>10, <1>11
    DEF Install, Onboard, Configure, StartGateway, InstallSkills, InstallSoul

(* The watchdog, and a request that closes.                                *)
LEMMA AsideMoves ==
    ASSUME Inv, NEW s \in Streams, Stall(s) \/ Close(s)
    PROVE  Inv'
  <1>1. /\ handler' \in [Streams -> Handlers]
        /\ handler'[s].at = handler[s].at
        /\ \A q \in Streams : q # s => handler'[q] = handler[q]
    <2>1. handler[s] \in Handlers /\ handler \in [Streams -> Handlers]
      BY DEF Inv, TypeOK
    <2>2. /\ [handler[s] EXCEPT !.stalled = TRUE] \in Handlers
          /\ [handler[s] EXCEPT !.closed = TRUE] \in Handlers
      BY <2>1 DEF Handlers
    <2>3. CASE Stall(s)
      BY <2>1, <2>2, <2>3 DEF Stall, Handlers
    <2>4. CASE Close(s)
      BY <2>1, <2>2, <2>4 DEF Close, Handlers
    <2> QED
      BY <2>3, <2>4
  <1>2. hook' \in SUBSET Streams
    BY DEF Stall, Close, Inv, TypeOK, outside
  <1>3. UNCHANGED <<entry, box, row, told, agent, poster, promotion, discard>>
    BY DEF Stall, Close, outside, rest
  <1>4. TypeOK'
    BY <1>1, <1>2, <1>3 DEF Inv, TypeOK
  <1>5. FreshIsIdle'
    BY <1>1, <1>3 DEF Inv, FreshIsIdle
  <1> QED
    BY <1>1, <1>3, <1>4, <1>5, MoveInv

(***************************************************************************)
(* The container, the row and the link.                                    *)
(***************************************************************************)
LEMMA CreateBoxInv ==
    ASSUME Inv, NEW s \in Streams, CreateBox(s)
    PROVE  Inv'
  <1>1. /\ handler' \in [Streams -> Handlers]
        /\ handler'[s].at \in {"broke", "install"} /\ handler[s].at = "create"
        /\ \A q \in Streams : q # s => handler'[q] = handler[q]
        /\ entry' \in [Streams -> Statuses] /\ EntryMoves(s)
    <2>1. CASE handler[s].stalled
      <3>1. Leave(s, "broke", "done") /\ handler[s].at = "create"
        BY <2>1 DEF CreateBox, At
      <3>2. EntryMoves(s)
        BY <3>1 DEF Leave, Inv, TypeOK, EntryMoves, FreshIsIdle
      <3> QED
        BY <3>1, <3>2, LeaveType DEF Inv, Statuses
    <2>2. CASE ~handler[s].stalled
      <3>1. handler[s] \in Handlers /\ handler \in [Streams -> Handlers]
        BY DEF Inv, TypeOK
      <3>2. [handler[s] EXCEPT !.at = "install", !.named = TRUE] \in Handlers
        BY <3>1 DEF Handlers
      <3>3. handler[s].at = "create" /\ UNCHANGED entry
        BY <2>2 DEF CreateBox, At
      <3>4. EntryMoves(s)
        BY <3>3 DEF Inv, FreshIsIdle, EntryMoves
      <3>5. handler' = [handler EXCEPT ![s] = [handler[s] EXCEPT !.at = "install", !.named = TRUE]]
        BY <2>2, <3>1 DEF CreateBox
      <3>6. entry' \in [Streams -> Statuses]
        BY <3>3 DEF Inv, TypeOK, Statuses
      <3>7. [handler[s] EXCEPT !.at = "install", !.named = TRUE].at = "install"
        BY <3>1 DEF Handlers
      <3> HIDE DEF Handlers
      <3>8. handler' \in [Streams -> Handlers]
        BY <3>1, <3>2, <3>5
      <3>9. handler'[s].at = "install" /\ \A q \in Streams : q # s => handler'[q] = handler[q]
        BY <3>1, <3>5, <3>7
      <3> QED
        BY <3>3, <3>4, <3>6, <3>8, <3>9
    <2> QED
      BY <2>1, <2>2
  <1>2. box' = [box EXCEPT ![s] = "up"] /\ UNCHANGED <<row, told, hook, agent, poster, promotion, discard>>
    BY DEF CreateBox, outside, rest
  <1>3. TypeOK'
    BY <1>1, <1>2 DEF Inv, TypeOK, Statuses
  <1>4. ~Known(s)
    BY <1>1 DEF Inv, KnownIsSaved, Early, Before
  <1>5. \A q \in Streams : q # s => box'[q] = box[q]
    BY <1>2 DEF Inv, TypeOK
  <1>6. FreshIsIdle' /\ ReadHasForge' /\ ComesUpOnce'
    BY <1>1, <1>2, <1>5 DEF Inv, ReadHasForge, FreshIsIdle, EntryMoves, ComesUpOnce, Before
  <1>7. KeptIsSaved'
    BY <1>1, <1>2, <1>5 DEF Inv, KeptIsSaved, Kept, SavedOrDeleted
  <1>8. KnownIsSaved'
    BY <1>1, <1>2, <1>4, <1>5 DEF Inv, KnownIsSaved, Known, SavedOrDeleted
  <1>9. NothingLeaks'
    BY <1>1, <1>2, <1>5 DEF Inv, NothingLeaks
  <1> QED
    BY <1>3, <1>6, <1>7, <1>8, <1>9 DEF Inv

LEMMA RequiredStepFailsInv ==
    ASSUME Inv, NEW s \in Streams, RequiredStepFails(s)
    PROVE  Inv'
  <1>1. /\ handler' \in [Streams -> Handlers]
        /\ handler'[s].at \in {"broke", "failed"} /\ handler[s].at \in Boot
        /\ \A q \in Streams : q # s => handler'[q] = handler[q]
        /\ entry' \in [Streams -> Statuses] /\ EntryMoves(s)
    <2>1. PICK how \in {"broke", "failed"}, status \in {"done", "error"} : Leave(s, how, status)
      BY DEF RequiredStepFails
    <2>2. EntryMoves(s)
      BY <2>1 DEF Leave, Inv, TypeOK, EntryMoves, FreshIsIdle, RequiredStepFails
    <2> QED
      BY <2>1, <2>2, LeaveType DEF RequiredStepFails, Inv, Statuses
  <1>2. box' = [box EXCEPT ![s] = "gone"] /\ UNCHANGED <<row, told, hook, agent, poster, promotion, discard>>
    BY DEF RequiredStepFails, outside, rest
  <1>3. TypeOK'
    BY <1>1, <1>2 DEF Inv, TypeOK, Statuses
  <1>4. ~Known(s)
    BY <1>1 DEF Inv, KnownIsSaved, Early
  <1>5. /\ \A q \in Streams : q # s => box'[q] = box[q]
        /\ box'[s] = "gone"
    BY <1>2 DEF Inv, TypeOK
  <1>6. FreshIsIdle' /\ ReadHasForge' /\ ComesUpOnce'
    BY <1>1, <1>2, <1>5 DEF Inv, ReadHasForge, FreshIsIdle, EntryMoves, ComesUpOnce, Before
  <1>7. KeptIsSaved'
    BY <1>1, <1>2, <1>5 DEF Inv, KeptIsSaved, Kept, SavedOrDeleted
  <1>8. KnownIsSaved'
    BY <1>1, <1>2, <1>4, <1>5 DEF Inv, KnownIsSaved, Known, SavedOrDeleted
  <1>9. NothingLeaks'
    BY <1>1, <1>2, <1>5 DEF Inv, NothingLeaks
  <1> QED
    BY <1>3, <1>6, <1>7, <1>8, <1>9 DEF Inv

LEMMA SaveRowInv ==
    ASSUME Inv, NEW s \in Streams, SaveRow(s)
    PROVE  Inv'
  <1>1. /\ handler' \in [Streams -> Handlers]
        /\ handler'[s].at = "linking" /\ handler[s].at = "saving"
        /\ \A q \in Streams : q # s => handler'[q] = handler[q]
    BY GotoType DEF SaveRow, At, Inv
  <1>2. row' = row \cup {s} /\ UNCHANGED <<entry, box, told, hook, agent, poster, promotion, discard>>
    BY DEF SaveRow, rest
  <1>3. TypeOK'
    BY <1>1, <1>2 DEF Inv, TypeOK
  <1>4. FreshIsIdle' /\ ReadHasForge' /\ ComesUpOnce'
    BY <1>1, <1>2 DEF Inv, ReadHasForge, FreshIsIdle, ComesUpOnce, Before
  <1>5. KeptIsSaved'
    BY <1>1, <1>2 DEF Inv, KeptIsSaved, SavedOrDeleted
  <1>6. KnownIsSaved'
    BY <1>1, <1>2 DEF Inv, KnownIsSaved, Known, SavedOrDeleted, Early, Before
  <1>7. NothingLeaks'
    BY <1>1, <1>2 DEF Inv, NothingLeaks
  <1> QED
    BY <1>3, <1>4, <1>5, <1>6, <1>7 DEF Inv

LEMMA LinkInv ==
    ASSUME Inv, NEW s \in Streams, Link(s)
    PROVE  Inv'
  <1>1. /\ handler' \in [Streams -> Handlers]
        /\ handler'[s].at = "approval" /\ handler[s].at = "linking"
        /\ \A q \in Streams : q # s => handler'[q] = handler[q]
    BY GotoType DEF Link, At, Inv
  <1>2. UNCHANGED <<entry, box, row, hook, poster, promotion, discard>>
    BY DEF Link, rest
  <1>3. /\ agent' \in Agents /\ told' \in SUBSET Streams
        /\ \A q \in Streams : (agent'.forge = q \/ q \in agent'.ids \/ q \in told') =>
               agent.forge = q \/ q \in agent.ids \/ q \in told \/ q = s
    BY DEF Link, Linked, Inv, TypeOK, Agents
  <1>4. TypeOK'
    BY <1>1, <1>2, <1>3 DEF Inv, TypeOK
  <1>5. FreshIsIdle' /\ ReadHasForge' /\ ComesUpOnce' /\ KeptIsSaved'
    BY <1>1, <1>2 DEF Inv, ReadHasForge, FreshIsIdle, ComesUpOnce, KeptIsSaved, SavedOrDeleted, Before, Kept
  <1>6. KnownIsSaved'
    <2> SUFFICES ASSUME NEW q \in Streams, Known(q)'
                 PROVE  SavedOrDeleted(q) /\ handler'[q].at \notin Early
      BY <1>2 DEF KnownIsSaved, SavedOrDeleted
    <2>1. CASE q = s
      BY <1>1, <2>1 DEF Inv, KeptIsSaved, Kept, Early, Before
    <2>2. CASE q # s
      BY <1>1, <1>2, <1>3, <2>2 DEF Inv, KnownIsSaved, Known
    <2> QED
      BY <2>1, <2>2
  <1>7. NothingLeaks'
    BY <1>1, <1>2 DEF Inv, NothingLeaks
  <1> QED
    BY <1>4, <1>5, <1>6, <1>7 DEF Inv


LEMMA HookRemovesInv ==
    ASSUME Inv, NEW s \in Streams, HookRemoves(s)
    PROVE  Inv'
  <1>1. /\ box' \in [Streams -> {"absent", "up", "gone", "hooked", "deleted"}]
        /\ \A q \in Streams : /\ box'[q] = "up" => box[q] = "up"
                              /\ box[q] = "deleted" => box'[q] = "deleted"
    BY DEF HookRemoves, Inv, TypeOK
  <1>2. hook' \in SUBSET Streams /\ UNCHANGED <<entry, handler, row, told, agent, rest>>
    BY DEF HookRemoves, Inv, TypeOK
  <1>3. TypeOK'
    BY <1>1, <1>2 DEF Inv, TypeOK, rest
  <1>4. FreshIsIdle' /\ ReadHasForge' /\ ComesUpOnce' /\ NothingLeaks'
    BY <1>1, <1>2 DEF Inv, ReadHasForge, FreshIsIdle, ComesUpOnce, NothingLeaks, rest
  <1>5. KeptIsSaved' /\ KnownIsSaved'
    BY <1>1, <1>2 DEF Inv, KeptIsSaved, KnownIsSaved, Known, SavedOrDeleted, rest
  <1> QED
    BY <1>3, <1>4, <1>5 DEF Inv

(***************************************************************************)
(* The other requests.                                                     *)
(***************************************************************************)
(* They make no sandbox known, and a sandbox they remove is deleted.       *)
LEMMA OutsideInv ==
    ASSUME Inv, TypeOK', FreshIsIdle', ReadHasForge', UNCHANGED handler,
           \A q \in Streams : Known(q)' => Known(q),
           \A q \in Streams : /\ box'[q] \in {box[q], "deleted"}
                              /\ q \in row => q \in row' \/ box'[q] = "deleted"
    PROVE  Inv'
  <1>1. \A q \in Streams : SavedOrDeleted(q) => SavedOrDeleted(q)'
    BY DEF SavedOrDeleted
  <1>2. ComesUpOnce' /\ NothingLeaks'
    BY DEF Inv, ComesUpOnce, NothingLeaks
  <1>3. KeptIsSaved' /\ KnownIsSaved'
    BY <1>1 DEF Inv, KeptIsSaved, KnownIsSaved
  <1> QED
    BY <1>2, <1>3 DEF Inv

LEMMA RequestInv ==
    ASSUME Inv, NEW s \in Streams,
           AskForge(s) \/ ClearForge(s) \/ DeleteSandbox(s) \/ DiscardSandbox(s)
    PROVE  Inv'
  <1>1. CASE AskForge(s)
    <2>1. entry' \in [Streams -> Statuses] /\ poster' \in [Streams -> {"idle", "clearing"}]
      BY <1>1 DEF AskForge, Inv, TypeOK, Statuses
    <2>2. UNCHANGED <<box, row, agent, promotion, discard, handler, told, hook>>
      BY <1>1 DEF AskForge, inside
    <2>3. TypeOK'
      BY <2>1, <2>2 DEF Inv, TypeOK, Statuses
    <2>4. FreshIsIdle' /\ ReadHasForge'
      BY <1>1, <2>2 DEF AskForge, Inv, TypeOK, FreshIsIdle, ReadHasForge
    <2>5. \A q \in Streams : Known(q)' => Known(q)
      BY <2>2 DEF Known
    <2> QED
      BY <2>2, <2>3, <2>4, <2>5, OutsideInv
  <1>2. CASE ClearForge(s)
    <2>1. entry' \in [Streams -> Statuses] /\ poster' \in [Streams -> {"idle", "clearing"}]
      BY <1>2 DEF ClearForge, Inv, TypeOK, Statuses
    <2>2. UNCHANGED <<box, row, promotion, discard, handler, told, hook>>
      BY <1>2 DEF ClearForge, inside
    <2>3. agent' \in Agents /\ agent'.forge = None /\ agent'.ids = agent.ids
      BY <1>2 DEF ClearForge, Inv, TypeOK, Agents
    <2>4. TypeOK'
      BY <2>1, <2>2, <2>3 DEF Inv, TypeOK, Statuses
    <2>5. FreshIsIdle' /\ ReadHasForge'
      BY <1>2, <2>2 DEF ClearForge, Inv, TypeOK, FreshIsIdle, ReadHasForge
    <2>6. \A q \in Streams : Known(q)' => Known(q)
      BY <2>2, <2>3, StreamsAssumption DEF Known
    <2> QED
      BY <2>2, <2>4, <2>5, <2>6, OutsideInv
  <1>3. CASE DeleteSandbox(s) \/ DiscardSandbox(s)
    <2>1. Remove(s) /\ UNCHANGED <<entry, handler, told, hook, poster, promotion>>
      BY <1>3 DEF DeleteSandbox, DiscardSandbox, rest, inside
    <2>2. agent' \in Agents /\ agent'.forge = agent.forge /\ agent'.ids \subseteq agent.ids
      BY <1>3 DEF DeleteSandbox, DiscardSandbox, Inv, TypeOK, Agents
    <2>3. discard' \in [at : {"idle", "removing", "answered"}, todo : SUBSET Streams]
      BY <1>3 DEF DeleteSandbox, DiscardSandbox, rest, Inv, TypeOK
    <2>4. /\ row' \in SUBSET Streams
          /\ box' \in [Streams -> {"absent", "up", "gone", "hooked", "deleted"}]
          /\ \A q \in Streams : /\ box'[q] \in {box[q], "deleted"}
                                /\ q \in row => q \in row' \/ box'[q] = "deleted"
      BY <2>1 DEF Remove, Inv, TypeOK
    <2>5. TypeOK'
      BY <2>1, <2>2, <2>3, <2>4 DEF Inv, TypeOK
    <2>6. FreshIsIdle' /\ ReadHasForge'
      BY <2>1 DEF Inv, FreshIsIdle, ReadHasForge
    <2>7. \A q \in Streams : Known(q)' => Known(q)
      BY <2>1, <2>2 DEF Known
    <2> QED
      BY <2>1, <2>4, <2>5, <2>6, <2>7, OutsideInv
  <1> QED
    BY <1>1, <1>2, <1>3

LEMMA AgentInv ==
    ASSUME Inv, ReadForPromotion \/ Promote \/ ReadForDiscard \/ DiscardAgent
    PROVE  Inv'
  <1>1. UNCHANGED <<entry, handler, box, row, told, hook, poster>>
    BY DEF ReadForPromotion, Promote, ReadForDiscard, DiscardAgent, inside
  <1>2. agent' \in Agents
    <2>1. agent \in Agents /\ promotion \in [at : {"idle", "read"}, forge : Streams \cup {None}, ids : SUBSET Streams]
      BY DEF Inv, TypeOK
    <2>2. CASE Promote
      <3>1. promotion.at = "read" /\ promotion.forge \in Streams
        BY <2>1, <2>2, StreamsAssumption DEF Promote, Inv, ReadHasForge
      <3> QED
        BY <2>1, <2>2, <3>1 DEF Promote, Agents
    <2>3. CASE ReadForPromotion \/ ReadForDiscard
      BY <2>1, <2>3 DEF ReadForPromotion, ReadForDiscard
    <2>4. CASE DiscardAgent
      BY <2>4 DEF DiscardAgent, Agents
    <2> QED
      BY <2>2, <2>3, <2>4
  <1>3. promotion' \in [at : {"idle", "read"}, forge : Streams \cup {None}, ids : SUBSET Streams]
    BY DEF ReadForPromotion, Promote, ReadForDiscard, DiscardAgent, Inv, TypeOK, Agents
  <1>4. discard' \in [at : {"idle", "removing", "answered"}, todo : SUBSET Streams]
    BY DEF ReadForPromotion, Promote, ReadForDiscard, DiscardAgent, Inv, TypeOK, Agents
  <1>5. TypeOK'
    BY <1>1, <1>2, <1>3, <1>4 DEF Inv, TypeOK
  <1>6. FreshIsIdle' /\ ReadHasForge'
    BY <1>1 DEF Inv, FreshIsIdle, ReadHasForge, ReadForPromotion, Promote, ReadForDiscard, DiscardAgent
  <1>7. \A q \in Streams : Known(q)' => Known(q)
    <2>1. CASE ReadForPromotion
      BY <1>1, <2>1 DEF ReadForPromotion, Known
    <2>2. CASE Promote
      <3>1. promotion'.forge = None /\ promotion'.ids = {}
        BY <2>2 DEF Promote
      <3>2. /\ agent'.forge \in {None, agent.forge}
            /\ agent'.ids \subseteq agent.ids \cup promotion.ids \cup {promotion.forge}
        BY <2>2 DEF Promote, Inv, TypeOK, Agents
      <3> QED
        BY <1>1, <3>1, <3>2, StreamsAssumption DEF Known
    <2>3. CASE ReadForDiscard
      BY <1>1, <2>3 DEF ReadForDiscard, Known
    <2>4. CASE DiscardAgent
      BY <1>1, <2>4, StreamsAssumption DEF DiscardAgent, Known
    <2> QED
      BY <2>1, <2>2, <2>3, <2>4
  <1> QED
    BY <1>1, <1>5, <1>6, <1>7, OutsideInv

LEMMA RestartInv ==
    ASSUME Inv, Restart
    PROVE  Inv'
  <1>1. \A s \in Streams :
           /\ handler'[s] \in Handlers
           /\ handler'[s].at = IF handler[s].at \in Working THEN "lost" ELSE handler[s].at
    <2> SUFFICES ASSUME NEW s \in Streams
                 PROVE  /\ handler'[s] \in Handlers
                        /\ handler'[s].at = IF handler[s].at \in Working THEN "lost" ELSE handler[s].at
      OBVIOUS
    <2>1. handler[s] \in Handlers
      BY DEF Inv, TypeOK
    <2>2. handler'[s] = IF handler[s].at = "idle" THEN handler[s]
                        ELSE [handler[s] EXCEPT !.at = IF @ \in Working THEN "lost" ELSE @,
                                                !.closed = TRUE]
      BY DEF Restart, At
    <2> QED
      BY <2>1, <2>2 DEF Handlers
  <1>2. handler' \in [Streams -> Handlers]
    <2>1. handler' = [s \in Streams |-> handler'[s]]
      BY DEF Restart
    <2> QED
      BY <1>1, <2>1
  <1>3. /\ entry' = [s \in Streams |-> IF entry[s] = "none" THEN "none" ELSE "lost"]
        /\ poster' = [s \in Streams |-> "idle"]
        /\ hook' = {} /\ UNCHANGED <<box, row, told, agent>>
    BY DEF Restart
  <1>4. /\ promotion' = [at |-> "idle", forge |-> None, ids |-> {}]
        /\ discard' \in [at : {"idle", "removing", "answered"}, todo : SUBSET Streams]
    BY DEF Restart, Inv, TypeOK
  <1>5. TypeOK'
    BY <1>2, <1>3, <1>4 DEF Inv, TypeOK
  <1>6. FreshIsIdle' /\ ReadHasForge'
    BY <1>1, <1>3, <1>4 DEF Inv, FreshIsIdle, ReadHasForge
  <1>7. \A s \in Streams : /\ handler'[s].at \in Early => handler[s].at \in Early
                           /\ handler'[s].at \in Before => handler[s].at \in Before
                           /\ handler'[s].at \notin Kept
    BY <1>1 DEF Early, Before, Kept
  <1>8. ComesUpOnce' /\ KeptIsSaved'
    BY <1>3, <1>7 DEF Inv, ComesUpOnce, KeptIsSaved
  <1>9. KnownIsSaved'
    BY <1>3, <1>4, <1>7, StreamsAssumption DEF Inv, KnownIsSaved, Known, SavedOrDeleted
  <1>10. NothingLeaks'
    BY <1>1, <1>3 DEF Inv, NothingLeaks
  <1> QED
    BY <1>5, <1>6, <1>8, <1>9, <1>10 DEF Inv

-----------------------------------------------------------------------------
LEMMA NextInv == Inv /\ [Next]_vars => Inv'
  <1> SUFFICES ASSUME Inv, [Next]_vars PROVE Inv'
    OBVIOUS
  <1>1. ASSUME NEW s \in Streams, Work(s) PROVE Inv'
    BY <1>1, WorkMoves, CreateBoxInv, RequiredStepFailsInv, SaveRowInv, LinkInv DEF Work
  <1>2. ASSUME NEW s \in Streams, Stall(s) \/ Close(s) \/ HookRemoves(s) PROVE Inv'
    BY <1>2, AsideMoves, HookRemovesInv
  <1>3. ASSUME NEW s \in Streams,
               AskForge(s) \/ ClearForge(s) \/ DeleteSandbox(s) \/ DiscardSandbox(s)
        PROVE  Inv'
    BY <1>3, RequestInv
  <1>4. CASE ReadForPromotion \/ Promote \/ ReadForDiscard \/ DiscardAgent
    BY <1>4, AgentInv
  <1>5. CASE Restart
    BY <1>5, RestartInv
  <1>6. CASE UNCHANGED vars
    BY <1>6 DEF vars, rest, Inv, TypeOK, FreshIsIdle, ReadHasForge, ComesUpOnce, KeptIsSaved, KnownIsSaved, Known,
                SavedOrDeleted, NothingLeaks
  <1> QED
    BY <1>1, <1>2, <1>3, <1>4, <1>5, <1>6 DEF Next

THEOREM Invariance == Spec => []Inv
  BY InitInv, NextInv, PTL DEF Spec

(* Every variable keeps its type.                                          *)
THEOREM TypeCorrect == Spec => []TypeOK
  <1>1. Inv => TypeOK
    BY DEF Inv
  <1> QED
    BY <1>1, Invariance, PTL

(* A failed bootstrap and a client that leaves never leave a container     *)
(* behind that has no row.                                                 *)
THEOREM NoContainerLeaks == Spec => []NothingLeaks
  <1>1. Inv => NothingLeaks
    BY DEF Inv
  <1> QED
    BY <1>1, Invariance, PTL

(* A sandbox the agent is linked to, or a client was told of, has its row  *)
(* until somebody deletes it.                                              *)
THEOREM LinkedSandboxIsSaved == Spec => []LinkedIsSaved
  <1>1. Inv => LinkedIsSaved
    BY DEF Inv, KnownIsSaved, Known, SavedOrDeleted, LinkedIsSaved
  <1> QED
    BY <1>1, Invariance, PTL
=============================================================================
