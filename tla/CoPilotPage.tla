----------------------------- MODULE CoPilotPage -----------------------------
(***************************************************************************)
(* The create page of the agent builder (agent-builder-ui), from the       *)
(* approved prototype to review: the Co-Pilot store, the handler that      *)
(* starts a build and follows its stream, stage changes that the backend   *)
(* confirms, the check that heals a build's status, and the three places   *)
(* the store is kept in: the page, the browser's cache and the session in  *)
(* the agent's row.                                                        *)
(*                                                                         *)
(* Every change of the store renders the page, and every render runs the   *)
(* effects again: Rendered says what they do.  The backend is here what    *)
(* the page sees of it; StageGate and BuildStream have its inside.         *)
(*                                                                         *)
(* Of the store only the stages and the build's status are kept; a change  *)
(* of the rest is a render.  A build that has ended is told by its outcome.*)
(***************************************************************************)
EXTENDS Naturals

CONSTANTS Handlers,     \* build handlers, each with the build it starts
          MaxOpens,     \* how often the page is opened
          None

ASSUME BoundsAssumption == MaxOpens \in Nat

VARIABLES
    open,       \* the page is there
    opens,
    store,      \* useCoPilotStore
    autosave,   \* last key and timer of the session's autosave
    cache,      \* localStorage
    row,        \* forge_stage and creation_session of the agent
    farthest,   \* the farthest stage the backend confirmed (history)
    healing,    \* the build-completion check of this page
    handler,    \* handlePrototypeApproved
    build       \* the builds in the backend

vars == <<open, opens, store, autosave, cache, row, farthest,
          healing, handler, build>>

Index == [prototype |-> 1, build |-> 2, review |-> 3]

Stages == DOMAIN Index

Later(stage, other) == Index[stage] > Index[other]

Farther(stage, other) == IF Later(stage, other) THEN stage ELSE other

Stores == [dev : Stages, max : Stages, build : {"idle", "building", "failed", "done"}]

(* What has to change for the session to be saved.                         *)
Key(s) == <<s.dev, s.build>>

Seed(stage) == [dev |-> stage, max |-> stage,
                build |-> IF Later(stage, "build") THEN "done" ELSE "idle"]

NoAutosave == [key |-> None, timer |-> FALSE]

(* The prototype is approved in a page nobody has open yet.                *)
Init ==
    /\ open = FALSE
    /\ opens = 0
    /\ store = Seed("prototype")
    /\ autosave = NoAutosave
    /\ cache = None
    /\ row = [stage |-> "prototype", session |-> Seed("prototype")]
    /\ farthest = "prototype"
    /\ healing = "idle"
    /\ handler = [h \in Handlers |-> "idle"]
    /\ build = [h \in Handlers |-> "none"]

-----------------------------------------------------------------------------
(***************************************************************************)
(* The effects.                                                            *)
(***************************************************************************)

(* A render clears the timer; another is set only for another key.         *)
Debounced(s) == [key |-> Key(s), timer |-> autosave.key # Key(s)]

(* The check is made once for a page, and the answer of one under way is   *)
(* dropped when the store changes.                                         *)
Checked(s) ==
    CASE healing = "idle" /\ ~Later("build", s.dev) -> "checking"
      [] healing = "checking" -> "dropped"
      [] OTHER -> healing

Show(s, check) ==
    /\ store' = s
    /\ autosave' = Debounced(s)
    /\ healing' = check

Rendered(s) == Show(s, Checked(s))

page == <<open, opens, store, autosave, healing>>

(***************************************************************************)
(* Opening and leaving the page.                                           *)
(***************************************************************************)

(* Faulty variant: a status in progress is restored as it was.             *)
SanitizedAsIs(s) == s

(* Whatever drove a build's status in the page is gone.                    *)
Sanitized(s) == IF s.build = "building" THEN [s EXCEPT !.build = "failed"] ELSE s

(* The cache goes before the session, and neither lags the stage the       *)
(* backend committed.                                                      *)
Resumed(kept) ==
    IF Later(row.stage, kept.dev) THEN Seed(row.stage) ELSE Sanitized(kept)

(* The session counts when the cache expired or is another browser's.      *)
Open ==
    /\ ~open
    /\ opens < MaxOpens
    /\ open' = TRUE
    /\ opens' = opens + 1
    /\ \E kept \in {cache, row.session} \ {None} : Rendered(Resumed(kept))
    /\ UNCHANGED <<cache, row, farthest, handler, build>>

Close ==
    /\ open
    /\ open' = FALSE
    /\ store' = Seed("prototype")
    /\ autosave' = NoAutosave
    /\ healing' = "idle"
    /\ handler' = [h \in Handlers |-> IF handler[h] = "idle" THEN "idle" ELSE "over"]
    /\ UNCHANGED <<opens, cache, row, farthest, build>>

(***************************************************************************)
(* Saving.                                                                 *)
(***************************************************************************)
(* A third of a second after a render.                                     *)
CacheStore ==
    /\ open
    /\ cache # store
    /\ cache' = store
    /\ UNCHANGED <<page, row, farthest, handler, build>>

(* The request and its answer, which updates the list of agents and so     *)
(* renders the page, are one step.                                         *)
AutosaveFires ==
    /\ open /\ autosave.timer
    /\ row' = [row EXCEPT !.session = store]
    /\ Rendered(store)
    /\ UNCHANGED <<open, opens, cache, farthest, handler, build>>

(***************************************************************************)
(* Stage changes.  The backend may refuse; its answer may be lost.         *)
(***************************************************************************)
Committed(stage) ==
    /\ row' = [stage |-> stage,
               session |-> [row.session EXCEPT
                               !.dev = stage, !.max = Farther(@, stage),
                               !.build = IF Later(stage, "build") THEN "done" ELSE @]]
    /\ farthest' = Farther(farthest, stage)

Moved(s, stage) == [s EXCEPT !.dev = stage, !.max = Farther(@, stage)]

outside == <<open, opens, cache>>

(* setDevStage from the stepper: any stage once unlocked, while nothing    *)
(* loads.                                                                  *)
Inspect ==
    /\ open
    /\ store.build # "building"
    /\ \E stage \in Stages \ {store.dev} :
           /\ ~Later(stage, store.max)
           /\ Rendered([store EXCEPT !.dev = stage])
    /\ UNCHANGED <<outside, row, farthest, handler, build>>

(* Faulty variant: the page moves and asks afterwards.                     *)
AdvanceAtOnce ==
    /\ open
    /\ store.dev = "build" /\ store.build = "done"
    /\ \/ Committed("review")
       \/ UNCHANGED <<row, farthest>>
    /\ Rendered(Moved(store, "review"))
    /\ UNCHANGED <<outside, handler, build>>

(* advanceDevStage with confirmStageWithBackend.                           *)
Advance ==
    /\ open
    /\ store.dev = "build" /\ store.build = "done"
    /\ \/ /\ Committed("review")
          /\ \/ Rendered(Moved(store, "review"))
             \/ Rendered(store)
       \/ UNCHANGED <<row, farthest>> /\ Rendered(store)
    /\ UNCHANGED <<outside, handler, build>>

(* The agent record is fetched again and is ahead of the page.             *)
FollowBackend ==
    /\ open
    /\ Later(row.stage, store.max)
    /\ Rendered(Seed(row.stage))
    /\ UNCHANGED <<outside, row, farthest, handler, build>>

(* Tokens of the chat, a field, the activity list.                         *)
ChangeRest ==
    /\ open
    /\ Rendered(store)
    /\ UNCHANGED <<outside, row, farthest, handler, build>>

(***************************************************************************)
(* The build-completion check.                                             *)
(***************************************************************************)
ReceiveCheck ==
    /\ open
    /\ healing = "checking"
    /\ \/ Show([store EXCEPT !.build = "done"], "heard")
       \/ Show(store, "heard")
    /\ UNCHANGED <<outside, row, farthest, handler, build>>

(***************************************************************************)
(* The build: handlePrototypeApproved, which Retry calls again, while the  *)
(* handler of a cancelled build may still read its stream.                 *)
(***************************************************************************)
Goto(h, where) == handler' = [handler EXCEPT ![h] = where]

Fail(h) ==
    /\ Rendered([store EXCEPT !.build = "failed"])
    /\ Goto(h, "over")

Approve(h) ==
    /\ open
    /\ handler[h] = "idle"
    /\ h = CHOOSE next \in Handlers : handler[next] = "idle"
    /\ \/ store.dev = "prototype"
       \/ store.dev = "build" /\ store.build = "failed"
    /\ Goto(h, "confirming")
    /\ UNCHANGED <<page, cache, row, farthest, build>>

ConfirmBuild(h) ==
    /\ handler[h] = "confirming"
    /\ \/ /\ Committed("build")
          /\ \/ /\ Rendered([Moved(store, "build") EXCEPT !.build = "building"])
                /\ Goto(h, "starting")
             \/ Rendered(store) /\ Goto(h, "over")
       \/ UNCHANGED <<row, farthest>> /\ Rendered(store) /\ Goto(h, "over")
    /\ UNCHANGED <<outside, build>>

SaysOfBuild(status) == row' = [row EXCEPT !.session.build = status]

StartBuild(h) ==
    /\ handler[h] = "starting"
    /\ build' = [build EXCEPT ![h] = "running"]
    /\ SaysOfBuild("building")
    /\ \/ Goto(h, "streaming") /\ UNCHANGED <<store, autosave, healing>>
       \/ Fail(h)
    /\ UNCHANGED <<outside, farthest>>

StartFails(h) ==
    /\ handler[h] = "starting"
    /\ Fail(h)
    /\ UNCHANGED <<outside, row, farthest, build>>

(* The stream's end without an outcome: the connection, or the backend.    *)
StreamBreaks(h) ==
    /\ handler[h] = "streaming"
    /\ Fail(h)
    /\ UNCHANGED <<outside, row, farthest, build>>

(* Faulty variant: the handler ends and leaves the status.                 *)
ReceiveFailureQuietly(h) ==
    /\ handler[h] = "streaming"
    /\ build[h] = "failed"
    /\ Rendered(store)
    /\ Goto(h, "over")
    /\ UNCHANGED <<outside, row, farthest, build>>

ReceiveFailure(h) ==
    /\ handler[h] = "streaming"
    /\ build[h] = "failed"
    /\ Fail(h)
    /\ UNCHANGED <<outside, row, farthest, build>>

ReceiveSuccess(h) ==
    /\ handler[h] = "streaming"
    /\ build[h] = "fine"
    /\ Rendered([store EXCEPT !.build = "done"])
    /\ Goto(h, "finishing")
    /\ UNCHANGED <<outside, row, farthest, build>>

ConfirmReview(h) ==
    /\ handler[h] = "finishing"
    /\ Goto(h, "over")
    /\ \/ /\ Committed("review")
          /\ \/ Rendered(Moved(store, "review"))
             \/ Rendered(store)
       \/ UNCHANGED <<row, farthest>> /\ Rendered(store)
    /\ UNCHANGED <<outside, build>>

(* The page's ref holds the stream started last, so only that is           *)
(* cancelled; the store says failed before its handler hears of it.        *)
Cancel(h) ==
    /\ handler[h] = "streaming"
    /\ store.build = "building"
    /\ build' = [build EXCEPT ![h] = IF @ = "running" THEN "failed" ELSE @]
    /\ Rendered([store EXCEPT !.build = "failed"])
    /\ UNCHANGED <<outside, row, farthest, handler>>

(* In the backend.  A failure is saved as such, or as done when the report *)
(* was blocked, or not at all when the backend restarted.                  *)
EndBuild(h) ==
    /\ build[h] = "running"
    /\ \/ build' = [build EXCEPT ![h] = "fine"] /\ SaysOfBuild("done")
       \/ /\ build' = [build EXCEPT ![h] = "failed"]
          /\ SaysOfBuild("failed") \/ SaysOfBuild("done") \/ UNCHANGED row
    /\ UNCHANGED <<page, cache, farthest, handler>>

Follow(h) ==
    \/ ConfirmBuild(h) \/ StartBuild(h) \/ StartFails(h) \/ StreamBreaks(h)
    \/ ReceiveFailure(h) \/ ReceiveSuccess(h) \/ ConfirmReview(h)

Next ==
    \/ Open \/ Close
    \/ CacheStore \/ AutosaveFires
    \/ Inspect \/ Advance \/ FollowBackend \/ ChangeRest \/ ReceiveCheck
    \/ \E h \in Handlers : Approve(h) \/ Follow(h) \/ Cancel(h) \/ EndBuild(h)

(* A build ends, and a handler is answered: its stream is told the end, or *)
(* breaks.  Nothing else is owed.                                          *)
Fairness ==
    \A h \in Handlers :
        /\ WF_vars(Follow(h) /\ build[h] # "running")
        /\ WF_vars(EndBuild(h))

Spec == Init /\ [][Next]_vars /\ Fairness

-----------------------------------------------------------------------------
TypeOK ==
    /\ open \in BOOLEAN
    /\ opens \in 0..MaxOpens
    /\ store \in Stores
    /\ autosave \in [key : {None} \cup (Stages \X {"idle", "building", "failed", "done"}),
                      timer : BOOLEAN]
    /\ cache \in Stores \cup {None}
    /\ row \in [stage : Stages, session : Stores]
    /\ farthest \in Stages
    /\ healing \in {"idle", "checking", "dropped", "heard"}
    /\ handler \in [Handlers -> {"idle", "confirming", "starting", "streaming",
                                 "finishing", "over"}]
    /\ build \in [Handlers -> {"none", "running", "fine", "failed"}]

(* Whatever was cached, restored, cancelled or refused, the page never     *)
(* unlocks a stage the backend did not confirm.                            *)
AdvanceIsConfirmed == open => ~Later(store.max, farthest)

(* A page that shows a build in progress has a handler that will say how   *)
(* it ended, also when an older handler has yet to hear of its own.        *)
SpinnerHasHandler ==
    open /\ store.build = "building" =>
        \E h \in Handlers : handler[h] \in {"starting", "streaming"}

(* And so no page shows it for ever.                                       *)
SpinnerStops == open /\ store.build = "building" ~> ~open \/ store.build # "building"
=============================================================================
