---------------------------- MODULE BrowserProofs ----------------------------
(***************************************************************************)
(* The two parts of the system that are read in a browser: the create page *)
(* (CoPilotPage), for any set of build handlers and however often it is    *)
(* opened; and the chat with its bridge and its panel (ChatBridge), for    *)
(* any number of exchanges, texts and tools.  They share no state.         *)
(*                                                                         *)
(* What the page may unlock goes round through cache and row, so each copy *)
(* of the store is behind the farthest confirmed stage (Confirmed).  What  *)
(* the panel shows it has read from a stream, and what the stream says at  *)
(* its end was true when it was written (ChatInv).                         *)
(***************************************************************************)
EXTENDS CoPilotPage, ChatBridge, SequenceTheorems, FiniteSetTheorems, TLAPS

-----------------------------------------------------------------------------
(***************************************************************************)
(* Stages are ordered, and Farther is their maximum.                       *)
(***************************************************************************)
Statuses == {"idle", "building", "failed", "done"}

Positions == {"idle", "confirming", "starting", "streaming", "finishing", "over"}

LEMMA StagesAreThree == Stages = {"prototype", "build", "review"}
  BY DEF Stages, Index

LEMMA StagesAreOrdered ==
    ASSUME NEW a \in Stages, NEW b \in Stages, NEW c \in Stages
    PROVE  /\ Farther(a, b) \in Stages
           /\ ~Later(a, Farther(a, b))
           /\ ~Later(b, Farther(a, b))
           /\ ~Later(a, b) /\ ~Later(b, c) => ~Later(a, c)
           /\ ~Later("prototype", a)
           /\ ~Later(a, a)
  <1>1. /\ "prototype" \in Stages
        /\ \A s \in Stages : Index[s] \in Nat /\ Index["prototype"] <= Index[s]
    BY StagesAreThree DEF Index
  <1>2. Farther(a, b) \in {a, b}
    BY DEF Farther
  <1>3. /\ ~Later(a, a)
        /\ Later(a, b) => ~Later(b, a)
        /\ ~Later(a, b) /\ ~Later(b, c) => ~Later(a, c)
        /\ ~Later("prototype", a)
    BY <1>1 DEF Later
  <1>4. ~Later(b, b)
    BY <1>1 DEF Later
  <1> QED
    BY <1>2, <1>3, <1>4 DEF Farther

(* A maximum that a stage joins is still behind one that the stage joins.  *)
LEMMA FartherIsMonotone ==
    ASSUME NEW a \in Stages, NEW b \in Stages, NEW stage \in Stages, ~Later(a, b)
    PROVE  /\ ~Later(a, Farther(b, stage))
           /\ ~Later(Farther(a, stage), Farther(b, stage))
  <1>1. Farther(b, stage) \in Stages /\ ~Later(a, Farther(b, stage))
    BY StagesAreOrdered
  <1>2. ~Later(stage, Farther(b, stage))
    BY StagesAreOrdered
  <1> QED
    BY <1>1, <1>2 DEF Farther

LEMMA StoresAreRecords ==
    ASSUME NEW s \in Stores
    PROVE  /\ s.dev \in Stages /\ s.max \in Stages /\ s.build \in Statuses
           /\ \A stage \in Stages : [s EXCEPT !.dev = stage] \in Stores
           /\ \A status \in Statuses : [s EXCEPT !.build = status] \in Stores
  BY DEF Stores, Statuses

LEMMA SeedIsStore ==
    ASSUME NEW stage \in Stages
    PROVE  /\ Seed(stage) \in Stores
           /\ Seed(stage).max = stage
           /\ Seed(stage).build # "building"
  BY DEF Seed, Stores

LEMMA MovedIsStore ==
    ASSUME NEW s \in Stores, NEW stage \in Stages
    PROVE  /\ Moved(s, stage) \in Stores
           /\ Moved(s, stage).max = Farther(s.max, stage)
           /\ Moved(s, stage).build = s.build
  <1>1. s.max \in Stages /\ Farther(s.max, stage) \in Stages
    BY StoresAreRecords, StagesAreOrdered
  <1> QED
    BY <1>1 DEF Moved, Stores

(* What a kept copy is restored to: never a build in progress, and no      *)
(* stage that neither the copy nor the row knows.                          *)
LEMMA ResumedIsStore ==
    ASSUME NEW kept \in Stores, row.stage \in Stages
    PROVE  /\ Resumed(kept) \in Stores
           /\ Resumed(kept).max \in {row.stage, kept.max}
           /\ Resumed(kept).build # "building"
  <1>1. /\ Sanitized(kept) \in Stores
        /\ Sanitized(kept).max = kept.max
        /\ Sanitized(kept).build # "building"
    BY DEF Sanitized, Stores
  <1> QED
    BY <1>1, SeedIsStore DEF Resumed

-----------------------------------------------------------------------------
(***************************************************************************)
(* The page: types.                                                        *)
(***************************************************************************)
Autosaves == [key : {None} \cup (Stages \X Statuses), timer : BOOLEAN]

Rows == [stage : Stages, session : Stores]

Healings == {"idle", "checking", "dropped", "heard"}

Builds == {"none", "running", "fine", "failed"}

LEMMA RenderedIsTyped ==
    ASSUME TypeOK, NEW s \in Stores, Rendered(s)
    PROVE  store' = s /\ autosave' \in Autosaves /\ healing' \in Healings
  <1>1. Key(s) \in Stages \X Statuses
    BY StoresAreRecords DEF Key
  <1>2. Debounced(s) \in Autosaves
    BY <1>1 DEF Debounced, Autosaves
  <1>3. Checked(s) \in Healings
    BY DEF Checked, Healings, TypeOK
  <1> QED
    BY <1>2, <1>3 DEF Rendered, Show

LEMMA ShownIsTyped ==
    ASSUME TypeOK, NEW s \in Stores, Show(s, "heard")
    PROVE  store' = s /\ autosave' \in Autosaves /\ healing' \in Healings
  <1>1. Key(s) \in Stages \X Statuses
    BY StoresAreRecords DEF Key
  <1>2. Debounced(s) \in Autosaves
    BY <1>1 DEF Debounced, Autosaves
  <1> QED
    BY <1>2 DEF Show, Healings

LEMMA CommittedIsTyped ==
    ASSUME TypeOK, NEW stage \in Stages, Committed(stage)
    PROVE  /\ row' \in Rows
           /\ row'.stage = stage
           /\ row'.session.max = Farther(row.session.max, stage)
           /\ farthest' \in Stages
           /\ farthest' = Farther(farthest, stage)
  <1>1. row \in Rows /\ row.session \in Stores /\ farthest \in Stages
    BY DEF TypeOK, Rows
  <1>2. /\ row.session.max \in Stages /\ Farther(row.session.max, stage) \in Stages
        /\ Farther(farthest, stage) \in Stages
    BY <1>1, StoresAreRecords, StagesAreOrdered
  <1>3. /\ row'.session \in Stores
        /\ row'.session.max = Farther(row.session.max, stage)
    BY <1>1, <1>2 DEF Committed, Stores
  <1>4. row' = [stage |-> stage, session |-> row'.session]
    BY DEF Committed
  <1>5. row' \in Rows
    BY <1>3, <1>4 DEF Rows
  <1>6. row'.stage = stage
    BY DEF Committed
  <1> QED
    BY <1>2, <1>3, <1>5, <1>6 DEF Committed

LEMMA SaidIsTyped ==
    ASSUME TypeOK, NEW status \in Statuses, SaysOfBuild(status)
    PROVE  /\ row' \in Rows
           /\ row'.stage = row.stage
           /\ row'.session.max = row.session.max
  <1>1. row \in Rows /\ row.session \in Stores
    BY DEF TypeOK, Rows
  <1>2. [row.session EXCEPT !.build = status] \in Stores
    BY <1>1, StoresAreRecords
  <1>3. row' = [row EXCEPT !.session = [row.session EXCEPT !.build = status]]
    BY <1>1 DEF SaysOfBuild, Rows
  <1>4. [row.session EXCEPT !.build = status].max = row.session.max
    BY <1>1 DEF Stores
  <1> QED
    BY <1>1, <1>2, <1>3, <1>4 DEF Rows

(* The type invariant, part by part: what the actions leave alone is cited *)
(* once.                                                                   *)
LEMMA TypeByParts ==
    TypeOK <=>
       /\ open \in BOOLEAN /\ opens \in 0..MaxOpens
       /\ store \in Stores /\ autosave \in Autosaves /\ healing \in Healings
       /\ cache \in Stores \cup {None}
       /\ row \in Rows /\ farthest \in Stages
       /\ handler \in [Handlers -> Positions]
       /\ build \in [Handlers -> Builds]
  BY DEF TypeOK, Autosaves, Statuses, Healings, Rows, Positions, Builds

LEMMA TypeByPartsNext ==
    TypeOK' <=>
       /\ open' \in BOOLEAN /\ opens' \in 0..MaxOpens
       /\ store' \in Stores /\ autosave' \in Autosaves /\ healing' \in Healings
       /\ cache' \in Stores \cup {None}
       /\ row' \in Rows /\ farthest' \in Stages
       /\ handler' \in [Handlers -> Positions]
       /\ build' \in [Handlers -> Builds]
  BY DEF TypeOK, Autosaves, Statuses, Healings, Rows, Positions, Builds

LEMMA PageTypeInit == Init => TypeOK
  <1> SUFFICES ASSUME Init
               PROVE  TypeOK
    OBVIOUS
  <1>1. "prototype" \in Stages /\ Seed("prototype") \in Stores
    BY StagesAreThree, SeedIsStore
  <1>2. NoAutosave \in Autosaves
    BY DEF NoAutosave, Autosaves
  <1>3. row \in Rows
    BY <1>1 DEF Init, Rows
  <1>4. /\ handler \in [Handlers -> Positions]
        /\ build \in [Handlers -> Builds]
        /\ healing \in Healings
    BY DEF Init, Positions, Builds, Healings
  <1>5. 0 \in 0..MaxOpens
    BY BoundsAssumption
  <1>6. open \in BOOLEAN /\ opens \in 0..MaxOpens
    BY <1>5 DEF Init
  <1>7. /\ store \in Stores /\ autosave \in Autosaves
        /\ cache \in Stores \cup {None} /\ farthest \in Stages
    BY <1>1, <1>2 DEF Init
  <1> QED
    BY <1>3, <1>4, <1>6, <1>7, TypeByParts

LEMMA GotoIsTyped ==
    ASSUME TypeOK, NEW h \in Handlers, NEW where \in Positions, Goto(h, where)
    PROVE  handler' \in [Handlers -> Positions]
  BY TypeByParts DEF Goto

LEMMA FailIsTyped ==
    ASSUME TypeOK, NEW h \in Handlers, Fail(h)
    PROVE  /\ store' \in Stores /\ autosave' \in Autosaves /\ healing' \in Healings
           /\ handler' \in [Handlers -> Positions]
           /\ store'.max = store.max /\ store'.build = "failed"
  <1>1. store \in Stores
    BY TypeByParts
  <1>2. /\ [store EXCEPT !.build = "failed"] \in Stores
        /\ [store EXCEPT !.build = "failed"].max = store.max
        /\ [store EXCEPT !.build = "failed"].build = "failed"
    BY <1>1 DEF Stores
  <1> HIDE DEF Stores
  <1>3. /\ store' = [store EXCEPT !.build = "failed"]
        /\ autosave' \in Autosaves /\ healing' \in Healings
    BY <1>2, RenderedIsTyped DEF Fail
  <1>4. handler' \in [Handlers -> Positions]
    BY GotoIsTyped DEF Fail, Positions
  <1> QED
    BY <1>2, <1>3, <1>4

(* Opening, leaving and saving.                                            *)
LEMMA TypeOfVisit ==
    ASSUME TypeOK, Open \/ Close \/ CacheStore \/ AutosaveFires
    PROVE  TypeOK'
  <1> USE TypeByParts, TypeByPartsNext
  <1>1. CASE Open
    <2>1. PICK kept \in {cache, row.session} \ {None} : Rendered(Resumed(kept))
      BY <1>1 DEF Open
    <2>2. kept \in Stores /\ row.stage \in Stages
      BY DEF Rows
    <2>3. Resumed(kept) \in Stores
      BY <2>2, ResumedIsStore
    <2>4. store' \in Stores /\ autosave' \in Autosaves /\ healing' \in Healings
      BY <2>1, <2>3, RenderedIsTyped
    <2>5. open' \in BOOLEAN /\ opens' \in 0..MaxOpens
      BY <1>1, BoundsAssumption DEF Open
    <2>6. UNCHANGED cache /\ UNCHANGED row /\ UNCHANGED farthest
          /\ UNCHANGED handler /\ UNCHANGED build
      BY <1>1 DEF Open
    <2> QED
      BY <2>4, <2>5, <2>6
  <1>2. CASE Close
    <2>1. store' \in Stores
      BY <1>2, SeedIsStore, StagesAreThree DEF Close
    <2>2. autosave' \in Autosaves /\ healing' \in Healings
      BY <1>2 DEF Close, NoAutosave, Autosaves, Healings
    <2>3. handler' \in [Handlers -> Positions]
      BY <1>2 DEF Close, Positions
    <2>4. /\ open' \in BOOLEAN /\ UNCHANGED opens /\ UNCHANGED cache /\ UNCHANGED row
          /\ UNCHANGED farthest /\ UNCHANGED build
      BY <1>2 DEF Close
    <2> QED
      BY <2>1, <2>2, <2>3, <2>4
  <1>3. CASE CacheStore
    BY <1>3 DEF CacheStore, page
  <1>4. CASE AutosaveFires
    <2>1. store \in Stores /\ row' \in Rows
      BY <1>4 DEF AutosaveFires, Rows
    <2>2. store' \in Stores /\ autosave' \in Autosaves /\ healing' \in Healings
      BY <1>4, <2>1, RenderedIsTyped DEF AutosaveFires
    <2> QED
      BY <1>4, <2>1, <2>2 DEF AutosaveFires
  <1> QED
    BY <1>1, <1>2, <1>3, <1>4

(* Moving between stages, and the check.                                   *)
LEMMA TypeOfStages ==
    ASSUME TypeOK, Inspect \/ Advance \/ FollowBackend \/ ChangeRest \/ ReceiveCheck
    PROVE  TypeOK'
  <1> USE TypeByParts, TypeByPartsNext
  <1>1. CASE Inspect
    <2>1. PICK stage \in Stages \ {store.dev} : Rendered([store EXCEPT !.dev = stage])
      BY <1>1 DEF Inspect
    <2>2. [store EXCEPT !.dev = stage] \in Stores
      BY StoresAreRecords
    <2>3. store' \in Stores /\ autosave' \in Autosaves /\ healing' \in Healings
      BY <2>1, <2>2, RenderedIsTyped
    <2> QED
      BY <1>1, <2>3 DEF Inspect, outside
  <1>2. CASE Advance
    <2>1. "review" \in Stages /\ store \in Stores
      BY StagesAreThree
    <2>2. /\ Rendered(Moved(store, "review")) \/ Rendered(store)
          /\ Committed("review") \/ (UNCHANGED row /\ UNCHANGED farthest)
      BY <1>2 DEF Advance
    <2>3. store' \in Stores /\ autosave' \in Autosaves /\ healing' \in Healings
      BY <2>1, <2>2, MovedIsStore, RenderedIsTyped
    <2>4. row' \in Rows /\ farthest' \in Stages
      BY <2>1, <2>2, CommittedIsTyped
    <2> QED
      BY <1>2, <2>3, <2>4 DEF Advance, outside
  <1>3. CASE FollowBackend
    <2>1. Seed(row.stage) \in Stores
      BY SeedIsStore DEF Rows
    <2>2. store' \in Stores /\ autosave' \in Autosaves /\ healing' \in Healings
      BY <1>3, <2>1, RenderedIsTyped DEF FollowBackend
    <2> QED
      BY <1>3, <2>2 DEF FollowBackend, outside
  <1>4. CASE ChangeRest
    <2>1. store' \in Stores /\ autosave' \in Autosaves /\ healing' \in Healings
      BY <1>4, RenderedIsTyped DEF ChangeRest
    <2> QED
      BY <1>4, <2>1 DEF ChangeRest, outside
  <1>5. CASE ReceiveCheck
    <2>1. [store EXCEPT !.build = "done"] \in Stores
      BY StoresAreRecords DEF Statuses
    <2>2. store' \in Stores /\ autosave' \in Autosaves /\ healing' \in Healings
      BY <1>5, <2>1, ShownIsTyped DEF ReceiveCheck
    <2> QED
      BY <1>5, <2>2 DEF ReceiveCheck, outside
  <1> QED
    BY <1>1, <1>2, <1>3, <1>4, <1>5

(* The handler of a build.                                                 *)
LEMMA TypeOfFollow ==
    ASSUME TypeOK, NEW h \in Handlers, Follow(h)
    PROVE  TypeOK'
  <1> USE TypeByParts, TypeByPartsNext
  <1>1. CASE ConfirmBuild(h)
    <2>1. "build" \in Stages /\ store \in Stores
      BY StagesAreThree
    <2>2. [Moved(store, "build") EXCEPT !.build = "building"] \in Stores
      BY <2>1, MovedIsStore, StoresAreRecords DEF Statuses
    <2>3. /\ \/ Rendered([Moved(store, "build") EXCEPT !.build = "building"])
             \/ Rendered(store)
          /\ Goto(h, "starting") \/ Goto(h, "over")
          /\ Committed("build") \/ (UNCHANGED row /\ UNCHANGED farthest)
      BY <1>1 DEF ConfirmBuild
    <2>4. store' \in Stores /\ autosave' \in Autosaves /\ healing' \in Healings
      BY <2>1, <2>2, <2>3, RenderedIsTyped
    <2>5. row' \in Rows /\ farthest' \in Stages
      BY <2>1, <2>3, CommittedIsTyped
    <2>6. handler' \in [Handlers -> Positions]
      BY <2>3, GotoIsTyped DEF Positions
    <2> QED
      BY <1>1, <2>4, <2>5, <2>6 DEF ConfirmBuild, outside
  <1>2. CASE StartBuild(h)
    <2>1. row' \in Rows
      BY <1>2, SaidIsTyped DEF StartBuild, Statuses
    <2>2. build' \in [Handlers -> Builds]
      BY <1>2 DEF StartBuild, Builds
    <2>3. \/ /\ store' \in Stores /\ autosave' \in Autosaves /\ healing' \in Healings
             /\ handler' \in [Handlers -> Positions]
          \/ Goto(h, "streaming") /\ UNCHANGED store /\ UNCHANGED autosave /\ UNCHANGED healing
      BY <1>2, FailIsTyped DEF StartBuild
    <2>4. /\ store' \in Stores /\ autosave' \in Autosaves /\ healing' \in Healings
          /\ handler' \in [Handlers -> Positions]
      BY <2>3, GotoIsTyped DEF Positions
    <2> QED
      BY <1>2, <2>1, <2>2, <2>4 DEF StartBuild, outside
  <1>3. CASE StartFails(h)
    BY <1>3, FailIsTyped DEF StartFails, outside
  <1>4. CASE StreamBreaks(h)
    BY <1>4, FailIsTyped DEF StreamBreaks, outside
  <1>5. CASE ReceiveFailure(h)
    BY <1>5, FailIsTyped DEF ReceiveFailure, outside
  <1>6. CASE ReceiveSuccess(h)
    <2>1. [store EXCEPT !.build = "done"] \in Stores
      BY StoresAreRecords DEF Statuses
    <2>2. store' \in Stores /\ autosave' \in Autosaves /\ healing' \in Healings
      BY <1>6, <2>1, RenderedIsTyped DEF ReceiveSuccess
    <2>3. handler' \in [Handlers -> Positions]
      BY <1>6, GotoIsTyped DEF ReceiveSuccess, Positions
    <2> QED
      BY <1>6, <2>2, <2>3 DEF ReceiveSuccess, outside
  <1>7. CASE ConfirmReview(h)
    <2>1. "review" \in Stages /\ store \in Stores
      BY StagesAreThree
    <2>2. /\ Rendered(Moved(store, "review")) \/ Rendered(store)
          /\ Committed("review") \/ (UNCHANGED row /\ UNCHANGED farthest)
      BY <1>7 DEF ConfirmReview
    <2>3. store' \in Stores /\ autosave' \in Autosaves /\ healing' \in Healings
      BY <2>1, <2>2, MovedIsStore, RenderedIsTyped
    <2>4. row' \in Rows /\ farthest' \in Stages
      BY <2>1, <2>2, CommittedIsTyped
    <2>5. handler' \in [Handlers -> Positions]
      BY <1>7, GotoIsTyped DEF ConfirmReview, Positions
    <2> QED
      BY <1>7, <2>3, <2>4, <2>5 DEF ConfirmReview, outside
  <1> QED
    BY <1>1, <1>2, <1>3, <1>4, <1>5, <1>6, <1>7 DEF Follow

(* The user and the backend, for one build.                                *)
LEMMA TypeOfBuild ==
    ASSUME TypeOK, NEW h \in Handlers, Approve(h) \/ Cancel(h) \/ EndBuild(h)
    PROVE  TypeOK'
  <1> USE TypeByParts, TypeByPartsNext
  <1>1. CASE Approve(h)
    <2>1. handler' \in [Handlers -> Positions]
      BY <1>1, GotoIsTyped DEF Approve, Positions
    <2> QED
      BY <1>1, <2>1 DEF Approve, page
  <1>2. CASE Cancel(h)
    <2>1. [store EXCEPT !.build = "failed"] \in Stores
      BY StoresAreRecords DEF Statuses
    <2>2. store' \in Stores /\ autosave' \in Autosaves /\ healing' \in Healings
      BY <1>2, <2>1, RenderedIsTyped DEF Cancel
    <2>3. build' \in [Handlers -> Builds]
      BY <1>2 DEF Cancel, Builds
    <2> QED
      BY <1>2, <2>2, <2>3 DEF Cancel, outside
  <1>3. CASE EndBuild(h)
    <2>1. row' \in Rows
      BY <1>3, SaidIsTyped DEF EndBuild, Statuses
    <2>2. build' \in [Handlers -> Builds]
      BY <1>3 DEF EndBuild, Builds
    <2> QED
      BY <1>3, <2>1, <2>2 DEF EndBuild, page
  <1> QED
    BY <1>1, <1>2, <1>3

LEMMA PageTypeNext == TypeOK /\ [Next]_vars => TypeOK'
  <1> SUFFICES ASSUME TypeOK, [Next]_vars
               PROVE  TypeOK'
    OBVIOUS
  <1>1. CASE UNCHANGED vars
    BY <1>1, TypeByParts, TypeByPartsNext DEF vars
  <1> QED
    BY <1>1, TypeOfVisit, TypeOfStages, TypeOfFollow, TypeOfBuild DEF Next

(* However often the page is opened, and whatever its handlers are told,   *)
(* every variable keeps to its type.                                       *)
THEOREM PageTypeCorrect == Spec => []TypeOK
  BY PageTypeInit, PageTypeNext, PTL DEF Spec

-----------------------------------------------------------------------------
(***************************************************************************)
(* The page: no stage is unlocked that the backend did not confirm.        *)
(*                                                                         *)
(* The store goes round: to the cache, to the session in the row, from     *)
(* there to the next page.  So each of the copies has to be behind the     *)
(* farthest confirmed stage, the one in a closed page's row included.      *)
(***************************************************************************)
Confirmed ==
    /\ ~Later(row.stage, farthest)
    /\ ~Later(store.max, farthest)
    /\ ~Later(row.session.max, farthest)
    /\ cache # None => ~Later(cache.max, farthest)

(* A step the backend is not asked in: every copy is of one there was.     *)
Copies ==
    /\ farthest' = farthest
    /\ row'.stage = row.stage
    /\ row'.session.max \in {row.session.max, store.max}
    /\ cache' \in {cache, store}
    /\ \/ store'.max \in {store.max, row.stage, row.session.max, "prototype"}
       \/ cache # None /\ store'.max = cache.max

(* A step that it confirms a stage in; the page may or may not hear of it. *)
Confirms(stage) ==
    /\ Committed(stage)
    /\ cache' = cache
    /\ store'.max \in {store.max, Farther(store.max, stage)}

LEMMA VisitsCopy ==
    ASSUME TypeOK, Open \/ Close \/ CacheStore \/ AutosaveFires
    PROVE  Copies
  <1> USE TypeByParts
  <1>1. CASE Open
    <2>1. PICK kept \in {cache, row.session} \ {None} : Rendered(Resumed(kept))
      BY <1>1 DEF Open
    <2>2. kept \in Stores /\ row.stage \in Stages
      BY DEF Rows
    <2>3. store' = Resumed(kept)
      BY <2>1 DEF Rendered, Show
    <2>4. store'.max \in {row.stage, kept.max}
      BY <2>2, <2>3, ResumedIsStore
    <2> QED
      BY <1>1, <2>1, <2>4 DEF Open, Copies
  <1>2. CASE Close
    <2>1. store'.max = "prototype"
      BY <1>2, SeedIsStore, StagesAreThree DEF Close
    <2> QED
      BY <1>2, <2>1 DEF Close, Copies
  <1>3. CASE CacheStore
    BY <1>3 DEF CacheStore, page, Copies
  <1>4. CASE AutosaveFires
    BY <1>4 DEF AutosaveFires, Rendered, Show, Copies, Rows
  <1> QED
    BY <1>1, <1>2, <1>3, <1>4

LEMMA StagesCopyOrConfirm ==
    ASSUME TypeOK, Inspect \/ Advance \/ FollowBackend \/ ChangeRest \/ ReceiveCheck
    PROVE  Copies \/ \E stage \in Stages : Confirms(stage)
  <1> USE TypeByParts
  <1>1. CASE Inspect
    <2>1. \A stage : [store EXCEPT !.dev = stage].max = store.max
      BY DEF Stores
    <2> QED
      BY <1>1, <2>1 DEF Inspect, outside, Rendered, Show, Copies
  <1>2. CASE Advance
    <2>1. "review" \in Stages /\ Moved(store, "review").max = Farther(store.max, "review")
      BY StagesAreThree, MovedIsStore
    <2>2. CASE Committed("review") /\ (Rendered(Moved(store, "review")) \/ Rendered(store))
      BY <1>2, <2>1, <2>2 DEF Advance, outside, Rendered, Show, Confirms
    <2>3. CASE UNCHANGED <<row, farthest>> /\ Rendered(store)
      BY <1>2, <2>3 DEF Advance, outside, Rendered, Show, Copies
    <2> QED
      BY <1>2, <2>2, <2>3 DEF Advance
  <1>3. CASE FollowBackend
    <2>1. Seed(row.stage).max = row.stage
      BY SeedIsStore DEF Rows
    <2> QED
      BY <1>3, <2>1 DEF FollowBackend, outside, Rendered, Show, Copies
  <1>4. CASE ChangeRest
    BY <1>4 DEF ChangeRest, outside, Rendered, Show, Copies
  <1>5. CASE ReceiveCheck
    <2>1. [store EXCEPT !.build = "done"].max = store.max
      BY DEF Stores
    <2> QED
      BY <1>5, <2>1 DEF ReceiveCheck, outside, Show, Copies
  <1> QED
    BY <1>1, <1>2, <1>3, <1>4, <1>5

LEMMA FollowCopiesOrConfirms ==
    ASSUME TypeOK, NEW h \in Handlers, Follow(h)
    PROVE  Copies \/ \E stage \in Stages : Confirms(stage)
  <1> USE TypeByParts
  <1>1. CASE ConfirmBuild(h)
    <2>1. /\ "build" \in Stages /\ Moved(store, "build") \in Stores
          /\ Moved(store, "build").max = Farther(store.max, "build")
      BY StagesAreThree, MovedIsStore
    <2>2. [Moved(store, "build") EXCEPT !.build = "building"].max = Farther(store.max, "build")
      BY <2>1 DEF Stores
    <2>3. CASE /\ Committed("build")
               /\ \/ Rendered([Moved(store, "build") EXCEPT !.build = "building"])
                  \/ Rendered(store)
      BY <1>1, <2>1, <2>2, <2>3 DEF ConfirmBuild, outside, Rendered, Show, Confirms
    <2>4. CASE UNCHANGED <<row, farthest>> /\ Rendered(store)
      BY <1>1, <2>4 DEF ConfirmBuild, outside, Rendered, Show, Copies
    <2> QED
      BY <1>1, <2>3, <2>4 DEF ConfirmBuild
  <1>2. CASE StartBuild(h)
    <2>1. row'.stage = row.stage /\ row'.session.max = row.session.max
      BY <1>2, SaidIsTyped DEF StartBuild, Statuses
    <2>2. store'.max = store.max
      BY <1>2, FailIsTyped DEF StartBuild
    <2> QED
      BY <1>2, <2>1, <2>2 DEF StartBuild, outside, Copies
  <1>3. CASE StartFails(h) \/ StreamBreaks(h) \/ ReceiveFailure(h)
    <2>1. store'.max = store.max
      BY <1>3, FailIsTyped DEF StartFails, StreamBreaks, ReceiveFailure
    <2> QED
      BY <1>3, <2>1 DEF StartFails, StreamBreaks, ReceiveFailure, outside, Copies
  <1>4. CASE ReceiveSuccess(h)
    <2>1. [store EXCEPT !.build = "done"].max = store.max
      BY DEF Stores
    <2> QED
      BY <1>4, <2>1 DEF ReceiveSuccess, outside, Rendered, Show, Copies
  <1>5. CASE ConfirmReview(h)
    <2>1. "review" \in Stages /\ Moved(store, "review").max = Farther(store.max, "review")
      BY StagesAreThree, MovedIsStore
    <2>2. CASE Committed("review") /\ (Rendered(Moved(store, "review")) \/ Rendered(store))
      BY <1>5, <2>1, <2>2 DEF ConfirmReview, outside, Rendered, Show, Confirms
    <2>3. CASE UNCHANGED <<row, farthest>> /\ Rendered(store)
      BY <1>5, <2>3 DEF ConfirmReview, outside, Rendered, Show, Copies
    <2> QED
      BY <1>5, <2>2, <2>3 DEF ConfirmReview
  <1> QED
    BY <1>1, <1>2, <1>3, <1>4, <1>5 DEF Follow

LEMMA BuildsCopy ==
    ASSUME TypeOK, NEW h \in Handlers, Approve(h) \/ Cancel(h) \/ EndBuild(h)
    PROVE  Copies
  <1> USE TypeByParts
  <1>1. CASE Approve(h)
    BY <1>1 DEF Approve, page, Copies
  <1>2. CASE Cancel(h)
    <2>1. [store EXCEPT !.build = "failed"].max = store.max
      BY DEF Stores
    <2> QED
      BY <1>2, <2>1 DEF Cancel, outside, Rendered, Show, Copies
  <1>3. CASE EndBuild(h)
    <2>1. row'.stage = row.stage /\ row'.session.max = row.session.max
      BY <1>3, SaidIsTyped DEF EndBuild, Statuses
    <2> QED
      BY <1>3, <2>1 DEF EndBuild, page, Copies
  <1> QED
    BY <1>1, <1>2, <1>3

LEMMA ConfirmedNext == TypeOK /\ Confirmed /\ [Next]_vars => Confirmed'
  <1> SUFFICES ASSUME TypeOK, Confirmed, [Next]_vars
               PROVE  Confirmed'
    OBVIOUS
  <1>1. CASE Copies
    <2>1. ~Later("prototype", farthest)
      BY TypeByParts, StagesAreOrdered
    <2>2. ~Later(store'.max, farthest)
      BY <1>1, <2>1 DEF Copies, Confirmed
    <2> QED
      BY <1>1, <2>2 DEF Copies, Confirmed, Later
  <1>2. ASSUME NEW stage \in Stages, Confirms(stage) PROVE Confirmed'
    <2>1. /\ row'.stage = stage /\ row'.session.max = Farther(row.session.max, stage)
          /\ farthest' = Farther(farthest, stage)
      BY <1>2, CommittedIsTyped DEF Confirms
    <2>2. /\ farthest \in Stages /\ store.max \in Stages /\ row.session.max \in Stages
          /\ cache # None => cache.max \in Stages
      BY TypeByParts, StoresAreRecords DEF Rows
    <2>3. ~Later(row'.stage, farthest')
      BY <2>1, <2>2, StagesAreOrdered
    <2>4. ~Later(store'.max, farthest')
      BY <1>2, <2>1, <2>2, FartherIsMonotone DEF Confirms, Confirmed
    <2>5. ~Later(row'.session.max, farthest')
      BY <2>1, <2>2, FartherIsMonotone DEF Confirmed
    <2>6. cache # None => ~Later(cache.max, farthest')
      BY <2>1, <2>2, FartherIsMonotone DEF Confirmed
    <2> QED
      BY <1>2, <2>3, <2>4, <2>5, <2>6 DEF Confirmed, Confirms, Later
  <1>3. CASE UNCHANGED vars
    BY <1>3 DEF vars, Copies, Confirmed, Later
  <1> QED
    BY <1>1, <1>2, <1>3, VisitsCopy, StagesCopyOrConfirm, FollowCopiesOrConfirms, BuildsCopy
       DEF Next

(* Whatever was cached, restored, refused or cancelled, in any number of   *)
(* pages: the page never unlocks a stage the backend did not confirm.      *)
THEOREM AdvanceIsConfirmedAlways == Spec => []AdvanceIsConfirmed
  <1>1. Init => Confirmed
    <2>1. "prototype" \in Stages /\ Seed("prototype").max = "prototype"
      BY StagesAreThree, SeedIsStore
    <2> QED
      BY <2>1, StagesAreOrdered DEF Init, Confirmed
  <1>2. Confirmed => AdvanceIsConfirmed
    BY DEF Confirmed, AdvanceIsConfirmed
  <1> QED
    BY <1>1, <1>2, ConfirmedNext, PageTypeCorrect, PTL DEF Spec

-----------------------------------------------------------------------------
(***************************************************************************)
(* The page: a spinner has a handler behind it.                            *)
(***************************************************************************)
Followed(h) == handler[h] \in {"starting", "streaming"}

SpinnerIsFollowed == store.build = "building" => \E h \in Handlers : Followed(h)

LEMMA VisitsKeepFollowed ==
    ASSUME TypeOK, SpinnerIsFollowed, Open \/ Close \/ CacheStore \/ AutosaveFires
    PROVE  SpinnerIsFollowed'
  <1> USE TypeByParts
  <1>1. CASE Open
    <2>1. PICK kept \in {cache, row.session} \ {None} : Rendered(Resumed(kept))
      BY <1>1 DEF Open
    <2>2. kept \in Stores /\ row.stage \in Stages
      BY DEF Rows
    <2>3. store'.build # "building"
      BY <2>1, <2>2, ResumedIsStore DEF Rendered, Show
    <2> QED
      BY <2>3 DEF SpinnerIsFollowed
  <1>2. CASE Close
    <2>1. store'.build # "building"
      BY <1>2, SeedIsStore, StagesAreThree DEF Close
    <2> QED
      BY <2>1 DEF SpinnerIsFollowed
  <1>3. CASE CacheStore
    BY <1>3 DEF CacheStore, page, SpinnerIsFollowed, Followed
  <1>4. CASE AutosaveFires
    BY <1>4 DEF AutosaveFires, Rendered, Show, SpinnerIsFollowed, Followed
  <1> QED
    BY <1>1, <1>2, <1>3, <1>4

LEMMA StagesKeepFollowed ==
    ASSUME TypeOK, SpinnerIsFollowed,
           Inspect \/ Advance \/ FollowBackend \/ ChangeRest \/ ReceiveCheck
    PROVE  SpinnerIsFollowed'
  <1> USE TypeByParts
  <1>1. handler' = handler
    BY DEF Inspect, Advance, FollowBackend, ChangeRest, ReceiveCheck
  <1>2. store'.build # "building" \/ store'.build = store.build
    <2>1. CASE Inspect
      <3>1. \A stage : [store EXCEPT !.dev = stage].build = store.build
        BY DEF Stores
      <3> QED
        BY <2>1, <3>1 DEF Inspect, Rendered, Show
    <2>2. CASE Advance
      <3>1. Moved(store, "review").build = store.build
        BY StagesAreThree, MovedIsStore
      <3> QED
        BY <2>2, <3>1 DEF Advance, Rendered, Show
    <2>3. CASE FollowBackend
      <3>1. Seed(row.stage).build # "building"
        BY SeedIsStore DEF Rows
      <3> QED
        BY <2>3, <3>1 DEF FollowBackend, Rendered, Show
    <2>4. CASE ChangeRest
      BY <2>4 DEF ChangeRest, Rendered, Show
    <2>5. CASE ReceiveCheck
      <3>1. [store EXCEPT !.build = "done"].build # "building"
        BY DEF Stores
      <3> QED
        BY <2>5, <3>1 DEF ReceiveCheck, Show
    <2> QED
      BY <2>1, <2>2, <2>3, <2>4, <2>5
  <1> QED
    BY <1>1, <1>2 DEF SpinnerIsFollowed, Followed

(* What a handler does to others is nothing: the one that a spinner shows  *)
(* stays, unless it is the one that moves.                                 *)
LEMMA OthersKeepFollowing ==
    ASSUME TypeOK, NEW h \in Handlers, NEW where, Goto(h, where), ~Followed(h),
           SpinnerIsFollowed, store'.build # "building" \/ store'.build = store.build
    PROVE  SpinnerIsFollowed'
  <1> SUFFICES ASSUME store'.build = "building"
               PROVE  \E g \in Handlers : Followed(g)'
    BY DEF SpinnerIsFollowed
  <1>1. PICK g \in Handlers : Followed(g)
    BY DEF SpinnerIsFollowed
  <1>2. handler'[g] = handler[g]
    BY <1>1, TypeByParts DEF Goto, Followed
  <1> QED
    BY <1>1, <1>2 DEF Followed

LEMMA FollowKeepsFollowed ==
    ASSUME TypeOK, SpinnerIsFollowed, NEW h \in Handlers, Follow(h)
    PROVE  SpinnerIsFollowed'
  <1> USE TypeByParts
  <1>1. CASE ConfirmBuild(h)
    <2>1. ~Followed(h)
      BY <1>1 DEF ConfirmBuild, Followed
    <2>2. CASE Goto(h, "starting")
      <3>1. handler'[h] = "starting"
        BY <2>2 DEF Goto
      <3> QED
        BY <3>1 DEF SpinnerIsFollowed, Followed
    <2>3. CASE Rendered(store) /\ Goto(h, "over")
      BY <2>1, <2>3, OthersKeepFollowing DEF Rendered, Show
    <2> QED
      BY <1>1, <2>2, <2>3 DEF ConfirmBuild
  <1>2. CASE StartBuild(h)
    <2>1. CASE Goto(h, "streaming")
      <3>1. handler'[h] = "streaming"
        BY <2>1 DEF Goto
      <3> QED
        BY <3>1 DEF SpinnerIsFollowed, Followed
    <2>2. CASE Fail(h)
      BY <2>2, FailIsTyped DEF SpinnerIsFollowed
    <2> QED
      BY <1>2, <2>1, <2>2 DEF StartBuild
  <1>3. CASE StartFails(h) \/ StreamBreaks(h) \/ ReceiveFailure(h)
    BY <1>3, FailIsTyped DEF StartFails, StreamBreaks, ReceiveFailure, SpinnerIsFollowed
  <1>4. CASE ReceiveSuccess(h)
    <2>1. [store EXCEPT !.build = "done"].build # "building"
      BY DEF Stores
    <2> QED
      BY <1>4, <2>1 DEF ReceiveSuccess, Rendered, Show, SpinnerIsFollowed
  <1>5. CASE ConfirmReview(h)
    <2>1. ~Followed(h) /\ Goto(h, "over")
      BY <1>5 DEF ConfirmReview, Followed
    <2>2. Moved(store, "review").build = store.build
      BY StagesAreThree, MovedIsStore
    <2>3. store'.build = store.build
      BY <1>5, <2>2 DEF ConfirmReview, Rendered, Show
    <2> QED
      BY <2>1, <2>3, OthersKeepFollowing
  <1> QED
    BY <1>1, <1>2, <1>3, <1>4, <1>5 DEF Follow

LEMMA BuildsKeepFollowed ==
    ASSUME TypeOK, SpinnerIsFollowed, NEW h \in Handlers, Approve(h) \/ Cancel(h) \/ EndBuild(h)
    PROVE  SpinnerIsFollowed'
  <1> USE TypeByParts
  <1>1. CASE Approve(h)
    <2>1. ~Followed(h) /\ Goto(h, "confirming") /\ store' = store
      BY <1>1 DEF Approve, Followed, page
    <2> QED
      BY <2>1, OthersKeepFollowing
  <1>2. CASE Cancel(h)
    <2>1. [store EXCEPT !.build = "failed"].build # "building"
      BY DEF Stores
    <2> QED
      BY <1>2, <2>1 DEF Cancel, Rendered, Show, SpinnerIsFollowed
  <1>3. CASE EndBuild(h)
    BY <1>3 DEF EndBuild, page, SpinnerIsFollowed, Followed
  <1> QED
    BY <1>1, <1>2, <1>3

LEMMA FollowedNext == TypeOK /\ SpinnerIsFollowed /\ [Next]_vars => SpinnerIsFollowed'
  <1> SUFFICES ASSUME TypeOK, SpinnerIsFollowed, [Next]_vars
               PROVE  SpinnerIsFollowed'
    OBVIOUS
  <1>1. CASE UNCHANGED vars
    BY <1>1 DEF vars, SpinnerIsFollowed, Followed
  <1> QED
    BY <1>1, VisitsKeepFollowed, StagesKeepFollowed, FollowKeepsFollowed, BuildsKeepFollowed
       DEF Next

(* For any set of handlers, the retries' included: a page that shows a     *)
(* build in progress has a handler that will say how it ended.             *)
THEOREM SpinnerHasHandlerAlways == Spec => []SpinnerHasHandler
  <1>1. Init => SpinnerIsFollowed
    BY SeedIsStore, StagesAreThree DEF Init, SpinnerIsFollowed
  <1>2. SpinnerIsFollowed => SpinnerHasHandler
    BY DEF SpinnerIsFollowed, Followed, SpinnerHasHandler
  <1> QED
    BY <1>1, <1>2, FollowedNext, PageTypeCorrect, PTL DEF Spec

-----------------------------------------------------------------------------
(***************************************************************************)
(* The chat: what an exchange's request and its stream keep between them.  *)
(*                                                                         *)
(* While the response is open the stream has no end in it, and its tools   *)
(* are even but for the one that runs.  Once it has ended nothing is       *)
(* written, so what holds of the end that was written holds for ever: of   *)
(* an end that no error precedes, that the tools are even and that an      *)
(* answer is in the conversation.                                          *)
(***************************************************************************)
Occ(seq, event) == Cardinality({i \in 1 .. Len(seq) : seq[i] = event})

Even(seq) == Occ(seq, "tool_start") = Occ(seq, "tool_end")

Ones(bool) == IF bool THEN 1 ELSE 0

(* What a replayed transcript may add.                                     *)
Replayed(b) == IF b.at = "append" /\ b.tools = 0 THEN 2 ELSE 0

Quiet(seq) ==
    \A i \in 1 .. Len(seq) : seq[i] \notin {"done", "error", "persistence_error"}

TapeOpen(b, seq) ==
    /\ Quiet(seq)
    /\ Occ(seq, "tool_start") = Occ(seq, "tool_end") + Ones(b.active)
    /\ Len(seq) + Ones(b.active) <= b.text + 2 * b.tools + Replayed(b)
    /\ b.at # "finished"
    /\ b.at \in {"transcript", "append"} => ~b.active
    /\ b.at = "transcript" => b.tools = 0

TapeEnded(e, b, seq, kept) ==
    /\ b.resolved
    /\ Len(seq) <= MaxText + 2 * MaxTools + 2
    /\ \A i \in 1 .. Len(seq) : seq[i] = "done" =>
          \/ \E j \in 1 .. Len(seq) : j < i /\ seq[j] = "error"
          \/ Even(seq) /\ \/ b.text = 0 \/ e \in kept
                          \/ \E j \in 1 .. Len(seq) : j < i /\ seq[j] = "persistence_error"

Tape(e, b, seq, kept) ==
    /\ b \in Bridges
    /\ seq \in Seq(Events)
    /\ b.live <=> b.tools > 0
    /\ ~b.ended => TapeOpen(b, seq)
    /\ b.ended => TapeEnded(e, b, seq, kept)

Tapes == \A e \in Exchanges : Tape(e, bridge[e], stream[e], saved)

(* What the panel has read holds no error, and it knows of a failure.      *)
Reading ==
    panel.sending =>
        /\ panel.exchange \in Exchanges
        /\ panel.read <= Len(stream[panel.exchange])
        /\ \A i \in 1 .. panel.read :
              /\ stream[panel.exchange][i] # "error"
              /\ stream[panel.exchange][i] = "persistence_error" => panel.failed

AnswersAreSaved ==
    \A e \in Exchanges : panel.shown[e] = "answer" =>
        bridge[e].resolved /\ (bridge[e].text = 0 \/ e \in saved)

Fresh == \A e \in Exchanges : e > panel.exchange => bridge[e].at = "none"

(***************************************************************************)
(* Streams: what one more event makes of the counts and the indices.       *)
(***************************************************************************)
LEMMA OccIsNat ==
    ASSUME NEW seq \in Seq(Events), NEW event
    PROVE  Occ(seq, event) \in Nat /\ IsFiniteSet({i \in 1 .. Len(seq) : seq[i] = event})
  <1>1. Len(seq) \in Nat
    BY LenProperties
  <1>2. IsFiniteSet(1 .. Len(seq))
    BY <1>1, FS_Interval
  <1>3. IsFiniteSet({i \in 1 .. Len(seq) : seq[i] = event})
    BY <1>2, FS_Subset
  <1> QED
    BY <1>3, FS_CardinalityType DEF Occ

LEMMA OccOfEmpty == \A event : Occ(<<>>, event) = 0
  <1>1. \A event : {i \in 1 .. Len(<<>>) : <<>>[i] = event} = {}
    OBVIOUS
  <1> QED
    BY <1>1, FS_EmptySet DEF Occ

LEMMA AppendEvent ==
    ASSUME NEW seq \in Seq(Events), NEW x \in Events
    PROVE  /\ Append(seq, x) \in Seq(Events)
           /\ Len(seq) \in Nat
           /\ Len(Append(seq, x)) = Len(seq) + 1
           /\ \A i \in 1 .. Len(seq) : Append(seq, x)[i] = seq[i]
           /\ Append(seq, x)[Len(seq) + 1] = x
  BY AppendProperties, LenProperties

LEMMA OccAppend ==
    ASSUME NEW seq \in Seq(Events), NEW x \in Events, NEW event
    PROVE  Occ(Append(seq, x), event) = Occ(seq, event) + Ones(x = event)
  <1> DEFINE S == {i \in 1 .. Len(seq) : seq[i] = event}
             T == {i \in 1 .. Len(Append(seq, x)) : Append(seq, x)[i] = event}
  <1>1. 1 .. Len(Append(seq, x)) = (1 .. Len(seq)) \cup {Len(seq) + 1}
    BY AppendEvent
  <1>2. IsFiniteSet(S) /\ Cardinality(S) \in Nat /\ Len(seq) + 1 \notin S
    <2>1. IsFiniteSet(S)
      BY OccIsNat
    <2>2. Cardinality(S) \in Nat
      BY <2>1, FS_CardinalityType
    <2>3. Len(seq) + 1 \notin S
      BY LenProperties
    <2> QED
      BY <2>1, <2>2, <2>3
  <1>3. CASE x = event
    <2>1. T = S \cup {Len(seq) + 1}
      BY <1>1, <1>3, AppendEvent
    <2>2. Cardinality(S \cup {Len(seq) + 1}) = Cardinality(S) + 1
      <3> HIDE DEF S
      <3> QED
        BY <1>2, FS_AddElement
    <2> QED
      BY <1>3, <2>1, <2>2 DEF Occ, Ones
  <1>4. CASE x # event
    <2>1. T = S
      BY <1>1, <1>4, AppendEvent
    <2>2. Ones(x = event) = 0
      BY <1>4 DEF Ones
    <2> HIDE DEF S, T
    <2>3. Cardinality(T) = Cardinality(S) + Ones(x = event)
      BY <1>2, <2>1, <2>2
    <2> QED
      BY <2>3 DEF Occ, S, T
  <1> QED
    BY <1>3, <1>4

(* What the bridge writes is at most two events at a time.                 *)
LEMMA Pairs ==
    ASSUME NEW x \in Events, NEW y \in Events
    PROVE  <<>> \o <<x>> = <<x>> /\ <<x>> \o <<y>> = <<x, y>>
  <1>1. <<x>> \in Seq(Events) /\ <<y>> \in Seq(Events)
    OBVIOUS
  <1>2. <<>> \o <<x>> = <<x>>
    BY <1>1, ConcatEmptySeq
  <1>3. <<x>> \o <<y>> = Append(<<x>>, y)
    BY <1>1, AppendIsConcat
  <1>4. <<x, y>> \in Seq(Events) /\ Len(<<x, y>>) = 2
        /\ <<x, y>>[1] = x /\ <<x, y>>[2] = y
    OBVIOUS
  <1>5. /\ Append(<<x>>, y) \in Seq(Events) /\ Len(Append(<<x>>, y)) = 2
        /\ Append(<<x>>, y)[1] = x /\ Append(<<x>>, y)[2] = y
    BY <1>1, AppendProperties
  <1>6. \A i \in 1 .. 2 : i = 1 \/ i = 2
    OBVIOUS
  <1>7. Append(<<x>>, y) = <<x, y>>
    BY <1>4, <1>5, <1>6, SeqEqual
  <1> QED
    BY <1>2, <1>3, <1>7

LEMMA Writes ==
    ASSUME NEW seq \in Seq(Events), NEW x \in Events, NEW y \in Events
    PROVE  /\ seq \o <<>> = seq
           /\ seq \o <<x>> = Append(seq, x)
           /\ seq \o <<x, y>> = Append(Append(seq, x), y)
  <1>1. seq \o <<>> = seq
    BY ConcatEmptySeq
  <1>2. Append(seq, x) \in Seq(Events) /\ <<x>> \in Seq(Events) /\ <<y>> \in Seq(Events)
    BY AppendProperties
  <1>3. seq \o <<x>> = Append(seq, x) /\ Append(seq, x) \o <<y>> = Append(Append(seq, x), y)
    BY <1>2, AppendIsConcat
  <1>4. seq \o (<<x>> \o <<y>>) = (seq \o <<x>>) \o <<y>>
    BY <1>2, ConcatAssociative
  <1> QED
    BY <1>1, <1>3, <1>4, Pairs

-----------------------------------------------------------------------------
(***************************************************************************)
(* Tapes.                                                                  *)
(***************************************************************************)
(* Where a run is and whether its socket is there does not matter to what  *)
(* was written, up to the end of the run.                                  *)
LEMMA TapeMoves ==
    ASSUME NEW e, NEW b, NEW c \in Bridges, NEW seq, NEW kept, Tape(e, b, seq, kept),
           <<c.resolved, c.ended, c.text, c.tools, c.active, c.live>>
              = <<b.resolved, b.ended, b.text, b.tools, b.active, b.live>>,
           \/ c.at = b.at
           \/ c.at \in {"challenge", "hello", "run"} /\ b.at \in {"none", "challenge", "hello"}
    PROVE  Tape(e, c, seq, kept)
  <1>1. /\ c.resolved = b.resolved /\ c.ended = b.ended /\ c.text = b.text
        /\ c.tools = b.tools /\ c.active = b.active /\ c.live = b.live
    OBVIOUS
  <1>2. TapeOpen(b, seq) => TapeOpen(c, seq)
    BY <1>1 DEF TapeOpen, Replayed
  <1>3. TapeEnded(e, b, seq, kept) => TapeEnded(e, c, seq, kept)
    BY <1>1 DEF TapeEnded
  <1> QED
    BY <1>1, <1>2, <1>3 DEF Tape

(* An exchange saved later is as good.                                     *)
LEMMA TapeIsKept ==
    ASSUME NEW e, NEW b, NEW seq, NEW kept, NEW now, Tape(e, b, seq, kept),
           e \in kept => e \in now
    PROVE  Tape(e, b, seq, now)
  <1>1. TapeEnded(e, b, seq, kept) => TapeEnded(e, b, seq, now)
    BY DEF TapeEnded
  <1> QED
    BY <1>1 DEF Tape

(* A response may end at any time, with what it has.                       *)
LEMMA TapeIsCut ==
    ASSUME NEW e, NEW b, NEW c \in Bridges, NEW seq, NEW kept, Tape(e, b, seq, kept),
           <<c.text, c.tools, c.live>> = <<b.text, b.tools, b.live>>,
           c.ended, c.resolved
    PROVE  Tape(e, c, seq, kept)
  <1>1. c.text = b.text /\ c.tools = b.tools /\ c.live = b.live
    OBVIOUS
  <1>2. CASE b.ended
    <2>1. TapeEnded(e, c, seq, kept)
      BY <1>1, <1>2 DEF Tape, TapeEnded
    <2> QED
      BY <1>1, <2>1 DEF Tape
  <1>3. CASE ~b.ended
    <2>1. /\ b.text \in 0 .. MaxText /\ b.tools \in 0 .. MaxTools
          /\ Len(seq) \in Nat /\ Ones(b.active) \in Nat
      BY LenProperties DEF Tape, Bridges, Ones
    <2>2. Replayed(b) = IF b.at = "append" /\ b.tools = 0 THEN 2 ELSE 0
      BY DEF Replayed
    <2>3. Len(seq) <= MaxText + 2 * MaxTools
      BY <1>3, <2>1, <2>2, ChatBoundsAssumption DEF Tape, TapeOpen
    <2>4. TapeEnded(e, c, seq, kept)
      BY <1>3, <2>1, <2>3, ChatBoundsAssumption DEF Tape, TapeOpen, TapeEnded, Quiet
    <2> QED
      BY <1>1, <2>4 DEF Tape
  <1> QED
    BY <1>2, <1>3

(* One event of a run that goes on.                                        *)
LEMMA RunWrites ==
    ASSUME NEW seq \in Seq(Events), Quiet(seq), NEW x \in {"text", "tool_start", "tool_end"}
    PROVE  /\ Append(seq, x) \in Seq(Events)
           /\ Quiet(Append(seq, x))
           /\ Len(seq) \in Nat
           /\ Len(Append(seq, x)) = Len(seq) + 1
           /\ Occ(seq, "tool_start") \in Nat
           /\ Occ(seq, "tool_end") \in Nat
           /\ Occ(Append(seq, x), "tool_start")
                 = Occ(seq, "tool_start") + (IF x = "tool_start" THEN 1 ELSE 0)
           /\ Occ(Append(seq, x), "tool_end")
                 = Occ(seq, "tool_end") + (IF x = "tool_end" THEN 1 ELSE 0)
  <1>1. x \in Events
    BY DEF Events
  <1>2. Quiet(Append(seq, x))
    BY <1>1, AppendEvent DEF Quiet
  <1>3. /\ Occ(Append(seq, x), "tool_start") = Occ(seq, "tool_start") + Ones(x = "tool_start")
        /\ Occ(Append(seq, x), "tool_end") = Occ(seq, "tool_end") + Ones(x = "tool_end")
    BY <1>1, OccAppend
  <1>4. Occ(seq, "tool_start") \in Nat /\ Occ(seq, "tool_end") \in Nat
    BY OccIsNat
  <1> QED
    BY <1>1, <1>2, <1>3, <1>4, AppendEvent DEF Ones

LEMMA TapeOfText ==
    ASSUME NEW e, NEW b, NEW c \in Bridges, NEW seq, NEW kept, Tape(e, b, seq, kept),
           ~b.ended, b.at = "run",
           ~c.ended, c.at = "run", c.text = b.text + 1, c.tools = b.tools,
           c.active = b.active, c.live = b.live
    PROVE  Tape(e, c, Append(seq, "text"), kept)
  <1> DEFINE t == Append(seq, "text")
  <1>1. /\ b.text \in Nat /\ b.tools \in Nat /\ b.active \in BOOLEAN
        /\ seq \in Seq(Events) /\ TapeOpen(b, seq)
    BY DEF Tape, Bridges
  <1>2. /\ t \in Seq(Events) /\ Quiet(t) /\ Len(t) = Len(seq) + 1 /\ Len(seq) \in Nat
        /\ Occ(t, "tool_start") = Occ(seq, "tool_start")
        /\ Occ(t, "tool_end") = Occ(seq, "tool_end")
    BY <1>1, RunWrites DEF TapeOpen
  <1> HIDE DEF t
  <1>3. TapeOpen(c, t)
    BY <1>1, <1>2 DEF TapeOpen, Replayed, Ones
  <1> QED
    BY <1>2, <1>3 DEF Tape, t

(* exec.approval.requested closes the tool that runs and starts another.   *)
LEMMA TapeOfTool ==
    ASSUME NEW e, NEW b, NEW c \in Bridges, NEW seq, NEW kept, Tape(e, b, seq, kept),
           ~b.ended, b.at = "run",
           ~c.ended, c.at = "run", c.text = b.text, c.tools = b.tools + 1, c.active, c.live
    PROVE  Tape(e, c, IF b.active THEN Append(Append(seq, "tool_end"), "tool_start")
                               ELSE Append(seq, "tool_start"), kept)
  <1> DEFINE r == IF b.active THEN Append(seq, "tool_end") ELSE seq
             t == Append(r, "tool_start")
  <1>1. /\ b.text \in Nat /\ b.tools \in Nat /\ b.active \in BOOLEAN
        /\ seq \in Seq(Events) /\ TapeOpen(b, seq)
    BY DEF Tape, Bridges
  <1>2. /\ r \in Seq(Events) /\ Quiet(r)
        /\ Len(r) = Len(seq) + Ones(b.active) /\ Len(seq) \in Nat
        /\ Occ(r, "tool_start") = Occ(r, "tool_end")
    <2>1. /\ Occ(seq, "tool_start") = Occ(seq, "tool_end") + Ones(b.active)
          /\ Occ(seq, "tool_start") \in Nat /\ Occ(seq, "tool_end") \in Nat /\ Quiet(seq)
          /\ Len(seq) \in Nat
      BY <1>1, OccIsNat, LenProperties DEF TapeOpen
    <2>2. CASE b.active
      <3>1. r = Append(seq, "tool_end")
        BY <2>2
      <3> HIDE DEF r
      <3> QED
        BY <1>1, <2>1, <2>2, <3>1, RunWrites DEF Ones
    <2>3. CASE ~b.active
      BY <1>1, <2>1, <2>3 DEF Ones
    <2> QED
      BY <2>2, <2>3
  <1> HIDE DEF r
  <1>3. /\ t \in Seq(Events) /\ Quiet(t) /\ Len(t) = Len(r) + 1
        /\ Occ(t, "tool_start") = Occ(r, "tool_start") + 1
        /\ Occ(t, "tool_end") = Occ(r, "tool_end")
        /\ Occ(r, "tool_end") \in Nat
    BY <1>2, RunWrites
  <1> HIDE DEF t
  <1>4. TapeOpen(c, t)
    <2>1. Len(r) \in Nat /\ Len(r) <= b.text + 2 * b.tools
      BY <1>1, <1>2 DEF TapeOpen, Replayed, Ones
    <2>2. Len(t) + 1 <= b.text + 2 * (b.tools + 1)
      BY <1>1, <1>3, <2>1
    <2>3. Len(t) + Ones(c.active) <= c.text + 2 * c.tools + Replayed(c)
      BY <1>1, <1>3, <2>1, <2>2 DEF Ones, Replayed
    <2>4. Occ(t, "tool_start") = Occ(t, "tool_end") + Ones(c.active)
      BY <1>2, <1>3 DEF Ones
    <2> QED
      BY <1>3, <2>3, <2>4 DEF TapeOpen
  <1>5. Tape(e, c, t, kept)
    BY <1>1, <1>3, <1>4 DEF Tape
  <1> QED
    BY <1>5 DEF t, r

(* A phase, or the end of the run, closes the tool that runs.              *)
LEMMA TapeOfStop ==
    ASSUME NEW e, NEW b, NEW c \in Bridges, NEW seq, NEW kept, Tape(e, b, seq, kept),
           ~b.ended, b.at = "run",
           ~c.ended, c.at \in {"run", IF b.live THEN "append" ELSE "transcript"},
           c.text = b.text, c.tools = b.tools, ~c.active, c.live = b.live
    PROVE  Tape(e, c, IF b.active THEN Append(seq, "tool_end") ELSE seq, kept)
  <1> DEFINE t == IF b.active THEN Append(seq, "tool_end") ELSE seq
  <1>1. /\ b.text \in Nat /\ b.tools \in Nat /\ b.active \in BOOLEAN
        /\ seq \in Seq(Events) /\ TapeOpen(b, seq) /\ (b.live <=> b.tools > 0)
    BY DEF Tape, Bridges
  <1>2. /\ Occ(seq, "tool_start") = Occ(seq, "tool_end") + Ones(b.active)
        /\ Occ(seq, "tool_start") \in Nat /\ Occ(seq, "tool_end") \in Nat /\ Quiet(seq)
        /\ Len(seq) \in Nat
    BY <1>1, OccIsNat, LenProperties DEF TapeOpen
  <1>3. /\ t \in Seq(Events) /\ Quiet(t) /\ Len(t) = Len(seq) + Ones(b.active)
        /\ Occ(t, "tool_start") = Occ(t, "tool_end")
        /\ Occ(t, "tool_end") \in Nat
    <2>1. CASE b.active
      <3>1. t = Append(seq, "tool_end")
        BY <2>1
      <3> HIDE DEF t
      <3> QED
        BY <1>1, <1>2, <2>1, <3>1, RunWrites DEF Ones
    <2>2. CASE ~b.active
      BY <1>1, <1>2, <2>2 DEF Ones
    <2> QED
      BY <2>1, <2>2
  <1> HIDE DEF t
  <1>4. TapeOpen(c, t)
    BY <1>1, <1>2, <1>3 DEF TapeOpen, Replayed, Ones
  <1>5. Tape(e, c, t, kept)
    BY <1>1, <1>3, <1>4 DEF Tape
  <1> QED
    BY <1>5 DEF t

LEMMA TapeOfReplay ==
    ASSUME NEW e, NEW b, NEW c \in Bridges, NEW seq, NEW kept, Tape(e, b, seq, kept),
           ~b.ended, b.at = "transcript",
           ~c.ended, c.at = "append", c.text = b.text, c.tools = b.tools,
           c.active = b.active, c.live = b.live,
           NEW t \in {seq, Append(Append(seq, "tool_start"), "tool_end")}
    PROVE  Tape(e, c, t, kept)
  <1> DEFINE r == Append(seq, "tool_start")
  <1>1. /\ b.text \in Nat /\ b.tools = 0 /\ ~b.active
        /\ seq \in Seq(Events) /\ TapeOpen(b, seq)
    BY DEF Tape, Bridges, TapeOpen
  <1>2. /\ Occ(seq, "tool_start") = Occ(seq, "tool_end")
        /\ Occ(seq, "tool_start") \in Nat /\ Occ(seq, "tool_end") \in Nat /\ Quiet(seq)
        /\ Len(seq) \in Nat /\ Len(seq) <= b.text
    <2>1. /\ Occ(seq, "tool_start") \in Nat /\ Occ(seq, "tool_end") \in Nat
          /\ Len(seq) \in Nat
      BY <1>1, OccIsNat, LenProperties
    <2>2. /\ Occ(seq, "tool_start") = Occ(seq, "tool_end") + Ones(b.active) /\ Quiet(seq)
          /\ Len(seq) + Ones(b.active) <= b.text + 2 * b.tools + Replayed(b)
      BY <1>1 DEF TapeOpen
    <2>3. Ones(b.active) = 0 /\ Replayed(b) = 0
      BY <1>1 DEF Ones, Replayed
    <2> QED
      BY <1>1, <2>1, <2>2, <2>3
  <1>3. /\ r \in Seq(Events) /\ Quiet(r) /\ Len(r) = Len(seq) + 1
        /\ Occ(r, "tool_start") = Occ(seq, "tool_start") + 1
        /\ Occ(r, "tool_end") = Occ(seq, "tool_end")
    BY <1>1, <1>2, RunWrites
  <1> HIDE DEF r
  <1>4. /\ Append(r, "tool_end") \in Seq(Events) /\ Quiet(Append(r, "tool_end"))
        /\ Len(Append(r, "tool_end")) = Len(r) + 1
        /\ Occ(Append(r, "tool_end"), "tool_start") = Occ(r, "tool_start")
        /\ Occ(Append(r, "tool_end"), "tool_end") = Occ(r, "tool_end") + 1
    BY <1>3, RunWrites
  <1>5. t = seq \/ t = Append(r, "tool_end")
    BY DEF r
  <1>6. /\ t \in Seq(Events) /\ Quiet(t) /\ Len(t) \in Nat /\ Len(t) <= b.text + 2
        /\ Occ(t, "tool_start") = Occ(t, "tool_end") /\ Occ(t, "tool_end") \in Nat
    <2>1. CASE t = seq
      BY <1>1, <1>2, <2>1
    <2>2. CASE t = Append(r, "tool_end")
      <3>1. /\ Len(t) = Len(seq) + 2
            /\ Occ(t, "tool_start") = Occ(seq, "tool_start") + 1
            /\ Occ(t, "tool_end") = Occ(seq, "tool_end") + 1
        BY <1>2, <1>3, <1>4, <2>2
      <3> QED
        BY <1>1, <1>2, <1>4, <2>2, <3>1
    <2> QED
      BY <1>5, <2>1, <2>2
  <1>7. TapeOpen(c, t)
    BY <1>1, <1>6 DEF TapeOpen, Ones, Replayed
  <1> QED
    BY <1>1, <1>6, <1>7 DEF Tape

(* The end of an open response: the event that says why, and done.         *)
LEMMA LastWrites ==
    ASSUME NEW seq \in Seq(Events), Quiet(seq), Len(seq) <= MaxText + 2 * MaxTools,
           NEW x \in {"error", "persistence_error"}
    PROVE  LET t == Append(Append(seq, x), "done")
           IN  /\ t \in Seq(Events)
               /\ Len(seq) \in Nat /\ Len(t) = Len(seq) + 2
               /\ t[Len(seq) + 1] = x
               /\ \A i \in 1 .. Len(t) : t[i] = "done" => i = Len(seq) + 2
               /\ Occ(t, "tool_start") = Occ(seq, "tool_start")
               /\ Occ(t, "tool_end") = Occ(seq, "tool_end")
  <1> DEFINE r == Append(seq, x)
             t == Append(r, "done")
  <1>1. x \in Events /\ "done" \in Events
    BY DEF Events
  <1>2. /\ r \in Seq(Events) /\ Len(seq) \in Nat /\ Len(r) = Len(seq) + 1
        /\ \A i \in 1 .. Len(seq) : r[i] = seq[i]
        /\ r[Len(seq) + 1] = x
    BY <1>1, AppendEvent
  <1>3. /\ Occ(r, "tool_start") = Occ(seq, "tool_start") + Ones(x = "tool_start")
        /\ Occ(r, "tool_end") = Occ(seq, "tool_end") + Ones(x = "tool_end")
    BY <1>1, OccAppend
  <1>4. Occ(seq, "tool_start") \in Nat /\ Occ(seq, "tool_end") \in Nat
    BY OccIsNat
  <1> HIDE DEF r
  <1>5. /\ t \in Seq(Events) /\ Len(t) = Len(r) + 1
        /\ \A i \in 1 .. Len(r) : t[i] = r[i]
    BY <1>1, <1>2, AppendEvent
  <1>6. /\ Occ(t, "tool_start") = Occ(r, "tool_start") + Ones("done" = "tool_start")
        /\ Occ(t, "tool_end") = Occ(r, "tool_end") + Ones("done" = "tool_end")
    BY <1>1, <1>2, OccAppend
  <1> HIDE DEF t
  <1>7. /\ Occ(t, "tool_start") = Occ(seq, "tool_start")
        /\ Occ(t, "tool_end") = Occ(seq, "tool_end")
    BY <1>3, <1>4, <1>6 DEF Ones
  <1>8. ASSUME NEW i \in 1 .. Len(t), t[i] = "done" PROVE i = Len(seq) + 2
    BY <1>2, <1>5, <1>8 DEF Quiet
  <1>9. Len(t) = Len(seq) + 2 /\ t[Len(seq) + 1] = x
    BY <1>2, <1>5
  <1> QED
    BY <1>2, <1>5, <1>7, <1>8, <1>9 DEF r, t

LEMMA DoneWrites ==
    ASSUME NEW seq \in Seq(Events), Quiet(seq)
    PROVE  LET t == Append(seq, "done")
           IN  /\ t \in Seq(Events)
               /\ Len(seq) \in Nat /\ Len(t) = Len(seq) + 1
               /\ Occ(t, "tool_start") = Occ(seq, "tool_start")
               /\ Occ(t, "tool_end") = Occ(seq, "tool_end")
  <1> DEFINE t == Append(seq, "done")
  <1>1. "done" \in Events
    BY DEF Events
  <1>2. t \in Seq(Events) /\ Len(seq) \in Nat /\ Len(t) = Len(seq) + 1
    BY <1>1, AppendEvent
  <1>3. /\ Occ(t, "tool_start") = Occ(seq, "tool_start") + Ones("done" = "tool_start")
        /\ Occ(t, "tool_end") = Occ(seq, "tool_end") + Ones("done" = "tool_end")
    BY <1>1, OccAppend
  <1>4. Occ(seq, "tool_start") \in Nat /\ Occ(seq, "tool_end") \in Nat
    BY OccIsNat
  <1> HIDE DEF t
  <1>5. /\ Occ(t, "tool_start") = Occ(seq, "tool_start")
        /\ Occ(t, "tool_end") = Occ(seq, "tool_end")
    BY <1>3, <1>4 DEF Ones
  <1> QED
    BY <1>2, <1>5 DEF t

(* How long an open stream is.                                             *)
LEMMA TapeIsShort ==
    ASSUME NEW e, NEW b, NEW seq, NEW kept, Tape(e, b, seq, kept), ~b.ended
    PROVE  /\ seq \in Seq(Events) /\ Quiet(seq) /\ Len(seq) \in Nat
           /\ Len(seq) <= MaxText + 2 * MaxTools
  <1>1. /\ b.text \in 0 .. MaxText /\ b.tools \in 0 .. MaxTools
        /\ seq \in Seq(Events) /\ Len(seq) \in Nat /\ Ones(b.active) \in Nat /\ TapeOpen(b, seq)
    BY LenProperties DEF Tape, Bridges, Ones
  <1>2. Replayed(b) = IF b.at = "append" /\ b.tools = 0 THEN 2 ELSE 0
    BY DEF Replayed
  <1>3. Len(seq) <= MaxText + 2 * MaxTools
    BY <1>1, <1>2, ChatBoundsAssumption DEF TapeOpen
  <1> QED
    BY <1>1, <1>3 DEF TapeOpen

LEMMA TapeOfError ==
    ASSUME NEW e, NEW b, NEW c \in Bridges, NEW seq, NEW kept, Tape(e, b, seq, kept),
           ~b.ended, c.ended, c.resolved, c.tools = b.tools, c.live = b.live
    PROVE  Tape(e, c, Append(Append(seq, "error"), "done"), kept)
  <1> DEFINE t == Append(Append(seq, "error"), "done")
  <1>1. /\ seq \in Seq(Events) /\ Quiet(seq) /\ Len(seq) \in Nat
        /\ Len(seq) <= MaxText + 2 * MaxTools
    BY TapeIsShort
  <1>2. /\ t \in Seq(Events) /\ Len(t) = Len(seq) + 2
        /\ t[Len(seq) + 1] = "error"
        /\ \A i \in 1 .. Len(t) : t[i] = "done" => i = Len(seq) + 2
    BY <1>1, LastWrites
  <1> HIDE DEF t
  <1>3. Len(t) <= MaxText + 2 * MaxTools + 2
    BY <1>1, <1>2, ChatBoundsAssumption
  <1>4. \A i \in 1 .. Len(t) : t[i] = "done" =>
           \E j \in 1 .. Len(t) : j < i /\ t[j] = "error"
    BY <1>1, <1>2
  <1>5. TapeEnded(e, c, t, kept)
    BY <1>3, <1>4 DEF TapeEnded
  <1>6. Tape(e, c, t, kept)
    BY <1>2, <1>5 DEF Tape
  <1> QED
    BY <1>6 DEF t

(* The last lines of the end's handler, on a response that is still open.  *)
LEMMA TapeOfFinish ==
    ASSUME NEW e, NEW b, NEW c \in Bridges, NEW seq, NEW kept, NEW now,
           Tape(e, b, seq, kept), ~b.ended, b.at = "append",
           c.ended, c.resolved, c.text = b.text, c.tools = b.tools, c.live = b.live,
           NEW t, \/ t = Append(seq, "done") /\ (b.text = 0 \/ e \in now)
                  \/ t = Append(Append(seq, "persistence_error"), "done")
    PROVE  Tape(e, c, t, now)
  <1>1. /\ seq \in Seq(Events) /\ Quiet(seq) /\ Len(seq) \in Nat
        /\ Len(seq) <= MaxText + 2 * MaxTools
    BY TapeIsShort
  <1>2. Occ(seq, "tool_start") = Occ(seq, "tool_end")
    <2>1. TapeOpen(b, seq) /\ ~b.active
      BY DEF Tape, TapeOpen
    <2>2. Occ(seq, "tool_start") \in Nat /\ Occ(seq, "tool_end") \in Nat
      BY <1>1, OccIsNat
    <2> QED
      BY <2>1, <2>2 DEF TapeOpen, Ones
  <1>3. CASE t = Append(seq, "done") /\ (b.text = 0 \/ e \in now)
    <2>1. t \in Seq(Events) /\ Len(t) = Len(seq) + 1 /\ Even(t)
      BY <1>1, <1>2, <1>3, DoneWrites DEF Even
    <2>2. Len(t) <= MaxText + 2 * MaxTools + 2
      BY <1>1, <2>1, ChatBoundsAssumption
    <2>3. TapeEnded(e, c, t, now)
      BY <1>3, <2>1, <2>2 DEF TapeEnded
    <2> QED
      BY <2>1, <2>3 DEF Tape
  <1>4. CASE t = Append(Append(seq, "persistence_error"), "done")
    <2>1. /\ t \in Seq(Events) /\ Len(t) = Len(seq) + 2 /\ Even(t)
          /\ t[Len(seq) + 1] = "persistence_error"
          /\ \A i \in 1 .. Len(t) : t[i] = "done" => i = Len(seq) + 2
      BY <1>1, <1>2, <1>4, LastWrites DEF Even
    <2>2. Len(t) <= MaxText + 2 * MaxTools + 2
      BY <1>1, <2>1, ChatBoundsAssumption
    <2>3. \A i \in 1 .. Len(t) : t[i] = "done" =>
             \E j \in 1 .. Len(t) : j < i /\ t[j] = "persistence_error"
      BY <1>1, <2>1
    <2>4. TapeEnded(e, c, t, now)
      BY <2>1, <2>2, <2>3 DEF TapeEnded
    <2> QED
      BY <2>1, <2>4 DEF Tape
  <1> QED
    BY <1>3, <1>4

-----------------------------------------------------------------------------
(***************************************************************************)
(* The chat: the invariant, and what a step of one exchange's bridge does. *)
(***************************************************************************)
ChatInv ==
    /\ bridge \in [Exchanges -> Bridges]
    /\ stream \in [Exchanges -> Seq(Events)]
    /\ saved \subseteq Exchanges
    /\ panel \in Panels
    /\ Tapes
    /\ Reading
    /\ AnswersAreSaved
    /\ Fresh

Extends(seq, old) ==
    /\ Len(old) <= Len(seq)
    /\ \A i \in 1 .. Len(old) : seq[i] = old[i]

(* The exchange e moves on to c and t: nothing that was written changes,   *)
(* nor what was answered once the exchange is resolved.                    *)
Moves(e, c, t) ==
    /\ bridge' = [bridge EXCEPT ![e] = c]
    /\ stream' = [stream EXCEPT ![e] = t]
    /\ saved' \in {saved, saved \cup {e}}
    /\ Tape(e, c, t, saved')
    /\ Extends(t, stream[e])
    /\ bridge[e].resolved => c.resolved /\ c.text = bridge[e].text
    /\ bridge[e].at = "none" => c.at = "none"

LEMMA ExtendsIsReflexive == ASSUME NEW seq \in Seq(Events) PROVE Extends(seq, seq)
  BY LenProperties DEF Extends

LEMMA AppendExtends ==
    ASSUME NEW seq \in Seq(Events), NEW x \in Events, NEW y \in Events
    PROVE  Extends(Append(seq, x), seq) /\ Extends(Append(Append(seq, x), y), seq)
  <1>1. /\ Append(seq, x) \in Seq(Events) /\ Len(seq) \in Nat
        /\ Len(Append(seq, x)) = Len(seq) + 1
        /\ \A i \in 1 .. Len(seq) : Append(seq, x)[i] = seq[i]
    BY AppendEvent
  <1>2. /\ Len(Append(Append(seq, x), y)) = Len(Append(seq, x)) + 1
        /\ \A i \in 1 .. Len(Append(seq, x)) :
              Append(Append(seq, x), y)[i] = Append(seq, x)[i]
    BY <1>1, AppendEvent
  <1> HIDE DEF Extends
  <1>3. Extends(Append(seq, x), seq)
    BY <1>1 DEF Extends
  <1>4. Extends(Append(Append(seq, x), y), seq)
    BY <1>1, <1>2 DEF Extends
  <1> QED
    BY <1>3, <1>4

(* What the invariant says of one exchange that is not resolved.           *)
LEMMA TapeOfExchange ==
    ASSUME ChatInv, NEW e \in Exchanges
    PROVE  /\ Tape(e, bridge[e], stream[e], saved)
           /\ bridge[e] \in Bridges /\ stream[e] \in Seq(Events)
           /\ ~bridge[e].resolved => ~bridge[e].ended
  BY DEF ChatInv, Tapes, Tape, TapeEnded

(* A frame that the bridge only takes note of.                             *)
LEMMA NoteMoves ==
    ASSUME ChatInv, NEW e \in Exchanges, Challenge(e) \/ HelloOk(e) \/ SocketCloses(e)
    PROVE  \E c \in Bridges : Moves(e, c, stream[e])
  <1> DEFINE b == bridge[e]
  <1>1. /\ Tape(e, b, stream[e], saved) /\ b \in Bridges /\ stream[e] \in Seq(Events)
        /\ stream = [stream EXCEPT ![e] = stream[e]]
        /\ Extends(stream[e], stream[e])
    BY TapeOfExchange, ExtendsIsReflexive DEF ChatInv
  <1>2. CASE Challenge(e)
    <2> DEFINE c == [b EXCEPT !.at = "hello"]
    <2>1. bridge' = [bridge EXCEPT ![e] = c] /\ stream' = stream /\ saved' = saved
      BY <1>2 DEF Challenge
    <2>2. /\ c \in Bridges /\ c.at = "hello" /\ b.at = "challenge"
          /\ <<c.resolved, c.ended, c.text, c.tools, c.active, c.live>>
                = <<b.resolved, b.ended, b.text, b.tools, b.active, b.live>>
      BY <1>1, <1>2 DEF Challenge, Frame, Bridges
    <2> HIDE DEF c
    <2>3. Tape(e, c, stream[e], saved)
      BY <1>1, <2>2, TapeMoves
    <2> QED
      BY <1>1, <2>1, <2>2, <2>3 DEF Moves
  <1>3. CASE HelloOk(e)
    <2> DEFINE c == [b EXCEPT !.at = "run"]
    <2>1. bridge' = [bridge EXCEPT ![e] = c] /\ stream' = stream /\ saved' = saved
      BY <1>3 DEF HelloOk
    <2>2. /\ c \in Bridges /\ c.at = "run" /\ b.at = "hello"
          /\ <<c.resolved, c.ended, c.text, c.tools, c.active, c.live>>
                = <<b.resolved, b.ended, b.text, b.tools, b.active, b.live>>
      BY <1>1, <1>3 DEF HelloOk, Frame, Bridges
    <2> HIDE DEF c
    <2>3. Tape(e, c, stream[e], saved)
      BY <1>1, <2>2, TapeMoves
    <2> QED
      BY <1>1, <2>1, <2>2, <2>3 DEF Moves
  <1>4. CASE SocketCloses(e)
    <2> DEFINE c == [b EXCEPT !.socket = FALSE]
    <2>1. bridge' = [bridge EXCEPT ![e] = c] /\ stream' = stream /\ saved' = saved
      BY <1>4 DEF SocketCloses
    <2>2. /\ c \in Bridges /\ c.at = b.at
          /\ <<c.resolved, c.ended, c.text, c.tools, c.active, c.live>>
                = <<b.resolved, b.ended, b.text, b.tools, b.active, b.live>>
      BY <1>1 DEF Bridges
    <2> HIDE DEF c
    <2>3. Tape(e, c, stream[e], saved)
      BY <1>1, <2>2, TapeMoves
    <2> QED
      BY <1>1, <2>1, <2>2, <2>3 DEF Moves
  <1> QED
    BY <1>2, <1>3, <1>4

(* The run: what an unresolved exchange writes, it writes.                 *)
LEMMA RunMoves ==
    ASSUME ChatInv, NEW e \in Exchanges, Text(e) \/ AllowTool(e) \/ Phase(e) \/ End(e)
    PROVE  \E c \in Bridges, t \in Seq(Events) : Moves(e, c, t)
  <1> DEFINE b == bridge[e]
             seq == stream[e]
  <1>1. /\ Tape(e, b, seq, saved) /\ b \in Bridges /\ seq \in Seq(Events)
        /\ ~b.resolved /\ ~b.ended /\ b.at = "run"
    BY TapeOfExchange DEF Text, AllowTool, Phase, End, Frame
  <1>2. /\ \A x \in Events : Append(seq, x) \in Seq(Events)
        /\ \A x, y \in Events : Append(Append(seq, x), y) \in Seq(Events)
    BY <1>1, AppendEvent
  <1>3. {"text", "tool_start", "tool_end", "error", "persistence_error", "done"} \subseteq Events
    BY DEF Events
  <1>4. CASE Text(e)
    <2> DEFINE c == [b EXCEPT !.text = @ + 1]
               t == Append(seq, "text")
    <2>1. bridge' = [bridge EXCEPT ![e] = c] /\ saved' = saved
      BY <1>4 DEF Text
    <2>2. stream' = [stream EXCEPT ![e] = t]
      BY <1>1, <1>3, <1>4, Writes DEF Text, Write, Written
    <2>3. /\ c \in Bridges /\ ~c.ended /\ c.at = "run" /\ c.text = b.text + 1
          /\ c.tools = b.tools /\ c.active = b.active /\ c.live = b.live
      BY <1>1, <1>4, ChatBoundsAssumption DEF Text, Bridges
    <2>4. t \in Seq(Events) /\ Extends(t, seq)
      BY <1>1, <1>2, <1>3, AppendExtends
    <2> HIDE DEF c
    <2>5. Tape(e, c, t, saved)
      BY <1>1, <2>3, TapeOfText
    <2> HIDE DEF t
    <2> QED
      BY <1>1, <2>1, <2>2, <2>3, <2>4, <2>5 DEF Moves
  <1>5. CASE AllowTool(e)
    <2> DEFINE c == [b EXCEPT !.tools = @ + 1, !.active = TRUE, !.live = TRUE]
               t == IF b.active THEN Append(Append(seq, "tool_end"), "tool_start")
                                ELSE Append(seq, "tool_start")
    <2>1. bridge' = [bridge EXCEPT ![e] = c] /\ saved' = saved
      BY <1>5 DEF AllowTool
    <2>2. stream' = [stream EXCEPT ![e] = t]
      <3>1. stream' = [stream EXCEPT ![e] = seq \o (ToolEnd(e) \o <<"tool_start">>)]
        BY <1>1, <1>5 DEF AllowTool, Write, Written
      <3>2. CASE b.active
        <4>1. ToolEnd(e) \o <<"tool_start">> = <<"tool_end", "tool_start">>
          BY <1>3, <3>2, Pairs DEF ToolEnd
        <4>2. seq \o <<"tool_end", "tool_start">> = t
          BY <1>1, <1>3, <3>2, Writes
        <4> QED
          BY <3>1, <4>1, <4>2
      <3>3. CASE ~b.active
        <4>1. ToolEnd(e) \o <<"tool_start">> = <<"tool_start">>
          BY <1>3, <3>3, Pairs DEF ToolEnd
        <4>2. seq \o <<"tool_start">> = t
          BY <1>1, <1>3, <3>3, Writes
        <4> QED
          BY <3>1, <4>1, <4>2
      <3> QED
        BY <3>2, <3>3
    <2>3. /\ c \in Bridges /\ ~c.ended /\ c.at = "run" /\ c.text = b.text
          /\ c.tools = b.tools + 1 /\ c.active /\ c.live
      <3>1. b.tools + 1 \in 0 .. MaxTools
        BY <1>1, <1>5, ChatBoundsAssumption DEF AllowTool, Bridges
      <3>2. c \in Bridges
        BY <1>1, <3>1 DEF Bridges
      <3> QED
        BY <1>1, <3>2 DEF Bridges
    <2>4. t \in Seq(Events) /\ Extends(t, seq)
      BY <1>1, <1>2, <1>3, AppendExtends
    <2> HIDE DEF c
    <2>5. Tape(e, c, t, saved)
      BY <1>1, <2>3, TapeOfTool
    <2> HIDE DEF t
    <2> QED
      BY <1>1, <2>1, <2>2, <2>3, <2>4, <2>5 DEF Moves
  <1>6. CASE Phase(e) \/ End(e)
    <2> DEFINE d == IF b.live THEN "append" ELSE "transcript"
               t == IF b.active THEN Append(seq, "tool_end") ELSE seq
    <2>1. PICK c : /\ bridge' = [bridge EXCEPT ![e] = c] /\ saved' = saved
                   /\ c \in {[b EXCEPT !.active = FALSE],
                             [b EXCEPT !.at = d, !.active = FALSE]}
      <3>1. CASE Phase(e)
        <4>1. bridge' = [bridge EXCEPT ![e] = [b EXCEPT !.active = FALSE]] /\ saved' = saved
          BY <3>1 DEF Phase
        <4> QED
          BY <4>1
      <3>2. CASE End(e)
        <4>1. /\ bridge' = [bridge EXCEPT ![e] = [b EXCEPT !.at = d, !.active = FALSE]]
              /\ saved' = saved
          BY <3>2 DEF End
        <4> QED
          BY <4>1
      <3> QED
        BY <1>6, <3>1, <3>2
    <2>2. stream' = [stream EXCEPT ![e] = t]
      <3>1. stream' = [stream EXCEPT ![e] = seq \o ToolEnd(e)]
        BY <1>1, <1>6 DEF Phase, End, Write, Written
      <3>2. seq \o ToolEnd(e) = t
        BY <1>1, <1>3, Writes DEF ToolEnd
      <3> QED
        BY <3>1, <3>2
    <2>3. /\ c \in Bridges /\ ~c.ended /\ c.at \in {"run", d} /\ c.text = b.text
          /\ c.tools = b.tools /\ ~c.active /\ c.live = b.live
      BY <1>1, <2>1 DEF Bridges
    <2>4. t \in Seq(Events) /\ Extends(t, seq)
      BY <1>1, <1>2, <1>3, AppendExtends, ExtendsIsReflexive
    <2>5. Tape(e, c, t, saved)
      BY <1>1, <2>3, TapeOfStop
    <2> HIDE DEF t
    <2> QED
      BY <1>1, <2>1, <2>2, <2>3, <2>4, <2>5 DEF Moves
  <1> QED
    BY <1>4, <1>5, <1>6

(* The response ends with an error: the exchange was not resolved, so it   *)
(* is still open.                                                          *)
LEMMA ErrorMoves ==
    ASSUME ChatInv, NEW e \in Exchanges, Refused(e) \/ Timeout(e) \/ SocketBreaks(e)
    PROVE  \E c \in Bridges, t \in Seq(Events) : Moves(e, c, t)
  <1> DEFINE b == bridge[e]
             seq == stream[e]
             c == [b EXCEPT !.resolved = TRUE, !.ended = TRUE, !.socket = FALSE]
             t == Append(Append(seq, "error"), "done")
  <1>1. ~b.resolved /\ Resolve(e, <<"error">>)
    BY DEF Refused, Timeout, SocketBreaks, Frame
  <1>2. /\ Tape(e, b, seq, saved) /\ b \in Bridges /\ seq \in Seq(Events) /\ ~b.ended
    BY <1>1, TapeOfExchange
  <1>3. "error" \in Events /\ "done" \in Events
    BY DEF Events
  <1>4. bridge' = [bridge EXCEPT ![e] = c] /\ saved' = saved
    BY <1>1 DEF Resolve
  <1>5. stream' = [stream EXCEPT ![e] = t]
    <2>1. stream' = [stream EXCEPT ![e] = seq \o (<<"error">> \o <<"done">>)]
      BY <1>1, <1>2 DEF Resolve, Write, Written
    <2>2. seq \o (<<"error">> \o <<"done">>) = t
      BY <1>2, <1>3, Writes, Pairs
    <2> QED
      BY <2>1, <2>2
  <1>6. /\ c \in Bridges /\ c.ended /\ c.resolved /\ c.text = b.text /\ c.at = b.at
        /\ c.tools = b.tools /\ c.live = b.live
    BY <1>2 DEF Bridges
  <1>7. t \in Seq(Events) /\ Extends(t, seq)
    BY <1>2, <1>3, AppendEvent, AppendExtends
  <1> HIDE DEF c
  <1>8. Tape(e, c, t, saved)
    BY <1>2, <1>6, TapeOfError
  <1> HIDE DEF t
  <1> QED
    BY <1>1, <1>4, <1>5, <1>6, <1>7, <1>8 DEF Moves

(* The transcript comes back, to a response that may have ended.           *)
LEMMA ReplayMoves ==
    ASSUME ChatInv, NEW e \in Exchanges, Replay(e)
    PROVE  \E c \in Bridges, t \in Seq(Events) : Moves(e, c, t)
  <1> DEFINE b == bridge[e]
             seq == stream[e]
             c == [b EXCEPT !.at = "append"]
             more == Append(Append(seq, "tool_start"), "tool_end")
  <1>1. /\ Tape(e, b, seq, saved) /\ b \in Bridges /\ seq \in Seq(Events)
        /\ b.at = "transcript"
    BY TapeOfExchange DEF Replay
  <1>2. "tool_start" \in Events /\ "tool_end" \in Events
    BY DEF Events
  <1>3. bridge' = [bridge EXCEPT ![e] = c] /\ saved' = saved
    BY DEF Replay
  <1>4. PICK t \in {seq, more} : stream' = [stream EXCEPT ![e] = t] /\ (b.ended => t = seq)
    <2>1. PICK events \in {<<>>, <<"tool_start", "tool_end">>} : Write(e, events)
      BY DEF Replay
    <2>2. seq \o events \in {seq, more}
      <3>1. CASE events = <<>>
        BY <1>1, <1>2, <3>1, Writes
      <3>2. CASE events = <<"tool_start", "tool_end">>
        BY <1>1, <1>2, <3>2, Writes
      <3> QED
        BY <2>1, <3>1, <3>2
    <2>3. stream' = [stream EXCEPT ![e] = IF b.ended THEN seq ELSE seq \o events]
      BY <2>1 DEF Write, Written
    <2> HIDE DEF more
    <2> QED
      BY <2>2, <2>3
  <1>5. /\ c \in Bridges /\ c.at = "append" /\ c.text = b.text /\ c.tools = b.tools
        /\ c.active = b.active /\ c.live = b.live /\ c.ended = b.ended /\ c.resolved = b.resolved
    BY <1>1 DEF Bridges
  <1>6. t \in Seq(Events) /\ Extends(t, seq)
    <2>1. more \in Seq(Events) /\ Extends(more, seq) /\ Extends(seq, seq)
      BY <1>1, <1>2, AppendEvent, AppendExtends, ExtendsIsReflexive
    <2> HIDE DEF more
    <2> QED
      BY <1>1, <2>1
  <1> HIDE DEF c
  <1>7. Tape(e, c, t, saved)
    <2>1. CASE b.ended
      <3>1. b.resolved
        BY <1>1, <2>1 DEF Tape, TapeEnded
      <3> QED
        BY <1>1, <1>4, <1>5, <2>1, <3>1, TapeIsCut
    <2>2. CASE ~b.ended
      BY <1>1, <1>4, <1>5, <2>2, TapeOfReplay
    <2> QED
      BY <2>1, <2>2
  <1> HIDE DEF more
  <1> QED
    BY <1>1, <1>3, <1>4, <1>5, <1>6, <1>7 DEF Moves

(* The database answers, to a response that may have ended.                *)
LEMMA FinishMoves ==
    ASSUME ChatInv, NEW e \in Exchanges, Save(e) \/ SaveFails(e)
    PROVE  \E c \in Bridges, t \in Seq(Events) : Moves(e, c, t)
  <1> DEFINE b == bridge[e]
             seq == stream[e]
             c == [b EXCEPT !.at = "finished", !.resolved = TRUE, !.ended = TRUE,
                            !.socket = FALSE]
             fine == Append(seq, "done")
             failed == Append(Append(seq, "persistence_error"), "done")
  <1>1. /\ Tape(e, b, seq, saved) /\ b \in Bridges /\ seq \in Seq(Events) /\ b.at = "append"
    BY TapeOfExchange DEF Save, SaveFails
  <1>2. "persistence_error" \in Events /\ "done" \in Events
    BY DEF Events
  <1>3. bridge' = [bridge EXCEPT ![e] = c]
    BY DEF Save, SaveFails, Finish
  <1>4. saved' \in {saved, saved \cup {e}}
    BY DEF Save, SaveFails
  <1>5. PICK t \in {seq, fine, failed} :
           /\ stream' = [stream EXCEPT ![e] = t]
           /\ b.ended => t = seq
           /\ ~b.ended => t = failed \/ (t = fine /\ (b.text = 0 \/ e \in saved'))
    <2>1. CASE b.ended
      <3>1. stream' = [stream EXCEPT ![e] = seq]
        BY <2>1 DEF Save, SaveFails, Finish, Write, Written
      <3> HIDE DEF fine, failed
      <3> QED
        BY <2>1, <3>1
    <2>2. CASE ~b.ended /\ Save(e)
      <3>1. stream' = [stream EXCEPT ![e] = seq \o (<<>> \o <<"done">>)]
        BY <2>2 DEF Save, Finish, Write, Written
      <3>2. seq \o (<<>> \o <<"done">>) = fine
        BY <1>1, <1>2, Writes, Pairs
      <3>3. b.text = 0 \/ e \in saved'
        BY <1>1, <2>2 DEF Save, Bridges
      <3> HIDE DEF fine, failed
      <3> QED
        BY <2>2, <3>1, <3>2, <3>3
    <2>3. CASE ~b.ended /\ SaveFails(e)
      <3>1. stream' = [stream EXCEPT ![e] = seq \o (<<"persistence_error">> \o <<"done">>)]
        BY <2>3 DEF SaveFails, Finish, Write, Written
      <3>2. seq \o (<<"persistence_error">> \o <<"done">>) = failed
        BY <1>1, <1>2, Writes, Pairs
      <3> HIDE DEF fine, failed
      <3> QED
        BY <2>3, <3>1, <3>2
    <2> QED
      BY <2>1, <2>2, <2>3
  <1>6. /\ c \in Bridges /\ c.ended /\ c.resolved /\ c.text = b.text
        /\ c.tools = b.tools /\ c.live = b.live
    BY <1>1 DEF Bridges
  <1>7. t \in Seq(Events) /\ Extends(t, seq)
    <2>1. fine \in Seq(Events) /\ Extends(fine, seq) /\ Extends(seq, seq)
      BY <1>1, <1>2, AppendEvent, AppendExtends, ExtendsIsReflexive
    <2>2. failed \in Seq(Events) /\ Extends(failed, seq)
      BY <1>1, <1>2, AppendEvent, AppendExtends
    <2> HIDE DEF fine, failed
    <2> QED
      BY <1>1, <2>1, <2>2
  <1> HIDE DEF c
  <1>8. Tape(e, c, t, saved')
    <2>1. CASE b.ended
      <3>1. Tape(e, b, seq, saved')
        BY <1>1, <1>4, TapeIsKept
      <3> QED
        BY <1>5, <1>6, <2>1, <3>1, TapeIsCut
    <2>2. CASE ~b.ended
      BY <1>1, <1>5, <1>6, <2>2, TapeOfFinish
    <2> QED
      BY <2>1, <2>2
  <1> HIDE DEF fine, failed
  <1> QED
    BY <1>1, <1>3, <1>4, <1>5, <1>6, <1>7, <1>8 DEF Moves

(* Such a step keeps the invariant: of the other exchanges nothing changes,*)
(* and the panel finds what it read as it was.                             *)
LEMMA MovesKeepInv ==
    ASSUME ChatInv, NEW e \in Exchanges, NEW c \in Bridges, NEW t \in Seq(Events),
           Moves(e, c, t), panel' = panel
    PROVE  ChatInv'
  <1>1. /\ bridge' \in [Exchanges -> Bridges] /\ stream' \in [Exchanges -> Seq(Events)]
        /\ bridge'[e] = c /\ stream'[e] = t
        /\ \A x \in Exchanges : x # e => bridge'[x] = bridge[x] /\ stream'[x] = stream[x]
    BY DEF ChatInv, Moves
  <1>2. /\ saved' \subseteq Exchanges /\ saved \subseteq saved'
        /\ \A x \in Exchanges : x # e => (x \in saved' <=> x \in saved)
    BY DEF ChatInv, Moves
  <1>3. Tapes'
    <2> SUFFICES ASSUME NEW x \in Exchanges
                 PROVE  Tape(x, bridge'[x], stream'[x], saved')
      BY DEF Tapes
    <2>1. CASE x = e
      BY <1>1, <2>1 DEF Moves
    <2>2. CASE x # e
      <3>1. Tape(x, bridge[x], stream[x], saved)
        BY DEF ChatInv, Tapes
      <3>2. Tape(x, bridge[x], stream[x], saved')
        BY <1>2, <3>1, TapeIsKept
      <3> QED
        BY <1>1, <2>2, <3>2
    <2> QED
      BY <2>1, <2>2
  <1>4. Reading'
    <2> SUFFICES ASSUME panel.sending
                 PROVE  /\ panel.exchange \in Exchanges
                        /\ panel.read <= Len(stream'[panel.exchange])
                        /\ \A i \in 1 .. panel.read :
                              /\ stream'[panel.exchange][i] # "error"
                              /\ stream'[panel.exchange][i] = "persistence_error" => panel.failed
      BY DEF Reading
    <2>1. /\ panel.exchange \in Exchanges /\ panel.read \in Nat
          /\ panel.read <= Len(stream[panel.exchange])
          /\ \A i \in 1 .. panel.read :
                /\ stream[panel.exchange][i] # "error"
                /\ stream[panel.exchange][i] = "persistence_error" => panel.failed
      BY DEF ChatInv, Reading, Panels
    <2>2. CASE panel.exchange # e
      BY <1>1, <2>1, <2>2
    <2>3. CASE panel.exchange = e
      <3>1. /\ Len(stream[e]) \in Nat /\ Len(t) \in Nat /\ Len(stream[e]) <= Len(t)
            /\ \A i \in 1 .. Len(stream[e]) : t[i] = stream[e][i]
        BY LenProperties DEF Moves, Extends, ChatInv
      <3>2. \A i \in 1 .. panel.read : i \in 1 .. Len(stream[e])
        BY <2>1, <2>3, <3>1
      <3> QED
        BY <1>1, <2>1, <2>3, <3>1, <3>2
    <2> QED
      BY <2>2, <2>3
  <1>5. AnswersAreSaved'
    <2> SUFFICES ASSUME NEW x \in Exchanges, panel.shown[x] = "answer"
                 PROVE  bridge'[x].resolved /\ (bridge'[x].text = 0 \/ x \in saved')
      BY DEF AnswersAreSaved
    <2>1. bridge[x].resolved /\ (bridge[x].text = 0 \/ x \in saved)
      BY DEF ChatInv, AnswersAreSaved
    <2> QED
      BY <1>1, <1>2, <2>1 DEF Moves
  <1>6. Fresh'
    <2> SUFFICES ASSUME NEW x \in Exchanges, x > panel.exchange
                 PROVE  bridge'[x].at = "none"
      BY DEF Fresh
    <2>1. bridge[x].at = "none"
      BY DEF ChatInv, Fresh
    <2> QED
      BY <1>1, <2>1 DEF Moves
  <1>7. panel' \in Panels
    BY DEF ChatInv
  <1> QED
    BY <1>1, <1>2, <1>3, <1>4, <1>5, <1>6, <1>7 DEF ChatInv

LEMMA BridgesKeepInv ==
    ASSUME ChatInv, NEW e \in Exchanges,
           \/ Challenge(e) \/ HelloOk(e) \/ Refused(e) \/ Text(e) \/ AllowTool(e) \/ Phase(e)
           \/ End(e) \/ Await(e) \/ Timeout(e) \/ SocketBreaks(e) \/ SocketCloses(e)
    PROVE  ChatInv'
  <1>1. panel' = panel
    BY DEF Challenge, HelloOk, Refused, Text, AllowTool, Phase, End, Await, Replay, Save,
           SaveFails, Finish, Timeout, SocketBreaks, SocketCloses, Resolve
  <1>2. \E c \in Bridges, t \in Seq(Events) : Moves(e, c, t)
    <2>1. CASE Challenge(e) \/ HelloOk(e) \/ SocketCloses(e)
      BY <2>1, NoteMoves, TapeOfExchange
    <2>2. CASE Text(e) \/ AllowTool(e) \/ Phase(e) \/ End(e)
      BY <2>2, RunMoves
    <2>3. CASE Refused(e) \/ Timeout(e) \/ SocketBreaks(e)
      BY <2>3, ErrorMoves
    <2>4. CASE Await(e)
      BY <2>4, ReplayMoves, FinishMoves DEF Await
    <2> QED
      BY <2>1, <2>2, <2>3, <2>4
  <1> QED
    BY <1>1, <1>2, MovesKeepInv

(* The panel sends: the next exchange, which nobody has touched.           *)
LEMMA SendKeepsInv == ASSUME ChatInv, Send PROVE ChatInv'
  <1>1. PICK e \in Exchanges :
           /\ e = panel.exchange + 1
           /\ bridge' = [bridge EXCEPT ![e].at = "challenge", ![e].socket = TRUE]
           /\ panel' = [panel EXCEPT !.exchange = e, !.sending = TRUE, !.read = 0, !.text = 0,
                                     !.tools = 0, !.failed = FALSE]
    BY DEF Send
  <1> DEFINE b == bridge[e]
             c == [b EXCEPT !.at = "challenge", !.socket = TRUE]
  <1>2. /\ Tape(e, b, stream[e], saved) /\ b \in Bridges /\ stream[e] \in Seq(Events)
        /\ panel \in Panels
    BY TapeOfExchange DEF ChatInv
  <1>3. panel.exchange \in Nat
    <2>1. panel.exchange \in Exchanges \cup {0}
      BY <1>2 DEF Panels, NoExchange
    <2>2. Exchanges \subseteq Nat /\ 0 \in Nat
      BY ChatBoundsAssumption
    <2> QED
      BY <2>1, <2>2, Zenon
  <1>4. b.at = "none"
    <2>1. e > panel.exchange
      BY <1>1, <1>3
    <2> QED
      BY <2>1 DEF ChatInv, Fresh
  <1>5. bridge' = [bridge EXCEPT ![e] = c] /\ stream' = stream /\ saved' = saved
    <2>1. bridge' = [bridge EXCEPT ![e] = c]
      BY <1>1
    <2> QED
      BY <2>1 DEF Send
  <1>6. /\ c \in Bridges /\ c.at = "challenge"
        /\ <<c.resolved, c.ended, c.text, c.tools, c.active, c.live>>
              = <<b.resolved, b.ended, b.text, b.tools, b.active, b.live>>
    BY <1>2 DEF Bridges
  <1> HIDE DEF c
  <1>7. Tape(e, c, stream[e], saved)
    BY <1>2, <1>4, <1>6, TapeMoves
  <1>8. /\ bridge' \in [Exchanges -> Bridges] /\ bridge'[e] = c
        /\ \A x \in Exchanges : x # e => bridge'[x] = bridge[x]
    BY <1>5, <1>6 DEF ChatInv
  <1>9. Tapes'
    BY <1>5, <1>7, <1>8 DEF ChatInv, Tapes
  <1>10. /\ panel' \in Panels /\ panel'.exchange = e /\ panel'.read = 0
         /\ panel'.shown = panel.shown
    BY <1>1, <1>2 DEF Panels
  <1>11. Reading'
    BY <1>2, <1>5, <1>10, LenProperties DEF Reading
  <1>12. AnswersAreSaved'
    BY <1>5, <1>6, <1>8, <1>10 DEF ChatInv, AnswersAreSaved
  <1>13. Fresh'
    <2> SUFFICES ASSUME NEW x \in Exchanges, x > e
                 PROVE  bridge'[x].at = "none"
      BY <1>10 DEF Fresh
    <2>1. x # e /\ x > panel.exchange
      BY <1>1, <1>3, ChatBoundsAssumption
    <2> QED
      BY <1>8, <2>1 DEF ChatInv, Fresh
  <1> QED
    BY <1>5, <1>8, <1>9, <1>10, <1>11, <1>12, <1>13 DEF ChatInv

(* What sendMessage shows, and what it has read by then.                   *)
LEMMA ReadKeepsInv == ASSUME ChatInv, Read PROVE ChatInv'
  <1>1. /\ panel.sending /\ panel.exchange \in Exchanges /\ panel.read \in Nat
        /\ panel \in Panels /\ stream[panel.exchange] \in Seq(Events)
        /\ Len(stream[panel.exchange]) \in Nat
        /\ panel.read + 1 <= Len(stream[panel.exchange])
    <2>1. panel.sending /\ panel.read < Len(stream[panel.exchange])
      BY DEF Read, ReadTool, ReadText, ReadFailure, ReadError, ReadDone, Unread, Current
    <2>2. panel \in Panels /\ panel.exchange \in Exchanges /\ panel.read \in Nat
      BY <2>1 DEF ChatInv, Reading, Panels
    <2>3. stream[panel.exchange] \in Seq(Events) /\ Len(stream[panel.exchange]) \in Nat
      BY <2>2, LenProperties DEF ChatInv
    <2> QED
      BY <2>1, <2>2, <2>3
  <1>6. /\ panel.read + 1 \in Nat /\ panel.text + 1 \in Nat /\ panel.tools + 1 \in Nat
        /\ panel.exchange \in Exchanges \cup {NoExchange} /\ panel.sending \in BOOLEAN
        /\ panel.text \in Nat /\ panel.tools \in Nat /\ panel.failed \in BOOLEAN
        /\ panel.shown \in [Exchanges -> {"nothing", "answer", "error"}]
    <2>1. panel \in Panels
      BY <1>1
    <2> QED
      BY <2>1 DEF Panels
  <1>2. bridge' = bridge /\ stream' = stream /\ saved' = saved
    BY DEF Read, ReadTool, ReadText, ReadFailure, ReadError, ReadDone
  <1>3. /\ \A i \in 1 .. panel.read :
              /\ stream[panel.exchange][i] # "error"
              /\ stream[panel.exchange][i] = "persistence_error" => panel.failed
        /\ \A i \in 1 .. (panel.read + 1) : i \in 1 .. panel.read \/ i = panel.read + 1
    BY <1>1 DEF ChatInv, Reading
  <1>4. CASE ReadTool \/ ReadText \/ ReadFailure
    <2>1. /\ panel' \in Panels /\ panel'.exchange = panel.exchange /\ panel'.shown = panel.shown
          /\ panel'.read = panel.read + 1 /\ panel'.sending = panel.sending
          /\ panel.failed => panel'.failed
          /\ Event = "persistence_error" => panel'.failed
      <3>1. CASE ReadTool
        <4>1. panel' = [panel EXCEPT !.read = @ + 1, !.tools = @ + 1]
          BY <3>1 DEF ReadTool
        <4>2. panel' \in Panels
          BY <1>1, <1>6, <4>1 DEF Panels
        <4> QED
          BY <1>1, <3>1, <4>1, <4>2 DEF Panels, ReadTool
      <3>2. CASE ReadText
        <4>1. panel' = [panel EXCEPT !.read = @ + 1, !.text = @ + 1]
          BY <3>2 DEF ReadText
        <4>2. panel' \in Panels
          BY <1>1, <1>6, <4>1 DEF Panels
        <4> QED
          BY <1>1, <3>2, <4>1, <4>2 DEF Panels, ReadText
      <3>3. CASE ReadFailure
        <4>1. panel' = [panel EXCEPT !.read = @ + 1, !.failed = TRUE]
          BY <3>3 DEF ReadFailure
        <4>2. panel' \in Panels
          BY <1>1, <1>6, <4>1 DEF Panels
        <4> QED
          BY <1>1, <4>1, <4>2 DEF Panels
      <3> QED
        BY <1>4, <3>1, <3>2, <3>3
    <2>2. Event # "error" /\ Event = stream[panel.exchange][panel.read + 1]
      BY <1>4 DEF ReadTool, ReadText, ReadFailure, Event, Current
    <2>3. Reading'
      BY <1>1, <1>2, <1>3, <2>1, <2>2 DEF Reading
    <2>4. AnswersAreSaved' /\ Fresh' /\ Tapes'
      BY <1>2, <2>1 DEF ChatInv, AnswersAreSaved, Fresh, Tapes
    <2> QED
      BY <1>2, <2>1, <2>3, <2>4 DEF ChatInv
  <1>5. CASE ReadError \/ ReadDone
    <2>1. PICK how \in {"answer", "error"} :
             /\ panel' = [panel EXCEPT !.read = @ + 1, !.sending = FALSE,
                                       !.shown[panel.exchange] = how]
             /\ how = "answer" => Event = "done" /\ ~panel.failed
      <3>1. CASE ReadError
        BY <3>1 DEF ReadError, Shown, Current
      <3>2. CASE ReadDone
        BY <3>2 DEF ReadDone, Shown, Current
      <3> QED
        BY <1>5, <3>1, <3>2
    <2>2. /\ panel' \in Panels /\ panel'.exchange = panel.exchange /\ ~panel'.sending
          /\ panel'.shown = [panel.shown EXCEPT ![panel.exchange] = how]
      <3>1. [panel.shown EXCEPT ![panel.exchange] = how]
               \in [Exchanges -> {"nothing", "answer", "error"}]
        BY <1>1 DEF Panels
      <3>2. panel' = [panel EXCEPT !.read = panel.read + 1, !.sending = FALSE,
                         !.shown = [panel.shown EXCEPT ![panel.exchange] = how]]
        BY <2>1
      <3>3. panel' \in Panels
        BY <1>1, <1>6, <3>1, <3>2 DEF Panels
      <3> QED
        BY <1>1, <3>2, <3>3 DEF Panels
    <2>3. how = "answer" => /\ bridge[panel.exchange].resolved
                            /\ bridge[panel.exchange].text = 0 \/ panel.exchange \in saved
      <3> SUFFICES ASSUME how = "answer"
                   PROVE  /\ bridge[panel.exchange].resolved
                          /\ bridge[panel.exchange].text = 0 \/ panel.exchange \in saved
        OBVIOUS
      <3> DEFINE b == bridge[panel.exchange]
                 seq == stream[panel.exchange]
                 n == panel.read + 1
      <3>1. n \in 1 .. Len(seq) /\ seq[n] = "done" /\ ~panel.failed
        BY <1>1, <2>1 DEF Event, Current
      <3>2. Tape(panel.exchange, b, seq, saved)
        BY <1>1, TapeOfExchange
      <3>3. \A j \in 1 .. Len(seq) : j < n => j \in 1 .. panel.read
        BY <1>1
      <3>4. \A j \in 1 .. Len(seq) : j < n => seq[j] \notin {"error", "persistence_error"}
        BY <1>3, <3>1, <3>3
      <3> HIDE DEF n, seq, b
      <3>5. b.ended
        BY <3>1, <3>2 DEF Tape, TapeOpen, Quiet
      <3>6. b.resolved /\ (b.text = 0 \/ panel.exchange \in saved)
        BY <3>1, <3>2, <3>4, <3>5 DEF Tape, TapeEnded
      <3> QED
        BY <3>6 DEF b
    <2>4. panel.shown \in [Exchanges -> {"nothing", "answer", "error"}]
      BY <1>1 DEF Panels
    <2>5. AnswersAreSaved'
      BY <1>1, <1>2, <2>2, <2>3, <2>4 DEF ChatInv, AnswersAreSaved
    <2>6. Reading' /\ Fresh' /\ Tapes'
      BY <1>2, <2>2 DEF ChatInv, Reading, Fresh, Tapes
    <2> QED
      BY <1>2, <2>2, <2>5, <2>6 DEF ChatInv
  <1> QED
    BY <1>4, <1>5 DEF Read

(* The panel leaves: the response ends with what it has.                   *)
LEMMA LeaveKeepsInv == ASSUME ChatInv, Leave PROVE ChatInv'
  <1> DEFINE e == panel.exchange
             b == bridge[e]
             c == [b EXCEPT !.resolved = TRUE, !.ended = TRUE, !.socket = FALSE]
  <1>1. e \in Exchanges /\ panel \in Panels
    BY DEF Leave, ChatInv, Reading
  <1>2. Tape(e, b, stream[e], saved) /\ b \in Bridges /\ stream[e] \in Seq(Events)
    BY <1>1, TapeOfExchange
  <1>3. bridge' = [bridge EXCEPT ![e] = c] /\ stream' = stream /\ saved' = saved
    BY DEF Leave, Current
  <1>4. /\ c \in Bridges /\ c.ended /\ c.resolved /\ c.text = b.text /\ c.at = b.at
        /\ c.tools = b.tools /\ c.live = b.live
    BY <1>2 DEF Bridges
  <1>5. /\ panel' \in Panels /\ panel'.exchange = e /\ ~panel'.sending
        /\ panel'.shown = panel.shown
    BY <1>1 DEF Leave, Panels
  <1> HIDE DEF c
  <1>6. Tape(e, c, stream[e], saved)
    BY <1>2, <1>4, TapeIsCut
  <1> HIDE DEF e
  <1>7. /\ bridge' \in [Exchanges -> Bridges] /\ bridge'[e] = c
        /\ \A x \in Exchanges : x # e => bridge'[x] = bridge[x]
    BY <1>1, <1>3, <1>4 DEF ChatInv
  <1>8. Tapes'
    BY <1>3, <1>6, <1>7 DEF ChatInv, Tapes
  <1>9. Reading'
    BY <1>5 DEF Reading
  <1>10. AnswersAreSaved'
    BY <1>3, <1>4, <1>5, <1>7 DEF ChatInv, AnswersAreSaved
  <1>11. Fresh'
    BY <1>4, <1>5, <1>7 DEF ChatInv, Fresh, e
  <1> QED
    BY <1>3, <1>5, <1>7, <1>8, <1>9, <1>10, <1>11 DEF ChatInv

LEMMA ChatInvInit == ChatInit => ChatInv
  <1> SUFFICES ASSUME ChatInit
               PROVE  ChatInv
    OBVIOUS
  <1>1. bridge \in [Exchanges -> Bridges]
    BY ChatBoundsAssumption DEF ChatInit, Bridges
  <1>2. stream \in [Exchanges -> Seq(Events)]
    BY EmptySeq DEF ChatInit
  <1>3. panel \in Panels
    BY DEF ChatInit, Panels
  <1>4. Tapes
    <2> SUFFICES ASSUME NEW e \in Exchanges
                 PROVE  Tape(e, bridge[e], stream[e], saved)
      BY DEF Tapes
    <2>1. bridge[e] \in Bridges /\ stream[e] \in Seq(Events)
      BY <1>1, <1>2
    <2>2. /\ bridge[e].at = "none" /\ ~bridge[e].ended /\ ~bridge[e].active /\ ~bridge[e].live
          /\ bridge[e].text = 0 /\ bridge[e].tools = 0 /\ stream[e] = <<>>
      BY DEF ChatInit
    <2>3. Quiet(<<>>) /\ Len(<<>>) = 0
      BY EmptySeq DEF Quiet
    <2>4. TapeOpen(bridge[e], stream[e])
      BY <2>2, <2>3, OccOfEmpty DEF TapeOpen, Ones, Replayed
    <2> QED
      BY <2>1, <2>2, <2>4 DEF Tape
  <1>5. Reading /\ AnswersAreSaved /\ Fresh
    BY DEF ChatInit, Reading, AnswersAreSaved, Fresh
  <1>6. saved \subseteq Exchanges
    BY DEF ChatInit
  <1> QED
    BY <1>1, <1>2, <1>3, <1>4, <1>5, <1>6 DEF ChatInv

LEMMA ChatInvNext == ChatInv /\ [ChatNext]_chatVars => ChatInv'
  <1> SUFFICES ASSUME ChatInv, [ChatNext]_chatVars
               PROVE  ChatInv'
    OBVIOUS
  <1>1. CASE UNCHANGED chatVars
    BY <1>1 DEF chatVars, ChatInv, Tapes, Reading, AnswersAreSaved, Fresh
  <1> QED
    BY <1>1, BridgesKeepInv, SendKeepsInv, ReadKeepsInv, LeaveKeepsInv DEF ChatNext

THEOREM ChatInvariant == ChatSpec => []ChatInv
  BY ChatInvInit, ChatInvNext, PTL DEF ChatSpec

-----------------------------------------------------------------------------
(***************************************************************************)
(* The chat: what the runs check, for any exchanges and bounds.            *)
(***************************************************************************)
(* Every variable keeps to its type, and a stream to the length that what  *)
(* the run said and used allows: nothing is written after its end.         *)
THEOREM ChatTypeCorrect == ChatSpec => []ChatTypeOK
  <1>1. ChatInv => ChatTypeOK
    <2> SUFFICES ASSUME ChatInv
                 PROVE  ChatTypeOK
      OBVIOUS
    <2>1. ASSUME NEW e \in Exchanges
          PROVE  /\ Range(stream[e]) \subseteq Events
                 /\ Len(stream[e]) <= MaxText + 2 * MaxTools + 2
      <3>1. Tape(e, bridge[e], stream[e], saved) /\ stream[e] \in Seq(Events)
        BY TapeOfExchange
      <3>2. Range(stream[e]) \subseteq Events
        BY <3>1, LenProperties, ElementOfSeq DEF Range
      <3>3. CASE bridge[e].ended
        BY <3>1, <3>2, <3>3 DEF Tape, TapeEnded
      <3>4. CASE ~bridge[e].ended
        <4>1. Len(stream[e]) \in Nat /\ Len(stream[e]) <= MaxText + 2 * MaxTools
          BY <3>1, <3>4, TapeIsShort
        <4> QED
          BY <3>2, <4>1, ChatBoundsAssumption
      <3> QED
        BY <3>3, <3>4
    <2> QED
      BY <2>1 DEF ChatInv, ChatTypeOK
  <1> QED
    BY <1>1, ChatInvariant, PTL

(* For any number of exchanges, however the timer, the socket, the client, *)
(* the transcript and the database are timed: an answer that the panel     *)
(* shows as such, and that said something, is in the conversation.         *)
THEOREM ShownIsSavedAlways == ChatSpec => []ShownIsSaved
  <1>1. ChatInv => ShownIsSaved
    <2> SUFFICES ASSUME ChatInv, NEW e \in Exchanges, panel.shown[e] = "answer",
                        bridge[e].text > 0
                 PROVE  e \in saved
      BY DEF ShownIsSaved
    <2>1. bridge[e].text = 0 \/ e \in saved
      BY DEF ChatInv, AnswersAreSaved
    <2> QED
      BY <2>1
  <1> QED
    BY <1>1, ChatInvariant, PTL

(* For any bounds: a stream that ended without an error leaves no tool     *)
(* running.                                                                *)
THEOREM ToolsAreEndedAlways == ChatSpec => []ToolsAreEnded
  <1>1. ChatInv => ToolsAreEnded
    <2> SUFFICES ASSUME ChatInv, NEW e \in Exchanges, Contains(stream[e], "done"),
                        ~Contains(stream[e], "error")
                 PROVE  Count(e, "tool_start") = Count(e, "tool_end")
      BY DEF ToolsAreEnded
    <2>1. Tape(e, bridge[e], stream[e], saved)
      BY TapeOfExchange
    <2>2. PICK i \in 1 .. Len(stream[e]) : stream[e][i] = "done"
      BY DEF Contains
    <2>3. \A j \in 1 .. Len(stream[e]) : stream[e][j] # "error"
      BY DEF Contains
    <2>4. bridge[e].ended
      BY <2>1, <2>2 DEF Tape, TapeOpen, Quiet
    <2>5. Even(stream[e])
      BY <2>1, <2>2, <2>3, <2>4 DEF Tape, TapeEnded
    <2> QED
      BY <2>5 DEF Even, Occ, Count
  <1> QED
    BY <1>1, ChatInvariant, PTL
=============================================================================
