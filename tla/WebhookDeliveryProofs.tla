----------------------- MODULE WebhookDeliveryProofs -----------------------
(***************************************************************************)
(* For any triggers, public ids, delivery ids and requests: a delivery     *)
(* reaches the sandbox at most once while the ledger remembers it, and the *)
(* outcome the ledger holds is true and final.                             *)
(*                                                                         *)
(* The argument is about the holder of a row, the request whose INSERT     *)
(* made it.  A row has one, who has not called while it looks for the      *)
(* sandbox, and a row somebody holds is never past its retention.          *)
(***************************************************************************)
EXTENDS WebhookDelivery, TLAPS

Holds(r) == request[r].at \in Working \ {"reserve"}

(* Where the row is still pending, where it is pending or failed already,  *)
(* and where the gateway has said yes.                                     *)
Untold == Holding \cup {"waiting", "markUnsent", "markRejected", "markDelivered"}
Refusing == {"persistUnsent", "persistRejected", "markFailed", "persistFailed"}
Agreed == {"markDelivered", "persistDelivered"}

HasKey == \A r \in Requests : request[r].at # "idle" => Key(r) \in Keys /\ request[r].trigger \in Triggers

RowIsHeld ==
    \A r \in Requests : Holds(r) => ledger[Key(r)].status # "absent" /\ ~Old(Key(r))

OneHolder ==
    \A q, r \in Requests : Holds(q) /\ Holds(r) /\ Key(q) = Key(r) => q = r

NotYetCalled ==
    \A r \in Requests : request[r].at \in Holding => calls[Key(r)] = 0

ForgottenAltogether ==
    \A k \in Keys : ledger[k].status = "absent" => ~Old(k) /\ calls[k] = 0 /\ k \notin accepted

RowTellsPlace ==
    \A r \in Requests :
        /\ request[r].at \in Untold => ledger[Key(r)].status = "pending"
        /\ request[r].at \in Refusing => ledger[Key(r)].status \in {"pending", "failed"}
        /\ request[r].at \in Agreed => Key(r) \in accepted

Inv ==
    /\ TypeOK
    /\ HasKey
    /\ RowIsHeld
    /\ OneHolder
    /\ NotYetCalled
    /\ ForgottenAltogether
    /\ RowTellsPlace
    /\ NeverInvokedTwice
    /\ DeliveredIsTrue
-----------------------------------------------------------------------------
(* What a request's step to another place leaves of it.                    *)
LEMMA GotoType ==
    ASSUME TypeOK, NEW r \in Requests, NEW where \in {"idle"} \cup Working \cup Over,
           Goto(r, where)
    PROVE  /\ request' \in [Requests -> Handlers]
           /\ \A q \in Requests : q # r => request'[q] = request[q]
           /\ request'[r].at = where
           /\ \A q \in Requests : request'[q].key = request[q].key /\ request'[q].trigger = request[q].trigger
  BY DEF TypeOK, Goto, Handlers

LEMMA InitInv == Init => Inv
  <1>1. Init => TypeOK
    BY DEF Init, TypeOK, Trigger, Handlers, Absent, Working, Over
  <1> QED
    BY <1>1 DEF Init, Inv, HasKey, RowIsHeld, OneHolder, NotYetCalled, ForgottenAltogether,
                RowTellsPlace, NeverInvokedTwice, DeliveredIsTrue, Holds, Key, Old, Absent,
                Working, Holding, Failing, Untold, Refusing, Agreed

LEMMA TypeStep == TypeOK /\ HasKey /\ [Next]_vars => TypeOK'
  <1> SUFFICES ASSUME TypeOK, HasKey, [Next]_vars PROVE TypeOK'
    OBVIOUS
  <1>1. ASSUME NEW r \in Requests, Handle(r) PROVE TypeOK'
    <2>1. ASSUME NEW t \in Triggers, NEW d \in Deliveries, Receive(r, t, d) PROVE TypeOK'
      <3>1. <<triggers[t].handle, d>> \in Keys
        BY <2>1 DEF Receive, TypeOK, Trigger, Keys
      <3> QED
        BY <2>1, <3>1 DEF Receive, TypeOK, Handlers, Working
    <2>2. CASE Reserve(r)
      <3>1. request' \in [Requests -> Handlers]
        BY <2>2, GotoType DEF Reserve, Working, Holding, Over
      <3>2. calls' \in [Keys -> Nat] /\ accepted' \in SUBSET Keys
        BY <2>2 DEF Reserve, ForgetOld, TypeOK
      <3>3. ledger' \in [Keys -> [status : {"absent", "pending", "delivered", "failed"}, old : BOOLEAN]]
        <4>1. Pruned \in [Keys -> [status : {"absent", "pending", "delivered", "failed"},
                                   old : BOOLEAN]]
          BY DEF TypeOK, Pruned, Absent
        <4>2. [status |-> "pending", old |-> FALSE] \in
                  [status : {"absent", "pending", "delivered", "failed"}, old : BOOLEAN]
          OBVIOUS
        <4> QED
          BY <2>2, <4>1, <4>2 DEF Reserve
      <3> QED
        BY <2>2, <3>1, <3>2, <3>3 DEF Reserve, TypeOK
    <2>3. CASE FindSandbox(r) \/ SendFails(r) \/ AnswerRejected(r) \/ AnswerFails(r) \/ StoreFails(r)
      <3>1. request' \in [Requests -> Handlers]
        BY <2>3, GotoType DEF FindSandbox, SendFails, AnswerRejected, AnswerFails, StoreFails,
                              Working, Holding, Failing, Over
      <3> QED
        BY <2>3, <3>1 DEF FindSandbox, SendFails, AnswerRejected, AnswerFails, StoreFails, TypeOK,
                          untouched
    <2>4. CASE Send(r)
      <3>1. request' \in [Requests -> Handlers]
        BY <2>4, GotoType DEF Send, Working, Over
      <3>2. calls' \in [Keys -> Nat]
        BY <2>4 DEF Send, TypeOK, HasKey, At
      <3> QED
        BY <2>4, <3>1, <3>2 DEF Send, TypeOK, untouched
    <2>5. CASE AnswerOk(r)
      <3>1. request' \in [Requests -> Handlers]
        BY <2>5, GotoType DEF AnswerOk, Working, Over
      <3>2. accepted' \in SUBSET Keys
        BY <2>5 DEF AnswerOk, TypeOK, HasKey, At
      <3> QED
        BY <2>5, <3>1, <3>2 DEF AnswerOk, TypeOK, untouched
    <2>6. ASSUME NEW from, NEW status \in {"delivered", "failed"},
                 NEW next \in {"idle"} \cup Working \cup Over, Mark(r, from, status, next)
          PROVE  TypeOK'
      <3>1. request' \in [Requests -> Handlers]
        BY <2>6, GotoType DEF Mark
      <3> QED
        BY <2>6, <3>1 DEF Mark, TypeOK, untouched
    <2>7. ASSUME NEW from, NEW status \in {"delivered", "failed"},
                 NEW next \in {"idle"} \cup Working \cup Over, Persist(r, from, status, next)
          PROVE  TypeOK'
      <3>1. request' \in [Requests -> Handlers]
        BY <2>7, GotoType DEF Persist
      <3>2. triggers' \in [Triggers -> Trigger]
        <4> DEFINE read == request[r].read
                   t == request[r].trigger
        <4>1. read \in [Triggers -> Trigger]
          BY DEF TypeOK, Handlers
        <4>2. triggers' = [read EXCEPT ![t].last = status]
          BY <2>7 DEF Persist
        <4>3. t \in Triggers => [read[t] EXCEPT !.last = status] \in Trigger
          BY <4>1 DEF Trigger
        <4> HIDE DEF read, t
        <4>4. triggers' = [u \in Triggers |-> IF u = t THEN [read[u] EXCEPT !.last = status]
                                              ELSE read[u]]
          BY <4>1, <4>2
        <4> QED
          BY <4>1, <4>3, <4>4
      <3> QED
        BY <2>7, <3>1, <3>2 DEF Persist, TypeOK, untouched
    <2> QED
      BY <1>1, <2>1, <2>2, <2>3, <2>4, <2>5, <2>6, <2>7
      DEF Handle, Fail, Deliver, Working, Failing, Over
  <1>2. ASSUME NEW k \in Keys, Expire(k) PROVE TypeOK'
    BY <1>2 DEF Expire, TypeOK
  <1>3. CASE SaveTriggers
    BY <1>3 DEF SaveTriggers, TypeOK, Trigger
  <1>4. CASE ReadTriggers
    BY <1>4 DEF ReadTriggers, TypeOK
  <1>5. CASE Provision
    <2>1. PICK fresh \in [Triggers -> Handles] :
             LET lacking == {t \in Triggers : ~provision.read[t].hash}
             IN /\ triggers' = [t \in Triggers |->
                                   IF t \in lacking
                                   THEN [provision.read[t] EXCEPT !.handle = fresh[t], !.hash = TRUE]
                                   ELSE provision.read[t]]
                /\ revealed' = revealed \cup {fresh[t] : t \in lacking}
      BY <1>5 DEF Provision
    <2>2. triggers' \in [Triggers -> Trigger]
      <3>1. ASSUME NEW t \in Triggers
            PROVE  /\ provision.read[t] \in Trigger
                   /\ [provision.read[t] EXCEPT !.handle = fresh[t], !.hash = TRUE] \in Trigger
        <4>1. provision.read \in [Triggers -> Trigger]
          BY DEF TypeOK
        <4>2. fresh[t] \in Handles
          BY <2>1
        <4> HIDE DEF TypeOK
        <4> QED
          BY <4>1, <4>2 DEF Trigger
      <3> QED
        BY <2>1, <3>1
    <2>3. revealed' \in SUBSET Handles
      <3>1. {fresh[t] : t \in {u \in Triggers : ~provision.read[u].hash}} \subseteq Handles
        BY <2>1
      <3> QED
        BY <2>1, <3>1 DEF TypeOK
    <2> QED
      BY <1>5, <2>2, <2>3 DEF Provision, TypeOK
  <1>6. CASE Restart
    <2>1. request' \in [Requests -> Handlers]
      <3>1. ASSUME NEW r \in Requests
            PROVE  request[r] \in Handlers /\ [request[r] EXCEPT !.at = "lost"] \in Handlers
        BY DEF TypeOK, Handlers, Over
      <3> QED
        BY <1>6, <3>1 DEF Restart
    <2> QED
      BY <1>6, <2>1 DEF Restart, TypeOK
  <1>7. CASE UNCHANGED vars
    BY <1>7 DEF vars, TypeOK
  <1> QED
    BY <1>1, <1>2, <1>3, <1>4, <1>5, <1>6, <1>7 DEF Next
(* A request that moves on without touching ledger, calls or answers keeps *)
(* the invariant if what it promises at its new place holds there.         *)
LEMMA MoveInv ==
    ASSUME Inv, NEW r \in Requests, TypeOK',
           request[r].at # "idle", Holds(r),
           NEW where \in Working \cup Over, Goto(r, where),
           UNCHANGED <<ledger, calls, accepted>>,
           where # "reserve",
           where \in Holding => calls[Key(r)] = 0,
           where \in Untold => ledger[Key(r)].status = "pending",
           where \in Refusing => ledger[Key(r)].status \in {"pending", "failed"},
           where \in Agreed => Key(r) \in accepted
    PROVE  Inv'
  <1>1. /\ \A q \in Requests : q # r => request'[q] = request[q]
        /\ request'[r].at = where
        /\ \A q \in Requests : request'[q].key = request[q].key /\ request'[q].trigger = request[q].trigger
    BY GotoType DEF Inv
  <1>2. HasKey'
    BY <1>1 DEF Inv, HasKey, Key
  <1>3. RowIsHeld' /\ OneHolder'
    BY <1>1 DEF Inv, RowIsHeld, OneHolder, Holds, Key, Old
  <1>4. NotYetCalled' /\ RowTellsPlace'
    BY <1>1 DEF Inv, NotYetCalled, RowTellsPlace, Key
  <1>5. ForgottenAltogether' /\ NeverInvokedTwice' /\ DeliveredIsTrue'
    BY DEF Inv, ForgottenAltogether, NeverInvokedTwice, DeliveredIsTrue, Old
  <1> QED
    BY <1>2, <1>3, <1>4, <1>5 DEF Inv

(* The same for one that gives its row up, or never had one.               *)
LEMMA OverInv ==
    ASSUME Inv, NEW r \in Requests, TypeOK', request[r].at # "idle",
           NEW where \in Over, Goto(r, where), UNCHANGED <<ledger, calls, accepted>>
    PROVE  Inv'
  <1>1. /\ \A q \in Requests : q # r => request'[q] = request[q]
        /\ request'[r].at = where
        /\ \A q \in Requests : request'[q].key = request[q].key /\ request'[q].trigger = request[q].trigger
    BY GotoType DEF Inv
  <1>2. HasKey'
    BY <1>1 DEF Inv, HasKey, Key
  <1>3. RowIsHeld' /\ OneHolder'
    BY <1>1 DEF Inv, RowIsHeld, OneHolder, Holds, Key, Old, Over, Working, Holding, Failing
  <1>4. NotYetCalled' /\ RowTellsPlace'
    BY <1>1 DEF Inv, NotYetCalled, RowTellsPlace, Key, Over, Holding, Untold, Refusing, Agreed
  <1>5. ForgottenAltogether' /\ NeverInvokedTwice' /\ DeliveredIsTrue'
    BY DEF Inv, ForgottenAltogether, NeverInvokedTwice, DeliveredIsTrue, Old
  <1> QED
    BY <1>2, <1>3, <1>4, <1>5 DEF Inv
(* Reserving: the row is made by a request nobody else holds it against,   *)
(* and what is pruned nobody holds.                                        *)
LEMMA ReserveInv ==
    ASSUME Inv, TypeOK', NEW r \in Requests, Reserve(r)
    PROVE  Inv'
  <1> DEFINE k0 == Key(r)
             row == [status |-> "pending", old |-> FALSE]
             made == Pruned[k0] = Absent
  <1>1. k0 \in Keys
    BY DEF Reserve, At, Inv, HasKey
  <1>2. \A k \in Keys : Pruned[k] = IF Old(k) THEN Absent ELSE ledger[k]
    BY DEF Pruned
  <1>3. \A k \in Keys : ledger'[k] = IF made /\ k = k0 THEN row
                                     ELSE IF Old(k) THEN Absent ELSE ledger[k]
    BY <1>1, <1>2 DEF Reserve, Pruned
  <1>4. \A k \in Keys : /\ calls'[k] = IF Old(k) THEN 0 ELSE calls[k]
                        /\ k \in accepted' <=> k \in accepted /\ ~Old(k)
    BY DEF Reserve, ForgetOld
  <1>5. /\ \A q \in Requests : q # r => request'[q] = request[q]
        /\ request'[r].at = IF made THEN "find" ELSE "duplicate"
        /\ \A q \in Requests : request'[q].key = request[q].key /\ request'[q].trigger = request[q].trigger
    BY GotoType DEF Reserve, Inv, Working, Holding, Over
  <1>6. request[r].at = "reserve"
    BY DEF Reserve, At
  <1>7. \A q \in Requests : Holds(q) =>
            /\ Key(q) \in Keys /\ ~Old(Key(q)) /\ ledger[Key(q)].status # "absent"
            /\ made => Key(q) # k0
            /\ ledger'[Key(q)] = ledger[Key(q)]
    <2>1. \A q \in Requests : Holds(q) => Key(q) \in Keys /\ ~Old(Key(q)) /\ ledger[Key(q)].status # "absent"
      BY DEF Inv, HasKey, RowIsHeld, Holds, Working, Holding, Failing
    <2>2. \A q \in Requests : Holds(q) /\ made => Key(q) # k0
      BY <1>1, <1>2, <2>1 DEF Absent
    <2> QED
      BY <1>3, <2>1, <2>2
  <1>8. \A q \in Requests : Holds(q)' <=> IF q = r THEN made ELSE Holds(q)
    BY <1>5 DEF Holds, Working, Holding, Failing
  <1>9. \A k \in Keys : made /\ k = k0 => calls'[k] = 0 /\ k \notin accepted'
    <2>1. made => Old(k0) \/ ledger[k0].status = "absent"
      BY <1>1, <1>2 DEF Absent
    <2> QED
      BY <1>1, <1>4, <2>1 DEF Inv, ForgottenAltogether
  <1> HIDE DEF k0, row, made
  <1>10. HasKey'
    BY <1>5, <1>6 DEF Inv, HasKey, Key
  <1>11. RowIsHeld'
    <2> SUFFICES ASSUME NEW q \in Requests, Holds(q)'
                 PROVE  ledger'[Key(q)].status # "absent" /\ ~ledger'[Key(q)].old
      BY <1>5 DEF RowIsHeld, Key, Old
    <2>1. CASE q = r
      BY <1>1, <1>3, <1>8, <2>1 DEF k0, row
    <2>2. CASE q # r
      BY <1>7, <1>8, <2>2 DEF Old
    <2> QED
      BY <2>1, <2>2
  <1>12. OneHolder'
    <2> SUFFICES ASSUME NEW p \in Requests, NEW q \in Requests, Holds(p)', Holds(q)', Key(p) = Key(q)
                 PROVE  p = q
      BY <1>5 DEF OneHolder, Key
    <2> QED
      BY <1>7, <1>8 DEF Inv, OneHolder, k0
  <1>13. NotYetCalled'
    <2> SUFFICES ASSUME NEW q \in Requests, request'[q].at \in Holding
                 PROVE  calls'[Key(q)] = 0
      BY <1>5 DEF NotYetCalled, Key
    <2>1. CASE q = r
      <3>1. made
        BY <1>5, <2>1 DEF Holding
      <3> QED
        BY <1>1, <1>9, <2>1, <3>1 DEF k0
    <2>2. CASE q # r
      <3>1. Holds(q) /\ request[q].at \in Holding
        BY <1>5, <2>2 DEF Holds, Working, Holding
      <3> QED
        BY <1>4, <1>7, <3>1 DEF Inv, NotYetCalled
    <2> QED
      BY <2>1, <2>2
  <1>14. ForgottenAltogether'
    BY <1>3, <1>4, <1>9 DEF Inv, ForgottenAltogether, Old, row, Absent
  <1>15. RowTellsPlace'
    <2> SUFFICES ASSUME NEW q \in Requests
                 PROVE  /\ request'[q].at \in Untold => ledger'[Key(q)].status = "pending"
                        /\ request'[q].at \in Refusing => ledger'[Key(q)].status \in {"pending", "failed"}
                        /\ request'[q].at \in Agreed => Key(q) \in accepted'
      BY <1>5 DEF RowTellsPlace, Key
    <2>1. CASE q = r
      <3>1. request'[q].at \in {"find", "duplicate"} /\ (request'[q].at = "find" => made)
        BY <1>5, <2>1
      <3> QED
        BY <1>1, <1>3, <2>1, <3>1 DEF k0, row, Untold, Refusing, Agreed, Holding
    <2>2. CASE q # r
      <3>1. request'[q].at = request[q].at
        BY <1>5, <2>2
      <3>2. request[q].at \in Untold \cup Refusing \cup Agreed => Holds(q)
        BY DEF Holds, Working, Holding, Failing, Untold, Refusing, Agreed
      <3> QED
        BY <1>4, <1>7, <3>1, <3>2 DEF Inv, RowTellsPlace
    <2> QED
      BY <2>1, <2>2
  <1>16. NeverInvokedTwice'
    BY <1>4 DEF Inv, NeverInvokedTwice, TypeOK
  <1>17. DeliveredIsTrue'
    BY <1>3, <1>4 DEF Inv, DeliveredIsTrue, row, Absent
  <1> QED
    BY <1>10, <1>11, <1>12, <1>13, <1>14, <1>15, <1>16, <1>17 DEF Inv
(* Writing an outcome: only into the row the request holds.                *)
LEMMA MarkInv ==
    ASSUME Inv, TypeOK', NEW r \in Requests, NEW from \in Working, NEW status \in {"delivered", "failed"},
           NEW next \in Working, Mark(r, from, status, next),
           from # "reserve",
           next \notin Holding \cup Untold \cup {"reserve"},
           next \in Refusing => status = "failed",
           next \in Agreed \/ status = "delivered" => Key(r) \in accepted
    PROVE  Inv'
  <1> DEFINE k0 == Key(r)
  <1>1. k0 \in Keys /\ Holds(r) /\ request[r].at # "idle"
    BY DEF Mark, At, Inv, HasKey, Holds, Working, Holding, Failing
  <1>2. /\ \A q \in Requests : q # r => request'[q] = request[q]
        /\ request'[r].at = next
        /\ \A q \in Requests : request'[q].key = request[q].key /\ request'[q].trigger = request[q].trigger
    BY GotoType DEF Mark, Inv
  <1>3. ledger[k0].status # "absent"
    BY <1>1 DEF Inv, RowIsHeld
  <1>4. \A k \in Keys : ledger'[k] = IF k = k0 THEN [status |-> status, old |-> FALSE] ELSE ledger[k]
    BY <1>1, <1>3 DEF Mark, Absent, Inv, TypeOK
  <1>5. UNCHANGED <<calls, accepted>>
    BY DEF Mark
  <1>6. \A q \in Requests : Holds(q)' <=> Holds(q)
    BY <1>1, <1>2 DEF Holds
  <1>7. \A q \in Requests : Holds(q) /\ q # r => Key(q) \in Keys /\ ledger'[Key(q)] = ledger[Key(q)]
    <2> SUFFICES ASSUME NEW q \in Requests, Holds(q), q # r
                 PROVE  Key(q) \in Keys /\ ledger'[Key(q)] = ledger[Key(q)]
      OBVIOUS
    <2>1. Key(q) \in Keys
      BY DEF Inv, HasKey, Holds, Working, Holding, Failing
    <2>2. Key(q) # k0
      BY <1>1 DEF Inv, OneHolder
    <2> QED
      BY <1>4, <2>1, <2>2
  <1> HIDE DEF k0
  <1>8. HasKey'
    BY <1>1, <1>2 DEF Inv, HasKey, Key, k0
  <1>9. RowIsHeld' /\ OneHolder'
    <2>1. RowIsHeld'
      <3> SUFFICES ASSUME NEW q \in Requests, Holds(q)
                   PROVE  ledger'[Key(q)].status # "absent" /\ ~ledger'[Key(q)].old
        BY <1>2, <1>6 DEF RowIsHeld, Key, Old
      <3>1. CASE q = r
        BY <1>1, <1>4, <3>1 DEF k0
      <3>2. CASE q # r
        BY <1>7, <3>2 DEF Inv, RowIsHeld, Old
      <3> QED
        BY <3>1, <3>2
    <2>2. OneHolder'
      BY <1>2, <1>6 DEF Inv, OneHolder, Key
    <2> QED
      BY <2>1, <2>2
  <1>10. NotYetCalled'
    BY <1>2, <1>5 DEF Inv, NotYetCalled, Key
  <1>11. RowTellsPlace'
    <2> SUFFICES ASSUME NEW q \in Requests
                 PROVE  /\ request'[q].at \in Untold => ledger'[Key(q)].status = "pending"
                        /\ request'[q].at \in Refusing => ledger'[Key(q)].status \in {"pending", "failed"}
                        /\ request'[q].at \in Agreed => Key(q) \in accepted'
      BY <1>2 DEF RowTellsPlace, Key
    <2>1. CASE q = r
      BY <1>1, <1>2, <1>4, <1>5, <2>1 DEF k0
    <2>2. CASE q # r
      <3>1. request'[q].at = request[q].at
        BY <1>2, <2>2
      <3>2. request[q].at \in Untold \cup Refusing \cup Agreed => Holds(q)
        BY DEF Holds, Working, Holding, Failing, Untold, Refusing, Agreed
      <3> QED
        BY <1>5, <1>7, <2>2, <3>1, <3>2 DEF Inv, RowTellsPlace
    <2> QED
      BY <2>1, <2>2
  <1>12. ForgottenAltogether' /\ NeverInvokedTwice'
    BY <1>4, <1>5 DEF Inv, ForgottenAltogether, NeverInvokedTwice, Old
  <1>13. DeliveredIsTrue'
    BY <1>4, <1>5 DEF Inv, DeliveredIsTrue, k0
  <1> QED
    BY <1>8, <1>9, <1>10, <1>11, <1>12, <1>13 DEF Inv

(* The call: by the one holder, who has not called before.                 *)
LEMMA SendInv ==
    ASSUME Inv, TypeOK', NEW r \in Requests, Send(r)
    PROVE  Inv'
  <1>1. Key(r) \in Keys /\ Holds(r) /\ request[r].at = "send"
    BY DEF Send, At, Inv, HasKey, Holds, Working, Holding
  <1>2. /\ \A q \in Requests : q # r => request'[q] = request[q]
        /\ request'[r].at = "waiting"
        /\ \A q \in Requests : request'[q].key = request[q].key /\ request'[q].trigger = request[q].trigger
    BY GotoType DEF Send, Inv, Working
  <1>3. calls[Key(r)] = 0
    BY <1>1 DEF Inv, NotYetCalled, Holding
  <1>4. \A k \in Keys : calls'[k] = IF k = Key(r) THEN 1 ELSE calls[k]
    BY <1>1, <1>3 DEF Send, Inv, TypeOK
  <1>5. UNCHANGED <<ledger, accepted>>
    BY DEF Send
  <1>6. \A q \in Requests : Holds(q)' <=> Holds(q)
    BY <1>1, <1>2 DEF Holds, Working
  <1>7. HasKey'
    BY <1>1, <1>2 DEF Inv, HasKey, Key
  <1>8. RowIsHeld' /\ OneHolder'
    BY <1>2, <1>5, <1>6 DEF Inv, RowIsHeld, OneHolder, Key, Old
  <1>9. NotYetCalled'
    <2> SUFFICES ASSUME NEW q \in Requests, request'[q].at \in Holding
                 PROVE  calls'[Key(q)] = 0
      BY <1>2 DEF NotYetCalled, Key
    <2>1. q # r /\ request[q].at \in Holding
      BY <1>2 DEF Holding
    <2>2. Holds(q) /\ Key(q) \in Keys
      BY <2>1 DEF Holds, Working, Holding, Inv, HasKey
    <2>3. Key(q) # Key(r)
      BY <1>1, <2>1, <2>2 DEF Inv, OneHolder
    <2> QED
      BY <1>4, <2>1, <2>2, <2>3 DEF Inv, NotYetCalled
  <1>10. RowTellsPlace'
    BY <1>1, <1>2, <1>5 DEF Inv, RowTellsPlace, Key, Untold, Refusing, Agreed, Holding
  <1>11. ForgottenAltogether'
    <2>1. ledger[Key(r)].status # "absent"
      BY <1>1 DEF Inv, RowIsHeld
    <2> QED
      BY <1>4, <1>5, <2>1 DEF Inv, ForgottenAltogether, Old
  <1>12. NeverInvokedTwice' /\ DeliveredIsTrue'
    BY <1>4, <1>5 DEF Inv, NeverInvokedTwice, DeliveredIsTrue
  <1> QED
    BY <1>7, <1>8, <1>9, <1>10, <1>11, <1>12 DEF Inv

(* The gateway's yes.                                                      *)
LEMMA AnswerOkInv ==
    ASSUME Inv, TypeOK', NEW r \in Requests, AnswerOk(r)
    PROVE  Inv'
  <1>1. Key(r) \in Keys /\ Holds(r) /\ request[r].at = "waiting"
    BY DEF AnswerOk, At, Inv, HasKey, Holds, Working
  <1>2. /\ \A q \in Requests : q # r => request'[q] = request[q]
        /\ request'[r].at = "markDelivered"
        /\ \A q \in Requests : request'[q].key = request[q].key /\ request'[q].trigger = request[q].trigger
    BY GotoType DEF AnswerOk, Inv, Working
  <1>3. accepted' = accepted \cup {Key(r)} /\ UNCHANGED <<ledger, calls>>
    BY DEF AnswerOk
  <1>4. \A q \in Requests : Holds(q)' <=> Holds(q)
    BY <1>1, <1>2 DEF Holds, Working
  <1>5. HasKey'
    BY <1>1, <1>2 DEF Inv, HasKey, Key
  <1>6. RowIsHeld' /\ OneHolder'
    BY <1>2, <1>3, <1>4 DEF Inv, RowIsHeld, OneHolder, Key, Old
  <1>7. NotYetCalled'
    BY <1>2, <1>3 DEF Inv, NotYetCalled, Key, Holding
  <1>8. RowTellsPlace'
    BY <1>1, <1>2, <1>3 DEF Inv, RowTellsPlace, Key, Untold, Refusing, Agreed, Holding
  <1>9. ForgottenAltogether'
    <2>1. ledger[Key(r)].status # "absent"
      BY <1>1 DEF Inv, RowIsHeld
    <2> QED
      BY <1>3, <2>1 DEF Inv, ForgottenAltogether, Old
  <1>10. NeverInvokedTwice' /\ DeliveredIsTrue'
    BY <1>3 DEF Inv, NeverInvokedTwice, DeliveredIsTrue
  <1> QED
    BY <1>5, <1>6, <1>7, <1>8, <1>9, <1>10 DEF Inv

(* What does not touch the requests' places nor the ledger is harmless.    *)
LEMMA AsideInv ==
    ASSUME Inv, TypeOK', UNCHANGED <<ledger, calls, accepted, request>>
    PROVE  Inv'
  BY DEF Inv, HasKey, RowIsHeld, OneHolder, NotYetCalled, ForgottenAltogether, RowTellsPlace,
         NeverInvokedTwice, DeliveredIsTrue, Holds, Key, Old

LEMMA ReceiveInv ==
    ASSUME Inv, TypeOK', NEW r \in Requests, NEW t \in Triggers, NEW d \in Deliveries, Receive(r, t, d)
    PROVE  Inv'
  <1>1. <<triggers[t].handle, d>> \in Keys
    BY DEF Receive, Inv, TypeOK, Trigger, Keys
  <1>2. /\ \A q \in Requests : q # r => request'[q] = request[q]
        /\ request'[r].at = "reserve" /\ request'[r].key \in Keys /\ request'[r].trigger = t
        /\ UNCHANGED <<ledger, calls, accepted>>
    BY <1>1 DEF Receive, Inv, TypeOK
  <1>3. HasKey'
    BY <1>2 DEF Inv, HasKey, Key
  <1>4. RowIsHeld' /\ OneHolder'
    BY <1>2 DEF Inv, RowIsHeld, OneHolder, Holds, Key, Old
  <1>5. NotYetCalled' /\ RowTellsPlace'
    BY <1>2 DEF Inv, NotYetCalled, RowTellsPlace, Key, Holding, Untold, Refusing, Agreed
  <1>6. ForgottenAltogether' /\ NeverInvokedTwice' /\ DeliveredIsTrue'
    BY <1>2 DEF Inv, ForgottenAltogether, NeverInvokedTwice, DeliveredIsTrue, Old
  <1> QED
    BY <1>3, <1>4, <1>5, <1>6 DEF Inv
-----------------------------------------------------------------------------
LEMMA FailInv ==
    ASSUME Inv, TypeOK', NEW r \in Requests, Fail(r) \/ Deliver(r)
    PROVE  Inv'
  <1>1. ASSUME NEW from \in {"markUnsent", "markRejected", "markFailed"},
               NEW next \in {"persistUnsent", "persistRejected", "persistFailed"},
               Mark(r, from, "failed", next)
        PROVE  Inv'
    BY <1>1, MarkInv DEF Working, Failing, Holding, Untold, Refusing, Agreed
  <1>2. ASSUME NEW from, from \in {"persistUnsent", "persistFailed", "persistDelivered"},
               NEW status, NEW next \in Over, Persist(r, from, status, next)
        PROVE  Inv'
    BY <1>2, OverInv DEF Persist, At
  <1>3. CASE Persist(r, "persistRejected", "failed", "markFailed")
    <2>1. request[r].at = "persistRejected" /\ Holds(r) /\ Goto(r, "markFailed")
      BY <1>3 DEF Persist, At, Holds, Working, Failing
    <2>2. ledger[Key(r)].status \in {"pending", "failed"}
      BY <2>1 DEF Inv, RowTellsPlace, Refusing
    <2> QED
      BY <1>3, <2>1, <2>2, MoveInv
      DEF Persist, Working, Failing, Holding, Untold, Refusing, Agreed
  <1>4. CASE Mark(r, "markDelivered", "delivered", "persistDelivered")
    <2>1. Key(r) \in accepted
      BY <1>4 DEF Mark, At, Inv, RowTellsPlace, Agreed
    <2> QED
      BY <1>4, <2>1, MarkInv DEF Working, Failing, Holding, Untold, Refusing, Agreed
  <1> QED
    BY <1>1, <1>2, <1>3, <1>4 DEF Fail, Deliver, Over

(* Steps that only move the request.                                       *)
LEMMA MoveStepInv ==
    ASSUME Inv, TypeOK', NEW r \in Requests,
           \/ FindSandbox(r) \/ SendFails(r) \/ AnswerRejected(r) \/ AnswerFails(r) \/ StoreFails(r)
    PROVE  Inv'
  <1>1. CASE FindSandbox(r)
    <2>1. PICK where \in {"send", "markUnsent"} : Goto(r, where)
      BY <1>1 DEF FindSandbox
    <2>2. request[r].at = "find" /\ Holds(r) /\ UNCHANGED <<ledger, calls, accepted>>
      BY <1>1 DEF FindSandbox, At, Holds, Working, Holding
    <2>3. ledger[Key(r)].status = "pending" /\ calls[Key(r)] = 0
      BY <2>2 DEF Inv, RowTellsPlace, NotYetCalled, Untold, Holding
    <2> QED
      BY <2>1, <2>2, <2>3, MoveInv DEF Working, Failing, Holding, Untold, Refusing, Agreed
  <1>2. CASE SendFails(r) \/ AnswerFails(r)
    <2>1. Goto(r, "markFailed") /\ Holds(r) /\ request[r].at \in {"send", "waiting"}
          /\ UNCHANGED <<ledger, calls, accepted>>
      BY <1>2 DEF SendFails, AnswerFails, At, Holds, Working, Holding
    <2>2. ledger[Key(r)].status = "pending"
      BY <2>1 DEF Inv, RowTellsPlace, Untold, Holding
    <2> QED
      BY <2>1, <2>2, MoveInv DEF Working, Failing, Holding, Untold, Refusing, Agreed
  <1>3. CASE AnswerRejected(r)
    <2>1. Goto(r, "markRejected") /\ Holds(r) /\ request[r].at = "waiting"
          /\ UNCHANGED <<ledger, calls, accepted>>
      BY <1>3 DEF AnswerRejected, At, Holds, Working
    <2>2. ledger[Key(r)].status = "pending"
      BY <2>1 DEF Inv, RowTellsPlace, Untold
    <2> QED
      BY <2>1, <2>2, MoveInv DEF Working, Failing, Holding, Untold, Refusing, Agreed
  <1>4. CASE StoreFails(r) /\ request[r].at \in {"markRejected", "persistRejected"}
    <2>1. Goto(r, "markFailed") /\ Holds(r) /\ UNCHANGED <<ledger, calls, accepted>>
      BY <1>4 DEF StoreFails, Holds, Working, Failing
    <2>2. ledger[Key(r)].status \in {"pending", "failed"}
      BY <1>4 DEF Inv, RowTellsPlace, Untold, Refusing
    <2> QED
      BY <1>4, <2>1, <2>2, MoveInv DEF Working, Failing, Holding, Untold, Refusing, Agreed
  <1>5. CASE StoreFails(r) /\ request[r].at \notin {"markRejected", "persistRejected"}
    <2>1. Goto(r, "threw") /\ request[r].at # "idle" /\ UNCHANGED <<ledger, calls, accepted>>
      BY <1>5 DEF StoreFails, Failing
    <2> QED
      BY <2>1, OverInv DEF Over
  <1> QED
    BY <1>1, <1>2, <1>3, <1>4, <1>5

LEMMA ExpireInv ==
    ASSUME Inv, TypeOK', NEW k \in Keys, Expire(k)
    PROVE  Inv'
  <1>1. \A j \in Keys : /\ ledger'[j].status = ledger[j].status
                        /\ j # k => ledger'[j].old = ledger[j].old
    <2> SUFFICES ASSUME NEW j \in Keys
                 PROVE  /\ ledger'[j].status = ledger[j].status
                        /\ j # k => ledger'[j].old = ledger[j].old
      OBVIOUS
    <2>1. ledger[j] \in [status : {"absent", "pending", "delivered", "failed"}, old : BOOLEAN]
      BY DEF Inv, TypeOK
    <2>2. ledger'[j] = IF j = k THEN [ledger[k] EXCEPT !.old = TRUE] ELSE ledger[j]
      BY DEF Expire, Inv, TypeOK
    <2> QED
      BY <2>1, <2>2
  <1>2. UNCHANGED <<calls, accepted, request>>
    BY DEF Expire
  <1>3. ledger[k].status # "absent"
    <2>1. ledger[k] \in [status : {"absent", "pending", "delivered", "failed"}, old : BOOLEAN]
      BY DEF Inv, TypeOK
    <2> QED
      BY <2>1 DEF Expire, Absent, Old
  <1>4. HasKey' /\ OneHolder' /\ NotYetCalled' /\ NeverInvokedTwice'
    BY <1>2 DEF Inv, HasKey, OneHolder, NotYetCalled, NeverInvokedTwice, Holds, Key
  <1>5. RowIsHeld'
    <2> SUFFICES ASSUME NEW r \in Requests, Holds(r)
                 PROVE  ledger'[Key(r)].status # "absent" /\ ~ledger'[Key(r)].old
      BY <1>2 DEF RowIsHeld, Holds, Key, Old
    <2>1. Key(r) \in Keys /\ Key(r) # k
      BY DEF Expire, Holds, Inv, HasKey, Working, Holding, Failing
    <2> QED
      BY <1>1, <2>1 DEF Inv, RowIsHeld, Old
  <1>6. RowTellsPlace'
    <2> SUFFICES ASSUME NEW r \in Requests
                 PROVE  /\ request[r].at \in Untold => ledger'[Key(r)].status = "pending"
                        /\ request[r].at \in Refusing => ledger'[Key(r)].status \in {"pending", "failed"}
                        /\ request[r].at \in Agreed => Key(r) \in accepted
      BY <1>2 DEF RowTellsPlace, Key
    <2>1. request[r].at \in Untold \cup Refusing \cup Agreed => Key(r) \in Keys
      BY DEF Inv, HasKey, Untold, Refusing, Agreed, Holding
    <2> QED
      BY <1>1, <2>1 DEF Inv, RowTellsPlace
  <1>7. ForgottenAltogether' /\ DeliveredIsTrue'
    BY <1>1, <1>2, <1>3 DEF Inv, ForgottenAltogether, DeliveredIsTrue, Old
  <1> QED
    BY <1>4, <1>5, <1>6, <1>7 DEF Inv

LEMMA RestartInv ==
    ASSUME Inv, TypeOK', Restart
    PROVE  Inv'
  <1>1. \A r \in Requests :
           /\ request'[r].key = request[r].key /\ request'[r].trigger = request[r].trigger
           /\ request'[r].at = IF request[r].at \in Working THEN "lost" ELSE request[r].at
    <2>1. \A r \in Requests : request[r] \in Handlers
      BY DEF Inv, TypeOK
    <2> QED
      BY <2>1 DEF Restart, Handlers
  <1>2. UNCHANGED <<ledger, calls, accepted>>
    BY DEF Restart
  <1>3. \A r \in Requests : request'[r].at \notin Working
    BY <1>1 DEF Working, Holding, Failing
  <1>4. HasKey'
    BY <1>1 DEF Inv, HasKey, Key, Working, Holding, Failing
  <1>5. RowIsHeld' /\ OneHolder' /\ NotYetCalled'
    BY <1>3 DEF RowIsHeld, OneHolder, NotYetCalled, Holds, Working
  <1>6. RowTellsPlace'
    BY <1>3 DEF RowTellsPlace, Untold, Refusing, Agreed, Working, Holding, Failing
  <1>7. ForgottenAltogether' /\ NeverInvokedTwice' /\ DeliveredIsTrue'
    BY <1>2 DEF Inv, ForgottenAltogether, NeverInvokedTwice, DeliveredIsTrue, Old
  <1> QED
    BY <1>4, <1>5, <1>6, <1>7 DEF Inv

LEMMA NextInv == Inv /\ [Next]_vars => Inv'
  <1> SUFFICES ASSUME Inv, [Next]_vars PROVE Inv'
    OBVIOUS
  <1>1. TypeOK'
    BY TypeStep DEF Inv
  <1>2. ASSUME NEW r \in Requests, Handle(r) PROVE Inv'
    BY <1>1, <1>2, ReceiveInv, ReserveInv, MoveStepInv, SendInv, AnswerOkInv, FailInv DEF Handle
  <1>3. ASSUME NEW k \in Keys, Expire(k) PROVE Inv'
    BY <1>1, <1>3, ExpireInv
  <1>4. CASE SaveTriggers \/ ReadTriggers \/ Provision \/ UNCHANGED vars
    BY <1>1, <1>4, AsideInv DEF SaveTriggers, ReadTriggers, Provision, vars
  <1>5. CASE Restart
    BY <1>1, <1>5, RestartInv
  <1> QED
    BY <1>2, <1>3, <1>4, <1>5 DEF Next

THEOREM Invariance == Spec => []Inv
  BY InitInv, NextInv, PTL DEF Spec

(* Every variable keeps its type.                                          *)
THEOREM TypeCorrect == Spec => []TypeOK
  <1>1. Inv => TypeOK
    BY DEF Inv
  <1> QED
    BY <1>1, Invariance, PTL

(* The sandbox is invoked at most once for a delivery the ledger           *)
(* remembers, however many requests, retries and restarts there are.       *)
THEOREM InvokedAtMostOnce == Spec => []NeverInvokedTwice
  <1>1. Inv => NeverInvokedTwice
    BY DEF Inv
  <1> QED
    BY <1>1, Invariance, PTL

(* What the ledger calls delivered, the gateway took.                      *)
THEOREM DeliveredWasAccepted == Spec => []DeliveredIsTrue
  <1>1. Inv => DeliveredIsTrue
    BY DEF Inv
  <1> QED
    BY <1>1, Invariance, PTL
Final(k) ==
    ledger[k].status \in {"delivered", "failed"} /\ ~Old(k) => ledger'[k].status = ledger[k].status

LEMMA FinalStep == Inv /\ [Next]_vars => \A k \in Keys : Final(k)
  <1> SUFFICES ASSUME Inv, [Next]_vars, NEW k \in Keys,
                      ledger[k].status \in {"delivered", "failed"}, ~Old(k)
               PROVE  ledger'[k].status = ledger[k].status
    BY DEF Final
  <1>1. ASSUME NEW r \in Requests, Reserve(r) PROVE ledger'[k].status = ledger[k].status
    <2>1. Pruned[k] = ledger[k] /\ Pruned[k] # Absent
      BY DEF Pruned, Absent
    <2>2. Pruned \in [Keys -> {Pruned[j] : j \in Keys}]
      BY DEF Pruned
    <2> QED
      BY <1>1, <2>1, <2>2 DEF Reserve
  <1>2. ASSUME NEW r \in Requests, NEW from, NEW status, NEW next, Mark(r, from, status, next),
               Key(r) = k => ledger[k].status = status
        PROVE  ledger'[k].status = ledger[k].status
    <2>1. CASE Key(r) = k
      BY <1>2, <2>1 DEF Mark, Inv, TypeOK
    <2>2. CASE Key(r) # k
      BY <1>2, <2>2 DEF Mark, Inv, TypeOK
    <2> QED
      BY <2>1, <2>2
  <1>3. ASSUME NEW r \in Requests, Fail(r) \/ Deliver(r) PROVE ledger'[k].status = ledger[k].status
    <2>1. ASSUME NEW from \in {"markUnsent", "markRejected"}, NEW next, Mark(r, from, "failed", next)
          PROVE  ledger'[k].status = ledger[k].status
      <3>1. ledger[Key(r)].status = "pending"
        BY <2>1 DEF Mark, At, Inv, RowTellsPlace, Untold
      <3> QED
        BY <1>2, <2>1, <3>1
    <2>2. ASSUME NEW next, Mark(r, "markFailed", "failed", next)
          PROVE  ledger'[k].status = ledger[k].status
      <3>1. ledger[Key(r)].status \in {"pending", "failed"}
        BY <2>2 DEF Mark, At, Inv, RowTellsPlace, Refusing
      <3> QED
        BY <1>2, <2>2, <3>1
    <2>3. ASSUME NEW next, Mark(r, "markDelivered", "delivered", next)
          PROVE  ledger'[k].status = ledger[k].status
      <3>1. ledger[Key(r)].status = "pending"
        BY <2>3 DEF Mark, At, Inv, RowTellsPlace, Untold
      <3> QED
        BY <1>2, <2>3, <3>1
    <2>4. ASSUME NEW from, NEW status, NEW next, Persist(r, from, status, next)
          PROVE  ledger'[k].status = ledger[k].status
      BY <2>4 DEF Persist
    <2> QED
      BY <1>3, <2>1, <2>2, <2>3, <2>4 DEF Fail, Deliver
  <1>4. ASSUME NEW j \in Keys, Expire(j) PROVE ledger'[k].status = ledger[k].status
    BY <1>4 DEF Expire, Inv, TypeOK
  <1>5. ASSUME NEW r \in Requests, NEW t \in Triggers, NEW d \in Deliveries, Receive(r, t, d)
        PROVE  ledger'[k].status = ledger[k].status
    BY <1>5 DEF Receive
  <1>6. ASSUME NEW r \in Requests,
               \/ FindSandbox(r) \/ Send(r) \/ SendFails(r) \/ AnswerOk(r)
               \/ AnswerRejected(r) \/ AnswerFails(r) \/ StoreFails(r)
        PROVE  ledger'[k].status = ledger[k].status
    BY <1>6 DEF FindSandbox, Send, SendFails, AnswerOk, AnswerRejected, AnswerFails, StoreFails
  <1>7. CASE SaveTriggers \/ ReadTriggers \/ Provision \/ Restart \/ UNCHANGED vars
    BY <1>7 DEF SaveTriggers, ReadTriggers, Provision, Restart, vars
  <1> QED
    BY <1>1, <1>3, <1>4, <1>5, <1>6, <1>7 DEF Next, Handle

(* An outcome, once written, stays until its row is past the retention.    *)
THEOREM OutcomeStays == Spec => OutcomeIsFinal
  <1>1. Inv /\ [Next]_vars =>
            [\A k \in Keys : ledger[k].status \in {"delivered", "failed"} /\ ~Old(k) =>
                                ledger'[k].status = ledger[k].status]_vars
    BY FinalStep DEF Final
  <1> QED
    BY <1>1, Invariance, PTL DEF Spec, OutcomeIsFinal
-----------------------------------------------------------------------------
(***************************************************************************)
(* The ledger that is promised.  One thing more must be known of the       *)
(* holder of a row: that it has called when it waits, and that only where  *)
(* it has the gateway's yes in hand is there one, so that none is ever     *)
(* written down as a failure.                                              *)
(***************************************************************************)
HolderKnows ==
    \A r \in Requests :
        /\ request[r].at = "waiting" => calls[Key(r)] = 1
        /\ Holds(r) /\ request[r].at \notin Agreed => Key(r) \notin accepted

(* What a request's own step may be, as far as that goes.                  *)
LEMMA QuietMove ==
    ASSUME Inv, NEW r \in Requests,
           \/ FindSandbox(r) \/ SendFails(r) \/ AnswerRejected(r) \/ AnswerFails(r)
           \/ Fail(r) \/ Deliver(r) \/ StoreFails(r)
    PROVE  /\ UNCHANGED <<calls, accepted>>
           /\ \A q \in Requests : q # r => request'[q] = request[q]
           /\ request'[r].key = request[r].key
           /\ request'[r].at # "waiting"
           /\ Holds(r)' /\ request'[r].at \notin Agreed =>
                 Holds(r) /\ request[r].at \notin Agreed
  <1> USE DEF At, Working, Holding, Failing, Over, Agreed, Holds
  <1>1. ASSUME NEW where \in {"idle"} \cup Working \cup Over, Goto(r, where), where # "waiting",
               UNCHANGED <<calls, accepted>>,
               where \in Working \ {"reserve"} /\ where \notin Agreed =>
                   request[r].at \in Working \ {"reserve"} /\ request[r].at \notin Agreed
        PROVE  /\ UNCHANGED <<calls, accepted>>
               /\ \A q \in Requests : q # r => request'[q] = request[q]
               /\ request'[r].key = request[r].key
               /\ request'[r].at # "waiting"
               /\ Holds(r)' /\ request'[r].at \notin Agreed =>
                     Holds(r) /\ request[r].at \notin Agreed
    BY <1>1, GotoType DEF Inv
  <1>2. CASE FindSandbox(r)
    BY <1>1, <1>2 DEF FindSandbox
  <1>3. CASE SendFails(r) \/ AnswerRejected(r) \/ AnswerFails(r)
    BY <1>1, <1>3 DEF SendFails, AnswerRejected, AnswerFails
  <1>4. CASE Fail(r)
    BY <1>1, <1>4 DEF Fail, Mark, Persist
  <1>5. CASE Deliver(r)
    BY <1>1, <1>5 DEF Deliver, Mark, Persist
  <1>6. CASE StoreFails(r)
    BY <1>1, <1>6 DEF StoreFails
  <1> QED
    BY <1>2, <1>3, <1>4, <1>5, <1>6

LEMMA HolderKnowsNext == Inv /\ HolderKnows /\ [Next]_vars => HolderKnows'
  <1> SUFFICES ASSUME Inv, HolderKnows, [Next]_vars PROVE HolderKnows'
    OBVIOUS
  <1> USE DEF HolderKnows
  <1>1. ASSUME NEW r \in Requests, NEW t \in Triggers, NEW d \in Deliveries, Receive(r, t, d)
        PROVE  HolderKnows'
    <2>1. /\ UNCHANGED <<calls, accepted>>
          /\ \A q \in Requests : q # r => request'[q] = request[q]
          /\ request'[r].at = "reserve"
      BY <1>1 DEF Receive, Inv, TypeOK
    <2> QED
      BY <2>1 DEF Holds, Key
  <1>2. ASSUME NEW r \in Requests, Reserve(r) PROVE HolderKnows'
    <2>1. /\ Key(r) \in Keys /\ request[r].at = "reserve"
          /\ \A q \in Requests : q # r => request'[q] = request[q]
          /\ request'[r].key = request[r].key
          /\ request'[r].at \in {"find", "duplicate"}
          /\ request'[r].at = "find" => Pruned[Key(r)] = Absent
      BY <1>2, GotoType DEF Reserve, At, Inv, HasKey, Working, Holding, Over
    <2>2. \A k \in Keys : /\ calls'[k] = IF Old(k) THEN 0 ELSE calls[k]
                          /\ k \in accepted' <=> k \in accepted /\ ~Old(k)
      BY <1>2 DEF Reserve, ForgetOld
    <2>3. Pruned[Key(r)] = Absent => Key(r) \notin accepted'
      BY <2>1, <2>2 DEF Pruned, Absent, Inv, ForgottenAltogether
    <2>4. ASSUME NEW q \in Requests, q # r
          PROVE  /\ request'[q].at = "waiting" => calls'[request'[q].key] = 1
                 /\ Holds(q)' /\ request'[q].at \notin Agreed => request'[q].key \notin accepted'
      <3>1. request'[q] = request[q]
        BY <2>1, <2>4
      <3>2. Holds(q) => Key(q) \in Keys /\ ~Old(Key(q))
        BY DEF Inv, HasKey, RowIsHeld, Holds, Working, Holding, Failing
      <3>3. request[q].at = "waiting" => Holds(q)
        BY DEF Holds, Working
      <3> QED
        BY <2>2, <3>1, <3>2, <3>3 DEF Holds, Key
    <2> QED
      BY <2>1, <2>3, <2>4 DEF Key, Holds, Working, Holding, Failing
  <1>3. ASSUME NEW r \in Requests, Send(r) PROVE HolderKnows'
    <2>1. /\ Key(r) \in Keys /\ request[r].at = "send" /\ Holds(r)
          /\ \A q \in Requests : q # r => request'[q] = request[q]
          /\ request'[r].key = request[r].key /\ request'[r].at = "waiting"
          /\ UNCHANGED accepted
      BY <1>3, GotoType DEF Send, At, Inv, HasKey, Holds, Working, Holding
    <2>2. calls'[Key(r)] = 1 /\ \A k \in Keys : k # Key(r) => calls'[k] = calls[k]
      BY <1>3, <2>1 DEF Send, Inv, TypeOK, NotYetCalled, Holding
    <2>3. ASSUME NEW q \in Requests, q # r, request[q].at = "waiting"
          PROVE  calls'[Key(q)] = 1
      <3>1. Holds(q) /\ Key(q) \in Keys /\ Key(q) # Key(r)
        BY <2>1, <2>3 DEF Inv, OneHolder, HasKey, Holds, Working
      <3> QED
        BY <2>2, <2>3, <3>1
    <2>4. Key(r) \notin accepted
      BY <2>1 DEF Agreed
    <2> QED
      BY <2>1, <2>2, <2>3, <2>4 DEF Key, Holds
  <1>4. ASSUME NEW r \in Requests, AnswerOk(r) PROVE HolderKnows'
    <2>1. /\ Key(r) \in Keys /\ Holds(r)
          /\ \A q \in Requests : q # r => request'[q] = request[q]
          /\ request'[r].at = "markDelivered"
          /\ accepted' = accepted \cup {Key(r)} /\ UNCHANGED calls
      BY <1>4, GotoType DEF AnswerOk, At, Inv, HasKey, Holds, Working
    <2>2. \A q \in Requests : q # r /\ Holds(q) => Key(q) # Key(r)
      BY <2>1 DEF Inv, OneHolder
    <2> QED
      BY <2>1, <2>2 DEF Key, Holds, Agreed
  <1>5. ASSUME NEW r \in Requests,
               \/ FindSandbox(r) \/ SendFails(r) \/ AnswerRejected(r) \/ AnswerFails(r)
               \/ Fail(r) \/ Deliver(r) \/ StoreFails(r)
        PROVE  HolderKnows'
    BY <1>5, QuietMove DEF Key, Holds
  <1>6. CASE Restart
    <2>1. \A r \in Requests : request'[r].at \notin Working
      <3>1. \A r \in Requests : request[r] \in Handlers
        BY DEF Inv, TypeOK
      <3> QED
        BY <1>6, <3>1 DEF Restart, Handlers, Working, Holding, Failing
    <2> QED
      BY <2>1 DEF Holds, Working
  <1>7. CASE UNCHANGED <<calls, accepted, request>>
    BY <1>7 DEF Key, Holds
  <1> QED
    BY <1>1, <1>2, <1>3, <1>4, <1>5, <1>6, <1>7
    DEF Next, Handle, Expire, SaveTriggers, ReadTriggers, Provision, vars

LEMMA HolderKnowsInit == Init => HolderKnows
  BY DEF Init, HolderKnows, Holds, Working, Holding, Failing

(* The three variables of the ledger, as WebhookDelivery's give them.      *)
Remembered == [k \in Keys |-> IF Old(k) THEN "absent" ELSE ledger[k].status]
Invoked == [k \in Keys |-> IF Old(k) THEN 0 ELSE calls[k]]
AgreedTo == {k \in accepted : ~Old(k)}

LEMMA LedgerReserves ==
    ASSUME Inv, NEW r \in Requests, NEW k0 \in Keys, k0 = Key(r), Reserve(r)
    PROVE  Ledger!Reserve(k0) \/ UNCHANGED <<Remembered, Invoked, AgreedTo>>
  <1> DEFINE made == Pruned[k0] = Absent
  <1>2. \A k \in Keys : ledger'[k] = IF made /\ k = k0 THEN [status |-> "pending", old |-> FALSE]
                                     ELSE IF Old(k) THEN Absent ELSE ledger[k]
    BY DEF Reserve, Pruned
  <1>3. \A k \in Keys : ~Old(k)'
    BY <1>2 DEF Old, Absent
  <1>4. /\ \A k \in Keys : calls'[k] = IF Old(k) THEN 0 ELSE calls[k]
        /\ accepted' = {k \in accepted : ~Old(k)} /\ accepted \subseteq Keys
    BY DEF Reserve, ForgetOld, Inv, TypeOK
  <1>5. Invoked' = Invoked
    BY <1>3, <1>4 DEF Invoked
  <1>6. AgreedTo' = AgreedTo
    BY <1>3, <1>4 DEF AgreedTo
  <1>7. \A k \in Keys : Remembered'[k] = IF made /\ k = k0 THEN "pending" ELSE Remembered[k]
    BY <1>2, <1>3 DEF Remembered, Absent
  <1>8. CASE made
    <2>1. Remembered[k0] = "absent"
      BY <1>8 DEF Remembered, Pruned, Absent
    <2>2. Remembered' = [Remembered EXCEPT ![k0] = "pending"]
      BY <1>7, <1>8 DEF Remembered
    <2> QED
      BY <1>5, <1>6, <2>1, <2>2 DEF Ledger!Reserve, Remembered, Invoked, AgreedTo
  <1>9. CASE ~made
    BY <1>5, <1>6, <1>7, <1>9 DEF Remembered
  <1> QED
    BY <1>8, <1>9

LEMMA LedgerInvokes ==
    ASSUME Inv, NEW r \in Requests, NEW k0 \in Keys, k0 = Key(r), Send(r)
    PROVE  Ledger!Invoke(k0)
  <1>1. Key(r) \in Keys /\ request[r].at = "send" /\ Holds(r)
    BY DEF Send, At, Inv, HasKey, Holds, Working, Holding
  <1>2. ledger[Key(r)].status = "pending" /\ ~Old(Key(r)) /\ calls[Key(r)] = 0
    BY <1>1 DEF Inv, RowTellsPlace, RowIsHeld, NotYetCalled, Untold, Holding
  <1>3. Remembered' = Remembered /\ AgreedTo' = AgreedTo
    BY DEF Send, Remembered, AgreedTo, Old
  <1>4. Invoked' = [Invoked EXCEPT ![Key(r)] = 1]
    <2>1. \A k \in Keys : Old(k)' = Old(k)
      BY DEF Send, Old
    <2>2. \A k \in Keys : calls'[k] = IF k = Key(r) THEN 1 ELSE calls[k]
      BY <1>1, <1>2 DEF Send, Inv, TypeOK
    <2> QED
      BY <1>1, <1>2, <2>1, <2>2 DEF Invoked
  <1> QED
    BY <1>1, <1>2, <1>3, <1>4 DEF Ledger!Invoke, Remembered, Invoked, AgreedTo

LEMMA LedgerAgrees ==
    ASSUME Inv, HolderKnows, NEW r \in Requests, NEW k0 \in Keys, k0 = Key(r), AnswerOk(r)
    PROVE  Ledger!Agree(k0)
  <1>1. Key(r) \in Keys /\ request[r].at = "waiting" /\ Holds(r)
    BY DEF AnswerOk, At, Inv, HasKey, Holds, Working
  <1>2. ledger[Key(r)].status = "pending" /\ ~Old(Key(r)) /\ calls[Key(r)] = 1
    BY <1>1 DEF Inv, RowTellsPlace, RowIsHeld, HolderKnows, Untold
  <1>3. Remembered' = Remembered /\ Invoked' = Invoked
    BY DEF AnswerOk, Remembered, Invoked, Old
  <1>4. AgreedTo' = AgreedTo \cup {Key(r)}
    BY <1>1, <1>2 DEF AnswerOk, AgreedTo, Old
  <1> QED
    BY <1>1, <1>2, <1>3, <1>4 DEF Ledger!Agree, Remembered, Invoked, AgreedTo

(* The holder's write: delivered where the gateway agreed, failed where it *)
(* did not, and nothing new where it had failed already.                   *)
LEMMA LedgerSettles ==
    ASSUME Inv, HolderKnows, NEW r \in Requests, NEW k0 \in Keys, k0 = Key(r), Fail(r) \/ Deliver(r)
    PROVE  Ledger!Settle(k0) \/ UNCHANGED <<Remembered, Invoked, AgreedTo>>
  <1>1. ASSUME NEW from, NEW status, NEW next, Persist(r, from, status, next)
        PROVE  UNCHANGED <<Remembered, Invoked, AgreedTo>>
    BY <1>1 DEF Persist, Remembered, Invoked, AgreedTo, Old
  <1>2. ASSUME NEW from \in Working \ {"reserve"}, NEW status \in {"delivered", "failed"}, NEW next,
               Mark(r, from, status, next),
               ledger[Key(r)].status \in {"pending", status},
               status = "delivered" <=> Key(r) \in accepted
        PROVE  Ledger!Settle(k0) \/ UNCHANGED <<Remembered, Invoked, AgreedTo>>
    <2>1. Holds(r) /\ Key(r) \in Keys
      BY <1>2 DEF Mark, At, Holds, Inv, HasKey, Working, Holding, Failing
    <2>2. ~Old(Key(r)) /\ ledger[Key(r)] # Absent
      BY <2>1 DEF Inv, RowIsHeld, Absent
    <2>3. ledger' = [ledger EXCEPT ![Key(r)] = [status |-> status, old |-> FALSE]]
          /\ UNCHANGED <<calls, accepted>>
      BY <1>2, <2>2 DEF Mark
    <2>4. \A k \in Keys : Old(k)' = Old(k)
      BY <2>1, <2>2, <2>3 DEF Old, Inv, TypeOK
    <2>5. Invoked' = Invoked
      BY <2>3, <2>4 DEF Invoked
    <2>6. AgreedTo' = AgreedTo
      BY <2>3, <2>4 DEF AgreedTo, Inv, TypeOK
    <2>7. \A k \in Keys : Remembered'[k] = IF k = Key(r) THEN status ELSE Remembered[k]
      BY <2>1, <2>2, <2>3, <2>4 DEF Remembered, Inv, TypeOK
    <2>8. Remembered[Key(r)] = ledger[Key(r)].status /\ (Key(r) \in AgreedTo <=> Key(r) \in accepted)
      BY <2>1, <2>2 DEF Remembered, AgreedTo
    <2>9. Remembered' = [Remembered EXCEPT ![Key(r)] = status]
      BY <2>7 DEF Remembered
    <2>10. CASE ledger[Key(r)].status = status
      BY <2>5, <2>6, <2>8, <2>9, <2>10 DEF Remembered
    <2>11. CASE ledger[Key(r)].status = "pending"
      <3>1. status = IF Key(r) \in AgreedTo THEN "delivered" ELSE "failed"
        BY <1>2, <2>8
      <3> QED
        BY <2>5, <2>6, <2>8, <2>9, <2>11, <3>1 DEF Ledger!Settle, Remembered, Invoked, AgreedTo
    <2> QED
      BY <1>2, <2>10, <2>11
  <1>3. ASSUME NEW from \in {"markUnsent", "markRejected", "markFailed"}, NEW next,
               Mark(r, from, "failed", next)
        PROVE  Ledger!Settle(k0) \/ UNCHANGED <<Remembered, Invoked, AgreedTo>>
    <2>1. from \in Working \ {"reserve"} /\ from \notin Agreed /\ request[r].at = from
      BY <1>3 DEF Mark, At, Working, Failing, Agreed
    <2>2. Key(r) \notin accepted
      BY <2>1 DEF HolderKnows, Holds
    <2>3. ledger[Key(r)].status \in {"pending", "failed"}
      BY <1>3, <2>1 DEF Inv, RowTellsPlace, Untold, Refusing
    <2> QED
      BY <1>2, <1>3, <2>1, <2>2, <2>3
  <1>4. ASSUME NEW next, Mark(r, "markDelivered", "delivered", next)
        PROVE  Ledger!Settle(k0) \/ UNCHANGED <<Remembered, Invoked, AgreedTo>>
    <2>1. request[r].at = "markDelivered" /\ "markDelivered" \in Working \ {"reserve"}
      BY <1>4 DEF Mark, At, Working
    <2>2. Key(r) \in accepted /\ ledger[Key(r)].status = "pending"
      BY <2>1 DEF Inv, RowTellsPlace, Untold, Agreed
    <2> QED
      BY <1>2, <1>4, <2>1, <2>2
  <1> QED
    BY <1>1, <1>3, <1>4 DEF Fail, Deliver

LEMMA LedgerForgets ==
    ASSUME Inv, NEW k0 \in Keys, Expire(k0)
    PROVE  Ledger!Forget(k0)
  <1>1. ledger[k0] \in [status : {"absent", "pending", "delivered", "failed"}, old : BOOLEAN]
    BY DEF Inv, TypeOK
  <1>2. ~Old(k0) /\ ledger[k0].status # "absent"
    BY <1>1 DEF Expire, Absent, Old
  <1>3. \A k \in Keys : ledger'[k] = IF k = k0 THEN [ledger[k0] EXCEPT !.old = TRUE] ELSE ledger[k]
    BY DEF Expire, Inv, TypeOK
  <1>4. Old(k0)' /\ \A k \in Keys : k # k0 => Old(k)' = Old(k)
    BY <1>1, <1>3 DEF Old
  <1>5. UNCHANGED <<calls, accepted>> /\ accepted \subseteq Keys
    BY DEF Expire, Inv, TypeOK
  <1>6. Remembered[k0] # "absent"
    BY <1>2 DEF Remembered
  <1>7. Remembered' = [Remembered EXCEPT ![k0] = "absent"]
    BY <1>3, <1>4 DEF Remembered
  <1>8. Invoked' = [Invoked EXCEPT ![k0] = 0]
    BY <1>4, <1>5 DEF Invoked
  <1>9. AgreedTo' = AgreedTo \ {k0}
    BY <1>4, <1>5 DEF AgreedTo
  <1> QED
    BY <1>6, <1>7, <1>8, <1>9 DEF Ledger!Forget, Remembered, Invoked, AgreedTo

LEMMA LedgerInit == Init => Ledger!Init
  BY DEF Init, Ledger!Init, Absent, Old

LEMMA LedgerNext == Inv /\ HolderKnows /\ [Next]_vars => [Ledger!Next]_(Ledger!vars)
  <1> SUFFICES ASSUME Inv, HolderKnows, [Next]_vars
               PROVE  Ledger!Next \/ UNCHANGED <<Remembered, Invoked, AgreedTo>>
    BY DEF Ledger!vars, Remembered, Invoked, AgreedTo
  <1>1. ASSUME NEW r \in Requests, Reserve(r) \/ Send(r) \/ AnswerOk(r) \/ Fail(r) \/ Deliver(r)
        PROVE  Ledger!Next \/ UNCHANGED <<Remembered, Invoked, AgreedTo>>
    <2>1. PICK k0 \in Keys : k0 = Key(r)
      BY <1>1 DEF Reserve, Send, AnswerOk, Fail, Deliver, Mark, Persist, At, Inv, HasKey
    <2> QED
      BY <1>1, <2>1, LedgerReserves, LedgerInvokes, LedgerAgrees, LedgerSettles DEF Ledger!Next
  <1>2. ASSUME NEW k \in Keys, Expire(k) PROVE Ledger!Next
    BY <1>2, LedgerForgets DEF Ledger!Next
  <1>3. CASE UNCHANGED <<ledger, calls, accepted>>
    BY <1>3 DEF Remembered, Invoked, AgreedTo, Old
  <1>4. ASSUME NEW r \in Requests,
               \/ FindSandbox(r) \/ SendFails(r) \/ AnswerRejected(r) \/ AnswerFails(r)
               \/ StoreFails(r) \/ \E t \in Triggers, d \in Deliveries : Receive(r, t, d)
        PROVE  UNCHANGED <<ledger, calls, accepted>>
    BY <1>4 DEF FindSandbox, SendFails, AnswerRejected, AnswerFails, StoreFails, Receive
  <1>5. CASE SaveTriggers \/ ReadTriggers \/ Provision \/ Restart \/ UNCHANGED vars
    BY <1>3, <1>5 DEF SaveTriggers, ReadTriggers, Provision, Restart, vars
  <1> QED
    BY <1>1, <1>2, <1>3, <1>4, <1>5 DEF Next, Handle

(* The handlers implement DeliveryLedger: for every delivery one call, one *)
(* outcome, and the outcome the gateway's answer gave, until it is         *)
(* forgotten.                                                              *)
THEOREM KeepsLedgerAlways == Spec => KeepsLedger
  BY InitInv, NextInv, HolderKnowsInit, HolderKnowsNext, LedgerInit, LedgerNext, PTL
  DEF Spec, KeepsLedger, Ledger!Spec
-----------------------------------------------------------------------------
(***************************************************************************)
(* Public ids.  Not only the agent's list of triggers but every list that  *)
(* somebody has read and will write back must agree on whose an id is.     *)
(***************************************************************************)
Lists == {triggers, provision.read} \cup {request[r].read : r \in Requests}

NamesAlike(l, m) ==
    \A t, u \in Triggers : l[t].handle = m[u].handle => t = u \/ l[t].handle = None

Shown(l, ids) == \A t \in Triggers : l[t].handle # None => l[t].handle \in ids

(* A request keeps the id it came in by, with the list it was found in.    *)
Names ==
    /\ \A l \in Lists : Shown(l, revealed)
    /\ \A l, m \in Lists : NamesAlike(l, m)
    /\ \A r \in Requests :
          ~At(r, "idle") =>
              /\ request[r].trigger \in Triggers
              /\ Key(r)[1] = request[r].read[request[r].trigger].handle
              /\ Key(r)[1] # None

(* Lists with the ids of lists there were keep what those had.             *)
LEMMA ListsCopied ==
    ASSUME Names, UNCHANGED revealed,
           \A l \in Lists' : \E k \in Lists : \A t \in Triggers : l[t].handle = k[t].handle
    PROVE  /\ \A l \in Lists' : Shown(l, revealed')
           /\ \A l, m \in Lists' : NamesAlike(l, m)
  <1>1. \A l \in Lists' : Shown(l, revealed')
    BY DEF Names, Shown
  <1>2. ASSUME NEW l \in Lists', NEW m \in Lists' PROVE NamesAlike(l, m)
    <2>1. PICK k \in Lists : \A t \in Triggers : l[t].handle = k[t].handle
      OBVIOUS
    <2>2. PICK n \in Lists : \A t \in Triggers : m[t].handle = n[t].handle
      OBVIOUS
    <2> QED
      BY <2>1, <2>2 DEF Names, NamesAlike
  <1> QED
    BY <1>1, <1>2

LEMMA NamesInit == Init => Names
  BY DEF Init, Names, Lists, Shown, NamesAlike, At

(* A request that only moves keeps its id and its list.                    *)
LEMMA StepKeepsRequest ==
    ASSUME Inv, NEW r \in Requests, NEW where \in {"idle"} \cup Working \cup Over, Goto(r, where)
    PROVE  \A q \in Requests : /\ request'[q].read = request[q].read
                               /\ request'[q].key = request[q].key
                               /\ request'[q].trigger = request[q].trigger
                               /\ q # r => request'[q].at = request[q].at
  BY DEF Goto, Inv, TypeOK, Handlers

LEMMA NamesMove ==
    ASSUME Inv, Names, NEW r \in Requests, ~At(r, "idle"),
           NEW where \in {"idle"} \cup Working \cup Over, Goto(r, where),
           UNCHANGED <<revealed, provision>>,
           \E k \in Lists : \A t \in Triggers : triggers'[t].handle = k[t].handle
    PROVE  Names'
  <1>1. \A l \in Lists' : \E k \in Lists : \A t \in Triggers : l[t].handle = k[t].handle
    <2>1. \A q \in Requests : request'[q].read \in Lists
      BY StepKeepsRequest DEF Lists
    <2>2. provision'.read \in Lists
      BY DEF Lists
    <2>3. Lists' = {triggers', provision'.read} \cup {request'[q].read : q \in Requests}
      BY DEF Lists
    <2> QED
      BY <2>1, <2>2, <2>3
  <1>2. \A q \in Requests :
           ~(request'[q].at = "idle") =>
              /\ request'[q].trigger \in Triggers
              /\ request'[q].key[1] = request'[q].read[request'[q].trigger].handle
              /\ request'[q].key[1] # None
    BY StepKeepsRequest DEF Names, At, Key
  <1> QED
    BY <1>1, <1>2, ListsCopied DEF Names, At, Key

LEMMA NamesNext == Inv /\ Names /\ [Next]_vars => Names'
  <1> SUFFICES ASSUME Inv, Names, [Next]_vars PROVE Names'
    OBVIOUS
  <1>1. triggers \in Lists /\ provision.read \in Lists /\ \A r \in Requests : request[r].read \in Lists
    BY DEF Lists
  <1>2. ASSUME NEW r \in Requests, NEW t \in Triggers, NEW d \in Deliveries, Receive(r, t, d)
        PROVE  Names'
    <2>1. /\ \A q \in Requests : q # r => request'[q] = request[q]
          /\ request'[r].at = "reserve" /\ request'[r].trigger = t /\ request'[r].read = triggers
          /\ request'[r].key = <<triggers[t].handle, d>> /\ triggers[t].handle # None
          /\ UNCHANGED <<triggers, revealed, provision>>
      BY <1>2 DEF Receive, Inv, TypeOK
    <2>2. Lists' = {triggers', provision'.read} \cup {request'[q].read : q \in Requests}
      BY DEF Lists
    <2>3. \A q \in Requests : request'[q].read \in Lists
      BY <1>1, <2>1
    <2>4. \A l \in Lists' : l \in Lists
      BY <1>1, <2>1, <2>2, <2>3
    <2> QED
      BY <2>1, <2>4 DEF Names, At, Key
  <1>3. ASSUME NEW r \in Requests,
               \/ Reserve(r) \/ FindSandbox(r) \/ Send(r) \/ SendFails(r)
               \/ AnswerOk(r) \/ AnswerRejected(r) \/ AnswerFails(r) \/ StoreFails(r)
        PROVE  Names'
    <2>1. /\ ~At(r, "idle")
          /\ \E where \in {"idle"} \cup Working \cup Over : Goto(r, where)
          /\ UNCHANGED <<triggers, revealed, provision>>
      BY <1>3 DEF Reserve, FindSandbox, Send, SendFails, AnswerOk, AnswerRejected, AnswerFails,
                  StoreFails, At, Working, Holding, Failing, Over, untouched
    <2> QED
      BY <1>1, <2>1, NamesMove
  <1>4. ASSUME NEW r \in Requests, NEW from, NEW status, NEW next \in {"idle"} \cup Working \cup Over,
               from # "idle", Mark(r, from, status, next)
        PROVE  Names'
    <2>1. ~At(r, "idle") /\ Goto(r, next) /\ UNCHANGED <<triggers, revealed, provision>>
      BY <1>4 DEF Mark, At, untouched
    <2> QED
      BY <1>1, <2>1, NamesMove
  <1>5. ASSUME NEW r \in Requests, NEW from, NEW status, NEW next \in {"idle"} \cup Working \cup Over,
               from # "idle", Persist(r, from, status, next)
        PROVE  Names'
    <2>1. ~At(r, "idle") /\ Goto(r, next) /\ UNCHANGED <<revealed, provision>>
          /\ triggers' = [request[r].read EXCEPT ![request[r].trigger].last = status]
      BY <1>5 DEF Persist, At, untouched
    <2>2. request[r].read \in [Triggers -> Trigger]
      BY DEF Inv, TypeOK, Handlers
    <2>3. \A t \in Triggers : triggers'[t].handle = request[r].read[t].handle
      BY <2>1, <2>2 DEF Trigger
    <2> QED
      BY <1>1, <2>1, <2>3, NamesMove
  <1>6. ASSUME NEW r \in Requests, Fail(r) \/ Deliver(r) PROVE Names'
    BY <1>4, <1>5, <1>6 DEF Fail, Deliver, Working, Failing, Over
  <1>7. CASE SaveTriggers
    <2>1. /\ \A t \in Triggers : triggers'[t].handle = triggers[t].handle
          /\ UNCHANGED <<revealed, request, provision>>
      BY <1>7 DEF SaveTriggers, Inv, TypeOK, Trigger
    <2>2. \A l \in Lists' : \E k \in Lists : \A t \in Triggers : l[t].handle = k[t].handle
      BY <1>1, <2>1 DEF Lists
    <2> QED
      BY <2>1, <2>2, ListsCopied DEF Names, At, Key
  <1>8. CASE ReadTriggers
    <2>1. provision'.read = triggers /\ UNCHANGED <<triggers, revealed, request>>
      BY <1>8 DEF ReadTriggers
    <2>2. \A l \in Lists' : l \in Lists
      BY <1>1, <2>1 DEF Lists
    <2> QED
      BY <2>1, <2>2 DEF Names, At, Key
  <1>9. CASE Provision
    <2> DEFINE old == provision.read
               lacking == {t \in Triggers : ~old[t].hash}
    <2>1. PICK fresh \in [Triggers -> Handles] :
             /\ \A t \in lacking : fresh[t] \notin revealed
             /\ \A t, u \in lacking : fresh[t] = fresh[u] => t = u
             /\ triggers' = [t \in Triggers |->
                                IF t \in lacking THEN [old[t] EXCEPT !.handle = fresh[t], !.hash = TRUE]
                                ELSE old[t]]
             /\ revealed' = revealed \cup {fresh[t] : t \in lacking}
      BY <1>9 DEF Provision
    <2>2. old \in [Triggers -> Trigger]
      BY DEF Inv, TypeOK
    <2>3. \A t \in Triggers : triggers'[t].handle = IF t \in lacking THEN fresh[t] ELSE old[t].handle
      BY <2>1, <2>2 DEF Trigger
    <2>4. provision'.read = old /\ UNCHANGED request
      BY <1>9 DEF Provision, Inv, TypeOK
    <2>5. \A l \in Lists' : l \in Lists \/ l = triggers'
      BY <1>1, <2>4 DEF Lists
    <2>6. \A t \in lacking : fresh[t] # None /\ fresh[t] \in revealed' /\ fresh[t] \notin revealed
      BY <2>1, HandlesAssumption
    <2>7. revealed \subseteq revealed'
      BY <2>1
    <2>8. old \in Lists /\ \A l \in Lists : Shown(l, revealed)
      BY <1>1 DEF Names
    <2> HIDE DEF old, lacking
    <2>9. Shown(triggers', revealed')
      BY <2>3, <2>6, <2>7, <2>8 DEF Shown
    <2>10. \A l \in Lists' : Shown(l, revealed')
      BY <2>5, <2>7, <2>8, <2>9 DEF Shown
    <2>11. ASSUME NEW m \in Lists PROVE NamesAlike(triggers', m) /\ NamesAlike(m, triggers')
      <3>1. NamesAlike(old, m) /\ NamesAlike(m, old) /\ Shown(m, revealed)
        BY <2>8 DEF Names
      <3> QED
        BY <2>3, <2>6, <3>1 DEF NamesAlike, Shown
    <2>12. NamesAlike(triggers', triggers')
      <3>1. NamesAlike(old, old) /\ Shown(old, revealed)
        BY <2>8 DEF Names
      <3> SUFFICES ASSUME NEW t \in Triggers, NEW u \in Triggers,
                          triggers'[t].handle = triggers'[u].handle
                   PROVE  t = u \/ triggers'[t].handle = None
        BY DEF NamesAlike
      <3>2. CASE t \in lacking /\ u \in lacking
        <4>1. fresh[t] = fresh[u]
          BY <2>3, <3>2
        <4> QED
          BY <2>1, <3>2, <4>1
      <3>3. CASE t \in lacking /\ u \notin lacking
        BY <2>3, <2>6, <3>1, <3>3 DEF Shown
      <3>4. CASE t \notin lacking /\ u \in lacking
        BY <2>3, <2>6, <3>1, <3>4 DEF Shown
      <3>5. CASE t \notin lacking /\ u \notin lacking
        BY <2>3, <3>1, <3>5 DEF NamesAlike
      <3> QED
        BY <3>2, <3>3, <3>4, <3>5
    <2>13. \A l, m \in Lists' : NamesAlike(l, m)
      <3>1. \A l, m \in Lists : NamesAlike(l, m)
        BY DEF Names
      <3> QED
        BY <2>5, <2>11, <2>12, <3>1
    <2> QED
      BY <2>4, <2>10, <2>13 DEF Names, At, Key
  <1>10. CASE Restart
    <2>1. \A q \in Requests : /\ request'[q].read = request[q].read
                              /\ request'[q].key = request[q].key
                              /\ request'[q].trigger = request[q].trigger
                              /\ request[q].at = "idle" => request'[q].at = "idle"
      BY <1>10 DEF Restart, Inv, TypeOK, Handlers, Working, Holding, Failing
    <2>2. provision'.read = provision.read /\ UNCHANGED <<triggers, revealed>>
      BY <1>10 DEF Restart, Inv, TypeOK
    <2>3. \A l \in Lists' : l \in Lists
      BY <1>1, <2>1, <2>2 DEF Lists
    <2> QED
      BY <2>1, <2>2, <2>3 DEF Names, At, Key
  <1>11. CASE UNCHANGED <<triggers, revealed, request, provision>>
    BY <1>11 DEF Names, Lists, At, Key
  <1> QED
    BY <1>2, <1>3, <1>6, <1>7, <1>8, <1>9, <1>10, <1>11 DEF Next, Handle, Expire, vars

(* Stale lists may bring an old public id back, never another trigger's:   *)
(* a delivery is recorded with the trigger its id names.                   *)
THEOREM IdNamesOneTriggerAlways == Spec => []IdNamesOneTrigger
  <1>1. Names => IdNamesOneTrigger
    BY DEF Names, Lists, NamesAlike, IdNamesOneTrigger
  <1> QED
    BY <1>1, InitInv, NextInv, NamesInit, NamesNext, PTL DEF Spec
=============================================================================
