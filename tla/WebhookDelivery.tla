--------------------------- MODULE WebhookDelivery ---------------------------
(***************************************************************************)
(* The webhooks of one agent: POST /api/triggers/webhooks/:public_id, the  *)
(* replay ledger it reserves each delivery in, and the two requests that   *)
(* rewrite the agent's triggers, configuration apply, which provisions     *)
(* webhooks, and the owner's PATCH config (ruh-backend/src/app.ts and      *)
(* webhookDeliveryStore.ts).                                               *)
(*                                                                         *)
(* A delivery request reads the agent once, at its start, and at its end   *)
(* writes back the whole list of triggers it read.  Between them it has    *)
(* waited up to two minutes for the sandbox's gateway.                     *)
(*                                                                         *)
(* A store call is a transaction, so one step; any of them may throw.  A   *)
(* public id stands for its secret too: both are made together.  Malformed *)
(* requests, oversized payloads and wrong secrets are answered before      *)
(* anything is written and are left out.                                   *)
(***************************************************************************)
EXTENDS Naturals

CONSTANTS Triggers,     \* webhook triggers of the agent
          Handles,      \* public ids, never given out twice
          Deliveries,   \* x-openclaw-delivery-id
          Requests,     \* the delivery requests of a behaviour
          None

ASSUME HandlesAssumption == None \notin Handles

VARIABLES
    triggers,   \* agents.triggers: per trigger its public id, whether the
                \* secret's hash is there, and the last delivery's outcome
    revealed,   \* public ids an operator was ever shown, with the secret
    ledger,     \* webhook_delivery_dedupes: status, and if past retention
    calls,      \* times the gateway got a delivery the ledger remembers
    accepted,   \* those it answered below 400
    request,    \* the delivery requests
    provision   \* configuration apply: the triggers it has read

vars == <<triggers, revealed, ledger, calls, accepted, request, provision>>

Keys == Handles \X Deliveries

Trigger == [handle : Handles \cup {None}, hash : BOOLEAN,
            last : {"none", "delivered", "failed"}]

(* Where a handler is.  The failure path is run through twice by a         *)
(* delivery the gateway rejects: once in the try block, once in its catch. *)
Holding == {"find", "send"}
Failing == {"markUnsent", "persistUnsent", "markRejected", "persistRejected",
            "markFailed", "persistFailed"}
Working == Holding \cup Failing \cup {"reserve", "waiting", "markDelivered", "persistDelivered"}
Over == {"accepted", "duplicate", "refused", "threw", "lost"}

Handlers == [at : {"idle"} \cup Working \cup Over, key : Keys \cup {None},
             trigger : Triggers \cup {None}, read : [Triggers -> Trigger]]

Absent == [status |-> "absent", old |-> FALSE]

(* The agent's webhook triggers are saved, none provisioned.               *)
Init ==
    /\ triggers = [t \in Triggers |-> [handle |-> None, hash |-> FALSE, last |-> "none"]]
    /\ revealed = {}
    /\ ledger = [k \in Keys |-> Absent]
    /\ calls = [k \in Keys |-> 0]
    /\ accepted = {}
    /\ request = [r \in Requests |-> [at |-> "idle", key |-> None, trigger |-> None,
                                      read |-> triggers]]
    /\ provision = [at |-> "idle", read |-> triggers]

(***************************************************************************)
(* A delivery.                                                             *)
(***************************************************************************)
At(r, where) == request[r].at = where

Goto(r, where) == request' = [request EXCEPT ![r].at = where]

Key(r) == request[r].key

(* listAgents, the trigger with this public id, its secret checked.        *)
Receive(r, t, d) ==
    /\ At(r, "idle")
    /\ triggers[t].handle # None
    /\ triggers[t].hash
    /\ request' = [request EXCEPT ![r] = [at |-> "reserve", key |-> <<triggers[t].handle, d>>,
                                          trigger |-> t, read |-> triggers]]
    /\ UNCHANGED <<triggers, revealed, ledger, calls, accepted, provision>>

Old(k) == ledger[k].old

(* Rows past the retention are deleted by whichever request reserves next. *)
Pruned == [k \in Keys |-> IF Old(k) THEN Absent ELSE ledger[k]]

ForgetOld ==
    /\ calls' = [k \in Keys |-> IF Old(k) THEN 0 ELSE calls[k]]
    /\ accepted' = {k \in accepted : ~Old(k)}

(* Faulty variant: a delivery that failed may be tried again.              *)
ReserveFailedAgain(r) ==
    /\ At(r, "reserve")
    /\ ForgetOld
    /\ IF Pruned[Key(r)].status \in {"absent", "failed"}
       THEN /\ ledger' = [Pruned EXCEPT ![Key(r)] = [status |-> "pending", old |-> FALSE]]
            /\ Goto(r, "find")
       ELSE /\ ledger' = Pruned
            /\ Goto(r, "duplicate")
    /\ UNCHANGED <<triggers, revealed, provision>>

(* reserveWebhookDelivery: prune, then INSERT ... ON CONFLICT DO NOTHING.  *)
Reserve(r) ==
    /\ At(r, "reserve")
    /\ ForgetOld
    /\ IF Pruned[Key(r)] = Absent
       THEN /\ ledger' = [Pruned EXCEPT ![Key(r)] = [status |-> "pending", old |-> FALSE]]
            /\ Goto(r, "find")
       ELSE /\ ledger' = Pruned
            /\ Goto(r, "duplicate")
    /\ UNCHANGED <<triggers, revealed, provision>>

untouched == <<revealed, provision>>

(* resolveActiveSandboxForAgent: the first of the agent's that runs.       *)
FindSandbox(r) ==
    /\ At(r, "find")
    /\ \E where \in {"send", "markUnsent"} : Goto(r, where)
    /\ UNCHANGED <<triggers, ledger, calls, accepted, untouched>>

Send(r) ==
    /\ At(r, "send")
    /\ calls' = [calls EXCEPT ![Key(r)] = @ + 1]
    /\ Goto(r, "waiting")
    /\ UNCHANGED <<triggers, ledger, accepted, untouched>>

(* The gateway is not there: nothing reaches it.                           *)
SendFails(r) ==
    /\ At(r, "send")
    /\ Goto(r, "markFailed")
    /\ UNCHANGED <<triggers, ledger, calls, accepted, untouched>>

AnswerOk(r) ==
    /\ At(r, "waiting")
    /\ accepted' = accepted \cup {Key(r)}
    /\ Goto(r, "markDelivered")
    /\ UNCHANGED <<triggers, ledger, calls, untouched>>

(* Faulty variant: validateStatus lets a 4xx pass, and nobody looks at it. *)
AnswerRejectedUnseen(r) ==
    /\ At(r, "waiting")
    /\ Goto(r, "markDelivered")
    /\ UNCHANGED <<triggers, ledger, calls, accepted, untouched>>

AnswerRejected(r) ==
    /\ At(r, "waiting")
    /\ Goto(r, "markRejected")
    /\ UNCHANGED <<triggers, ledger, calls, accepted, untouched>>

(* A 5xx, a broken connection, or two minutes without an answer: the       *)
(* gateway may well have done the work.                                    *)
AnswerFails(r) ==
    /\ At(r, "waiting")
    /\ Goto(r, "markFailed")
    /\ UNCHANGED <<triggers, ledger, calls, accepted, untouched>>

(* markWebhookDeliveryStatus: an UPDATE, of nothing if the row is gone.    *)
Mark(r, from, status, next) ==
    /\ At(r, from)
    /\ ledger' = IF ledger[Key(r)] = Absent THEN ledger
                 ELSE [ledger EXCEPT ![Key(r)] = [status |-> status, old |-> FALSE]]
    /\ Goto(r, next)
    /\ UNCHANGED <<triggers, calls, accepted, untouched>>

(* persistWebhookDeliveryStatus: the triggers as read at the start.        *)
Persist(r, from, status, next) ==
    /\ At(r, from)
    /\ triggers' = [request[r].read EXCEPT ![request[r].trigger].last = status]
    /\ Goto(r, next)
    /\ UNCHANGED <<ledger, calls, accepted, untouched>>

Fail(r) ==
    \/ Mark(r, "markUnsent", "failed", "persistUnsent")
    \/ Persist(r, "persistUnsent", "failed", "refused")
    \/ Mark(r, "markRejected", "failed", "persistRejected")
    \/ Persist(r, "persistRejected", "failed", "markFailed")
    \/ Mark(r, "markFailed", "failed", "persistFailed")
    \/ Persist(r, "persistFailed", "failed", "refused")

Deliver(r) ==
    \/ Mark(r, "markDelivered", "delivered", "persistDelivered")
    \/ Persist(r, "persistDelivered", "delivered", "accepted")

(* Faulty variant: the writes after a delivery are in the try block too.   *)
StoreFailsInTry(r) ==
    /\ request[r].at \in {"reserve", "markDelivered", "persistDelivered"} \cup Failing
    /\ Goto(r, IF request[r].at \in {"reserve", "markUnsent", "persistUnsent"}
               THEN "threw" ELSE "markFailed")
    /\ UNCHANGED <<triggers, ledger, calls, accepted, untouched>>

(* A store call throws, before it has written: inside the try block that   *)
(* is one more failure, anywhere else the request is answered 500.         *)
StoreFails(r) ==
    /\ request[r].at \in {"reserve", "markDelivered", "persistDelivered"} \cup Failing
    /\ Goto(r, IF request[r].at \in {"markRejected", "persistRejected"}
               THEN "markFailed" ELSE "threw")
    /\ UNCHANGED <<triggers, ledger, calls, accepted, untouched>>

(***************************************************************************)
(* The other requests, and time.                                           *)
(***************************************************************************)
(* PATCH config with the triggers a client has read.  Reads leave out the  *)
(* secret's hash, and the validation would not let it in.                  *)
SaveTriggers ==
    /\ triggers' = [t \in Triggers |-> [triggers[t] EXCEPT !.hash = FALSE]]
    /\ UNCHANGED <<revealed, ledger, calls, accepted, request, provision>>

(* ensureWebhookProvisioning: a read, then, if a trigger lacks anything,   *)
(* a write of all of them.  Only then is the operator shown the secrets.   *)
ReadTriggers ==
    /\ provision.at = "idle"
    /\ \E t \in Triggers : ~triggers[t].hash
    /\ provision' = [at |-> "read", read |-> triggers]
    /\ UNCHANGED <<triggers, revealed, ledger, calls, accepted, request>>

(* Faulty variant: one public id is made for all that lack one.            *)
ProvisionShared ==
    /\ provision.at = "read"
    /\ \E fresh \in Handles \ revealed :
           LET lacking == {t \in Triggers : ~provision.read[t].hash}
           IN /\ triggers' = [t \in Triggers |->
                                 IF t \in lacking
                                 THEN [provision.read[t] EXCEPT !.handle = fresh, !.hash = TRUE]
                                 ELSE provision.read[t]]
              /\ revealed' = revealed \cup {fresh}
    /\ provision' = [provision EXCEPT !.at = "idle"]
    /\ UNCHANGED <<ledger, calls, accepted, request>>

Provision ==
    /\ provision.at = "read"
    /\ \E fresh \in [Triggers -> Handles] :
           LET lacking == {t \in Triggers : ~provision.read[t].hash}
           IN /\ \A t \in lacking : fresh[t] \notin revealed
              /\ \A t, u \in lacking : fresh[t] = fresh[u] => t = u
              /\ triggers' = [t \in Triggers |->
                                 IF t \in lacking
                                 THEN [provision.read[t] EXCEPT !.handle = fresh[t], !.hash = TRUE]
                                 ELSE provision.read[t]]
              /\ revealed' = revealed \cup {fresh[t] : t \in lacking}
    /\ provision' = [provision EXCEPT !.at = "idle"]
    /\ UNCHANGED <<ledger, calls, accepted, request>>

(* Seven days go by for a row: far longer than any request takes.          *)
Expire(k) ==
    /\ ledger[k] # Absent
    /\ ~Old(k)
    /\ \A r \in Requests : Key(r) = k => request[r].at \notin Working
    /\ ledger' = [ledger EXCEPT ![k].old = TRUE]
    /\ UNCHANGED <<triggers, revealed, calls, accepted, request, provision>>

(* The backend goes away with the requests it was at.                      *)
Restart ==
    /\ \E r \in Requests : request[r].at \in Working
    /\ request' = [r \in Requests |->
                      IF request[r].at \in Working THEN [request[r] EXCEPT !.at = "lost"]
                      ELSE request[r]]
    /\ provision' = [provision EXCEPT !.at = "idle"]
    /\ UNCHANGED <<triggers, revealed, ledger, calls, accepted>>

Handle(r) ==
    \/ \E t \in Triggers, d \in Deliveries : Receive(r, t, d)
    \/ Reserve(r) \/ FindSandbox(r) \/ Send(r) \/ SendFails(r)
    \/ AnswerOk(r) \/ AnswerRejected(r) \/ AnswerFails(r)
    \/ Fail(r) \/ Deliver(r) \/ StoreFails(r)

Next ==
    \/ \E r \in Requests : Handle(r)
    \/ \E k \in Keys : Expire(k)
    \/ SaveTriggers \/ ReadTriggers \/ Provision \/ Restart

Spec == Init /\ [][Next]_vars

-----------------------------------------------------------------------------
TypeOK ==
    /\ triggers \in [Triggers -> Trigger]
    /\ revealed \in SUBSET Handles
    /\ ledger \in [Keys -> [status : {"absent", "pending", "delivered", "failed"}, old : BOOLEAN]]
    /\ calls \in [Keys -> Nat]
    /\ accepted \in SUBSET Keys
    /\ request \in [Requests -> Handlers]
    /\ provision \in [at : {"idle", "read"}, read : [Triggers -> Trigger]]

(* A delivery reaches the sandbox at most once while the ledger remembers  *)
(* it, whatever became of the first attempt: concurrent deliveries of one  *)
(* id, retries after a failure, a timeout or a restart included.           *)
NeverInvokedTwice == \A k \in Keys : calls[k] <= 1

(* The ledger says delivered only of a delivery the gateway took: not of   *)
(* one it rejected, nor of one that got no answer.                         *)
DeliveredIsTrue == \A k \in Keys : ledger[k].status = "delivered" => k \in accepted

(* Lists of triggers are read, kept for minutes and written back whole,    *)
(* yet a public id only ever names the one trigger: no two triggers of the *)
(* agent share it, and a delivery that came in by it is still recorded     *)
(* with the trigger that has it by then, if one has.                       *)
IdNamesOneTrigger ==
    /\ \A t, u \in Triggers :
          triggers[t].handle = triggers[u].handle => t = u \/ triggers[t].handle = None
    /\ \A r \in Requests, u \in Triggers :
          ~At(r, "idle") /\ triggers[u].handle = Key(r)[1] => request[r].trigger = u

(* Once an attempt has its outcome, nothing changes the row before the     *)
(* retention has passed: no later duplicate, and no store call that fails  *)
(* on the way to the answer.                                               *)
OutcomeIsFinal ==
    [][\A k \in Keys : ledger[k].status \in {"delivered", "failed"} /\ ~Old(k) =>
                           ledger'[k].status = ledger[k].status]_vars

(* The requests, with all they do to triggers and all that fails on the    *)
(* way, are a ledger that keeps to DeliveryLedger: no second invocation,   *)
(* no outcome the gateway did not give, none that changes.  A row past its *)
(* retention is one that is forgotten: the next request to reserve         *)
(* anything will delete it first.                                          *)
Ledger == INSTANCE DeliveryLedger WITH
    row    <- [k \in Keys |-> IF Old(k) THEN "absent" ELSE ledger[k].status],
    calls  <- [k \in Keys |-> IF Old(k) THEN 0 ELSE calls[k]],
    agreed <- {k \in accepted : ~Old(k)}

KeepsLedger == Ledger!Spec
=============================================================================
