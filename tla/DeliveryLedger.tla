--------------------------- MODULE DeliveryLedger ---------------------------
(***************************************************************************)
(* What the replay ledger is to give the webhooks: a delivery is reserved  *)
(* once, invoked at most once while it is reserved, and settled once, as   *)
(* delivered exactly if the gateway agreed to it.  After its retention it  *)
(* is forgotten altogether, with whatever came of it; one that was never   *)
(* settled stays as it is until then.                                      *)
(***************************************************************************)
EXTENDS Naturals

CONSTANT Keys   \* a public id with a delivery id

VARIABLES row,      \* [key -> what the ledger remembers of it]
          calls,    \* [key -> invocations of the sandbox for it]
          agreed    \* the keys whose invocation the gateway agreed to

vars == <<row, calls, agreed>>

Init ==
    /\ row = [k \in Keys |-> "absent"]
    /\ calls = [k \in Keys |-> 0]
    /\ agreed = {}

Reserve(k) ==
    /\ row[k] = "absent"
    /\ row' = [row EXCEPT ![k] = "pending"]
    /\ UNCHANGED <<calls, agreed>>

Invoke(k) ==
    /\ row[k] = "pending"
    /\ calls[k] = 0
    /\ calls' = [calls EXCEPT ![k] = 1]
    /\ UNCHANGED <<row, agreed>>

Agree(k) ==
    /\ row[k] = "pending"
    /\ calls[k] = 1
    /\ agreed' = agreed \cup {k}
    /\ UNCHANGED <<row, calls>>

Settle(k) ==
    /\ row[k] = "pending"
    /\ row' = [row EXCEPT ![k] = IF k \in agreed THEN "delivered" ELSE "failed"]
    /\ UNCHANGED <<calls, agreed>>

Forget(k) ==
    /\ row[k] # "absent"
    /\ row' = [row EXCEPT ![k] = "absent"]
    /\ calls' = [calls EXCEPT ![k] = 0]
    /\ agreed' = agreed \ {k}

Next == \E k \in Keys : Reserve(k) \/ Invoke(k) \/ Agree(k) \/ Settle(k) \/ Forget(k)

Spec == Init /\ [][Next]_vars
=============================================================================
