-------------------------- MODULE MCWebhookDelivery --------------------------
(* Two requests race for a row of the ledger; the second trigger is for    *)
(* the list that is written back whole, and the four public ids let both   *)
(* triggers be provisioned twice.                                          *)
EXTENDS WebhookDelivery, TLC

CONSTANTS t1, t2, h1, h2, h3, h4, r1, r2, d1

MCTriggers == {t1, t2}
MCHandles == {h1, h2, h3, h4}
MCRequests == {r1, r2}
MCDeliveries == {d1}

Symmetry == Permutations(MCTriggers) \cup Permutations(MCHandles) \cup Permutations(MCRequests)
=============================================================================
