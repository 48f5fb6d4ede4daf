--------------------------- MODULE MCLiveWebhook ---------------------------
(***************************************************************************)
(* A small instance of LiveWebhook.  d1 is a delivery; d2 has its webhookId*)
(* and timestamp but another body; d3 is the same command delivered again  *)
(* under another webhookId.  One workspace has installed the app.          *)
(***************************************************************************)
EXTENDS LiveWebhook, TLC

CONSTANTS d1, d2, d3, k1, k2, o1, o2, hA, hB, user1

MCKeyOf  == [d \in Deliveries |-> IF d = d3 THEN k2 ELSE k1]
MCSentAt == [k \in Keys |-> 1]
MCHashOf == [d \in Deliveries |-> IF d = d2 THEN hB ELSE hA]
MCOpOf   == [d \in Deliveries |-> IF d = d2 THEN o2 ELSE o1]

OneUser  == [d \in Deliveries |-> user1]

Symmetry == Permutations(Threads)
=============================================================================
