---------------------------- MODULE DeliveryGate ----------------------------
(***************************************************************************)
(* What the webhook receipts promise, whatever the threads do between two  *)
(* document accesses: a delivery is at work, done, lost or open, one       *)
(* thread at a time works on it, done and lost are final, and a delivery   *)
(* is lost only when the thread at work on it ends without an answer.      *)
(***************************************************************************)
CONSTANTS
  Workers,         \* threads of the server
  Keys,            \* the receipt keys of deliveries
  MayDie           \* whether a thread may end in the middle of its work

VARIABLES
  work,            \* pairs <<k, t>>: thread t works on delivery k
  done, lost       \* deliveries that nobody will work on again

Init == work = {} /\ done = {} /\ lost = {}

Open(k) == k \notin done \cup lost /\ \A t \in Workers : <<k, t>> \notin work
Free(t) == \A k \in Keys : <<k, t>> \notin work

Begin(k, t) ==
  /\ Open(k) /\ Free(t)
  /\ work' = work \cup {<<k, t>>}
  /\ UNCHANGED <<done, lost>>

Leave(k, t) ==
  /\ <<k, t>> \in work
  /\ work' = work \ {<<k, t>>}

Finish(k, t)  == Leave(k, t) /\ done' = done \cup {k} /\ UNCHANGED lost

\* The delivery is open again: Linear may post it once more.
GiveUp(k, t)  == Leave(k, t) /\ UNCHANGED <<done, lost>>

Abandon(k, t) == MayDie /\ Leave(k, t) /\ lost' = lost \cup {k} /\ UNCHANGED done

Next ==
  \E k \in Keys, t \in Workers :
    Begin(k, t) \/ Finish(k, t) \/ GiveUp(k, t) \/ Abandon(k, t)

Spec == Init /\ [][Next]_<<work, done, lost>>
=============================================================================
