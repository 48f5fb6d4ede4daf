---------------------------- MODULE ProofService ----------------------------
(***************************************************************************)
(* The webhook service of the synthetic proof: handle checks the time      *)
(* stamp of a delivery, reserves its webhookId in the receipt ledger,      *)
(* checks the identity, asks the policy and publishes, on the threads of   *)
(* a ThreadingHTTPServer over one SQLite file.  Nothing here completes or  *)
(* releases a receipt, as the live service does: what keeps an event from  *)
(* running twice is the age of its receipt alone.                          *)
(*                                                                         *)
(* A delivery is the signed body that was received: its webhookId, its     *)
(* time stamp, whether it is for this agent, and whatever else it says.    *)
(* Bodies that fail the signature or the schema are answered before any    *)
(* state is read and are left out.                                         *)
(***************************************************************************)
EXTENDS Integers, Sequences

CONSTANTS
  Threads,
  Ids,              \* values of webhookId
  Bodies,           \* what else a delivery says
  Tolerance,        \* timestamp_tolerance_seconds
  StaleAfter,       \* stale_after_ms of reserve
  MaxTime,          \* BOUND: the clock
  MaxArrivals       \* BOUND: requests received

ASSUME ConstantsAssumption ==
  /\ {Tolerance, StaleAfter, MaxTime, MaxArrivals} \subseteq Nat
  /\ 2 * Tolerance <= StaleAfter          \* 60 s twice against 5 min

Deliveries == [id : Ids, sent : 0..MaxTime, ours : BOOLEAN, body : Bodies]

VARIABLES
  now,
  receipts,         \* the ledger: webhookId -> [delivery, at]
  runs,             \* deliveries that reached the policy, in order
  pc, request,      \* per thread: the next step or the answer; what it handles
  arrivals

vars == <<now, receipts, runs, pc, request, arrivals>>

Working == {"reserve", "identity", "evaluate", "publish"}
Answers == {"idle", "stale_timestamp", "duplicate_event", "replay_conflict",
            "wrong_agent_identity", "model_output_rejected", "product_agent_response", "none"}

\* A request and the time at which handle has read the clock.
Requests == [delivery : Deliveries, at : Nat]
NoRequest == [at |-> 0]

Goto(t, label) == pc' = [pc EXCEPT ![t] = label]

Init ==
  /\ now = 0 /\ receipts = << >> /\ runs = << >>
  /\ pc = [t \in Threads |-> "idle"]
  /\ request = [t \in Threads |-> NoRequest]
  /\ arrivals = 0

Tick ==
  /\ now < MaxTime
  /\ now' = now + 1
  /\ UNCHANGED <<receipts, runs, pc, request, arrivals>>

Near(d) == d.sent - now <= Tolerance /\ now - d.sent <= Tolerance

\* A delivery comes in, for the first time or again, perhaps with the
\* webhookId of another; the clock is read once, here.
Receive(t, d) ==
  /\ pc[t] \in Answers
  /\ arrivals < MaxArrivals
  /\ arrivals' = arrivals + 1
  /\ request' = [request EXCEPT ![t] = [delivery |-> d, at |-> now]]
  /\ Goto(t, IF Near(d) THEN "reserve" ELSE "stale_timestamp")
  /\ UNCHANGED <<now, receipts, runs>>

\* Mutant of Taken: a receipt stands for its own body only.
Taken_SameBody(r) ==
  /\ r.delivery.id \in DOMAIN receipts
  /\ receipts[r.delivery.id].delivery = r.delivery
  /\ r.at - receipts[r.delivery.id].at <= StaleAfter

\* The receipt of the webhookId is there and young, for the clock that the
\* request has read; that clock may be behind the one of the receipt.
Taken(r) ==
  /\ r.delivery.id \in DOMAIN receipts
  /\ r.at - receipts[r.delivery.id].at <= StaleAfter

\* Mutant of Stamp: only the payload hash is stored.
Stamp_HashOnly(r) ==
  [i \in DOMAIN receipts \cup {r.delivery.id} |->
     IF i = r.delivery.id THEN [delivery |-> r.delivery] ELSE receipts[i]]

Stamp(r) ==
  [i \in DOMAIN receipts \cup {r.delivery.id} |->
     IF i = r.delivery.id THEN r ELSE receipts[i]]

\* reserve, which holds the lock of the ledger throughout.
Reserve(t) ==
  /\ pc[t] = "reserve"
  /\ \/ /\ ~Taken(request[t])
        /\ receipts' = Stamp(request[t])
        /\ Goto(t, "identity")
     \/ /\ Taken(request[t])
        /\ Goto(t, IF receipts[request[t].delivery.id].delivery = request[t].delivery
                   THEN "duplicate_event" ELSE "replay_conflict")
        /\ UNCHANGED receipts
  /\ UNCHANGED <<now, runs, request, arrivals>>

\* The identity is compared after the receipt is taken, and gives none back.
Identity(t) ==
  /\ pc[t] = "identity"
  /\ Goto(t, IF request[t].delivery.ours THEN "evaluate" ELSE "wrong_agent_identity")
  /\ UNCHANGED <<now, receipts, runs, request, arrivals>>

\* The policy answers, or the model fails: an IntelligenceError has an answer,
\* another exception ends the request without one.  The receipt stays.
Evaluate(t) ==
  /\ pc[t] = "evaluate"
  /\ runs' = Append(runs, request[t])
  /\ \E label \in {"publish", "model_output_rejected", "none"} : Goto(t, label)
  /\ UNCHANGED <<now, receipts, request, arrivals>>

\* The adapter is called once per run; it is outside, and may fail.
Publish(t) ==
  /\ pc[t] = "publish"
  /\ \E label \in {"product_agent_response", "none"} : Goto(t, label)
  /\ UNCHANGED <<now, receipts, runs, request, arrivals>>

\* The server is started again on the same file: requests are lost, receipts
\* are not.
Restart ==
  /\ \E t \in Threads : pc[t] \in Working
  /\ pc' = [t \in Threads |-> IF pc[t] \in Working THEN "none" ELSE pc[t]]
  /\ UNCHANGED <<now, receipts, runs, request, arrivals>>

Next ==
  \/ Tick \/ Restart
  \/ \E t \in Threads :
       \/ \E d \in Deliveries : Receive(t, d)
       \/ Reserve(t) \/ Identity(t) \/ Evaluate(t) \/ Publish(t)

Spec == Init /\ [][Next]_vars

-----------------------------------------------------------------------------
(* Properties *)

\* The type invariant.
TypeOK ==
  /\ now \in Nat /\ arrivals \in Nat
  /\ DOMAIN receipts \subseteq Ids /\ receipts \in [DOMAIN receipts -> Requests]
  /\ \A i \in DOMAIN receipts : receipts[i].delivery.id = i
  /\ runs \in Seq(Requests)
  /\ pc \in [Threads -> Working \cup Answers]
  /\ request \in [Threads -> Requests \cup {NoRequest}]
  /\ \A t \in Threads : pc[t] \in Working => request[t] \in Requests

\* A delivery reaches the policy at most once, however often and however late
\* it is repeated, through failures of the model and restarts: when its
\* receipt can be taken over its time stamp is out of tolerance.
RunsOnce == \A j, k \in DOMAIN runs : runs[j].delivery = runs[k].delivery => j = k

-----------------------------------------------------------------------------
(* What the docs say, and the age of a receipt does not keep *)

\* "Once an authentic fresh event ID is seen, altered retries cannot cause a
\* second execution": one webhookId reaches the policy once, whatever its later
\* deliveries say.
NoSecondExecution ==
  \A j, k \in DOMAIN runs : runs[j].delivery.id = runs[k].delivery.id => j = k
=============================================================================
