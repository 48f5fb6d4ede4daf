------------------------- MODULE ProofService_proofs -------------------------
(***************************************************************************)
(* Proofs about ProofService: the type invariant, and that runs of one     *)
(* webhookId are apart, from which a delivery runs once.                   *)
(***************************************************************************)
EXTENDS ProofService, TLAPS

\* A request that holds a receipt and has not reached the policy.
Held(t) == pc[t] \in {"identity", "evaluate"}

\* The receipt of an id is the newest of all that were taken for it.
Below(r) ==
  /\ r.delivery.id \in DOMAIN receipts
  /\ r.at <= receipts[r.delivery.id].at

Apart(r, s) == r.at - s.at > StaleAfter \/ s.at - r.at > StaleAfter

\* Two runs of one webhookId have read clocks further apart than StaleAfter,
\* although a request may wait between reading the clock and reserving, and a
\* takeover may overtake the request whose receipt it takes.
RunsApart ==
  \A j, k \in DOMAIN runs :
    j # k /\ runs[j].delivery.id = runs[k].delivery.id => Apart(runs[j], runs[k])

HeldBelow == \A t \in Threads : Held(t) => Below(request[t])
RunsBelow == \A j \in DOMAIN runs : Below(runs[j])

HeldApart ==
  \A s, t \in Threads :
    s # t /\ Held(s) /\ Held(t) /\ request[s].delivery.id = request[t].delivery.id
      => Apart(request[s], request[t])

HeldFromRuns ==
  \A t \in Threads, j \in DOMAIN runs :
    Held(t) /\ request[t].delivery.id = runs[j].delivery.id => Apart(request[t], runs[j])

Fresh(r) == r.delivery.sent - r.at <= Tolerance /\ r.at - r.delivery.sent <= Tolerance

AllFresh ==
  /\ \A t \in Threads : pc[t] \in Working => Fresh(request[t])
  /\ \A j \in DOMAIN runs : Fresh(runs[j])

IInv == TypeOK /\ HeldBelow /\ RunsBelow /\ HeldApart /\ HeldFromRuns /\ RunsApart /\ AllFresh

\* The type invariant holds initially.
LEMMA InitTypeOK == Init => TypeOK
BY DEF Init, TypeOK, Working, Answers

\* Every step keeps the types.
LEMMA NextTypeOK == TypeOK /\ [Next]_vars => TypeOK'
<1> SUFFICES ASSUME TypeOK, [Next]_vars PROVE TypeOK'
  OBVIOUS
<1> USE DEF TypeOK
<1>1. CASE Tick
  BY <1>1 DEF Tick
<1>2. CASE Restart
  BY <1>2 DEF Restart, Working, Answers
<1>3. ASSUME NEW t \in Threads, NEW d \in Deliveries, Receive(t, d) PROVE TypeOK'
  <2>1. [delivery |-> d, at |-> now] \in Requests
    BY <1>3 DEF Requests, TypeOK
  <2> QED
    BY <1>3, <2>1 DEF Receive, Goto, Working, Answers
<1>4. ASSUME NEW t \in Threads, Reserve(t) PROVE TypeOK'
  <2>1. request[t] \in Requests
    BY <1>4 DEF Reserve, Working
  <2>2. CASE ~Taken(request[t])
    <3>1. receipts' = Stamp(request[t])
      BY <1>4, <2>2 DEF Reserve
    <3>2. request[t].delivery.id \in Ids
      BY <2>1 DEF Requests, Deliveries
    <3>3. /\ DOMAIN receipts' \subseteq Ids
          /\ receipts' \in [DOMAIN receipts' -> Requests]
          /\ \A i \in DOMAIN receipts' : receipts'[i].delivery.id = i
      BY <2>1, <3>1, <3>2 DEF Stamp
    <3> QED
      BY <1>4, <2>2, <3>3, <2>1 DEF Reserve, Goto, Working, Answers
  <2>3. CASE Taken(request[t])
    BY <1>4, <2>3 DEF Reserve, Goto, Working, Answers
  <2> QED
    BY <2>2, <2>3
<1>5. ASSUME NEW t \in Threads, Identity(t) PROVE TypeOK'
  BY <1>5 DEF Identity, Goto, Working, Answers
<1>6. ASSUME NEW t \in Threads, Evaluate(t) PROVE TypeOK'
  <2>1. request[t] \in Requests
    BY <1>6 DEF Evaluate, Working
  <2> QED
    BY <1>6, <2>1 DEF Evaluate, Goto, Working, Answers
<1>7. ASSUME NEW t \in Threads, Publish(t) PROVE TypeOK'
  BY <1>7 DEF Publish, Goto, Working, Answers
<1>8. CASE UNCHANGED vars
  BY <1>8 DEF vars
<1> QED
  BY <1>1, <1>2, <1>3, <1>4, <1>5, <1>6, <1>7, <1>8
  DEF Next

\* The receipts of ProofService keep their types for any threads, ids, bodies
\* and bounds of the clock.
THEOREM TypeCorrect == Spec => []TypeOK
<1>1. Init => TypeOK
  BY InitTypeOK
<1>2. TypeOK /\ [Next]_vars => TypeOK'
  BY NextTypeOK
<1> QED
  BY <1>1, <1>2, PTL DEF Spec

-----------------------------------------------------------------------------
(* Runs of one id are apart *)

\* A delivery that is let in is fresh for the clock the request has read.
LEMMA ReceivedFresh ==
  ASSUME TypeOK, NEW t \in Threads, NEW d \in Deliveries, Receive(t, d)
  PROVE  /\ request' = [request EXCEPT ![t] = [delivery |-> d, at |-> now]]
         /\ pc'[t] \in Working => Fresh(request'[t])
<1>1. d.sent \in Nat /\ now \in Nat
  BY DEF Deliveries, TypeOK
<1>2. pc'[t] = IF Near(d) THEN "reserve" ELSE "stale_timestamp"
  BY DEF Receive, Goto, TypeOK
<1>3. request'[t] = [delivery |-> d, at |-> now]
  BY DEF Receive, TypeOK
<1>4. ASSUME pc'[t] \in Working PROVE Fresh(request'[t])
  <2>1. Near(d)
    BY <1>2, <1>4 DEF Working
  <2> QED
    BY <1>3, <2>1 DEF Near, Fresh
<1> QED
  BY <1>4 DEF Receive

\* A request that takes a receipt is later than all that had the id before.
LEMMA TakenIsLater ==
  ASSUME IInv, NEW t \in Threads, pc[t] = "reserve", ~Taken(request[t]),
         NEW r \in Requests, Below(r), r.delivery.id = request[t].delivery.id
  PROVE  Apart(request[t], r) /\ Apart(r, request[t]) /\ r.at <= request[t].at
<1>1. request[t] \in Requests
  BY DEF IInv, TypeOK, Working
<1> DEFINE i == request[t].delivery.id
<1>2. i \in DOMAIN receipts /\ r.at <= receipts[i].at
  BY DEF Below
<1>3. request[t].at - receipts[i].at > StaleAfter
  <2>1. receipts[i] \in Requests
    BY <1>2 DEF IInv, TypeOK
  <2> QED
    BY <1>1, <1>2, <2>1, ConstantsAssumption DEF Taken, Requests
<1>4. receipts[i].at \in Nat /\ r.at \in Nat /\ request[t].at \in Nat /\ StaleAfter \in Nat
  BY <1>1, <1>2, ConstantsAssumption DEF IInv, TypeOK, Requests
<1> QED
  BY <1>2, <1>3, <1>4 DEF Apart

\* The receipt after a takeover is above every request the former was above.
LEMMA BelowAfterStamp ==
  ASSUME IInv, NEW t \in Threads, pc[t] = "reserve", ~Taken(request[t]),
         receipts' = Stamp(request[t]), NEW r \in Requests, Below(r)
  PROVE  r.delivery.id \in DOMAIN receipts' /\ r.at <= receipts'[r.delivery.id].at
<1>1. CASE r.delivery.id = request[t].delivery.id
  <2>1. r.at <= request[t].at
    BY <1>1, TakenIsLater
  <2> QED
    BY <1>1, <2>1 DEF Stamp
<1>2. CASE r.delivery.id # request[t].delivery.id
  BY <1>2 DEF Stamp, Below
<1> QED
  BY <1>1, <1>2

\* Reserve keeps the invariant: the one step at which a receipt changes.
LEMMA ReserveKeeps ==
  ASSUME IInv, NEW t \in Threads, Reserve(t), TypeOK'
  PROVE  IInv'
<1>1. request[t] \in Requests /\ runs' = runs /\ request' = request
  BY DEF Reserve, IInv, TypeOK, Working
<1>2. \A s \in Threads : s # t => pc'[s] = pc[s]
  BY DEF Reserve, Goto, IInv, TypeOK
<1>3. \A s \in Threads : s # t => (Held(s)' <=> Held(s))
  BY <1>2 DEF Held
<1>4. AllFresh'
  <2>1. pc'[t] \in Working => pc[t] \in Working
    BY DEF Reserve, Working
  <2> QED
    BY <1>1, <1>2, <2>1 DEF IInv, AllFresh, Fresh
<1>5. RunsApart'
  BY <1>1 DEF IInv, RunsApart, Apart
<1>6. \A s \in Threads : Held(s) => request[s] \in Requests
  BY DEF IInv, TypeOK, Held, Working
<1>7. \A j \in DOMAIN runs : runs[j] \in Requests
  BY DEF IInv, TypeOK
<1>8. CASE Taken(request[t])
  <2>1. ~Held(t)' /\ receipts' = receipts
    BY <1>8 DEF Reserve, Goto, Held, IInv, TypeOK
  <2>2. HeldBelow'
    BY <1>1, <1>3, <2>1 DEF IInv, HeldBelow, Below
  <2>3. RunsBelow'
    BY <1>1, <2>1 DEF IInv, RunsBelow, Below
  <2>4. HeldApart'
    BY <1>1, <1>3, <2>1 DEF IInv, HeldApart, Apart
  <2>5. HeldFromRuns'
    BY <1>1, <1>3, <2>1 DEF IInv, HeldFromRuns, Apart
  <2> QED
    BY <1>4, <1>5, <2>2, <2>3, <2>4, <2>5 DEF IInv
<1>9. CASE ~Taken(request[t])
  <2>1. pc[t] = "reserve" /\ receipts' = Stamp(request[t])
    BY <1>9 DEF Reserve
  <2>2. HeldBelow'
    <3> SUFFICES ASSUME NEW s \in Threads, Held(s)' PROVE Below(request[s])'
      BY DEF HeldBelow
    <3>1. CASE s = t
      <4>1. request[t].at <= request[t].at
        BY <1>1 DEF Requests
      <4> QED
        BY <1>1, <2>1, <3>1, <4>1 DEF Stamp, Below
    <3>2. CASE s # t
      <4>1. Held(s) /\ Below(request[s]) /\ request[s] \in Requests
        BY <1>3, <1>6, <3>2 DEF IInv, HeldBelow
      <4> QED
        BY <1>1, <1>9, <2>1, <4>1, BelowAfterStamp DEF Below
    <3> QED
      BY <3>1, <3>2
  <2>3. RunsBelow'
    <3> SUFFICES ASSUME NEW j \in DOMAIN runs PROVE Below(runs[j])'
      BY <1>1 DEF RunsBelow
    <3>1. Below(runs[j])
      BY DEF IInv, RunsBelow
    <3> QED
      BY <1>1, <1>7, <1>9, <2>1, <3>1, BelowAfterStamp DEF Below
  <2>4. HeldApart'
    <3> SUFFICES ASSUME NEW s \in Threads, NEW u \in Threads, s # u, Held(s)', Held(u)',
                        request[s].delivery.id = request[u].delivery.id
                 PROVE  Apart(request[s], request[u])
      BY <1>1 DEF HeldApart, Apart
    <3>1. CASE s = t
      <4>1. Held(u) /\ Below(request[u]) /\ request[u] \in Requests
        BY <1>3, <1>6, <3>1 DEF IInv, HeldBelow
      <4> QED
        BY <1>9, <2>1, <3>1, <4>1, TakenIsLater
    <3>2. CASE u = t
      <4>1. Held(s) /\ Below(request[s]) /\ request[s] \in Requests
        BY <1>3, <1>6, <3>2 DEF IInv, HeldBelow
      <4> QED
        BY <1>9, <2>1, <3>2, <4>1, TakenIsLater
    <3>3. CASE s # t /\ u # t
      BY <1>3, <3>3 DEF IInv, HeldApart
    <3> QED
      BY <3>1, <3>2, <3>3
  <2>5. HeldFromRuns'
    <3> SUFFICES ASSUME NEW s \in Threads, NEW j \in DOMAIN runs, Held(s)',
                        request[s].delivery.id = runs[j].delivery.id
                 PROVE  Apart(request[s], runs[j])
      BY <1>1 DEF HeldFromRuns, Apart
    <3>1. CASE s = t
      <4>1. Below(runs[j])
        BY DEF IInv, RunsBelow
      <4> QED
        BY <1>7, <1>9, <2>1, <3>1, <4>1, TakenIsLater
    <3>2. CASE s # t
      BY <1>3, <3>2 DEF IInv, HeldFromRuns
    <3> QED
      BY <3>1, <3>2
  <2> QED
    BY <1>4, <1>5, <2>2, <2>3, <2>4, <2>5 DEF IInv
<1> QED
  BY <1>8, <1>9

\* Evaluate keeps the invariant: a request that holds a receipt becomes a run.
LEMMA EvaluateKeeps ==
  ASSUME IInv, NEW t \in Threads, Evaluate(t), TypeOK'
  PROVE  IInv'
<1>1. /\ request[t] \in Requests /\ Held(t) /\ pc[t] \in Working
      /\ runs' = Append(runs, request[t]) /\ request' = request /\ receipts' = receipts
  BY DEF Evaluate, Held, IInv, TypeOK, Working
<1>2. \A s \in Threads : s # t => pc'[s] = pc[s]
  BY DEF Evaluate, Goto, IInv, TypeOK
<1>3. ~Held(t)'
  BY DEF Evaluate, Goto, Held, IInv, TypeOK
<1>4. \A s \in Threads : Held(s)' => s # t /\ Held(s)
  BY <1>2, <1>3 DEF Held
<1>5. /\ DOMAIN runs = 1..Len(runs) /\ DOMAIN runs' = 1..Len(runs)+1 /\ Len(runs) \in Nat
      /\ \A j \in 1..Len(runs) : runs'[j] = runs[j]
      /\ runs'[Len(runs)+1] = request[t]
  BY <1>1 DEF IInv, TypeOK
<1>6. AllFresh'
  <2>1. \A s \in Threads : pc'[s] \in Working => pc[s] \in Working
    BY <1>1, <1>2
  <2>2. \A j \in DOMAIN runs' : Fresh(runs'[j])
    BY <1>1, <1>5 DEF IInv, AllFresh
  <2> QED
    BY <1>1, <2>1, <2>2 DEF IInv, AllFresh, Fresh
<1>7. HeldBelow'
  BY <1>1, <1>4 DEF IInv, HeldBelow, Below
<1>8. RunsBelow'
  BY <1>1, <1>5 DEF IInv, HeldBelow, RunsBelow, Below
<1>9. HeldApart'
  BY <1>1, <1>4 DEF IInv, HeldApart, Apart
<1>10. HeldFromRuns'
  BY <1>1, <1>4, <1>5 DEF IInv, HeldApart, HeldFromRuns, Apart
<1>11. RunsApart'
  BY <1>1, <1>5 DEF IInv, HeldFromRuns, RunsApart, Apart
<1> QED
  BY <1>6, <1>7, <1>8, <1>9, <1>10, <1>11 DEF IInv

\* A step that changes no receipt and no run, and lets no request hold one.
LEMMA OtherKeeps ==
  ASSUME IInv, TypeOK', AllFresh', receipts' = receipts, runs' = runs,
         \A s \in Threads : Held(s)' => Held(s) /\ request'[s] = request[s]
  PROVE  IInv'
<1>1. HeldBelow'
  BY DEF IInv, HeldBelow, Below
<1>2. RunsBelow'
  BY DEF IInv, RunsBelow, Below
<1>3. HeldApart'
  BY DEF IInv, HeldApart, Apart
<1>4. HeldFromRuns'
  BY DEF IInv, HeldFromRuns, Apart
<1>5. RunsApart'
  BY DEF IInv, RunsApart, Apart
<1> QED
  BY <1>1, <1>2, <1>3, <1>4, <1>5 DEF IInv

\* The inductive invariant holds in every state.
THEOREM Invariance == Spec => []IInv
<1>1. Init => IInv
  <2> SUFFICES ASSUME Init PROVE IInv
    OBVIOUS
  <2>1. DOMAIN runs = {} /\ \A t \in Threads : ~Held(t) /\ pc[t] \notin Working
    BY DEF Init, Held, Working
  <2> QED
    BY <2>1, InitTypeOK DEF IInv, HeldBelow, RunsBelow, HeldApart, HeldFromRuns, RunsApart,
       AllFresh
<1>2. IInv /\ [Next]_vars => IInv'
  <2> SUFFICES ASSUME IInv, [Next]_vars PROVE IInv'
    OBVIOUS
  <2>1. TypeOK'
    BY NextTypeOK DEF IInv
  <2>2. CASE Tick \/ UNCHANGED vars
    BY <2>1, <2>2, OtherKeeps DEF Tick, vars, Held, IInv, AllFresh, Fresh
  <2>3. CASE Restart
    <3>1. \A s \in Threads : pc'[s] \notin Working
      BY <2>3 DEF Restart, Working
    <3>2. AllFresh'
      BY <2>3, <3>1 DEF Restart, IInv, AllFresh, Fresh
    <3>3. \A s \in Threads : ~Held(s)'
      BY <3>1 DEF Held, Working
    <3> QED
      BY <2>1, <2>3, <3>2, <3>3, OtherKeeps DEF Restart
  <2>4. ASSUME NEW t \in Threads, NEW d \in Deliveries, Receive(t, d) PROVE IInv'
    <3>1. TypeOK
      BY DEF IInv
    <3>2. /\ \A s \in Threads : s # t => pc'[s] = pc[s] /\ request'[s] = request[s]
          /\ receipts' = receipts /\ runs' = runs /\ pc'[t] \in {"reserve", "stale_timestamp"}
      BY <2>4, <3>1 DEF Receive, Goto, TypeOK
    <3>3. pc'[t] \in Working => Fresh(request'[t])
      BY <2>4, <3>1, ReceivedFresh
    <3>4. AllFresh'
      BY <3>2, <3>3 DEF IInv, AllFresh, Fresh
    <3>5. \A s \in Threads : Held(s)' => Held(s) /\ request'[s] = request[s]
      BY <3>2 DEF Held
    <3> QED
      BY <2>1, <3>2, <3>4, <3>5, OtherKeeps
  <2>5. ASSUME NEW t \in Threads, Reserve(t) PROVE IInv'
    BY <2>1, <2>5, ReserveKeeps
  <2>6. ASSUME NEW t \in Threads, Identity(t) \/ Publish(t) PROVE IInv'
    <3>1. /\ \A s \in Threads : pc'[s] \in Working => pc[s] \in Working
          /\ \A s \in Threads : Held(s)' => Held(s)
          /\ receipts' = receipts /\ runs' = runs /\ request' = request
      BY <2>6 DEF Identity, Publish, Goto, Held, Working, IInv, TypeOK
    <3>2. AllFresh'
      BY <3>1 DEF IInv, AllFresh, Fresh
    <3> QED
      BY <2>1, <3>1, <3>2, OtherKeeps
  <2>7. ASSUME NEW t \in Threads, Evaluate(t) PROVE IInv'
    BY <2>1, <2>7, EvaluateKeeps
  <2> QED
    BY <2>2, <2>3, <2>4, <2>5, <2>6, <2>7 DEF Next
<1> QED
  BY <1>1, <1>2, PTL DEF Spec

\* What the age of a receipt keeps where the docs have no second run of an id:
\* runs of one webhookId are more than StaleAfter apart, for any number of
\* threads and through takeovers and restarts.
THEOREM SameIdRunsApart == Spec => []RunsApart
<1>1. IInv => RunsApart
  BY DEF IInv
<1> QED
  BY <1>1, Invariance, PTL

\* A delivery reaches the policy once: two runs of it would both be within the
\* tolerance of its time stamp, and so not apart.
THEOREM DeliveriesRunOnce == Spec => []RunsOnce
<1>1. IInv => RunsOnce
  <2> SUFFICES ASSUME IInv, NEW j \in DOMAIN runs, NEW k \in DOMAIN runs,
                      runs[j].delivery = runs[k].delivery, j # k
               PROVE  FALSE
    BY DEF RunsOnce
  <2>1. Apart(runs[j], runs[k]) /\ Fresh(runs[j]) /\ Fresh(runs[k])
    BY DEF IInv, RunsApart, AllFresh
  <2>2. runs[j] \in Requests /\ runs[k] \in Requests
    BY DEF IInv, TypeOK
  <2>3. /\ runs[j].at \in Nat /\ runs[k].at \in Nat /\ runs[j].delivery.sent \in Nat
        /\ Tolerance \in Nat /\ StaleAfter \in Nat /\ 2 * Tolerance <= StaleAfter
    BY <2>2, ConstantsAssumption DEF Requests, Deliveries
  <2> QED
    BY <2>1, <2>3 DEF Apart, Fresh
<1> QED
  BY <1>1, Invariance, PTL
=============================================================================
