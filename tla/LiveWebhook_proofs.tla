------------------------- MODULE LiveWebhook_proofs -------------------------
(***************************************************************************)
(* Proofs about LiveWebhook for every number of threads, deliveries,       *)
(* commands and arrivals.  Two inductive invariants are used: Answers,     *)
(* which needs no assumption, and Exclusive, which holds when the          *)
(* freshness window is at most half the takeover age of a reservation.     *)
(***************************************************************************)
EXTENDS LiveWebhook, TLAPS

-----------------------------------------------------------------------------
(* Type correctness *)

\* The locals of the threads have their types.
Locals ==
  /\ pc \in [Threads -> Answered \cup Working]
  /\ dlv \in [Threads -> Deliveries]
  /\ now \in [Threads -> Nat]
  /\ read \in [Threads -> Receipts \cup {NoReceipt}]
  /\ terminal \in [Threads -> Terminals]
  /\ refreshed \in [Threads -> BOOLEAN]

\* complete_set writes what complete_get has read, which was a receipt: the
\* part of the type invariant that is not inductive without this.
ReadsReceipt == \A t \in Threads : pc[t] = "complete_set" => read[t] \in Receipts

\* Answering a request leaves the locals well typed.
LEMMA AnswerType ==
  ASSUME TypeOK, NEW t \in Threads, NEW label \in Answered, Answer(t, label)
  PROVE  Locals'
<1>1. NoDelivery \in Deliveries
  BY ConstantsAssumption DEF NoDelivery
<1> QED
  BY <1>1, ConstantsAssumption DEF TypeOK, Answer, Goto, Locals

\* Going on with the request leaves the locals well typed.
LEMMA ContinueType ==
  ASSUME TypeOK, NEW t \in Threads, NEW label \in Working, Continue(t, label)
  PROVE  Locals'
BY DEF TypeOK, Continue, Goto, Locals, local

\* An error of Linear sends the thread to a label of Holding.
LEMMA LinearFailsType ==
  ASSUME TypeOK, NEW t \in Threads, LinearFails(t)
  PROVE  pc' \in [Threads -> Answered \cup Working]
BY DEF TypeOK, LinearFails, AfterError, Goto, Working, Holding

\* What a thread reserves is a receipt.
LEMMA ReservationType ==
  ASSUME TypeOK, NEW t \in Threads
  PROVE  Reservation(t) \in Receipts /\ Key(t) \in Keys /\ Op(t) \in Ops
BY ConstantsAssumption DEF TypeOK, Reservation, Receipts, Hash, Key, Op

\* The type invariant and its strengthening hold initially.
LEMMA InitType == Init => TypeOK /\ ReadsReceipt
<1>1. NoDelivery \in Deliveries
  BY ConstantsAssumption DEF NoDelivery
<1> QED
  BY <1>1, ConstantsAssumption DEF Init, TypeOK, ReadsReceipt, Answered, None

\* Every step of a handler, of Linear or of an installation keeps the types.
LEMMA NextType == TypeOK /\ ReadsReceipt /\ [Next]_vars => TypeOK'
<1> SUFFICES ASSUME TypeOK, ReadsReceipt, [Next]_vars PROVE TypeOK'
  OBVIOUS
<1>0. CASE UNCHANGED vars
  BY <1>0 DEF vars, TypeOK
<1>1. CASE Install
  BY <1>1 DEF Install, TypeOK, world, local
<1>2. ASSUME NEW t \in Threads, NEW d \in Deliveries, NEW time \in Times, Arrive(t, d, time)
      PROVE  TypeOK'
  <2>1. time \in Nat
    BY ConstantsAssumption
  <2>2. Locals'
    <3>1. CASE Fresh(KeyOf[d], time)
      BY <1>2, <2>1, <3>1 DEF Arrive, TypeOK, Goto, Locals, Working
    <3>2. CASE ~Fresh(KeyOf[d], time)
      BY <1>2, <3>2, AnswerType DEF Arrive, Answered
    <3> QED
      BY <3>1, <3>2
  <2> QED
    BY <1>2, <2>2 DEF Arrive, TypeOK, Locals, store
<1>3. ASSUME NEW t \in Threads, Step(t) PROVE TypeOK'
  <2>1. CASE GetUser(t)
    <3>1. Locals'
      BY <2>1, AnswerType, ContinueType DEF GetUser, Answered, Working
    <3> QED
      BY <2>1, <3>1 DEF GetUser, TypeOK, Locals, world, store
  <2>2. CASE SetUser(t)
    <3>1. Locals'
      BY <2>2, ContinueType DEF SetUser, Working
    <3> QED
      BY <2>2, <3>1 DEF SetUser, TypeOK, Locals, world
  <2>3. CASE LoadInstallation(t)
    <3>1. Locals'
      BY <2>3, AnswerType, ContinueType DEF LoadInstallation, Answered, Working
    <3> QED
      BY <2>3, <3>1 DEF LoadInstallation, TypeOK, Locals, world, store
  <2>4. CASE ReserveCreate(t)
    <3>1. Locals'
      BY <2>4, ContinueType DEF ReserveCreate, Working, Holding
    <3>2. DOMAIN receipts' \subseteq Keys /\ receipts' \in [DOMAIN receipts' -> Receipts]
      BY <2>4, ReservationType DEF ReserveCreate, TypeOK, Put
    <3> QED
      BY <2>4, <3>1, <3>2 DEF ReserveCreate, TypeOK, Locals, world
  <2>5. CASE ReserveGet(t)
    <3>1. Locals'
      BY <2>5, AnswerType, ContinueType DEF ReserveGet, Answered, Working
    <3> QED
      BY <2>5, <3>1 DEF ReserveGet, TypeOK, Locals, world, store
  <2>6. CASE ReserveSet(t)
    <3>1. Locals'
      BY <2>6, ContinueType DEF ReserveSet, Working, Holding
    <3>2. DOMAIN receipts' \subseteq Keys /\ receipts' \in [DOMAIN receipts' -> Receipts]
      BY <2>6, ReservationType DEF ReserveSet, TypeOK, Put
    <3> QED
      BY <2>6, <3>1, <3>2 DEF ReserveSet, TypeOK, Locals, world
  <2>7. CASE Resolve(t)
    <3>1. pc' \in [Threads -> Answered \cup Working]
      BY <2>7, LinearFailsType DEF Resolve, Goto, TypeOK, Working, Holding
    <3>2. terminal' \in [Threads -> Terminals]
      BY <2>7, ConstantsAssumption DEF Resolve, TypeOK
    <3> QED
      BY <2>7, <3>1, <3>2 DEF Resolve, TypeOK, world, store
  <2>8. CASE Thought(t)
    <3>1. pc' \in [Threads -> Answered \cup Working]
      BY <2>8, LinearFailsType DEF Thought, Goto, TypeOK, Working, Holding
    <3> QED
      BY <2>8, <3>1 DEF Thought, TypeOK, world, store, local
  <2>9. CASE Compute(t)
    BY <2>9 DEF Compute, Goto, TypeOK, Working, Holding, world, store
  <2>10. CASE Publish(t)
    <3>1. pc' \in [Threads -> Answered \cup Working]
      BY <2>10, LinearFailsType DEF Publish, AfterPublish, Goto, TypeOK, Working, Holding
    <3>2. published' \subseteq (Ops \cup Keys) \X Terminals
      BY <2>10, ReservationType DEF Publish, TypeOK, OutcomeKey
    <3> QED
      BY <2>10, <3>1, <3>2 DEF Publish, TypeOK, store
  <2>11. CASE StoreOutcome(t)
    <3>1. OutcomeKey(t) \in Ops \cup Keys
      BY ReservationType DEF OutcomeKey
    <3>2. DOMAIN outcomes' \subseteq Ops \cup Keys /\ outcomes' \in [DOMAIN outcomes' -> Terminals]
      BY <2>11, <3>1 DEF StoreOutcome, TypeOK, Put
    <3> QED
      BY <2>11, <3>2, ConstantsAssumption
      DEF StoreOutcome, Goto, TypeOK, Working, Holding, world
  <2>12. CASE Refresh(t)
    BY <2>12 DEF Refresh, Goto, TypeOK, Working, Holding, world
  <2>13. ASSUME NEW write \in Working, NEW done \in Answered, ReadReceipt(t, write, done)
         PROVE  TypeOK'
    <3>1. Locals'
      <4>1. CASE Key(t) \in DOMAIN receipts /\ receipts[Key(t)].hash = Hash(t)
        BY <2>13, <4>1 DEF ReadReceipt, Goto, TypeOK, Locals
      <4>2. CASE ~(Key(t) \in DOMAIN receipts /\ receipts[Key(t)].hash = Hash(t))
        BY <2>13, <4>2, AnswerType DEF ReadReceipt
      <4> QED
        BY <4>1, <4>2
    <3> QED
      BY <2>13, <3>1 DEF ReadReceipt, TypeOK, Locals, world, store
  <2>14. CASE CompleteGet(t)
    BY <2>13, <2>14 DEF CompleteGet, Working, Holding, Answered
  <2>15. CASE ReleaseGet(t)
    BY <2>13, <2>15 DEF ReleaseGet, Working, Holding, Answered
  <2>16. CASE CompleteSet(t)
    <3>1. Locals'
      BY <2>16, AnswerType DEF CompleteSet, Answered
    <3>2. [hash |-> read[t].hash, at |-> read[t].at, status |-> "completed"] \in Receipts
      BY <2>16 DEF CompleteSet, ReadsReceipt, Receipts
    <3>3. DOMAIN receipts' \subseteq Keys /\ receipts' \in [DOMAIN receipts' -> Receipts]
      BY <2>16, <3>2, ReservationType DEF CompleteSet, TypeOK, Put
    <3> QED
      BY <2>16, <3>1, <3>3 DEF CompleteSet, TypeOK, Locals, world
  <2>17. CASE ReleaseDelete(t)
    <3>1. Locals'
      BY <2>17, AnswerType DEF ReleaseDelete, Answered
    <3> QED
      BY <2>17, <3>1 DEF ReleaseDelete, TypeOK, Locals, Remove, world
  <2> QED
    BY <1>3, <2>1, <2>2, <2>3, <2>4, <2>5, <2>6, <2>7, <2>8, <2>9, <2>10, <2>11, <2>12,
       <2>14, <2>15, <2>16, <2>17 DEF Step
<1>4. ASSUME NEW t \in Threads, Die(t) PROVE TypeOK'
  <2>1. Locals'
    BY <1>4, AnswerType DEF Die, Answered
  <2> QED
    BY <1>4, <2>1 DEF Die, TypeOK, Locals, world, store
<1> QED
  BY <1>0, <1>1, <1>2, <1>3, <1>4 DEF Next

\* Only CompleteGet leads to complete_set, and it reads a receipt.
LEMMA NextRead == TypeOK /\ ReadsReceipt /\ [Next]_vars => ReadsReceipt'
<1> SUFFICES ASSUME TypeOK, ReadsReceipt, [Next]_vars,
                    NEW u \in Threads, pc'[u] = "complete_set"
             PROVE  read'[u] \in Receipts
  BY DEF ReadsReceipt
<1>0. CASE UNCHANGED vars
  BY <1>0 DEF vars, ReadsReceipt
<1>1. CASE Install
  BY <1>1 DEF Install, local, ReadsReceipt
<1>2. ASSUME NEW t \in Threads, NEW d \in Deliveries, NEW time \in Times, Arrive(t, d, time)
      PROVE  read'[u] \in Receipts
  BY <1>2 DEF Arrive, Answer, Goto, TypeOK, ReadsReceipt
<1>3. ASSUME NEW t \in Threads, Step(t) PROVE read'[u] \in Receipts
  <2> USE DEF TypeOK, ReadsReceipt, Goto
  <2>1. CASE GetUser(t) \/ SetUser(t) \/ LoadInstallation(t)
    BY <2>1 DEF GetUser, SetUser, LoadInstallation, Continue, Answer, local
  <2>2. CASE ReserveCreate(t) \/ ReserveGet(t) \/ ReserveSet(t)
    BY <2>2 DEF ReserveCreate, ReserveGet, ReserveSet, Continue, Answer, local
  <2>3. CASE Resolve(t) \/ Thought(t)
    BY <2>3 DEF Resolve, Thought, LinearFails, AfterError, local
  <2>4. CASE Compute(t) \/ Publish(t)
    BY <2>4 DEF Compute, Publish, AfterPublish, LinearFails, AfterError
  <2>5. CASE StoreOutcome(t) \/ Refresh(t)
    BY <2>5 DEF StoreOutcome, Refresh
  <2>6. CASE CompleteGet(t)
    BY <2>6 DEF CompleteGet, ReadReceipt, Answer
  <2>7. CASE ReleaseGet(t)
    BY <2>7 DEF ReleaseGet, ReadReceipt, Answer
  <2>8. CASE CompleteSet(t) \/ ReleaseDelete(t)
    BY <2>8 DEF CompleteSet, ReleaseDelete, Answer
  <2> QED
    BY <1>3, <2>1, <2>2, <2>3, <2>4, <2>5, <2>6, <2>7, <2>8 DEF Step
<1>4. ASSUME NEW t \in Threads, Die(t) PROVE read'[u] \in Receipts
  BY <1>4 DEF Die, Answer, Goto, TypeOK, ReadsReceipt
<1> QED
  BY <1>0, <1>1, <1>2, <1>3, <1>4 DEF Next

\* The documents of the webhook handler and the locals of its threads keep
\* their types in every behaviour.
THEOREM TypeCorrect == Spec => []TypeOK
<1>1. TypeOK /\ ReadsReceipt /\ [Next]_vars => (TypeOK /\ ReadsReceipt)'
  BY NextType, NextRead
<1> QED
  BY InitType, <1>1, PTL DEF Spec
-----------------------------------------------------------------------------
(* One thread at a time works on a delivery *)

\* The reservation of a delivery, and the thread at work on it, are as fresh as
\* verify_timestamp demands of the timestamp in its receipt key.
Timely ==
  /\ \A k \in DOMAIN receipts : Fresh(k, receipts[k].at)
  /\ \A t \in Threads : pc[t] \in Working => Fresh(Key(t), now[t])

\* No reservation is ever old enough to be taken over.
NoTakeover == \A t \in Threads : pc[t] # "reserve_set"

\* complete_set completes the reservation of its own thread.
CompletesOwn == \A t \in Threads : pc[t] = "complete_set" => read[t] = Reservation(t)

Exclusive ==
  TypeOK /\ ReadsReceipt /\ Timely /\ NoTakeover /\ CompletesOwn /\ OneHolder /\ HolderOwnsReceipt

\* A receipt as fresh as the delivery that finds it is too young to be taken
\* over: both clocks lie within the tolerance of one timestamp.
LEMMA FreshIsYoung ==
  ASSUME 2 * Tolerance <= StaleAfter, TypeOK,
         NEW k \in Keys, NEW at \in Nat, NEW time \in Nat, Fresh(k, at), Fresh(k, time)
  PROVE  time - at <= StaleAfter
<1>1. SentAt[k] \in Nat /\ Tolerance \in Nat /\ StaleAfter \in Nat
  BY ConstantsAssumption
<1> QED
  BY <1>1 DEF Fresh

\* A step of thread t that leaves the receipts alone and takes t to no label
\* that its previous one does not justify keeps Exclusive.
LEMMA QuietStep ==
  ASSUME Exclusive, TypeOK', ReadsReceipt', NEW t \in Threads,
         receipts' = receipts,
         \A u \in Threads \ {t} : /\ pc'[u] = pc[u] /\ dlv'[u] = dlv[u]
                                  /\ now'[u] = now[u] /\ read'[u] = read[u],
         pc'[t] \in Working => pc[t] \in Working /\ dlv'[t] = dlv[t] /\ now'[t] = now[t],
         pc'[t] \in Holding => pc[t] \in Holding,
         pc'[t] \notin {"reserve_set", "complete_set"}
  PROVE  Exclusive'
<1> USE DEF Exclusive
<1>1. \A u \in Threads : pc'[u] \in Working =>
        pc[u] \in Working /\ dlv'[u] = dlv[u] /\ now'[u] = now[u]
  OBVIOUS
<1>2. \A u \in Threads : pc'[u] \in Holding => pc[u] \in Holding /\ pc'[u] \in Working
  BY DEF Working
<1>3. Timely'
  BY <1>1 DEF Timely, Fresh, Key
<1>4. NoTakeover'
  BY DEF NoTakeover
<1>5. CompletesOwn'
  BY <1>1 DEF CompletesOwn, Reservation, Hash
<1>6. OneHolder'
  BY <1>1, <1>2 DEF OneHolder, Key
<1>7. HolderOwnsReceipt'
  BY <1>1, <1>2 DEF HolderOwnsReceipt, Key, Hash, Reservation
<1> QED
  BY <1>3, <1>4, <1>5, <1>6, <1>7

\* A write of the receipt of t's delivery by t, which starts, goes on or ends
\* holding it, disturbs no other thread: nobody else holds the key.
LEMMA OwnWrite ==
  ASSUME Exclusive, TypeOK', ReadsReceipt', NEW t \in Threads,
         \A u \in Threads \ {t} : /\ pc'[u] = pc[u] /\ dlv'[u] = dlv[u]
                                  /\ now'[u] = now[u] /\ read'[u] = read[u],
         pc[t] \in Holding \/ Key(t) \notin DOMAIN receipts,
         pc[t] \in Working,
         \A k \in Keys \ {Key(t)} :
           /\ k \in DOMAIN receipts' <=> k \in DOMAIN receipts
           /\ k \in DOMAIN receipts => receipts'[k] = receipts[k],
         Key(t) \in DOMAIN receipts' => receipts'[Key(t)].at = now[t],
         \/ pc'[t] \in Answered
         \/ /\ pc'[t] = "resolve" /\ dlv'[t] = dlv[t] /\ now'[t] = now[t]
            /\ Key(t) \in DOMAIN receipts' /\ receipts'[Key(t)] = Reservation(t)
  PROVE  Exclusive'
<1> USE DEF Exclusive
<1>1. pc'[t] \in Answered => pc'[t] \notin Working
  BY DEF Answered, Working, Holding
<1>2. Holding \subseteq Working /\ "resolve" \in Holding
  BY DEF Working, Holding
<1>3. \A u \in Threads : Key(u) \in Keys
  BY ReservationType
<1>4. ASSUME NEW u \in Threads \ {t}, pc[u] \in Holding PROVE Key(u) # Key(t)
  BY <1>4 DEF OneHolder, HolderOwnsReceipt
<1>5. Timely'
  <2>1. ASSUME NEW k \in DOMAIN receipts' PROVE Fresh(k, receipts'[k].at)
    <3>1. k \in Keys
      BY <2>1 DEF TypeOK
    <3>2. CASE k = Key(t)
      BY <3>2 DEF Timely
    <3>3. CASE k # Key(t)
      BY <3>1, <3>3, <2>1 DEF Timely
    <3> QED
      BY <3>2, <3>3
  <2>2. ASSUME NEW u \in Threads, pc'[u] \in Working PROVE Fresh(Key(u)', now'[u])
    BY <1>1, <1>2, <2>2 DEF Timely, Key
  <2> QED
    BY <2>1, <2>2 DEF Timely, Fresh
<1>6. NoTakeover'
  BY <1>1, <1>2 DEF NoTakeover, Answered
<1>7. CompletesOwn'
  BY DEF CompletesOwn, Reservation, Hash, Answered
<1>8. OneHolder'
  BY <1>1, <1>2, <1>4 DEF OneHolder, Key
<1>9. HolderOwnsReceipt'
  BY <1>1, <1>2, <1>3, <1>4 DEF HolderOwnsReceipt, Key, Hash, Reservation
<1> QED
  BY <1>5, <1>6, <1>7, <1>8, <1>9

\* Nothing is held and nothing is stored initially.
LEMMA InitExclusive == Init => Exclusive
BY InitType DEF Init, Exclusive, Timely, NoTakeover, CompletesOwn, OneHolder, HolderOwnsReceipt,
     Holding, Working

\* The steps that write no receipt and reach neither reserve_set nor
\* complete_set.
LEMMA QuietSteps ==
  ASSUME Exclusive, TypeOK', ReadsReceipt', NEW t \in Threads,
         \/ GetUser(t) \/ SetUser(t) \/ LoadInstallation(t) \/ Resolve(t) \/ Thought(t)
         \/ Compute(t) \/ Publish(t) \/ StoreOutcome(t) \/ Refresh(t) \/ ReleaseGet(t) \/ Die(t)
  PROVE  Exclusive'
<1> DEFINE Quiet ==
      /\ receipts' = receipts
      /\ \A u \in Threads \ {t} : /\ pc'[u] = pc[u] /\ dlv'[u] = dlv[u]
                                  /\ now'[u] = now[u] /\ read'[u] = read[u]
      /\ pc'[t] \in Working => pc[t] \in Working /\ dlv'[t] = dlv[t] /\ now'[t] = now[t]
      /\ pc'[t] \in Holding => pc[t] \in Holding
      /\ pc'[t] \notin {"reserve_set", "complete_set"}
<1> USE DEF Exclusive, TypeOK, Goto, Working, Holding
<1>1. CASE GetUser(t)
  <2>1. Quiet
    BY <1>1 DEF GetUser, Continue, Answer, store, local
  <2> QED
    BY <2>1, QuietStep
<1>2. CASE SetUser(t)
  <2>1. Quiet
    BY <1>2 DEF SetUser, Continue, local
  <2> QED
    BY <2>1, QuietStep
<1>3. CASE LoadInstallation(t)
  <2>1. Quiet
    BY <1>3 DEF LoadInstallation, Continue, Answer, store, local
  <2> QED
    BY <2>1, QuietStep
<1>4. CASE Resolve(t)
  <2>1. Quiet
    BY <1>4 DEF Resolve, LinearFails, AfterError, store
  <2> QED
    BY <2>1, QuietStep
<1>5. CASE Thought(t)
  <2>1. Quiet
    BY <1>5 DEF Thought, LinearFails, AfterError, store, local
  <2> QED
    BY <2>1, QuietStep
<1>6. CASE Compute(t)
  <2>1. Quiet
    BY <1>6 DEF Compute, store
  <2> QED
    BY <2>1, QuietStep
<1>7. CASE Publish(t)
  <2>1. Quiet
    BY <1>7 DEF Publish, AfterPublish, LinearFails, AfterError, store
  <2> QED
    BY <2>1, QuietStep
<1>8. CASE StoreOutcome(t)
  <2>1. Quiet
    BY <1>8 DEF StoreOutcome
  <2> QED
    BY <2>1, QuietStep
<1>9. CASE Refresh(t)
  <2>1. Quiet
    BY <1>9 DEF Refresh
  <2> QED
    BY <2>1, QuietStep
<1>10. CASE ReleaseGet(t)
  <2>1. Quiet
    BY <1>10 DEF ReleaseGet, ReadReceipt, Answer, store
  <2> QED
    BY <2>1, QuietStep
<1>11. CASE Die(t)
  <2>1. Quiet
    BY <1>11 DEF Die, Answer, store
  <2> QED
    BY <2>1, QuietStep
<1> QED
  BY <1>1, <1>2, <1>3, <1>4, <1>5, <1>6, <1>7, <1>8, <1>9, <1>10, <1>11

\* The steps of reserve, complete and release, and the arrival of a delivery.
LEMMA ReceiptSteps ==
  ASSUME 2 * Tolerance <= StaleAfter, Exclusive, TypeOK', ReadsReceipt', NEW t \in Threads,
         \/ ReserveCreate(t) \/ ReserveGet(t) \/ ReserveSet(t)
         \/ CompleteGet(t) \/ CompleteSet(t) \/ ReleaseDelete(t)
         \/ \E d \in Deliveries, time \in Times : Arrive(t, d, time)
  PROVE  Exclusive'
<1> DEFINE Others ==
      \A u \in Threads \ {t} : /\ pc'[u] = pc[u] /\ dlv'[u] = dlv[u]
                               /\ now'[u] = now[u] /\ read'[u] = read[u]
<1>k. Key(t) \in Keys /\ now[t] \in Nat
  BY ReservationType DEF Exclusive, TypeOK
<1>1. CASE ReserveCreate(t)
  <2>1. CASE Key(t) \in DOMAIN receipts
    <3>1. /\ Others /\ receipts' = receipts /\ pc'[t] = "reserve_get"
          /\ pc[t] = "reserve_create" /\ dlv' = dlv /\ now' = now
      BY <1>1, <2>1 DEF ReserveCreate, Continue, Goto, local, Exclusive, TypeOK
    <3> QED
      BY <3>1, QuietStep DEF Working, Holding
  <2>2. CASE Key(t) \notin DOMAIN receipts
    <3>1. /\ Others /\ receipts' = Put(receipts, Key(t), Reservation(t)) /\ pc'[t] = "resolve"
          /\ pc[t] = "reserve_create" /\ dlv' = dlv /\ now' = now
      BY <1>1, <2>2 DEF ReserveCreate, Continue, Goto, local, Exclusive, TypeOK
    <3>2. pc[t] \in Working
      BY <3>1 DEF Working
    <3>3. /\ \A k \in Keys \ {Key(t)} :
               /\ k \in DOMAIN receipts' <=> k \in DOMAIN receipts
               /\ k \in DOMAIN receipts => receipts'[k] = receipts[k]
          /\ Key(t) \in DOMAIN receipts' /\ receipts'[Key(t)] = Reservation(t)
          /\ receipts'[Key(t)].at = now[t]
      BY <3>1 DEF Put, Reservation
    <3> QED
      BY <3>1, <3>2, <3>3, <2>2, OwnWrite
  <2> QED
    BY <2>1, <2>2
<1>2. CASE ReserveGet(t)
  <2>1. pc[t] = "reserve_get" /\ Fresh(Key(t), now[t])
    BY <1>2 DEF ReserveGet, Exclusive, Timely, Working
  <2>2. Key(t) \in DOMAIN receipts => Refuses(receipts[Key(t)], now[t])
    <3>1. SUFFICES ASSUME Key(t) \in DOMAIN receipts
                   PROVE  now[t] - receipts[Key(t)].at <= StaleAfter
      BY DEF Refuses
    <3>2. receipts[Key(t)].at \in Nat /\ Fresh(Key(t), receipts[Key(t)].at)
      BY <3>1 DEF Exclusive, TypeOK, Timely, Receipts
    <3> QED
      BY <3>2, <2>1, <1>k, FreshIsYoung DEF Exclusive
  <2>3. Others /\ receipts' = receipts /\ pc'[t] \in {"conflict", "duplicate"}
    BY <1>2, <2>2 DEF ReserveGet, Answer, Goto, store, Exclusive, TypeOK
  <2> QED
    BY <2>3, QuietStep DEF Working, Holding
<1>3. CASE ReserveSet(t)
  BY <1>3 DEF ReserveSet, Exclusive, NoTakeover
<1>4. CASE CompleteGet(t)
  <2>1. pc[t] = "complete_get" /\ pc[t] \in Holding
    BY <1>4 DEF CompleteGet, Holding
  <2>2. Key(t) \in DOMAIN receipts /\ receipts[Key(t)] = Reservation(t)
    BY <2>1 DEF Exclusive, HolderOwnsReceipt
  <2>3. receipts[Key(t)].hash = Hash(t)
    BY <2>2 DEF Reservation
  <2>4. /\ pc' = [pc EXCEPT ![t] = "complete_set"] /\ read' = [read EXCEPT ![t] = Reservation(t)]
        /\ receipts' = receipts /\ dlv' = dlv /\ now' = now
    BY <1>4, <2>2, <2>3 DEF CompleteGet, ReadReceipt, Goto, store
  <2>5. Timely' /\ NoTakeover'
    BY <2>1, <2>4 DEF Exclusive, TypeOK, Timely, NoTakeover, Fresh, Key, Working, Holding
  <2>6. CompletesOwn'
    BY <2>4 DEF Exclusive, TypeOK, CompletesOwn, Reservation, Hash
  <2>7. OneHolder' /\ HolderOwnsReceipt'
    <3>1. \A u \in Threads : pc'[u] \in Holding => pc[u] \in Holding
      BY <2>1, <2>4 DEF Exclusive, TypeOK
    <3> QED
      BY <3>1, <2>4 DEF Exclusive, OneHolder, HolderOwnsReceipt, Key, Hash, Reservation
  <2> QED
    BY <2>5, <2>6, <2>7 DEF Exclusive
<1>5. CASE CompleteSet(t)
  <2>1. pc[t] \in Holding /\ pc[t] \in Working /\ read[t] = Reservation(t)
    BY <1>5 DEF CompleteSet, Holding, Working, Exclusive, CompletesOwn
  <2>2. /\ Others /\ pc'[t] = "accepted"
        /\ receipts' = Put(receipts, Key(t), [hash |-> read[t].hash, at |-> read[t].at,
                                              status |-> "completed"])
    BY <1>5 DEF CompleteSet, Answer, Goto, Exclusive, TypeOK
  <2>3. /\ \A k \in Keys \ {Key(t)} :
             /\ k \in DOMAIN receipts' <=> k \in DOMAIN receipts
             /\ k \in DOMAIN receipts => receipts'[k] = receipts[k]
        /\ receipts'[Key(t)].at = now[t]
    BY <2>1, <2>2 DEF Put, Reservation
  <2>4. pc'[t] \in Answered
    BY <2>2 DEF Answered
  <2> QED
    BY <2>1, <2>2, <2>3, <2>4, OwnWrite
<1>6. CASE ReleaseDelete(t)
  <2>1. pc[t] \in Holding /\ pc[t] \in Working
    BY <1>6 DEF ReleaseDelete, Holding, Working
  <2>2. Others /\ pc'[t] = "linear_error" /\ receipts' = Remove(receipts, Key(t))
    BY <1>6 DEF ReleaseDelete, Answer, Goto, Exclusive, TypeOK
  <2>3. /\ Key(t) \notin DOMAIN receipts'
        /\ \A k \in Keys \ {Key(t)} :
             (k \in DOMAIN receipts' <=> k \in DOMAIN receipts)
    BY <2>2 DEF Remove
  <2>4. \A k \in DOMAIN receipts' : k \in DOMAIN receipts /\ receipts'[k] = receipts[k]
    BY <2>2 DEF Remove
  <2>5. pc'[t] \notin Working
    BY <2>2 DEF Working, Holding
  <2>6. \A u \in Threads : pc'[u] \in Working =>
          u # t /\ pc'[u] = pc[u] /\ dlv'[u] = dlv[u] /\ now'[u] = now[u]
    BY <2>2, <2>5
  <2>7. \A u \in Threads : pc'[u] \in Holding => pc[u] \in Holding /\ Key(u) # Key(t)
    BY <2>1, <2>6 DEF Working, Exclusive, OneHolder
  <2>8. Timely'
    BY <2>4, <2>6 DEF Exclusive, Timely, Fresh, Key
  <2>9. NoTakeover' /\ CompletesOwn'
    BY <2>2 DEF Exclusive, NoTakeover, CompletesOwn, Reservation, Hash
  <2>10. OneHolder'
    BY <2>6, <2>7 DEF Exclusive, OneHolder, Key, Working
  <2>11. HolderOwnsReceipt'
    <3>1. ASSUME NEW u \in Threads, pc'[u] \in Holding
          PROVE  Key(u)' \in DOMAIN receipts' /\ receipts'[Key(u)'] = Reservation(u)'
      <4>1. u # t /\ pc[u] \in Holding /\ Key(u) # Key(t) /\ Key(u) \in Keys
        BY <3>1, <2>6, <2>7, ReservationType DEF Exclusive, Working
      <4>2. Key(u)' = Key(u) /\ Reservation(u)' = Reservation(u)
        BY <4>1, <2>2 DEF Key, Reservation, Hash
      <4> QED
        BY <4>1, <4>2, <2>3, <2>4 DEF Exclusive, HolderOwnsReceipt
    <3> QED
      BY <3>1 DEF HolderOwnsReceipt
  <2> QED
    BY <2>8, <2>9, <2>10, <2>11 DEF Exclusive
<1>7. ASSUME NEW d \in Deliveries, NEW time \in Times, Arrive(t, d, time) PROVE Exclusive'
  <2>1. Others /\ receipts' = receipts
    BY <1>7 DEF Arrive, Answer, Goto, store, Exclusive, TypeOK
  <2>2. CASE Fresh(KeyOf[d], time)
    <3>1. pc'[t] = "get_user" /\ dlv'[t] = d /\ now'[t] = time
      BY <1>7, <2>2 DEF Arrive, Goto, Exclusive, TypeOK
    <3>2. \A u \in Threads : pc'[u] \in Holding => u # t /\ pc[u] \in Holding
      BY <2>1, <3>1 DEF Holding
    <3>3. Timely'
      BY <2>1, <2>2, <3>1 DEF Exclusive, Timely, Fresh, Key
    <3>4. NoTakeover' /\ CompletesOwn'
      BY <2>1, <3>1 DEF Exclusive, NoTakeover, CompletesOwn, Reservation, Hash
    <3>5. OneHolder' /\ HolderOwnsReceipt'
      BY <2>1, <3>2 DEF Exclusive, OneHolder, HolderOwnsReceipt, Key, Hash, Reservation
    <3> QED
      BY <3>3, <3>4, <3>5 DEF Exclusive
  <2>3. CASE ~Fresh(KeyOf[d], time)
    <3>1. pc'[t] = "stale"
      BY <1>7, <2>3 DEF Arrive, Answer, Goto, Exclusive, TypeOK
    <3> QED
      BY <2>1, <3>1, QuietStep DEF Working, Holding
  <2> QED
    BY <2>2, <2>3
<1> QED
  BY <1>1, <1>2, <1>3, <1>4, <1>5, <1>6, <1>7

\* Exclusive is inductive.
LEMMA NextExclusive ==
  ASSUME 2 * Tolerance <= StaleAfter, Exclusive, [Next]_vars
  PROVE  Exclusive'
<1>0. TypeOK' /\ ReadsReceipt'
  BY NextType, NextRead DEF Exclusive
<1>1. CASE UNCHANGED vars \/ Install
  BY <1>0, <1>1 DEF Install, vars, local, Exclusive, Timely, NoTakeover, CompletesOwn, OneHolder,
     HolderOwnsReceipt, Fresh, Key, Hash, Reservation
<1>2. ASSUME NEW t \in Threads,
             (\E d \in Deliveries, time \in Times : Arrive(t, d, time)) \/ Step(t) \/ Die(t)
      PROVE  Exclusive'
  BY <1>0, <1>2, QuietSteps, ReceiptSteps DEF Step
<1> QED
  BY <1>1, <1>2 DEF Next

\* While the freshness window is at most half the takeover age, one thread at
\* a time processes a delivery, and it finds its own reservation until it
\* settles it: the non-atomic reserve, complete and release of
\* FirestoreWebhookReceiptStore cannot interfere.
THEOREM ExclusiveProcessing ==
  ASSUME 2 * Tolerance <= StaleAfter
  PROVE  Spec => [](OneHolder /\ HolderOwnsReceipt)
<1>1. Exclusive /\ [Next]_vars => Exclusive'
  BY NextExclusive
<1>2. Exclusive => OneHolder /\ HolderOwnsReceipt
  BY DEF Exclusive
<1> QED
  BY InitExclusive, <1>1, <1>2, PTL DEF Spec

\* Under the same assumption complete and release, which compare hashes only,
\* find the reservation of their own thread.
THEOREM HoldersOwn ==
  ASSUME 2 * Tolerance <= StaleAfter
  PROVE  Spec => []HolderOwnsReceipt
<1>1. Spec => [](OneHolder /\ HolderOwnsReceipt)
  BY ExclusiveProcessing
<1> QED
  BY <1>1, PTL

\* Under the same assumption a completed receipt stays completed: release
\* deletes and reserve overwrites no receipt that complete has finished.
THEOREM CompletedIsFinal ==
  ASSUME 2 * Tolerance <= StaleAfter
  PROVE  Spec => CompletedForever
<1> DEFINE Kept == \A k \in DOMAIN receipts :
                     receipts[k].status = "completed" =>
                       k \in DOMAIN receipts' /\ receipts'[k].status = "completed"
<1>1. Exclusive /\ [Next]_vars => Exclusive'
  BY NextExclusive
<1>2. ASSUME Exclusive, [Next]_vars PROVE [Kept]_vars
  <2>1. CASE receipts' = receipts
    BY <2>1
  <2>2. CASE receipts' # receipts
    <3>1. PICK t \in Threads : \/ ReserveCreate(t) \/ ReserveSet(t)
                               \/ CompleteSet(t) \/ ReleaseDelete(t)
      BY <1>2, <2>2
      DEF Next, vars, Install, Step, Die, Arrive, GetUser, SetUser, LoadInstallation, ReserveGet,
          Resolve, Thought, Compute, Publish, StoreOutcome, Refresh, CompleteGet, ReleaseGet,
          ReadReceipt, store
    <3>2. CASE ReserveCreate(t)
      BY <2>2, <3>2 DEF ReserveCreate, Put
    <3>3. CASE ReserveSet(t)
      BY <1>2, <3>3 DEF ReserveSet, Exclusive, NoTakeover
    <3>4. CASE CompleteSet(t)
      BY <3>4 DEF CompleteSet, Put
    <3>5. CASE ReleaseDelete(t)
      <4>1. receipts[Key(t)] = Reservation(t)
        BY <1>2, <3>5 DEF ReleaseDelete, Exclusive, HolderOwnsReceipt, Holding
      <4>2. receipts[Key(t)].status # "completed"
        BY <4>1 DEF Reservation
      <4> QED
        BY <3>5, <4>2 DEF ReleaseDelete, Remove
    <3> QED
      BY <3>1, <3>2, <3>3, <3>4, <3>5
  <2> QED
    BY <2>1, <2>2
<1> HIDE DEF Kept
<1>3. Spec => [][Kept]_vars
  BY InitExclusive, <1>1, <1>2, PTL DEF Spec
<1> QED
  BY <1>3 DEF CompletedForever, Kept

-----------------------------------------------------------------------------
(* The receipts implement DeliveryGate *)

\* Who works on what.
LEMMA WorkPairs ==
  /\ \A k, u : <<k, u>> \in Work <=> u \in Threads /\ pc[u] \in Holding /\ k = Key(u)
  /\ \A k, u : <<k, u>> \in Work' <=> u \in Threads /\ pc'[u] \in Holding /\ k = Key(u)'
BY DEF Work

\* A step that writes no receipt and lets no thread take or leave a delivery.
LEMMA GateStays ==
  ASSUME receipts' = receipts,
         \A u \in Threads : /\ pc'[u] \in Holding <=> pc[u] \in Holding
                            /\ pc[u] \in Holding => dlv'[u] = dlv[u]
  PROVE  UNCHANGED <<Work, Done, Lost>>
<1>1. Work' = Work
  BY DEF Work, Key
<1> QED
  BY <1>1 DEF Done, Lost

\* A thread that leaves its delivery was the only one at work on it.
LEMMA Leaving ==
  ASSUME Exclusive, NEW t \in Threads, pc[t] \in Holding, pc'[t] \notin Holding,
         \A u \in Threads \ {t} : pc'[u] = pc[u] /\ dlv'[u] = dlv[u]
  PROVE  /\ Key(t) \in Keys /\ Gate!Leave(Key(t), t)
         /\ \A u : <<Key(t), u>> \in Work => u = t
         /\ Key(t) \in DOMAIN receipts /\ receipts[Key(t)].status = "reserved"
<1>1. Key(t) \in Keys
  BY ReservationType DEF Exclusive
<1>2. <<Key(t), t>> \in Work
  BY WorkPairs
<1>3. Work' = Work \ {<<Key(t), t>>}
  BY DEF Work, Key
<1>4. \A u : <<Key(t), u>> \in Work => u = t
  BY WorkPairs DEF Exclusive, OneHolder
<1>5. Key(t) \in DOMAIN receipts /\ receipts[Key(t)].status = "reserved"
  <2>1. Key(t) \in DOMAIN receipts /\ receipts[Key(t)] = Reservation(t)
    BY DEF Exclusive, HolderOwnsReceipt
  <2> QED
    BY <2>1 DEF Reservation
<1> QED
  BY <1>1, <1>2, <1>3, <1>4, <1>5 DEF Gate!Leave

\* reserve begins, complete finishes, release gives up; a thread that dies at
\* work abandons its delivery; no other step is seen.
LEMMA StepRefines ==
  ASSUME 2 * Tolerance <= StaleAfter, Exclusive, [Next]_vars
  PROVE  [Gate!Next]_<<Work, Done, Lost>>
<1> USE DEF Exclusive, TypeOK, Goto
<1> DEFINE Unseen ==
      /\ receipts' = receipts
      /\ \A u \in Threads : /\ pc'[u] \in Holding <=> pc[u] \in Holding
                            /\ pc[u] \in Holding => dlv'[u] = dlv[u]
           Others(t) == \A u \in Threads \ {t} : pc'[u] = pc[u] /\ dlv'[u] = dlv[u]
<1>u. ASSUME Unseen PROVE UNCHANGED <<Work, Done, Lost>>
  BY <1>u, GateStays
<1>1. CASE UNCHANGED vars \/ Install
  BY <1>1, <1>u DEF Install, vars, local
<1>2. ASSUME NEW t \in Threads, NEW d \in Deliveries, NEW time \in Times, Arrive(t, d, time)
      PROVE  UNCHANGED <<Work, Done, Lost>>
  BY <1>2, <1>u DEF Arrive, Answer, Answered, Holding, store
<1>3. ASSUME NEW t \in Threads, Step(t) PROVE [Gate!Next]_<<Work, Done, Lost>>
  <2>1. CASE GetUser(t) \/ SetUser(t) \/ LoadInstallation(t) \/ ReserveGet(t)
    <3>1. Unseen
      BY <2>1 DEF GetUser, SetUser, LoadInstallation, ReserveGet, Continue, Answer, store, local, Holding
    <3> QED
      BY <3>1, <1>u
  <2>2. CASE Resolve(t) \/ Thought(t)
    <3>1. Unseen
      BY <2>2 DEF Resolve, Thought, LinearFails, AfterError, store, local, Holding
    <3> QED
      BY <3>1, <1>u
  <2>3. CASE Compute(t) \/ Publish(t)
    <3>1. Unseen
      BY <2>3 DEF Compute, Publish, AfterPublish, LinearFails, AfterError, store, Holding
    <3> QED
      BY <3>1, <1>u
  <2>4. CASE StoreOutcome(t) \/ Refresh(t)
    <3>1. Unseen
      BY <2>4 DEF StoreOutcome, Refresh, Holding
    <3> QED
      BY <3>1, <1>u
  <2>5. CASE CompleteGet(t) \/ ReleaseGet(t)
    <3>1. pc[t] \in Holding
      BY <2>5 DEF CompleteGet, ReleaseGet, Holding
    <3>2. Key(t) \in DOMAIN receipts /\ receipts[Key(t)] = Reservation(t)
      BY <3>1 DEF HolderOwnsReceipt
    <3>3. receipts[Key(t)].hash = Hash(t)
      BY <3>2 DEF Reservation
    <3>4. Unseen
      BY <2>5, <3>2, <3>3 DEF CompleteGet, ReleaseGet, ReadReceipt, store, Holding
    <3> QED
      BY <3>4, <1>u
  <2>6. CASE ReserveCreate(t)
    <3>1. pc[t] = "reserve_create" /\ pc[t] \notin Holding
      BY <2>6 DEF ReserveCreate, Holding
    <3>2. CASE Key(t) \in DOMAIN receipts
      <4>1. Unseen
        BY <2>6, <3>1, <3>2 DEF ReserveCreate, Continue, local, Holding
      <4> QED
        BY <4>1, <1>u
    <3>3. CASE Key(t) \notin DOMAIN receipts
      <4>1. /\ Others(t) /\ pc'[t] = "resolve" /\ dlv' = dlv
            /\ receipts' = Put(receipts, Key(t), Reservation(t))
        BY <2>6, <3>3 DEF ReserveCreate, Continue, local
      <4>2. pc'[t] \in Holding /\ Key(t)' = Key(t) /\ Key(t) \in Keys
        BY <4>1, ReservationType DEF Holding, Key
      <4>3. Gate!Open(Key(t)) /\ Gate!Free(t)
        BY <3>1, <3>3, WorkPairs DEF HolderOwnsReceipt, Done, Lost, Gate!Open, Gate!Free
      <4>4. Work' = Work \cup {<<Key(t), t>>}
        BY <3>1, <4>1, <4>2 DEF Work, Key
      <4>5. Done' = Done
        BY <3>3, <4>1 DEF Done, Put, Reservation
      <4>6. Lost' = Lost
        BY <3>3, <4>1, <4>4, <4>5 DEF Lost, Put
      <4> QED
        BY <4>2, <4>3, <4>4, <4>5, <4>6 DEF Gate!Next, Gate!Begin
    <3> QED
      BY <3>2, <3>3
  <2>7. CASE ReserveSet(t)
    BY <2>7 DEF ReserveSet, NoTakeover
  <2>8. CASE CompleteSet(t)
    <3>1. /\ Others(t) /\ pc[t] \in Holding /\ pc'[t] \notin Holding
          /\ receipts' = Put(receipts, Key(t), [hash |-> read[t].hash, at |-> read[t].at,
                                                status |-> "completed"])
      BY <2>8 DEF CompleteSet, Answer, Holding
    <3>2. /\ Key(t) \in Keys /\ Gate!Leave(Key(t), t)
          /\ Key(t) \in DOMAIN receipts /\ receipts[Key(t)].status = "reserved"
      BY <3>1, Leaving
    <3>3. Done' = Done \cup {Key(t)}
      BY <3>1, <3>2 DEF Done, Put
    <3>4. Lost' = Lost
      <4>1. DOMAIN receipts' = DOMAIN receipts
        BY <3>1, <3>2 DEF Put
      <4>2. <<Key(t), t>> \in Work /\ Work' = Work \ {<<Key(t), t>>}
        BY <3>2 DEF Gate!Leave
      <4> QED
        BY <3>3, <4>1, <4>2 DEF Lost
    <3> QED
      BY <3>2, <3>3, <3>4 DEF Gate!Next, Gate!Finish
  <2>9. CASE ReleaseDelete(t)
    <3>1. /\ Others(t) /\ pc[t] \in Holding /\ pc'[t] \notin Holding
          /\ receipts' = Remove(receipts, Key(t))
      BY <2>9 DEF ReleaseDelete, Answer, Holding
    <3>2. /\ Key(t) \in Keys /\ Gate!Leave(Key(t), t)
          /\ Key(t) \in DOMAIN receipts /\ receipts[Key(t)].status = "reserved"
      BY <3>1, Leaving
    <3>3. Done' = Done
      BY <3>1, <3>2 DEF Done, Remove
    <3>4. Lost' = Lost
      <4>1. DOMAIN receipts' = DOMAIN receipts \ {Key(t)}
        BY <3>1 DEF Remove
      <4>2. <<Key(t), t>> \in Work /\ Work' = Work \ {<<Key(t), t>>}
        BY <3>2 DEF Gate!Leave
      <4> QED
        BY <3>3, <4>1, <4>2 DEF Lost
    <3> QED
      BY <3>2, <3>3, <3>4 DEF Gate!Next, Gate!GiveUp
  <2> QED
    BY <1>3, <2>1, <2>2, <2>3, <2>4, <2>5, <2>6, <2>7, <2>8, <2>9 DEF Step
<1>4. ASSUME NEW t \in Threads, Die(t) PROVE [Gate!Next]_<<Work, Done, Lost>>
  <2>1. MayDie /\ receipts' = receipts /\ Others(t) /\ pc'[t] \notin Holding
    BY <1>4 DEF Die, Answer, Holding, store
  <2>2. CASE pc[t] \notin Holding
    BY <2>1, <2>2, <1>u
  <2>3. CASE pc[t] \in Holding
    <3>1. /\ Key(t) \in Keys /\ Gate!Leave(Key(t), t) /\ \A u : <<Key(t), u>> \in Work => u = t
          /\ Key(t) \in DOMAIN receipts /\ receipts[Key(t)].status = "reserved"
      BY <2>1, <2>3, Leaving
    <3>2. Done' = Done
      BY <2>1 DEF Done
    <3>3. Lost' = Lost \cup {Key(t)}
      <4>1. Key(t) \notin Done /\ Work' = Work \ {<<Key(t), t>>}
        BY <3>1 DEF Done, Gate!Leave
      <4> QED
        BY <2>1, <3>1, <3>2, <4>1 DEF Lost
    <3> QED
      BY <2>1, <3>1, <3>2, <3>3 DEF Gate!Next, Gate!Abandon
  <2> QED
    BY <2>2, <2>3
<1> QED
  BY <1>1, <1>2, <1>3, <1>4 DEF Next

\* reserve, complete and release of FirestoreWebhookReceiptStore, each several
\* document accesses that compare no more than hashes, implement DeliveryGate
\* while the freshness window is at most half the takeover age: a delivery has
\* one thread at a time, a completed one none ever again, and it is lost only
\* with the thread that works on it.
THEOREM ImplementsGate ==
  ASSUME 2 * Tolerance <= StaleAfter
  PROVE  Spec => GateSpec
<1>1. Init => Gate!Init
  BY DEF Init, Gate!Init, Work, Done, Lost, Holding
<1>2. Exclusive /\ [Next]_vars => Exclusive'
  BY NextExclusive
<1>3. Exclusive /\ [Next]_vars => [Gate!Next]_<<Work, Done, Lost>>
  BY StepRefines
<1> QED
  BY <1>1, <1>2, <1>3, InitExclusive, PTL DEF Spec, GateSpec, Gate!Spec

-----------------------------------------------------------------------------
(* Without crashes a reservation is always in the hands of a thread *)

\* Every reservation has a thread at work on its delivery.
Held ==
  \A k \in DOMAIN receipts :
    receipts[k].status = "reserved" => \E u \in Threads : pc[u] \in Holding /\ Key(u) = k

\* A step that changes no receipt and lets no holder go keeps Held.
LEMMA HoldersStay ==
  ASSUME Held, receipts' = receipts,
         \A u \in Threads : pc[u] \in Holding => pc'[u] \in Holding /\ dlv'[u] = dlv[u]
  PROVE  Held'
BY DEF Held, Key

\* Where no thread dies, Held is preserved by every step.
LEMMA NextHeld ==
  ASSUME ~MayDie, Exclusive, Held, [Next]_vars
  PROVE  Held'
<1> USE DEF Exclusive, TypeOK, Goto
<1> DEFINE Stay ==
      /\ receipts' = receipts
      /\ \A u \in Threads : pc[u] \in Holding => pc'[u] \in Holding /\ dlv'[u] = dlv[u]
<1>1. CASE UNCHANGED vars \/ Install
  BY <1>1, HoldersStay DEF Install, vars, local
<1>2. ASSUME NEW t \in Threads, NEW d \in Deliveries, NEW time \in Times, Arrive(t, d, time)
      PROVE  Held'
  <2>1. pc[t] \notin Holding
    BY <1>2 DEF Arrive, Answered, Holding
  <2>2. Stay
    BY <1>2, <2>1 DEF Arrive, Answer, store
  <2> QED
    BY <2>2, HoldersStay
<1>3. ASSUME NEW t \in Threads, Step(t) PROVE Held'
  <2>1. CASE GetUser(t) \/ SetUser(t) \/ LoadInstallation(t) \/ ReserveGet(t)
    <3>1. pc[t] \notin Holding
      BY <2>1 DEF GetUser, SetUser, LoadInstallation, ReserveGet, Holding
    <3>2. Stay
      BY <2>1, <3>1 DEF GetUser, SetUser, LoadInstallation, ReserveGet, Continue, Answer, store, local
    <3> QED
      BY <3>2, HoldersStay
  <2>2. CASE ReserveCreate(t)
    <3>1. CASE Key(t) \in DOMAIN receipts
      <4>1. Stay
        BY <2>2, <3>1 DEF ReserveCreate, Continue, local, Holding
      <4> QED
        BY <4>1, HoldersStay
    <3>2. CASE Key(t) \notin DOMAIN receipts
      <4>1. /\ pc' = [pc EXCEPT ![t] = "resolve"] /\ dlv' = dlv
            /\ receipts' = Put(receipts, Key(t), Reservation(t))
        BY <2>2, <3>2 DEF ReserveCreate, Continue, local
      <4>2. pc'[t] \in Holding /\ Key(t)' = Key(t)
        BY <4>1 DEF Holding, Key
      <4>3. \A u \in Threads : pc[u] \in Holding => pc'[u] \in Holding /\ Key(u)' = Key(u)
        BY <4>1, <4>2 DEF Key
      <4> QED
        BY <4>1, <4>2, <4>3 DEF Held, Put, Key
    <3> QED
      BY <3>1, <3>2
  <2>3. CASE ReserveSet(t)
    BY <2>3 DEF ReserveSet, NoTakeover
  <2>4. CASE Resolve(t) \/ Thought(t)
    <3>1. Stay
      BY <2>4 DEF Resolve, Thought, LinearFails, AfterError, store, local, Holding
    <3> QED
      BY <3>1, HoldersStay
  <2>5. CASE Compute(t) \/ Publish(t)
    <3>1. Stay
      BY <2>5 DEF Compute, Publish, AfterPublish, LinearFails, AfterError, store, Holding
    <3> QED
      BY <3>1, HoldersStay
  <2>6. CASE StoreOutcome(t) \/ Refresh(t)
    <3>1. Stay
      BY <2>6 DEF StoreOutcome, Refresh, Holding
    <3> QED
      BY <3>1, HoldersStay
  <2>7. CASE CompleteGet(t) \/ ReleaseGet(t)
    <3>1. pc[t] \in Holding
      BY <2>7 DEF CompleteGet, ReleaseGet, Holding
    <3>r. Key(t) \in DOMAIN receipts /\ receipts[Key(t)] = Reservation(t)
      BY <3>1 DEF HolderOwnsReceipt
    <3>2. Key(t) \in DOMAIN receipts /\ receipts[Key(t)].hash = Hash(t)
      BY <3>r DEF Reservation
    <3>3. Stay
      BY <2>7, <3>2 DEF CompleteGet, ReleaseGet, ReadReceipt, store, Holding
    <3> QED
      BY <3>3, HoldersStay
  <2>8. CASE CompleteSet(t) \/ ReleaseDelete(t)
    <3>1. pc[t] \in Holding
      BY <2>8 DEF CompleteSet, ReleaseDelete, Holding
    <3>2. \A u \in Threads \ {t} : pc'[u] = pc[u] /\ dlv'[u] = dlv[u]
      BY <2>8 DEF CompleteSet, ReleaseDelete, Answer
    <3>3. \A k \in DOMAIN receipts' :
            receipts'[k].status = "reserved" =>
              k # Key(t) /\ k \in DOMAIN receipts /\ receipts'[k] = receipts[k]
      BY <2>8 DEF CompleteSet, ReleaseDelete, Put, Remove
    <3> QED
      BY <3>2, <3>3 DEF Held, Key
  <2> QED
    BY <1>3, <2>1, <2>2, <2>3, <2>4, <2>5, <2>6, <2>7, <2>8 DEF Step, CompleteGet, ReleaseGet
<1>4. ASSUME NEW t \in Threads, Die(t) PROVE Held'
  BY <1>4 DEF Die
<1> QED
  BY <1>1, <1>2, <1>3, <1>4 DEF Next

\* Where no thread dies, a delivery is refused as a duplicate only while a
\* thread is at work on its key or after an answer was given: "already
\* processed" never hides a delivery that nobody will answer.
THEOREM DuplicatesAreHandled ==
  ASSUME 2 * Tolerance <= StaleAfter, ~MayDie
  PROVE  Spec => DuplicateIsHandled
<1> DEFINE Handled ==
      \A t \in Threads :
        pc[t] # "duplicate" /\ pc'[t] = "duplicate" =>
          \/ receipts[Key(t)].status = "completed"
          \/ \E u \in Threads : pc[u] \in Holding /\ Key(u) = Key(t)
<1>1. Init => Exclusive /\ Held
  BY InitExclusive DEF Init, Held
<1>2. Exclusive /\ Held /\ [Next]_vars => (Exclusive /\ Held)'
  BY NextExclusive, NextHeld
<1>3. ASSUME Exclusive, Held, [Next]_vars PROVE [Handled]_vars
  <2>1. SUFFICES ASSUME NEW t \in Threads, pc[t] # "duplicate", pc'[t] = "duplicate"
                 PROVE  \/ receipts[Key(t)].status = "completed"
                        \/ \E u \in Threads : pc[u] \in Holding /\ Key(u) = Key(t)
    OBVIOUS
  <2>2. ReserveGet(t)
    <3> USE DEF TypeOK, Goto
    <3>0. TypeOK
      BY <1>3 DEF Exclusive
    <3>1. ~(UNCHANGED vars \/ Install)
      BY <2>1, <3>0 DEF vars, Install
    <3>2. ASSUME NEW s \in Threads, NEW d \in Deliveries, NEW time \in Times, Arrive(s, d, time)
          PROVE  FALSE
      BY <2>1, <3>0, <3>2 DEF Arrive, Answer
    <3>3. ASSUME NEW s \in Threads, Die(s) PROVE FALSE
      BY <2>1, <3>0, <3>3 DEF Die, Answer
    <3>4. ASSUME NEW s \in Threads, Step(s) PROVE ReserveGet(t)
      <4>1. ~(GetUser(s) \/ SetUser(s) \/ LoadInstallation(s) \/ ReserveCreate(s) \/ ReserveSet(s))
        BY <2>1, <3>0 DEF GetUser, SetUser, LoadInstallation, ReserveCreate, ReserveSet, Continue, Answer
      <4>2. ~(Resolve(s) \/ Thought(s) \/ Compute(s) \/ Publish(s))
        BY <2>1, <3>0 DEF Resolve, Thought, Compute, Publish, AfterPublish, LinearFails, AfterError
      <4>3. ~(StoreOutcome(s) \/ Refresh(s))
        BY <2>1, <3>0 DEF StoreOutcome, Refresh
      <4>4. ~(CompleteGet(s) \/ ReleaseGet(s) \/ CompleteSet(s) \/ ReleaseDelete(s))
        BY <2>1, <3>0 DEF CompleteGet, ReleaseGet, ReadReceipt, CompleteSet, ReleaseDelete, Answer
      <4>5. ReserveGet(s)
        BY <3>4, <4>1, <4>2, <4>3, <4>4 DEF Step
      <4>6. s = t
        BY <2>1, <3>0, <4>5 DEF ReserveGet, Continue, Answer
      <4> QED
        BY <4>5, <4>6
    <3> QED
      BY <1>3, <3>1, <3>2, <3>3, <3>4 DEF Next
  <2>3. Key(t) \in DOMAIN receipts
    BY <1>3, <2>1, <2>2 DEF ReserveGet, Answer, Goto, Exclusive, TypeOK
  <2>4. receipts[Key(t)].status \in {"reserved", "completed"}
    BY <2>3, <1>3 DEF Exclusive, TypeOK, Receipts
  <2> QED
    BY <1>3, <2>3, <2>4 DEF Held
<1> HIDE DEF Handled
<1>4. Spec => [][Handled]_vars
  BY <1>1, <1>2, <1>3, PTL DEF Spec
<1> QED
  BY <1>4 DEF DuplicateIsHandled, Handled

-----------------------------------------------------------------------------
(* The work on a delivery ends: what ReservationSettles rests on *)

\* A token is refreshed once per delivery: the second attempt does not.
RefreshOnce == \A t \in Threads : pc[t] = "refresh" => ~refreshed[t]

\* How many steps a thread at work has before it at most.
StepsLeft(label) ==
  CASE label \in {"complete_set", "release_delete"}                   -> 1
    [] label \in {"complete_get", "release_get"}                      -> 2
    [] label \in {"store_outcome", "store_error", "refresh"}          -> 3
    [] label \in {"publish", "publish_cached", "publish_error"}       -> 4
    [] label \in {"compute", "thought_cached"}                        -> 5
    [] label = "thought"                                              -> 6
    [] OTHER                                                          -> 7
Rank(t) == StepsLeft(pc[t]) + IF refreshed[t] THEN 0 ELSE 7

\* A thread at work leaves its delivery or comes nearer to its end with every
\* step of its own, and nobody else moves it.
WorkEnds ==
  [][\A t \in Threads :
       pc[t] \in Holding =>
         IF Step(t) \/ Die(t) THEN pc'[t] \notin Holding \/ Rank(t)' < Rank(t)
         ELSE pc'[t] = pc[t] /\ dlv'[t] = dlv[t] /\ refreshed'[t] = refreshed[t]]_vars

\* The steps that each label leaves.
LEMMA StepsLeftOf ==
  /\ StepsLeft("complete_set") = 1 /\ StepsLeft("release_delete") = 1
  /\ StepsLeft("complete_get") = 2 /\ StepsLeft("release_get") = 2
  /\ StepsLeft("store_outcome") = 3 /\ StepsLeft("store_error") = 3 /\ StepsLeft("refresh") = 3
  /\ StepsLeft("publish") = 4 /\ StepsLeft("publish_cached") = 4 /\ StepsLeft("publish_error") = 4
  /\ StepsLeft("compute") = 5 /\ StepsLeft("thought_cached") = 5
  /\ StepsLeft("thought") = 6 /\ StepsLeft("resolve") = 7
BY DEF StepsLeft

\* A step that keeps the attempt lowers the rank with the steps left.
LEMMA LowerRank ==
  ASSUME NEW t \in Threads, refreshed'[t] = refreshed[t],
         NEW m \in Nat, NEW n \in Nat, StepsLeft(pc[t]) = n, StepsLeft(pc'[t]) = m, m < n
  PROVE  Rank(t)' < Rank(t)
BY DEF Rank

\* An error of Linear leads to the refresh or to the release, which are nearer
\* to the end than every call that may raise one.
LEMMA ErrorLowersRank ==
  ASSUME TypeOK, NEW t \in Threads, LinearFails(t), refreshed' = refreshed,
         pc[t] \in {"resolve", "thought", "thought_cached", "publish", "publish_cached",
                    "publish_error"}
  PROVE  Rank(t)' < Rank(t)
<1>1. pc'[t] \in {"refresh", "release_get"}
  BY DEF LinearFails, AfterError, Goto, TypeOK
<1>2. StepsLeft(pc[t]) \in {4, 5, 6, 7} /\ StepsLeft(pc'[t]) \in {2, 3}
  BY <1>1, StepsLeftOf
<1> QED
  BY <1>2, LowerRank

\* Only a thread without an attempt behind it is sent to refresh.
LEMMA NextRefresh ==
  ASSUME TypeOK, RefreshOnce, [Next]_vars
  PROVE  RefreshOnce'
<1> SUFFICES ASSUME NEW u \in Threads, pc'[u] = "refresh" PROVE ~refreshed'[u]
  BY DEF RefreshOnce
<1> USE DEF TypeOK, RefreshOnce, Goto
<1>1. CASE UNCHANGED vars \/ Install
  BY <1>1 DEF vars, Install, local
<1>2. ASSUME NEW t \in Threads,
             Die(t) \/ \E d \in Deliveries, time \in Times : Arrive(t, d, time)
      PROVE  ~refreshed'[u]
  BY <1>2 DEF Arrive, Die, Answer
<1>3. ASSUME NEW t \in Threads, Step(t) PROVE ~refreshed'[u]
  <2>1. CASE GetUser(t) \/ SetUser(t) \/ LoadInstallation(t)
    BY <2>1 DEF GetUser, SetUser, LoadInstallation, Continue, Answer, local
  <2>2. CASE ReserveCreate(t) \/ ReserveGet(t) \/ ReserveSet(t)
    BY <2>2 DEF ReserveCreate, ReserveGet, ReserveSet, Continue, Answer, local
  <2>3. CASE Resolve(t) \/ Thought(t)
    BY <2>3 DEF Resolve, Thought, LinearFails, AfterError, local
  <2>4. CASE Compute(t) \/ Publish(t)
    BY <2>4 DEF Compute, Publish, AfterPublish, LinearFails, AfterError
  <2>5. CASE StoreOutcome(t) \/ Refresh(t)
    BY <2>5 DEF StoreOutcome, Refresh
  <2>6. CASE CompleteGet(t) \/ ReleaseGet(t)
    BY <2>6 DEF CompleteGet, ReleaseGet, ReadReceipt, Answer
  <2>7. CASE CompleteSet(t) \/ ReleaseDelete(t)
    BY <2>7 DEF CompleteSet, ReleaseDelete, Answer
  <2> QED
    BY <1>3, <2>1, <2>2, <2>3, <2>4, <2>5, <2>6, <2>7 DEF Step
<1> QED
  BY <1>1, <1>2, <1>3 DEF Next

\* A step of a thread at work ends its work or lowers its rank.
LEMMA StepLowersRank ==
  ASSUME TypeOK, RefreshOnce, NEW t \in Threads, pc[t] \in Holding, Step(t)
  PROVE  pc'[t] \notin Holding \/ Rank(t)' < Rank(t)
<1> USE DEF TypeOK, Goto
<1>1. ~(GetUser(t) \/ SetUser(t) \/ LoadInstallation(t) \/ ReserveCreate(t) \/ ReserveGet(t)
        \/ ReserveSet(t))
  BY DEF GetUser, SetUser, LoadInstallation, ReserveCreate, ReserveGet, ReserveSet, Holding
<1>2. CASE Resolve(t)
  <2>1. refreshed' = refreshed /\ pc[t] = "resolve"
    BY <1>2 DEF Resolve
  <2>2. CASE LinearFails(t)
    BY <2>1, <2>2, ErrorLowersRank
  <2>3. CASE pc'[t] \in {"thought", "thought_cached", "publish_error"}
    BY <2>1, <2>3, StepsLeftOf, LowerRank
  <2> QED
    BY <1>2, <2>2, <2>3 DEF Resolve
<1>3. CASE Thought(t)
  <2>1. refreshed' = refreshed /\ pc[t] \in {"thought", "thought_cached"}
    BY <1>3 DEF Thought, local
  <2>2. CASE LinearFails(t)
    BY <2>1, <2>2, ErrorLowersRank
  <2>3. CASE \/ pc[t] = "thought" /\ pc'[t] = "compute"
             \/ pc[t] = "thought_cached" /\ pc'[t] = "publish_cached"
    BY <2>1, <2>3, StepsLeftOf, LowerRank
  <2> QED
    BY <1>3, <2>2, <2>3 DEF Thought
<1>4. CASE Compute(t)
  BY <1>4, StepsLeftOf, LowerRank DEF Compute
<1>5. CASE Publish(t)
  <2>1. refreshed' = refreshed /\ pc[t] \in {"publish", "publish_cached", "publish_error"}
    BY <1>5 DEF Publish
  <2>2. CASE LinearFails(t)
    BY <2>1, <2>2, ErrorLowersRank
  <2>3. CASE pc'[t] \in {"store_outcome", "store_error", "complete_get"}
    BY <2>1, <2>3, StepsLeftOf, LowerRank
  <2> QED
    BY <1>5, <2>2, <2>3 DEF Publish, AfterPublish
<1>6. CASE StoreOutcome(t)
  BY <1>6, StepsLeftOf, LowerRank DEF StoreOutcome
<1>7. CASE Refresh(t)
  <2>1. pc[t] = "refresh" /\ ~refreshed[t]
    BY <1>7 DEF Refresh, RefreshOnce
  <2>2. CASE pc'[t] = "resolve" /\ refreshed'[t]
    BY <2>1, <2>2, StepsLeftOf DEF Rank
  <2>3. CASE pc'[t] = "release_get" /\ refreshed' = refreshed
    BY <2>1, <2>3, StepsLeftOf, LowerRank
  <2> QED
    BY <1>7, <2>2, <2>3 DEF Refresh
<1>8. CASE CompleteGet(t)
  <2>1. CASE pc'[t] = "complete_set" /\ refreshed' = refreshed
    BY <1>8, <2>1, StepsLeftOf, LowerRank DEF CompleteGet
  <2>2. CASE pc'[t] = "accepted"
    BY <2>2 DEF Holding
  <2> QED
    BY <1>8, <2>1, <2>2 DEF CompleteGet, ReadReceipt, Answer
<1>9. CASE ReleaseGet(t)
  <2>1. CASE pc'[t] = "release_delete" /\ refreshed' = refreshed
    BY <1>9, <2>1, StepsLeftOf, LowerRank DEF ReleaseGet
  <2>2. CASE pc'[t] = "linear_error"
    BY <2>2 DEF Holding
  <2> QED
    BY <1>9, <2>1, <2>2 DEF ReleaseGet, ReadReceipt, Answer
<1>10. CASE CompleteSet(t) \/ ReleaseDelete(t)
  BY <1>10 DEF CompleteSet, ReleaseDelete, Answer, Holding
<1> QED
  BY <1>1, <1>2, <1>3, <1>4, <1>5, <1>6, <1>7, <1>8, <1>9, <1>10 DEF Step

\* Nobody moves a thread at work but itself.
LEMMA OthersLeaveAlone ==
  ASSUME TypeOK, NEW t \in Threads, pc[t] \in Holding, [Next]_vars, ~Step(t), ~Die(t)
  PROVE  pc'[t] = pc[t] /\ dlv'[t] = dlv[t] /\ refreshed'[t] = refreshed[t]
<1> DEFINE Apart(s) == \A u \in Threads \ {s} : pc'[u] = pc[u] /\ dlv'[u] = dlv[u]
                                               /\ refreshed'[u] = refreshed[u]
<1> USE DEF TypeOK, Goto
<1>1. CASE UNCHANGED vars \/ Install
  BY <1>1 DEF vars, Install, local
<1>2. ASSUME NEW s \in Threads, NEW d \in Deliveries, NEW time \in Times, Arrive(s, d, time)
      PROVE  s # t /\ Apart(s)
  BY <1>2 DEF Arrive, Answer, Answered, Holding
<1>3. ASSUME NEW s \in Threads, Die(s) PROVE s # t /\ Apart(s)
  BY <1>3 DEF Die, Answer
<1>4. ASSUME NEW s \in Threads, Step(s) PROVE s # t /\ Apart(s)
  <2>1. s # t
    BY <1>4
  <2> SUFFICES Apart(s)
    BY <2>1
  <2>2. CASE GetUser(s) \/ SetUser(s) \/ LoadInstallation(s)
    BY <2>2 DEF GetUser, SetUser, LoadInstallation, Continue, Answer, local
  <2>3. CASE ReserveCreate(s) \/ ReserveGet(s) \/ ReserveSet(s)
    BY <2>3 DEF ReserveCreate, ReserveGet, ReserveSet, Continue, Answer, local
  <2>4. CASE Resolve(s) \/ Thought(s)
    BY <2>4 DEF Resolve, Thought, LinearFails, AfterError, local
  <2>5. CASE Compute(s) \/ Publish(s)
    BY <2>5 DEF Compute, Publish, AfterPublish, LinearFails, AfterError
  <2>6. CASE StoreOutcome(s) \/ Refresh(s)
    BY <2>6 DEF StoreOutcome, Refresh
  <2>7. CASE CompleteGet(s) \/ ReleaseGet(s)
    BY <2>7 DEF CompleteGet, ReleaseGet, ReadReceipt, Answer
  <2>8. CASE CompleteSet(s) \/ ReleaseDelete(s)
    BY <2>8 DEF CompleteSet, ReleaseDelete, Answer
  <2> QED
    BY <1>4, <2>2, <2>3, <2>4, <2>5, <2>6, <2>7, <2>8 DEF Step
<1> QED
  BY <1>1, <1>2, <1>3, <1>4 DEF Next

\* With every step of its own a thread at work comes nearer to the end of it,
\* whatever Linear answers: one refresh and at most fourteen steps.  The
\* fairness of the threads then settles every reservation that is held.
THEOREM WorkIsBounded == Spec => WorkEnds
<1> DEFINE Ends ==
      \A t \in Threads :
        pc[t] \in Holding =>
          IF Step(t) \/ Die(t) THEN pc'[t] \notin Holding \/ Rank(t)' < Rank(t)
          ELSE pc'[t] = pc[t] /\ dlv'[t] = dlv[t] /\ refreshed'[t] = refreshed[t]
<1>1. Init => RefreshOnce
  BY DEF Init, RefreshOnce
<1>2. TypeOK /\ RefreshOnce /\ [Next]_vars => RefreshOnce'
  BY NextRefresh
<1>3. ASSUME TypeOK, RefreshOnce, [Next]_vars PROVE [Ends]_vars
  <2>1. ASSUME NEW t \in Threads, Die(t) PROVE pc'[t] \notin Holding
    BY <1>3, <2>1 DEF Die, Answer, Goto, TypeOK, Holding
  <2> QED
    BY <1>3, <2>1, StepLowersRank, OthersLeaveAlone
<1> HIDE DEF Ends
<1>4. Spec => [][Ends]_vars
  BY TypeCorrect, <1>1, <1>2, <1>3, PTL DEF Spec
<1> QED
  BY <1>4, PTL DEF WorkEnds, Ends

\* Where no thread dies, every reservation is in the hands of a thread.
THEOREM ReservationsAreHeld ==
  ASSUME 2 * Tolerance <= StaleAfter, ~MayDie
  PROVE  Spec => []Held
<1>1. Init => Exclusive /\ Held
  BY InitExclusive DEF Init, Held
<1>2. Exclusive /\ Held /\ [Next]_vars => (Exclusive /\ Held)'
  BY NextExclusive, NextHeld
<1> QED
  BY <1>1, <1>2, PTL DEF Spec

-----------------------------------------------------------------------------
(* Completed receipts and cached outcomes stand for published answers *)

\* An answer to the command or to the delivery of t has reached Linear.
Told(t) ==
  \E x \in Terminals : <<Op(t), x>> \in published \/ <<Key(t), x>> \in published

\* A thread that repeats, stores or completes an answer has one to show.
HasAnswer(t) ==
  /\ pc[t] \in {"thought_cached", "publish_cached", "store_outcome"} =>
       <<Op(t), terminal[t]>> \in published
  /\ pc[t] = "store_error" => <<Key(t), terminal[t]>> \in published
  /\ pc[t] \in {"complete_get", "complete_set"} => Told(t)

Answers ==
  TypeOK /\ ReadsReceipt /\ CachedIsPublished /\ CompletedIsAnswered
  /\ \A t \in Threads : HasAnswer(t)

\* Nothing is forgotten: what t has to show stays published while it waits.
LEMMA AnswersKept ==
  ASSUME Answers, published \subseteq published', NEW u \in Threads,
         pc'[u] = pc[u], dlv'[u] = dlv[u], terminal'[u] = terminal[u]
  PROVE  HasAnswer(u)'
<1>1. Op(u)' = Op(u) /\ Key(u)' = Key(u)
  BY DEF Op, Key
<1> QED
  BY <1>1 DEF Answers, HasAnswer, Told

\* A completed receipt stays answered, and so does a cached outcome.
LEMMA DocumentsKept ==
  ASSUME Answers, published \subseteq published'
  PROVE  /\ receipts' = receipts => CompletedIsAnswered'
         /\ outcomes' = outcomes => CachedIsPublished'
<1>1. CompletedIsAnswered /\ CachedIsPublished
  BY DEF Answers
<1>2. receipts' = receipts => CompletedIsAnswered'
  <2>1. SUFFICES ASSUME receipts' = receipts, NEW k \in DOMAIN receipts,
                        receipts[k].status = "completed"
                 PROVE  \E d \in Deliveries, x \in Terminals :
                          KeyOf[d] = k /\ (<<OpOf[d], x>> \in published' \/ <<k, x>> \in published')
    BY DEF CompletedIsAnswered
  <2>2. PICK d \in Deliveries, x \in Terminals :
          KeyOf[d] = k /\ (<<OpOf[d], x>> \in published \/ <<k, x>> \in published)
    BY <1>1, <2>1 DEF CompletedIsAnswered
  <2> QED
    BY <2>2
<1>3. outcomes' = outcomes => CachedIsPublished'
  BY <1>1 DEF CachedIsPublished
<1> QED
  BY <1>2, <1>3

\* Every step of thread t keeps Answers.
LEMMA StepAnswers ==
  ASSUME Answers, TypeOK', ReadsReceipt', NEW t \in Threads,
         (\E d \in Deliveries, time \in Times : Arrive(t, d, time)) \/ Step(t) \/ Die(t)
  PROVE  Answers'
<1> USE DEF TypeOK, Goto
<1> DEFINE Waits(u) == pc'[u] = pc[u] /\ dlv'[u] = dlv[u] /\ terminal'[u] = terminal[u]
           Plain == /\ published' = published /\ receipts' = receipts /\ outcomes' = outcomes
                    /\ \A u \in Threads \ {t} : Waits(u)
<1>t. TypeOK /\ (\A u \in Threads : HasAnswer(u))
  BY DEF Answers
<1>o. Op(t) \in Ops /\ Key(t) \in Keys /\ terminal[t] \in Terminals
  BY <1>t, ReservationType
<1>p. ASSUME Plain, HasAnswer(t)' PROVE Answers'
  <2>1. \A u \in Threads : HasAnswer(u)'
    BY <1>p, AnswersKept
  <2> QED
    BY <1>p, <2>1, DocumentsKept DEF Answers
<1>n. ASSUME pc'[t] \notin {"thought_cached", "publish_cached", "store_outcome", "store_error",
                            "complete_get", "complete_set"}
      PROVE  HasAnswer(t)'
  BY <1>n DEF HasAnswer
<1>1. CASE \E d \in Deliveries, time \in Times : Arrive(t, d, time)
  <2>1. Plain /\ pc'[t] \in {"get_user", "stale"}
    BY <1>1, <1>t DEF Arrive, Answer, store
  <2> QED
    BY <2>1, <1>n, <1>p
<1>2. CASE GetUser(t) \/ SetUser(t) \/ LoadInstallation(t)
  <2>1. Plain /\ pc'[t] \in {"set_user", "load_installation", "wrong_user", "reserve_create",
                             "unavailable"}
    BY <1>2, <1>t DEF GetUser, SetUser, LoadInstallation, Continue, Answer, world, store, local
  <2> QED
    BY <2>1, <1>n, <1>p
<1>3. CASE ReserveCreate(t) \/ ReserveSet(t)
  <2>1. /\ published' = published /\ outcomes' = outcomes /\ \A u \in Threads \ {t} : Waits(u)
        /\ pc'[t] \in {"reserve_get", "resolve"}
    BY <1>3, <1>t DEF ReserveCreate, ReserveSet, Continue, world, local
  <2>2. \A u \in Threads : HasAnswer(u)'
    BY <2>1, <1>n, AnswersKept
  <2>3. \A k \in DOMAIN receipts' :
          receipts'[k].status = "completed" => k \in DOMAIN receipts /\ receipts'[k] = receipts[k]
    BY <1>3 DEF ReserveCreate, ReserveSet, Put, Reservation
  <2>4. CompletedIsAnswered'
    BY <2>1, <2>3 DEF Answers, CompletedIsAnswered
  <2> QED
    BY <2>1, <2>2, <2>4, DocumentsKept DEF Answers
<1>4. CASE ReserveGet(t)
  <2>1. Plain /\ pc'[t] \in {"conflict", "duplicate", "reserve_set"}
    BY <1>4, <1>t DEF ReserveGet, Continue, Answer, world, store, local
  <2> QED
    BY <2>1, <1>n, <1>p
<1>5. CASE Resolve(t)
  <2>1. Plain /\ dlv' = dlv
    BY <1>5, <1>t DEF Resolve, LinearFails, AfterError, world, store
  <2>2. CASE pc'[t] = "thought_cached"
    <3>1. Op(t) \in DOMAIN outcomes /\ terminal'[t] = outcomes[Op(t)]
      BY <1>5, <2>2, <1>t DEF Resolve, LinearFails, AfterError
    <3>2. <<Op(t), terminal'[t]>> \in published'
      BY <3>1, <2>1 DEF Answers, CachedIsPublished
    <3>3. HasAnswer(t)'
      BY <3>2, <2>1, <2>2 DEF HasAnswer, Op
    <3> QED
      BY <2>1, <3>3, <1>p
  <2>3. CASE pc'[t] # "thought_cached"
    <3>1. pc'[t] \in {"thought", "publish_error", "refresh", "release_get"}
      BY <1>5, <2>3, <1>t DEF Resolve, LinearFails, AfterError
    <3> QED
      BY <2>1, <3>1, <1>n, <1>p
  <2> QED
    BY <2>2, <2>3
<1>6. CASE Thought(t)
  <2>1. Plain /\ dlv' = dlv /\ terminal' = terminal
    BY <1>6, <1>t DEF Thought, LinearFails, AfterError, world, store, local
  <2>2. CASE pc'[t] = "publish_cached"
    <3>1. <<Op(t), terminal[t]>> \in published
      BY <1>6, <2>2, <1>t DEF Thought, LinearFails, AfterError, HasAnswer
    <3>2. HasAnswer(t)'
      BY <3>1, <2>1, <2>2 DEF HasAnswer, Op
    <3> QED
      BY <2>1, <3>2, <1>p
  <2>3. CASE pc'[t] # "publish_cached"
    <3>1. pc'[t] \in {"compute", "refresh", "release_get"}
      BY <1>6, <2>3, <1>t DEF Thought, LinearFails, AfterError
    <3> QED
      BY <2>1, <3>1, <1>n, <1>p
  <2> QED
    BY <2>2, <2>3
<1>7. CASE Compute(t)
  <2>1. Plain /\ pc'[t] = "publish"
    BY <1>7, <1>t DEF Compute, world, store
  <2> QED
    BY <2>1, <1>n, <1>p
<1>8. CASE Publish(t)
  <2>1. /\ receipts' = receipts /\ outcomes' = outcomes /\ published \subseteq published'
        /\ dlv' = dlv /\ terminal' = terminal /\ \A u \in Threads \ {t} : Waits(u)
    BY <1>8, <1>t DEF Publish, AfterPublish, LinearFails, AfterError, store
  <2>2. CASE pc'[t] \in {"refresh", "release_get"}
    <3>1. HasAnswer(t)'
      BY <2>2, <1>n
    <3> QED
      BY <2>1, <3>1, AnswersKept, DocumentsKept DEF Answers
  <2>3. CASE pc'[t] \notin {"refresh", "release_get"}
    <3>1. /\ published' = published \cup {<<OutcomeKey(t), terminal[t]>>}
          /\ pc'[t] = AfterPublish(t)
      BY <1>8, <2>3, <1>t DEF Publish, LinearFails, AfterError
    <3>2. Op(t)' = Op(t) /\ Key(t)' = Key(t)
      BY <2>1 DEF Op, Key
    <3>3. HasAnswer(t)'
      BY <1>8, <3>1, <3>2, <2>1, <1>o DEF Publish, AfterPublish, OutcomeKey, HasAnswer, Told
    <3> QED
      BY <2>1, <3>3, AnswersKept, DocumentsKept DEF Answers
  <2> QED
    BY <2>2, <2>3
<1>9. CASE StoreOutcome(t)
  <2>1. /\ published' = published /\ receipts' = receipts /\ dlv' = dlv
        /\ pc'[t] = "complete_get" /\ \A u \in Threads \ {t} : Waits(u)
    BY <1>9, <1>t DEF StoreOutcome, world
  <2>2. <<OutcomeKey(t), terminal[t]>> \in published
    BY <1>9, <1>t DEF StoreOutcome, OutcomeKey, HasAnswer
  <2>3. CachedIsPublished'
    BY <1>9, <2>1, <2>2 DEF StoreOutcome, Put, Answers, CachedIsPublished
  <2>4. Op(t)' = Op(t) /\ Key(t)' = Key(t)
    BY <2>1 DEF Op, Key
  <2>5. HasAnswer(t)'
    BY <2>1, <2>2, <2>4, <1>o DEF HasAnswer, Told, OutcomeKey
  <2> QED
    BY <2>1, <2>3, <2>5, AnswersKept, DocumentsKept DEF Answers
<1>10. CASE Refresh(t)
  <2>1. Plain /\ pc'[t] \in {"resolve", "release_get"}
    BY <1>10, <1>t DEF Refresh, world
  <2> QED
    BY <2>1, <1>n, <1>p
<1>11. CASE CompleteGet(t)
  <2>1. Plain /\ pc'[t] \in {"complete_set", "accepted"}
    BY <1>11, <1>t DEF CompleteGet, ReadReceipt, Answer, world, store
  <2>2. CASE pc'[t] = "complete_set"
    <3>1. dlv' = dlv /\ Told(t)
      BY <1>11, <2>2, <1>t DEF CompleteGet, ReadReceipt, Answer, HasAnswer
    <3>2. HasAnswer(t)'
      BY <2>1, <2>2, <3>1 DEF HasAnswer, Told, Op, Key
    <3> QED
      BY <2>1, <3>2, <1>p
  <2>3. CASE pc'[t] = "accepted"
    BY <2>1, <2>3, <1>n, <1>p
  <2> QED
    BY <2>1, <2>2, <2>3
<1>12. CASE ReleaseGet(t)
  <2>1. Plain /\ pc'[t] \in {"release_delete", "linear_error"}
    BY <1>12, <1>t DEF ReleaseGet, ReadReceipt, Answer, world, store
  <2> QED
    BY <2>1, <1>n, <1>p
<1>13. CASE CompleteSet(t)
  <2>1. /\ published' = published /\ outcomes' = outcomes /\ pc'[t] = "accepted"
        /\ \A u \in Threads \ {t} : Waits(u)
    BY <1>13, <1>t DEF CompleteSet, Answer, world
  <2>2. \E x \in Terminals : <<OpOf[dlv[t]], x>> \in published \/ <<Key(t), x>> \in published
    BY <1>13, <1>t DEF CompleteSet, HasAnswer, Told, Op
  <2>3. ASSUME NEW k \in DOMAIN receipts', receipts'[k].status = "completed"
        PROVE  \E d \in Deliveries, x \in Terminals :
                 KeyOf[d] = k /\ (<<OpOf[d], x>> \in published \/ <<k, x>> \in published)
    <3>1. CASE k = Key(t)
      BY <2>2, <3>1, <1>t DEF Key
    <3>2. CASE k # Key(t)
      BY <1>13, <2>3, <3>2 DEF CompleteSet, Put, Answers, CompletedIsAnswered
    <3> QED
      BY <3>1, <3>2
  <2>4. CompletedIsAnswered'
    BY <2>1, <2>3 DEF CompletedIsAnswered
  <2>5. \A u \in Threads : HasAnswer(u)'
    BY <2>1, <1>n, AnswersKept
  <2> QED
    BY <2>1, <2>4, <2>5, DocumentsKept DEF Answers
<1>14. CASE ReleaseDelete(t)
  <2>1. /\ published' = published /\ outcomes' = outcomes /\ pc'[t] = "linear_error"
        /\ \A u \in Threads \ {t} : Waits(u)
    BY <1>14, <1>t DEF ReleaseDelete, Answer, world
  <2>2. CompletedIsAnswered'
    BY <1>14, <2>1 DEF ReleaseDelete, Remove, Answers, CompletedIsAnswered
  <2>3. \A u \in Threads : HasAnswer(u)'
    BY <2>1, <1>n, AnswersKept
  <2> QED
    BY <2>1, <2>2, <2>3, DocumentsKept DEF Answers
<1>15. CASE Die(t)
  <2>1. Plain /\ pc'[t] = "dead"
    BY <1>15, <1>t DEF Die, Answer, world, store
  <2> QED
    BY <2>1, <1>n, <1>p
<1> QED
  BY <1>1, <1>2, <1>3, <1>4, <1>5, <1>6, <1>7, <1>8, <1>9, <1>10, <1>11, <1>12, <1>13, <1>14,
     <1>15 DEF Step

\* A completed receipt, which refuses every later copy of a delivery, and a
\* cached outcome, which later copies of a command repeat, always stand for an
\* answer that Linear has accepted: whatever threads do, wherever they die and
\* whatever the clocks show.
THEOREM AnswersReachLinear == Spec => [](CompletedIsAnswered /\ CachedIsPublished)
<1>1. Init => Answers
  BY InitType DEF Init, Answers, CachedIsPublished, CompletedIsAnswered, HasAnswer
<1>2. ASSUME Answers, [Next]_vars PROVE Answers'
  <2>1. TypeOK' /\ ReadsReceipt'
    BY <1>2, NextType, NextRead DEF Answers
  <2>2. CASE UNCHANGED vars \/ Install
    <3>1. /\ published' = published /\ receipts' = receipts /\ outcomes' = outcomes
          /\ pc' = pc /\ dlv' = dlv /\ terminal' = terminal
      BY <2>2 DEF vars, Install, world, local
    <3> QED
      BY <1>2, <2>1, <3>1, AnswersKept, DocumentsKept DEF Answers
  <2>3. ASSUME NEW t \in Threads,
               (\E d \in Deliveries, time \in Times : Arrive(t, d, time)) \/ Step(t) \/ Die(t)
        PROVE  Answers'
    BY <1>2, <2>1, <2>3, StepAnswers
  <2> QED
    BY <1>2, <2>2, <2>3 DEF Next
<1>3. Answers => CompletedIsAnswered /\ CachedIsPublished
  BY DEF Answers
<1> QED
  BY <1>1, <1>2, <1>3, PTL DEF Spec

\* The outcome that the copies of a command repeat, which is stored after it is
\* published, is one that Linear has accepted.
THEOREM CachedReachLinear == Spec => []CachedIsPublished
<1>1. Spec => [](CompletedIsAnswered /\ CachedIsPublished)
  BY AnswersReachLinear
<1> QED
  BY <1>1, PTL
=============================================================================
