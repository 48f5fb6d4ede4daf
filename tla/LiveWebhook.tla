----------------------------- MODULE LiveWebhook -----------------------------
(***************************************************************************)
(* LiveProductAgentService.handle_webhook on the threads of the server:    *)
(* the freshness check, the pinned app user, the receipt of a delivery     *)
(* (reserve, complete, release), the command outcome cache, the answer     *)
(* published to Linear and the retry after a token refresh.                *)
(*                                                                         *)
(* The stores are the Firestore ones: one document access is one step, and *)
(* reserve, complete and release are several.  The SQLite receipt store,   *)
(* which runs each of the three under one lock, allows fewer behaviours.   *)
(***************************************************************************)
EXTENDS Integers

CONSTANTS
  Threads,         \* threads of ThreadingHTTPServer
  Deliveries,      \* signed bodies that Linear posts, each any number of times
  Keys, KeyOf,     \* KeyOf[d]: `webhookId:webhookTimestamp`, the receipt key
  SentAt,          \* SentAt[k]: the timestamp in key k
  HashOf,          \* HashOf[d]: the hash of the body
  Ops, OpOf,       \* OpOf[d]: _logical_operation_key of the command in d
  UserOf,          \* UserOf[d]: the app user that d names
  Terminals,       \* terminal activities (type and body)
  ErrorTerminal,   \* the one published when no unique prompt is found
  Tolerance,       \* freshness window of verify_timestamp
  StaleAfter,      \* age after which reserve takes a reservation over
  LinearErrors,    \* errors that calls of Linear may raise: {"auth", "api"}
  MayDie,          \* whether another exception or a crash may end a thread
  Times,           \* BOUND: the times that the clocks of the instances show
  MaxArrivals      \* BOUND: deliveries received

ASSUME ConstantsAssumption ==
  /\ Deliveries # {} /\ KeyOf \in [Deliveries -> Keys] /\ SentAt \in [Keys -> Nat]
  /\ OpOf \in [Deliveries -> Ops] /\ Ops \cap Keys = {}
  /\ Tolerance \in Nat /\ StaleAfter \in Nat
  /\ LinearErrors \subseteq {"auth", "api"} /\ MayDie \in BOOLEAN
  /\ Times \subseteq Nat /\ MaxArrivals \in Nat
  /\ ErrorTerminal \in Terminals

VARIABLES
  arrivals,        \* deliveries received so far
  writable,        \* a token with the write scope is stored
  pinned,          \* the metadata app_user_id, "none" before the first webhook
  receipts,        \* the receipt documents, by key
  outcomes,        \* the outcome documents: operation or receipt key -> terminal
  published,       \* terminal activities that Linear has accepted
  pc,              \* the next step of each thread, or its answer
  dlv, now,        \* the delivery it handles, and when it arrived
  read,            \* the receipt that complete or release has read
  terminal,        \* the terminal activity to publish
  refreshed        \* is this the attempt after a token refresh

store == <<writable, pinned, receipts, outcomes>>
world == <<arrivals, published>>
local == <<dlv, now, read, terminal, refreshed>>
vars  == <<arrivals, writable, pinned, receipts, outcomes, published,
           pc, dlv, now, read, terminal, refreshed>>

Receipts  == [hash : {HashOf[d] : d \in Deliveries}, at : Nat,
              status : {"reserved", "completed"}]
NoReceipt == [hash |-> "none", at |-> 0, status |-> "absent"]
None      == "none"

Answered == {"idle", "stale", "wrong_user", "unavailable", "duplicate", "conflict",
             "linear_error", "accepted", "dead"}
\* The labels at which a thread works on a delivery it has reserved.
Holding  == {"resolve", "thought", "thought_cached", "compute", "publish",
             "publish_cached", "publish_error", "store_outcome", "store_error", "refresh", "complete_get", "complete_set", "release_get", "release_delete"}
Working  == {"get_user", "set_user", "load_installation", "reserve_create", "reserve_get",
             "reserve_set"} \cup Holding

Key(t)  == KeyOf[dlv[t]]
Hash(t) == HashOf[dlv[t]]
Op(t)   == OpOf[dlv[t]]

Put(f, k, d) == [x \in DOMAIN f \cup {k} |-> IF x = k THEN d ELSE f[x]]
Remove(f, k) == [x \in DOMAIN f \ {k} |-> f[x]]

NoDelivery == CHOOSE d \in Deliveries : TRUE

Goto(t, label) == pc' = [pc EXCEPT ![t] = label]

Continue(t, label) == Goto(t, label) /\ UNCHANGED local

\* The request is answered and the thread forgets it.
Answer(t, label) ==
  /\ Goto(t, label)
  /\ dlv' = [dlv EXCEPT ![t] = NoDelivery]
  /\ now' = [now EXCEPT ![t] = 0]
  /\ read' = [read EXCEPT ![t] = NoReceipt]
  /\ terminal' = [terminal EXCEPT ![t] = ErrorTerminal]
  /\ refreshed' = [refreshed EXCEPT ![t] = FALSE]

Init ==
  /\ arrivals = 0 /\ writable \in BOOLEAN /\ pinned = None
  /\ receipts = << >> /\ outcomes = << >>
  /\ published = {}
  /\ pc = [t \in Threads |-> "idle"]
  /\ dlv = [t \in Threads |-> NoDelivery]
  /\ now = [t \in Threads |-> 0]
  /\ read = [t \in Threads |-> NoReceipt]
  /\ terminal = [t \in Threads |-> ErrorTerminal]
  /\ refreshed = [t \in Threads |-> FALSE]

-----------------------------------------------------------------------------
(* The environment *)

\* complete_installation saves a token only if it has the write scope.
Install ==
  /\ ~writable
  /\ writable' = TRUE
  /\ UNCHANGED <<world, pinned, receipts, outcomes, pc, local>>

-----------------------------------------------------------------------------
(* Checks before the reservation *)

\* verify_timestamp: the window is symmetric and its borders are inside.
Fresh_Unchecked(k, n) == TRUE
Fresh(k, n) == n - SentAt[k] <= Tolerance /\ SentAt[k] - n <= Tolerance

\* The server reads its clock once, when the request arrives.
Arrive(t, d, time) ==
  /\ pc[t] \in Answered
  /\ arrivals < MaxArrivals
  /\ arrivals' = arrivals + 1
  /\ IF Fresh(KeyOf[d], time)
     THEN /\ Goto(t, "get_user")
          /\ dlv' = [dlv EXCEPT ![t] = d]
          /\ now' = [now EXCEPT ![t] = time]
          /\ UNCHANGED <<read, terminal, refreshed>>
     ELSE Answer(t, "stale")
  /\ UNCHANGED <<published, store>>

\* The first app user seen is pinned: a read, a test and a write.
GetUser(t) ==
  /\ pc[t] = "get_user"
  /\ CASE pinned = None            -> Continue(t, "set_user")
       [] pinned = UserOf[dlv[t]]  -> Continue(t, "load_installation")
       [] OTHER                    -> Answer(t, "wrong_user")
  /\ UNCHANGED <<world, store>>

SetUser(t) ==
  /\ pc[t] = "set_user"
  /\ pinned' = UserOf[dlv[t]]
  /\ Continue(t, "load_installation")
  /\ UNCHANGED <<world, writable, receipts, outcomes>>

LoadInstallation(t) ==
  /\ pc[t] = "load_installation"
  /\ IF writable THEN Continue(t, "reserve_create") ELSE Answer(t, "unavailable")
  /\ UNCHANGED <<world, store>>

-----------------------------------------------------------------------------
(* The receipt *)

Reservation_NoStatus(t) == [hash |-> Hash(t), at |-> now[t]]
Reservation(t) == [hash |-> Hash(t), at |-> now[t], status |-> "reserved"]

ReserveCreate(t) ==
  /\ pc[t] = "reserve_create"
  /\ IF Key(t) \in DOMAIN receipts
     THEN Continue(t, "reserve_get") /\ UNCHANGED receipts
     ELSE Continue(t, "resolve") /\ receipts' = Put(receipts, Key(t), Reservation(t))
  /\ UNCHANGED <<world, writable, pinned, outcomes>>

\* A receipt in this state refuses further deliveries at the given time.
Refuses_OffByOne(r, time) == r.status = "completed" \/ time - r.at < StaleAfter
Refuses(r, time) == r.status = "completed" \/ time - r.at <= StaleAfter

\* Mutant of ReserveGet: a refused delivery is released.
ReserveGet_Releases(t) ==
  /\ pc[t] = "reserve_get"
  /\ Continue(t, "release_get")
  /\ UNCHANGED <<world, store>>

\* The receipt may have been released since reserve_create found it.
ReserveGet(t) ==
  /\ pc[t] = "reserve_get"
  /\ \/ Key(t) \notin DOMAIN receipts /\ Answer(t, "conflict")
     \/ /\ Key(t) \in DOMAIN receipts /\ Refuses(receipts[Key(t)], now[t])
        /\ Answer(t, IF receipts[Key(t)].hash = Hash(t) THEN "duplicate" ELSE "conflict")
     \/ /\ Key(t) \in DOMAIN receipts /\ ~Refuses(receipts[Key(t)], now[t])
        /\ Continue(t, "reserve_set")
  /\ UNCHANGED <<world, store>>

\* Taking a stale reservation over.
ReserveSet(t) ==
  /\ pc[t] = "reserve_set"
  /\ receipts' = Put(receipts, Key(t), Reservation(t))
  /\ Continue(t, "resolve")
  /\ UNCHANGED <<world, writable, pinned, outcomes>>

\* complete and release read the receipt, compare its hash, and write.
ReadReceipt(t, write, done) ==
  /\ IF Key(t) \in DOMAIN receipts /\ receipts[Key(t)].hash = Hash(t)
     THEN /\ Goto(t, write)
          /\ read' = [read EXCEPT ![t] = receipts[Key(t)]]
          /\ UNCHANGED <<dlv, now, terminal, refreshed>>
     ELSE Answer(t, done)
  /\ UNCHANGED <<world, store>>

CompleteGet(t) == pc[t] = "complete_get" /\ ReadReceipt(t, "complete_set", "accepted")
ReleaseGet(t)  == pc[t] = "release_get" /\ ReadReceipt(t, "release_delete", "linear_error")

CompleteSet(t) ==
  /\ pc[t] = "complete_set"
  /\ receipts' = Put(receipts, Key(t), [hash |-> read[t].hash, at |-> read[t].at,
                                        status |-> "completed"])
  /\ Answer(t, "accepted")
  /\ UNCHANGED <<world, writable, pinned, outcomes>>

\* Mutant of ReleaseDelete: the receipt is kept.
ReleaseDelete_Kept(t) ==
  /\ pc[t] = "release_delete"
  /\ Answer(t, "linear_error")
  /\ UNCHANGED <<world, store>>

ReleaseDelete(t) ==
  /\ pc[t] = "release_delete"
  /\ receipts' = Remove(receipts, Key(t))
  /\ Answer(t, "linear_error")
  /\ UNCHANGED <<world, writable, pinned, outcomes>>

-----------------------------------------------------------------------------
(* Processing the session event *)

\* A call of Linear raises: an authentication error of the first attempt is
\* answered by a token refresh; every other error releases the receipt.
AfterError_Completes(t, e) == Goto(t, "complete_get")
AfterError_Unhandled(t, e) == Goto(t, "linear_error")
AfterError(t, e) ==
  Goto(t, IF e = "auth" /\ ~refreshed[t] THEN "refresh" ELSE "release_get")

LinearFails(t) == \E e \in LinearErrors : AfterError(t, e)

\* Reads of the issue and of the prompt, then of the cached outcome.  Without
\* a unique prompt an error is published under the key of the delivery.
Resolve(t) ==
  /\ pc[t] = "resolve"
  /\ \/ /\ Op(t) \in DOMAIN outcomes
        /\ terminal' = [terminal EXCEPT ![t] = outcomes[Op(t)]]
        /\ Goto(t, "thought_cached")
     \/ Op(t) \notin DOMAIN outcomes /\ Goto(t, "thought") /\ UNCHANGED terminal
     \/ terminal' = [terminal EXCEPT ![t] = ErrorTerminal] /\ Goto(t, "publish_error")
     \/ LinearFails(t) /\ UNCHANGED terminal
  /\ UNCHANGED <<world, store, dlv, now, read, refreshed>>

\* The ephemeral thought is published whether or not the outcome is cached.
Thought(t) ==
  /\ \/ pc[t] = "thought" /\ (Goto(t, "compute") \/ LinearFails(t))
     \/ pc[t] = "thought_cached" /\ (Goto(t, "publish_cached") \/ LinearFails(t))
  /\ UNCHANGED <<world, store, local>>

\* The command is carried out (approval, Product Brief, model call).  Every
\* exception of it, those of Linear too, becomes an error terminal.
Compute(t) ==
  /\ pc[t] = "compute"
  /\ \E x \in Terminals : terminal' = [terminal EXCEPT ![t] = x]
  /\ Goto(t, "publish")
  /\ UNCHANGED <<world, store, dlv, now, read, refreshed>>

\* The key of the outcome: the logical command, or the delivery itself.
OutcomeKey(t) == IF pc[t] \in {"publish_error", "store_error"} THEN Key(t) ELSE Op(t)

AfterPublish(t) ==
  CASE pc[t] = "publish" -> "store_outcome"
    [] pc[t] = "publish_error" -> "store_error"
    [] OTHER -> "complete_get"

\* Mutant of Publish: an error of the call is swallowed.
Publish_Swallows(t) ==
  /\ pc[t] \in {"publish", "publish_error", "publish_cached"}
  /\ Goto(t, AfterPublish(t))
  /\ published' = published \cup {<<OutcomeKey(t), terminal[t]>>} \/ UNCHANGED published
  /\ UNCHANGED <<arrivals, store, dlv, now, read, terminal, refreshed>>

\* A call that raises may still have been carried out by Linear.  One that does
\* not raise counts as published: the code asks for "success" and never reads it.
Publish(t) ==
  /\ pc[t] \in {"publish", "publish_error", "publish_cached"}
  /\ \/ /\ published' = published \cup {<<OutcomeKey(t), terminal[t]>>}
        /\ (Goto(t, AfterPublish(t)) \/ LinearFails(t))
     \/ UNCHANGED published /\ LinearFails(t)
  /\ UNCHANGED <<arrivals, store, dlv, now, read, terminal, refreshed>>

\* The outcome is stored after it was published; an existing one is kept.
StoreOutcome(t) ==
  /\ pc[t] \in {"store_outcome", "store_error"}
  /\ outcomes' = IF OutcomeKey(t) \in DOMAIN outcomes THEN outcomes
                 ELSE Put(outcomes, OutcomeKey(t), terminal[t])
  /\ Goto(t, "complete_get")
  /\ terminal' = [terminal EXCEPT ![t] = ErrorTerminal]
  /\ UNCHANGED <<world, writable, pinned, receipts, dlv, now, read, refreshed>>

\* The scope that the refreshed token has is not checked before the retry.
Refresh(t) ==
  /\ pc[t] = "refresh"
  /\ \/ /\ writable' \in BOOLEAN
        /\ refreshed' = [refreshed EXCEPT ![t] = TRUE]
        /\ Goto(t, "resolve")
     \/ /\ LinearErrors # {} /\ Goto(t, "release_get")
        /\ UNCHANGED <<writable, refreshed>>
  /\ UNCHANGED <<world, pinned, receipts, outcomes, dlv, now, read, terminal>>

-----------------------------------------------------------------------------
(* Failure *)

\* Any other exception leaves handle_webhook, and a crash ends all threads:
\* no handler runs and the reservation stays.
Die(t) ==
  /\ MayDie
  /\ pc[t] \in Working
  /\ Answer(t, "dead")
  /\ UNCHANGED <<world, store>>

Step(t) ==
  \/ GetUser(t) \/ SetUser(t) \/ LoadInstallation(t)
  \/ ReserveCreate(t) \/ ReserveGet(t) \/ ReserveSet(t)
  \/ Resolve(t) \/ Thought(t) \/ Compute(t) \/ Publish(t) \/ StoreOutcome(t) \/ Refresh(t)
  \/ CompleteGet(t) \/ CompleteSet(t) \/ ReleaseGet(t) \/ ReleaseDelete(t)

Next ==
  \/ Install
  \/ \E t \in Threads : \/ \E d \in Deliveries, time \in Times : Arrive(t, d, time)
                        \/ Step(t) \/ Die(t)

\* Every thread of the server is eventually scheduled; calls of Linear return
\* or raise because they have a timeout.
Fairness == \A t \in Threads : WF_vars(Step(t))

Spec == Init /\ [][Next]_vars /\ Fairness

-----------------------------------------------------------------------------
(* Properties *)

\* The type invariant: shapes of the documents and of a thread's locals.
TypeOK ==
  /\ arrivals \in Nat /\ writable \in BOOLEAN
  /\ pinned \in {UserOf[d] : d \in Deliveries} \cup {None}
  /\ DOMAIN receipts \subseteq Keys /\ receipts \in [DOMAIN receipts -> Receipts]
  /\ DOMAIN outcomes \subseteq Ops \cup Keys /\ outcomes \in [DOMAIN outcomes -> Terminals]
  /\ published \subseteq (Ops \cup Keys) \X Terminals
  /\ pc \in [Threads -> Answered \cup Working]
  /\ dlv \in [Threads -> Deliveries]
  /\ now \in [Threads -> Nat]
  /\ read \in [Threads -> Receipts \cup {NoReceipt}]
  /\ terminal \in [Threads -> Terminals]
  /\ refreshed \in [Threads -> BOOLEAN]

\* While the freshness window is at most half the takeover age, a delivery is
\* processed by one thread at a time, although reserve, complete and release
\* are not atomic and do not name their owner.
OneHolder ==
  \A t, u \in Threads :
    t # u /\ pc[t] \in Holding /\ pc[u] \in Holding => Key(t) # Key(u)

\* The thread that holds a delivery finds its own reservation until it
\* settles it: nobody completes, releases or takes over somebody else's.
HolderOwnsReceipt ==
  \A t \in Threads :
    pc[t] \in Holding =>
      Key(t) \in DOMAIN receipts /\ receipts[Key(t)] = Reservation(t)

\* A completed receipt, which refuses every later copy of the delivery, means
\* that an answer to the command or to the delivery reached Linear.
CompletedIsAnswered ==
  \A k \in DOMAIN receipts :
    receipts[k].status = "completed" =>
      \E d \in Deliveries, x \in Terminals :
        KeyOf[d] = k /\ (<<OpOf[d], x>> \in published \/ <<k, x>> \in published)

\* The cached outcome that later copies of a command repeat is a terminal that
\* Linear has accepted for this command.
CachedIsPublished ==
  \A k \in DOMAIN outcomes : <<k, outcomes[k]>> \in published

\* A completed receipt stays completed: its key is never processed again.
CompletedForever ==
  [][\A k \in DOMAIN receipts :
       receipts[k].status = "completed" =>
         k \in DOMAIN receipts' /\ receipts'[k].status = "completed"]_vars

\* The receipts as a gate: deliveries at work, done, and those of which only an
\* abandoned reservation is left.
Work == {<<Key(t), t>> : t \in {u \in Threads : pc[u] \in Holding}}
Done == {k \in DOMAIN receipts : receipts[k].status = "completed"}
Lost == {k \in DOMAIN receipts \ Done : \A t \in Threads : <<k, t>> \notin Work}

Gate == INSTANCE DeliveryGate WITH Workers <- Threads, work <- Work, done <- Done, lost <- Lost

\* The handler, whose reserve, complete and release are several document
\* accesses, keeps what DeliveryGate promises: one thread at a time works on a
\* delivery, a completed one is never processed again, and neither is one
\* whose thread has died: its takeover comes after the freshness check has
\* closed.
GateSpec == Gate!Spec

\* Without crashes a copy is refused as a duplicate only while the delivery is
\* done or in the hands of a thread.
DuplicateIsHandled ==
  [][\A t \in Threads :
       pc[t] # "duplicate" /\ pc'[t] = "duplicate" =>
         \/ receipts[Key(t)].status = "completed"
         \/ \E u \in Threads : pc[u] \in Holding /\ Key(u) = Key(t)]_vars

\* Without crashes no reservation is left behind: it is completed or released.
ReservationSettles ==
  \A k \in Keys :
    (k \in DOMAIN receipts /\ receipts[k].status = "reserved")
      ~> (k \notin DOMAIN receipts \/ receipts[k].status = "completed")
=============================================================================
