----------------------- MODULE OAuthInstallation_proofs -----------------------
(***************************************************************************)
(* The properties of OAuthInstallation, for any number of threads, states, *)
(* grants and requests.                                                    *)
(***************************************************************************)
EXTENDS OAuthInstallation, FiniteSetTheorems, TLAPS

\* The callbacks that have read a state in time and will be let through.
Readers(s) == {t \in Threads : pc[t] = "pop_delete" /\ fresh[t] /\ request[t].state = s}

\* A state that can still be read has let nobody through: its document goes in
\* the step that does, and it is never drawn again.  Those that are let through
\* later have read it before, and they become fewer.
UsedOnce ==
  /\ \A s \in States : s \notin issued \/ s \in DOMAIN oauth_states => accepted[s] = 0
  /\ \A s \in States : accepted[s] + Cardinality(Readers(s)) <= Cardinality(Threads)
  /\ \A t \in Threads : fresh[t] /\ pc[t] = "pop_delete" => request[t].state \in issued
  /\ backend = "sqlite" =>
       /\ \A t \in Threads : pc[t] # "pop_delete"
       /\ \A s \in States : accepted[s] <= 1

\* A pair in use belongs to a writable grant and is not from the future.
Sound(p) == p.grant \in Writable /\ p.generation <= newest[p.grant]

HandsSound ==
  /\ \A t \in Threads :
       /\ pc[t] \in {"pop", "pop_delete", "exchange"} => request[t] \in Callbacks
       /\ pc[t] \in {"save", "call", "refresh", "save_refreshed", "retry"} => hand[t] \in Pairs
       /\ hand[t] \in Pairs => Sound(hand[t])
  /\ installation \in Pairs => Sound(installation)

\* A pair about to be saved is the newest of its grant and nobody else has it,
\* so nobody can spend it.
PendingIsMine ==
  \A t \in Threads :
    pc[t] \in {"save", "save_refreshed"} =>
      /\ Newest(hand[t]) /\ installation # hand[t]
      /\ \A u \in Threads \ {t} : hand[u] # hand[t]

IInv == TypeOK /\ UsedOnce /\ HandsSound /\ PendingIsMine /\ StoredCanWrite /\ NewestIsKept

-----------------------------------------------------------------------------

LEMMA NoPairFacts == NoPair \notin Pairs /\ NoPair.grant \notin Writable
BY ConstantsAssumption DEF NoPair, Pairs

\* The initial states.
LEMMA InitInv == Init => IInv
<1> SUFFICES ASSUME Init PROVE IInv
  OBVIOUS
<1> USE ConstantsAssumption, NoPairFacts DEF Init
<1>1. TypeOK
  BY DEF TypeOK, Answers, NoCallback
<1>2. UsedOnce
  <2>1. \A s \in States : Readers(s) = {}
    BY DEF Readers
  <2>2. IsFiniteSet(Threads) /\ Cardinality({}) = 0 /\ Cardinality(Threads) \in Nat
    BY FS_EmptySet, FS_CardinalityType
  <2>3. \A s \in States : accepted[s] + Cardinality(Readers(s)) <= Cardinality(Threads)
    <3> SUFFICES ASSUME NEW s \in States
                 PROVE  accepted[s] + Cardinality(Readers(s)) <= Cardinality(Threads)
      OBVIOUS
    <3>1. accepted[s] = 0
      OBVIOUS
    <3>2. Cardinality(Readers(s)) = 0
      BY <2>1, <2>2
    <3> QED
      BY <2>2, <3>1, <3>2
  <2>4. /\ \A s \in States : accepted[s] = 0
        /\ \A t \in Threads : pc[t] # "pop_delete"
    OBVIOUS
  <2> QED
    BY <2>3, <2>4 DEF UsedOnce
<1>3. HandsSound /\ PendingIsMine /\ StoredCanWrite /\ NewestIsKept
  BY DEF HandsSound, PendingIsMine, StoredCanWrite, NewestIsKept
<1> QED
  BY <1>1, <1>2, <1>3 DEF IInv

\* Every step keeps the types.
LEMMA TypeStep ==
  ASSUME IInv, [Next]_vars
  PROVE  TypeOK'
<1> USE ConstantsAssumption, NoPairFacts DEF IInv, TypeOK, Goto
<1>1. CASE UNCHANGED vars
  BY <1>1 DEF vars
<1>2. CASE Tick
  BY <1>2 DEF Tick, states, linear, local
<1>3. ASSUME NEW g \in Grants, Expire(g) PROVE TypeOK'
  BY <1>3 DEF Expire, states, local
<1>4. ASSUME NEW s \in States, Begin(s) PROVE TypeOK'
  BY <1>4 DEF Begin, Put, linear, local
<1> SUFFICES ASSUME NEW t \in Threads,
                    \/ \E c \in Callbacks : Callback(t, c)
                    \/ Webhook(t)
                    \/ Pop(t) \/ PopGet(t) \/ PopDelete(t) \/ Exchange(t) \/ Save(t)
                    \/ Load(t) \/ Call(t) \/ Refresh(t) \/ SaveRefreshed(t)
                    \/ Die(t)
             PROVE  TypeOK'
  BY <1>1, <1>2, <1>3, <1>4 DEF Next
<1>5. ASSUME NEW c \in Callbacks, Callback(t, c) PROVE TypeOK'
  BY <1>5 DEF Callback, Receive, states, linear, Working
<1>6. CASE Webhook(t)
  BY <1>6 DEF Webhook, Receive, states, linear, Working
<1>7. CASE Pop(t)
  <2> HandsSound BY DEF IInv
  <2> request[t].state \in States
    BY <1>7 DEF HandsSound, Pop, Callbacks
  <2>1. CASE Fresh(request[t].state)
    BY <1>7, <2>1 DEF Pop, Decide, Remove, linear, local, Working
  <2>2. CASE ~Fresh(request[t].state)
    BY <1>7, <2>2 DEF Pop, Decide, Answer, Remove, linear, Answers
  <2> QED
    BY <2>1, <2>2
<1>8. CASE PopGet(t)
  BY <1>8 DEF PopGet, Fresh, states, linear, Working
<1>9. CASE PopDelete(t)
  <2> HandsSound BY DEF IInv
  <2> request[t].state \in States
    BY <1>9 DEF HandsSound, PopDelete, Callbacks
  <2>1. CASE fresh[t]
    BY <1>9, <2>1 DEF PopDelete, Decide, Remove, linear, local, Working
  <2>2. CASE ~fresh[t]
    BY <1>9, <2>2 DEF PopDelete, Decide, Answer, Remove, linear, Answers
  <2> QED
    BY <2>1, <2>2
<1>10. CASE Exchange(t)
  <2> HandsSound BY DEF IInv
  <2> request[t].grant \in Grants
    BY <1>10 DEF HandsSound, Exchange, Callbacks
  <2>1. /\ newest' \in [Grants -> Nat]
        /\ hand' \in [Threads -> Pairs \cup {NoPair}]
    BY <1>10 DEF Exchange, Answer, Pairs
  <2>2. pc' \in [Threads -> Answers \cup Working]
    BY <1>10 DEF Exchange, Answer, Answers, Working
  <2>3. /\ request' \in [Threads -> Callbacks \cup {NoCallback}]
        /\ fresh' \in [Threads -> BOOLEAN]
    BY <1>10 DEF Exchange, Answer
  <2> QED
    BY <1>10, <2>1, <2>2, <2>3 DEF Exchange, states
<1>11. CASE Save(t)
  BY <1>11 DEF Save, Answer, states, linear, Answers
<1>12. CASE Load(t)
  BY <1>12 DEF Load, Answer, states, linear, Answers, Working
<1>13. CASE Call(t)
  BY <1>13 DEF Call, Answer, states, linear, local, Answers, Working
<1>14. CASE Refresh(t)
  <2> HandsSound BY DEF IInv
  <2> hand[t].grant \in Grants
    BY <1>14 DEF HandsSound, Refresh, Pairs
  <2>1. /\ newest' \in [Grants -> Nat] /\ expired' \subseteq Grants /\ lost' \subseteq Grants
        /\ hand' \in [Threads -> Pairs \cup {NoPair}]
    BY <1>14 DEF Refresh, Answer, NextPair, Pairs, linear
  <2>2. pc' \in [Threads -> Answers \cup Working]
    BY <1>14 DEF Refresh, Answer, Answers, Working
  <2>3. /\ request' \in [Threads -> Callbacks \cup {NoCallback}]
        /\ fresh' \in [Threads -> BOOLEAN]
    BY <1>14 DEF Refresh, Answer
  <2> QED
    BY <1>14, <2>1, <2>2, <2>3 DEF Refresh, states
<1>15. CASE SaveRefreshed(t)
  BY <1>15 DEF SaveRefreshed, states, linear, local, Working
<1>16. CASE Die(t)
  <2> HandsSound BY DEF IInv
  <2> pc[t] = "save_refreshed" => hand[t].grant \in Grants
    BY DEF HandsSound, Pairs
  <2> QED
    BY <1>16 DEF Die, Answer, states, linear, Answers, Working
<1> QED
  BY <1>5, <1>6, <1>7, <1>8, <1>9, <1>10, <1>11, <1>12, <1>13, <1>14, <1>15, <1>16

-----------------------------------------------------------------------------

\* The readers of a state are threads; one fewer of them is one fewer.
LEMMA ReadersFinite ==
  ASSUME NEW S \in SUBSET Threads
  PROVE  /\ IsFiniteSet(S) /\ Cardinality(S) \in Nat /\ Cardinality(Threads) \in Nat
         /\ Cardinality(S) <= Cardinality(Threads)
         /\ \A R \in SUBSET S : Cardinality(R) <= Cardinality(S)
         /\ \A t \in S : Cardinality(S \ {t}) + 1 = Cardinality(S)
<1>1. IsFiniteSet(Threads)
  BY ConstantsAssumption
<1>2. IsFiniteSet(S) /\ Cardinality(S) <= Cardinality(Threads)
  BY <1>1, FS_Subset
<1>3. Cardinality(S) \in Nat /\ Cardinality(Threads) \in Nat
  BY <1>1, <1>2, FS_CardinalityType
<1>4. \A R \in SUBSET S : Cardinality(R) <= Cardinality(S)
  BY <1>2, FS_Subset
<1>5. ASSUME NEW t \in S PROVE Cardinality(S \ {t}) + 1 = Cardinality(S)
  <2>1. IsFiniteSet(S \ {t}) /\ Cardinality(S \ {t}) = Cardinality(S) - 1
    BY <1>2, FS_RemoveElement
  <2> QED
    BY <2>1, <1>3
<1> QED
  BY <1>2, <1>3, <1>4, <1>5

\* Only the steps of pop change who may be let through.
LEMMA PopsOnly ==
  ASSUME IInv, [Next]_vars
  PROVE  /\ backend' = backend
         /\ \/ /\ UNCHANGED accepted /\ issued \subseteq issued'
               /\ DOMAIN oauth_states' \ DOMAIN oauth_states \subseteq issued' \ issued
               /\ \A t \in Threads : pc'[t] = "pop_delete" =>
                    pc[t] = pc'[t] /\ UNCHANGED <<fresh[t], request[t]>>
            \/ \E t \in Threads : Pop(t) \/ PopGet(t) \/ PopDelete(t)
<1> USE DEF IInv, TypeOK, Goto, states, local
<1>1. CASE Tick \/ (\E g \in Grants : Expire(g)) \/ UNCHANGED vars
  BY <1>1 DEF vars, Tick, Expire
<1>2. CASE \E s \in States : Begin(s)
  BY <1>2 DEF Begin, Put
<1>3. CASE \E t \in Threads : Webhook(t) \/ \E c \in Callbacks : Callback(t, c)
  BY <1>3 DEF Receive, Callback, Webhook
<1>4. CASE \E t \in Threads : Exchange(t) \/ Save(t) \/ Load(t)
  BY <1>4 DEF Exchange, Save, Load, Answer
<1>5. CASE \E t \in Threads : Call(t) \/ Refresh(t) \/ SaveRefreshed(t) \/ Die(t)
  BY <1>5 DEF Call, Refresh, SaveRefreshed, Die, Answer
<1>6. backend' = backend
  BY DEF vars, Next, Tick, Expire, Begin, Receive, Callback, Webhook, Pop, PopGet, PopDelete,
         Exchange, Save, Load, Call, Refresh, SaveRefreshed, Die
<1> QED
  BY <1>1, <1>2, <1>3, <1>4, <1>5, <1>6 DEF Next

\* A state lets callbacks through only before its document is gone, or where
\* they have read it before that.
LEMMA UsedOnceStep ==
  ASSUME IInv, [Next]_vars, TypeOK'
  PROVE  UsedOnce'
<1> DEFINE Room(s) == accepted[s] + Cardinality(Readers(s)) <= Cardinality(Threads)
<1>0. /\ pc \in [Threads -> Answers \cup Working] /\ accepted \in [States -> Nat]
      /\ fresh \in [Threads -> BOOLEAN] /\ DOMAIN request = Threads
      /\ DOMAIN oauth_states \subseteq issued
  BY DEF IInv, TypeOK
<1>1. \A s \in States : Room(s)
  BY DEF IInv, UsedOnce
<1>2. \A s \in States : s \notin issued \/ s \in DOMAIN oauth_states => accepted[s] = 0
  BY DEF IInv, UsedOnce
<1>3. backend = "sqlite" => (\A t \in Threads : pc[t] # "pop_delete")
                            /\ \A s \in States : accepted[s] <= 1
  BY DEF IInv, UsedOnce
<1>12. \A t \in Threads : fresh[t] /\ pc[t] = "pop_delete" => request[t].state \in issued
  BY DEF IInv, UsedOnce
<1>4. \A s \in States : Readers(s) \in SUBSET Threads /\ Readers(s)' \in SUBSET Threads
  BY DEF Readers
<1>5. ASSUME NEW s \in States, accepted'[s] = accepted[s], Readers(s)' \subseteq Readers(s)
      PROVE  Room(s)'
  BY <1>0, <1>1, <1>4, <1>5, ReadersFinite
<1>6. ASSUME NEW s \in States, accepted'[s] = 0 PROVE Room(s)'
  BY <1>4, <1>6, ReadersFinite
<1> HIDE DEF Room
<1>7. CASE /\ UNCHANGED accepted /\ issued \subseteq issued'
           /\ DOMAIN oauth_states' \ DOMAIN oauth_states \subseteq issued' \ issued
           /\ \A t \in Threads : pc'[t] = "pop_delete" =>
                pc[t] = pc'[t] /\ UNCHANGED <<fresh[t], request[t]>>
  <2>1. \A s \in States : Room(s)'
    BY <1>5, <1>7 DEF Readers
  <2> QED
    BY <2>1, <1>2, <1>3, <1>7, <1>12, PopsOnly DEF UsedOnce, Room
<1>8. ASSUME NEW t \in Threads, Pop(t) PROVE UsedOnce'
  <2>1. request[t] \in Callbacks /\ request[t].state \in States
    BY <1>8 DEF IInv, HandsSound, Pop, Callbacks
  <2>2. /\ DOMAIN oauth_states' = DOMAIN oauth_states \ {request[t].state}
        /\ issued' = issued /\ backend' = "sqlite" /\ backend = "sqlite"
    BY <1>8 DEF Pop, Remove
  <2>3. \A u \in Threads : pc'[u] # "pop_delete"
    BY <1>0, <1>3, <1>8, <2>2 DEF Pop, Decide, Answer, Goto
  <2>4. \A s \in States : Readers(s)' = {}
    BY <2>3 DEF Readers
  <2>5. Cardinality({}) = 0 /\ Cardinality(Threads) \in Nat /\ Cardinality(Threads) >= 1
    <3>1. Cardinality({t}) = 1 /\ Cardinality({t}) <= Cardinality(Threads)
      BY ReadersFinite, FS_Singleton
    <3> QED
      BY <3>1, FS_EmptySet, ReadersFinite
  <2>6. /\ \A s \in States : accepted'[s] \in Nat /\ accepted'[s] <= 1
        /\ \A s \in States : s \notin issued' \/ s \in DOMAIN oauth_states' => accepted'[s] = 0
    <3>1. CASE Fresh(request[t].state)
      <4>1. accepted' = [accepted EXCEPT ![request[t].state] = @ + 1]
        BY <1>8, <3>1 DEF Pop, Decide
      <4>2. accepted[request[t].state] = 0 /\ request[t].state \in issued
        BY <1>0, <1>2, <2>1, <3>1 DEF Fresh
      <4> QED
        BY <1>0, <1>2, <1>3, <2>1, <2>2, <4>1, <4>2
    <3>2. CASE ~Fresh(request[t].state)
      BY <1>0, <1>2, <1>3, <1>8, <2>2, <3>2 DEF Pop, Decide
    <3> QED
      BY <3>1, <3>2
  <2>7. \A s \in States : Room(s)'
    BY <2>4, <2>5, <2>6 DEF Room
  <2> QED
    BY <2>3, <2>6, <2>7 DEF UsedOnce, Room
<1>9. ASSUME NEW t \in Threads, PopGet(t) PROVE UsedOnce'
  <2>1. /\ UNCHANGED <<accepted, issued, oauth_states, request>> /\ backend' = "firestore"
        /\ pc[t] = "pop" /\ fresh'[t] = Fresh(request[t].state)
        /\ \A u \in Threads \ {t} : pc'[u] = pc[u] /\ fresh'[u] = fresh[u]
    BY <1>0, <1>9 DEF PopGet, Goto, states
  <2>2. ASSUME NEW s \in States PROVE Room(s)'
    <3>1. CASE s \in DOMAIN oauth_states
      BY <1>2, <1>6, <2>1, <3>1
    <3>2. CASE s \notin DOMAIN oauth_states
      <4>1. Readers(s)' \subseteq Readers(s)
        BY <2>1, <3>2 DEF Readers, Fresh
      <4> QED
        BY <1>5, <2>1, <4>1
    <3> QED
      BY <3>1, <3>2
  <2> QED
    BY <1>0, <1>2, <1>12, <2>1, <2>2 DEF UsedOnce, Room, Fresh
<1>10. ASSUME NEW t \in Threads, PopDelete(t) PROVE UsedOnce'
  <2>1. request[t] \in Callbacks /\ request[t].state \in States
    BY <1>10 DEF IInv, HandsSound, PopDelete, Callbacks
  <2>2. /\ DOMAIN oauth_states' = DOMAIN oauth_states \ {request[t].state}
        /\ issued' = issued /\ backend' = backend /\ backend # "sqlite"
        /\ pc[t] = "pop_delete" /\ pc'[t] # "pop_delete"
        /\ \A u \in Threads \ {t} : /\ pc'[u] = pc[u] /\ fresh'[u] = fresh[u]
                                     /\ request'[u] = request[u]
    BY <1>0, <1>3, <1>10 DEF PopDelete, Remove, Decide, Answer, Goto, local
  <2>3. \A s \in States : Readers(s)' = Readers(s) \ {t}
    BY <2>2 DEF Readers
  <2>4. CASE fresh[t]
    <3>1. accepted' = [accepted EXCEPT ![request[t].state] = @ + 1]
      BY <1>10, <2>4 DEF PopDelete, Decide
    <3>2. t \in Readers(request[t].state)
      BY <2>2, <2>4 DEF Readers
    <3>3. ASSUME NEW s \in States, s = request[t].state PROVE Room(s)'
      <4>1. accepted'[s] = accepted[s] + 1 /\ accepted[s] \in Nat
        BY <1>0, <3>1, <3>3
      <4>2. /\ Cardinality(Readers(s)') + 1 = Cardinality(Readers(s))
            /\ Cardinality(Readers(s)) \in Nat /\ Cardinality(Readers(s)') \in Nat
            /\ Cardinality(Threads) \in Nat
        BY <1>4, <2>3, <3>2, <3>3, ReadersFinite
      <4>3. accepted[s] + Cardinality(Readers(s)) <= Cardinality(Threads)
        BY <1>1 DEF Room
      <4> QED
        BY <4>1, <4>2, <4>3 DEF Room
    <3>4. ASSUME NEW s \in States, s # request[t].state PROVE Room(s)'
      BY <1>0, <1>5, <2>3, <3>1, <3>4
    <3>5. \A s \in States : Room(s)'
      BY <3>3, <3>4
    <3>6. \A s \in States : s \notin issued' \/ s \in DOMAIN oauth_states' => accepted'[s] = 0
      <4>1. request[t].state \in issued
        BY <1>12, <2>2, <2>4
      <4> QED
        BY <1>0, <1>2, <2>1, <2>2, <3>1, <4>1
    <3> QED
      BY <1>12, <2>2, <3>5, <3>6 DEF UsedOnce, Room
  <2>5. CASE ~fresh[t]
    <3>1. accepted' = accepted
      BY <1>10, <2>5 DEF PopDelete, Decide
    <3>2. \A s \in States : Room(s)'
      BY <1>5, <2>3, <3>1
    <3> QED
      BY <1>2, <1>12, <2>2, <3>1, <3>2 DEF UsedOnce, Room
  <2> QED
    BY <2>4, <2>5
<1> QED
  BY <1>7, <1>8, <1>9, <1>10, PopsOnly

-----------------------------------------------------------------------------

\* What a thread holds keeps to be sound: newest pairs only get newer.
LEMMA HandsStep ==
  ASSUME IInv, [Next]_vars
  PROVE  HandsSound' /\ StoredCanWrite'
<1> USE NoPairFacts DEF IInv, TypeOK, HandsSound, Sound
<1> DEFINE Good == HandsSound' /\ StoredCanWrite'
<1>1. CASE \/ UNCHANGED vars \/ Tick
           \/ (\E g \in Grants : Expire(g)) \/ (\E s \in States : Begin(s))
  BY <1>1 DEF vars, Tick, Expire, Begin, linear, local, StoredCanWrite
<1> SUFFICES ASSUME NEW t \in Threads,
                    \/ \E c \in Callbacks : Callback(t, c)
                    \/ Webhook(t)
                    \/ Pop(t) \/ PopGet(t) \/ PopDelete(t) \/ Exchange(t) \/ Save(t)
                    \/ Load(t) \/ Call(t) \/ Refresh(t) \/ SaveRefreshed(t)
                    \/ Die(t)
             PROVE  Good
  BY <1>1 DEF Next
<1> USE DEF Goto, StoredCanWrite
<1>2. CASE (\E c \in Callbacks : Callback(t, c)) \/ Webhook(t)
  BY <1>2 DEF Callback, Webhook, Receive, linear
<1>3. CASE Pop(t)
  BY <1>3 DEF Pop, Decide, Answer, linear, local
<1>4. CASE PopGet(t)
  BY <1>4 DEF PopGet, linear
<1>5. CASE PopDelete(t)
  BY <1>5 DEF PopDelete, Decide, Answer, linear, local
<1>6. CASE Exchange(t)
  <2>1. request[t] \in Callbacks
    BY <1>6 DEF Exchange
  <2>2. \A g \in Grants : newest[g] <= newest'[g]
    BY <1>6, <2>1 DEF Exchange, Callbacks
  <2>3. CASE hand' = [hand EXCEPT ![t] = NoPair]
    BY <1>6, <2>2, <2>3, ConstantsAssumption DEF Exchange, Answer, Pairs
  <2>4. CASE hand' # [hand EXCEPT ![t] = NoPair]
    BY <1>6, <2>1, <2>2, <2>4, ConstantsAssumption DEF Exchange, Answer, Pairs, Callbacks
  <2> QED
    BY <2>3, <2>4
<1>7. CASE Save(t)
  BY <1>7 DEF Save, Answer, linear
<1>8. CASE Load(t)
  BY <1>8 DEF Load, Answer, linear
<1>9. CASE Call(t)
  BY <1>9 DEF Call, Answer, linear, local
<1>10. CASE Refresh(t)
  <2>1. hand[t] \in Pairs /\ Sound(hand[t])
    BY <1>10 DEF Refresh
  <2>2. newest' \in [Grants -> Nat] /\ \A g \in Grants : newest[g] <= newest'[g]
    BY <1>10, <2>1 DEF Refresh, Pairs, linear
  <2>3. CASE Answer(t, "error")
    <3>1. /\ pc' = [pc EXCEPT ![t] = "error"] /\ hand' = [hand EXCEPT ![t] = NoPair]
          /\ request' = [request EXCEPT ![t] = NoCallback] /\ installation' = installation
      BY <1>10, <2>3 DEF Refresh, Answer
    <3>2. \A p \in Pairs : Sound(p) => p.grant \in Writable /\ p.generation <= newest'[p.grant]
      BY <2>2, ConstantsAssumption DEF Pairs
    <3> QED
      BY <3>1, <3>2
  <2>4. CASE ~Answer(t, "error")
    BY <1>10, <2>1, <2>2, <2>4, ConstantsAssumption DEF Refresh, NextPair, Pairs
  <2> QED
    BY <2>3, <2>4
<1>11. CASE SaveRefreshed(t)
  BY <1>11 DEF SaveRefreshed, linear, local
<1>12. CASE Die(t)
  BY <1>12 DEF Die, Answer
<1> QED
  BY <1>2, <1>3, <1>4, <1>5, <1>6, <1>7, <1>8, <1>9, <1>10, <1>11, <1>12

-----------------------------------------------------------------------------

\* Nobody gets hold of a pair that another thread is about to save: it is not
\* stored yet, and the newest pair of a grant is made once.
LEMMA PendingStep ==
  ASSUME IInv, [Next]_vars
  PROVE  PendingIsMine'
<1> USE NoPairFacts DEF IInv, TypeOK, HandsSound, Sound, PendingIsMine
<1>1. CASE \/ UNCHANGED vars \/ Tick
           \/ (\E g \in Grants : Expire(g)) \/ (\E s \in States : Begin(s))
  BY <1>1 DEF vars, Tick, Expire, Begin, linear, local, Newest
<1> SUFFICES ASSUME NEW t \in Threads,
                    \/ \E c \in Callbacks : Callback(t, c)
                    \/ Webhook(t)
                    \/ Pop(t) \/ PopGet(t) \/ PopDelete(t) \/ Exchange(t) \/ Save(t)
                    \/ Load(t) \/ Call(t) \/ Refresh(t) \/ SaveRefreshed(t)
                    \/ Die(t)
             PROVE  PendingIsMine'
  BY <1>1 DEF Next
<1> USE DEF Goto, Newest
<1>2. CASE (\E c \in Callbacks : Callback(t, c)) \/ Webhook(t)
  BY <1>2 DEF Callback, Webhook, Receive, linear
<1>3. CASE Pop(t)
  BY <1>3 DEF Pop, Decide, Answer, linear, local
<1>4. CASE PopGet(t)
  BY <1>4 DEF PopGet, linear
<1>5. CASE PopDelete(t)
  BY <1>5 DEF PopDelete, Decide, Answer, linear, local
<1>6. CASE Exchange(t)
  <2>1. request[t] \in Callbacks
    BY <1>6 DEF Exchange
  <2>2. CASE UNCHANGED newest
    BY <1>6, <2>2, ConstantsAssumption DEF Exchange, Answer, Pairs
  <2>3. CASE newest[request[t].grant] = 0 /\ newest' = [newest EXCEPT ![request[t].grant] = 1]
    <3>1. \A u \in Threads : hand[u] \in Pairs => hand[u].grant # request[t].grant
      BY <2>3 DEF Pairs
    <3>2. installation \in Pairs => installation.grant # request[t].grant
      BY <2>3 DEF Pairs
    <3>3. CASE Answer(t, "error") \/ Answer(t, "rejected")
      BY <1>6, <2>1, <2>3, <3>1, <3>2, <3>3 DEF Exchange, Answer, Pairs, Callbacks
    <3>4. CASE ~(Answer(t, "error") \/ Answer(t, "rejected"))
      BY <1>6, <2>1, <2>3, <3>1, <3>2, <3>4 DEF Exchange, Pairs, Callbacks
    <3> QED
      BY <3>3, <3>4
  <2> QED
    BY <1>6, <2>2, <2>3 DEF Exchange
<1>7. CASE Save(t)
  BY <1>7 DEF Save, Answer, linear
<1>8. CASE Load(t)
  BY <1>8 DEF Load, Answer, linear
<1>9. CASE Call(t)
  BY <1>9 DEF Call, Answer, linear, local
<1>10. CASE Refresh(t)
  <2>1. hand[t] \in Pairs /\ Sound(hand[t])
    BY <1>10 DEF Refresh
  <2>2. CASE UNCHANGED newest
    BY <1>10, <2>1, <2>2 DEF Refresh, Answer, Pairs, linear
  <2>3. CASE Newest(hand[t]) /\ newest' = [newest EXCEPT ![hand[t].grant] = @ + 1]
    <3>1. \A u \in Threads : pc[u] \in {"save", "save_refreshed"} => hand[u].grant # hand[t].grant
      BY <1>10, <2>1, <2>3 DEF Refresh, Pairs
    <3>2. CASE Answer(t, "error")
      BY <1>10, <2>1, <2>3, <3>1, <3>2, ConstantsAssumption DEF Refresh, Answer, Pairs
    <3>3. CASE ~Answer(t, "error")
      BY <1>10, <2>1, <2>3, <3>1, <3>3, ConstantsAssumption DEF Refresh, NextPair, Pairs
    <3> QED
      BY <3>2, <3>3
  <2> QED
    BY <1>10, <2>2, <2>3 DEF Refresh, linear
<1>11. CASE SaveRefreshed(t)
  BY <1>11 DEF SaveRefreshed, linear, local
<1>12. CASE Die(t)
  BY <1>12 DEF Die, Answer
<1> QED
  BY <1>2, <1>3, <1>4, <1>5, <1>6, <1>7, <1>8, <1>9, <1>10, <1>11, <1>12

\* The newest pair of the stored grant: it is stored, pending or lost.
LEMMA KeptStep ==
  ASSUME IInv, [Next]_vars
  PROVE  NewestIsKept'
<1> USE NoPairFacts DEF IInv, TypeOK, NewestIsKept, Newest
<1>1. CASE \/ UNCHANGED vars \/ Tick
           \/ (\E g \in Grants : Expire(g)) \/ (\E s \in States : Begin(s))
  BY <1>1 DEF vars, Tick, Expire, Begin, linear, local
<1> SUFFICES ASSUME NEW t \in Threads,
                    \/ \E c \in Callbacks : Callback(t, c)
                    \/ Webhook(t)
                    \/ Pop(t) \/ PopGet(t) \/ PopDelete(t) \/ Exchange(t) \/ Save(t)
                    \/ Load(t) \/ Call(t) \/ Refresh(t) \/ SaveRefreshed(t)
                    \/ Die(t)
             PROVE  NewestIsKept'
  BY <1>1 DEF Next
<1> USE DEF Goto
<1>2. CASE (\E c \in Callbacks : Callback(t, c)) \/ Webhook(t)
  BY <1>2 DEF Callback, Webhook, Receive, linear, Answers
<1>3. CASE Pop(t)
  BY <1>3 DEF Pop, Decide, Answer, linear, local
<1>4. CASE PopGet(t)
  BY <1>4 DEF PopGet, linear
<1>5. CASE PopDelete(t)
  BY <1>5 DEF PopDelete, Decide, Answer, linear, local
<1>6. CASE Exchange(t)
  <2>1. \A u \in Threads \ {t} : UNCHANGED <<pc[u], hand[u]>>
    BY <1>6 DEF Exchange, Answer
  <2>2. \A g \in Grants : newest'[g] = newest[g] \/ newest[g] = 0
    BY <1>6 DEF Exchange
  <2>3. installation # NoPair => newest[installation.grant] # 0
    BY DEF HandsSound, Sound, Pairs
  <2> QED
    BY <1>6, <2>1, <2>2, <2>3 DEF Exchange, Pairs
<1>7. CASE Save(t) \/ SaveRefreshed(t)
  BY <1>7 DEF Save, SaveRefreshed, linear, PendingIsMine
<1>8. CASE Load(t)
  BY <1>8 DEF Load, Answer, linear
<1>9. CASE Call(t)
  BY <1>9 DEF Call, Answer, linear, local
<1>10. CASE Refresh(t)
  <2>1. hand[t] \in Pairs
    BY <1>10 DEF Refresh, HandsSound
  <2>2. \A u \in Threads \ {t} : UNCHANGED <<pc[u], hand[u]>>
    BY <1>10 DEF Refresh, Answer
  <2>3. CASE UNCHANGED newest
    BY <1>10, <2>1, <2>2, <2>3 DEF Refresh, Pairs, linear
  <2>4. CASE newest' = [newest EXCEPT ![hand[t].grant] = @ + 1]
    <3>1. CASE installation.grant = hand[t].grant
      BY <1>10, <2>1, <2>4, <3>1 DEF Refresh, NextPair, Pairs, linear
    <3>2. CASE installation.grant # hand[t].grant
      BY <1>10, <2>1, <2>2, <2>4, <3>2 DEF Refresh, Pairs, linear
    <3> QED
      BY <3>1, <3>2
  <2> QED
    BY <1>10, <2>3, <2>4 DEF Refresh, linear
<1>12. CASE Die(t)
  BY <1>12 DEF Die, Answer
<1> QED
  BY <1>2, <1>3, <1>4, <1>5, <1>6, <1>7, <1>8, <1>9, <1>10, <1>12

-----------------------------------------------------------------------------

\* The invariant holds in every reachable state.
THEOREM Invariance == Spec => []IInv
<1>1. Init => IInv
  BY InitInv
<1>2. IInv /\ [Next]_vars => IInv'
  BY TypeStep, UsedOnceStep, HandsStep, PendingStep, KeptStep DEF IInv
<1> QED
  BY <1>1, <1>2, PTL DEF Spec

\* Every variable keeps its type.
THEOREM TypeCorrect == Spec => []TypeOK
<1>1. IInv => TypeOK
  BY DEF IInv
<1> QED
  BY <1>1, Invariance, PTL

\* A state of begin_installation lets one callback through with the SQLite
\* store, and with the Firestore store no callback that reads it after the
\* first one has deleted it: at most one on each thread.
THEOREM StatesAreSingleUse == Spec => []StateUsedOnce
<1>1. IInv => StateUsedOnce
  <2> SUFFICES ASSUME IInv, NEW s \in States
               PROVE  /\ accepted[s] > 0 => s \notin DOMAIN oauth_states
                      /\ accepted[s] <= IF backend = "sqlite" THEN 1 ELSE Cardinality(Threads)
    BY DEF StateUsedOnce
  <2>1. /\ accepted[s] \in Nat
        /\ s \in DOMAIN oauth_states => accepted[s] = 0
        /\ accepted[s] + Cardinality(Readers(s)) <= Cardinality(Threads)
        /\ backend = "sqlite" => accepted[s] <= 1
    BY DEF IInv, TypeOK, UsedOnce
  <2>2. Cardinality(Readers(s)) \in Nat /\ Cardinality(Threads) \in Nat
    BY ReadersFinite DEF Readers
  <2> QED
    BY <2>1, <2>2
<1> QED
  BY <1>1, Invariance, PTL

\* The stored token can write, although only complete_installation checks it.
THEOREM StoredTokenCanWrite == Spec => []StoredCanWrite
<1>1. IInv => StoredCanWrite
  BY DEF IInv
<1> QED
  BY <1>1, Invariance, PTL

\* Threads that refresh at the same time do not lose the newest token pair.
THEOREM NewestPairIsKept == Spec => []NewestIsKept
<1>1. IInv => NewestIsKept
  BY DEF IInv
<1> QED
  BY <1>1, Invariance, PTL

\* What save_installation stores is the newest pair of its grant.
THEOREM SavesAreNewest == Spec => SavedIsNewest
<1>1. IInv /\ [Next]_vars => [installation' # installation => Newest(installation)']_vars
  <2> SUFFICES ASSUME IInv, [Next]_vars, installation' # installation
               PROVE  Newest(installation)'
    OBVIOUS
  <2>1. PICK t \in Threads : Save(t) \/ SaveRefreshed(t)
    BY DEF Next, vars, Tick, Expire, Begin, Callback, Webhook, Receive, Pop, PopGet, PopDelete,
           Exchange, Load, Call, Refresh, Die
  <2> QED
    BY <2>1 DEF IInv, PendingIsMine, Save, SaveRefreshed, Newest, linear
<1> QED
  BY <1>1, Invariance, PTL DEF Spec, SavedIsNewest

-----------------------------------------------------------------------------
(* What the rest of the server relies on *)

\* A thread stores a pair of a writable grant, the newest there is.
LEMMA StoresChange ==
  ASSUME IInv, [Next]_vars, installation' # installation
  PROVE  installation' \in Pairs /\ Sound(installation)' /\ Newest(installation)'
<1>1. PICK t \in Threads : Save(t) \/ SaveRefreshed(t)
  BY DEF Next, vars, Tick, Expire, Begin, Callback, Webhook, Receive, Pop, PopGet, PopDelete,
         Exchange, Load, Call, Refresh, Die
<1>2. installation' = hand[t] /\ newest' = newest
  BY <1>1 DEF Save, SaveRefreshed, linear
<1>3. hand[t] \in Pairs /\ Sound(hand[t]) /\ Newest(hand[t])
  BY <1>1 DEF IInv, HandsSound, PendingIsMine, Save, SaveRefreshed
<1> QED
  BY <1>2, <1>3 DEF Sound, Newest

\* An installation that can write stays: `writable` of LiveWebhook, which the
\* refresh there may set to anything, never falls.
THEOREM WriteAccessStays ==
  Spec => [][installation.grant \in Writable => installation'.grant \in Writable]_vars
<1>1. IInv /\ [Next]_vars
        => [installation.grant \in Writable => installation'.grant \in Writable]_vars
  BY StoresChange DEF Sound
<1> QED
  BY <1>1, Invariance, PTL DEF Spec

\* Of two pairs of one grant the stored one is never replaced by the older,
\* although every thread saves the pair in its hands without a look.
THEOREM NeverBackToAnOlderPair ==
  Spec => [][installation'.grant = installation.grant
               => installation.generation <= installation'.generation]_vars
<1>1. IInv /\ [Next]_vars
        => [installation'.grant = installation.grant
              => installation.generation <= installation'.generation]_vars
  <2> SUFFICES ASSUME IInv, [Next]_vars, installation' # installation,
                      installation'.grant = installation.grant
               PROVE  installation.generation <= installation'.generation
    BY DEF IInv, TypeOK, Pairs, NoPair, vars
  <2>1. installation' \in Pairs /\ Newest(installation)'
    BY StoresChange
  <2>2. installation \in Pairs
    BY <2>1, NoPairFacts, ConstantsAssumption DEF IInv, TypeOK, Pairs, NoPair
  <2>3. installation.generation <= newest[installation.grant]
    BY <2>2 DEF IInv, HandsSound, Sound
  <2>4. newest' = newest
    BY DEF Next, vars, Tick, Expire, Begin, Callback, Webhook, Receive, Pop, PopGet, PopDelete,
           Exchange, Save, Load, Call, Refresh, SaveRefreshed, Die, linear
  <2> QED
    BY <2>1, <2>3, <2>4 DEF Newest
<1> QED
  BY <1>1, Invariance, PTL DEF Spec

\* A refresh that Linear refuses as spent was overtaken: the grant is no longer
\* the stored one, or a newer pair of it is stored, about to be, or was lost.
Overtaken(t) ==
  \/ installation.grant # hand[t].grant
  \/ installation.generation > hand[t].generation
  \/ hand[t].grant \in lost
  \/ \E u \in Threads \ {t} :
       /\ pc[u] = "save_refreshed" /\ hand[u].grant = hand[t].grant
       /\ hand[u].generation > hand[t].generation

\* So a thread that fails with a spent refresh token leaves an installation
\* that works, unless an answer of Linear or a thread was lost.
THEOREM RefusedWasOvertaken ==
  Spec => [](\A t \in Threads : pc[t] = "refresh" /\ ~Newest(hand[t]) => Overtaken(t))
<1>1. ASSUME IInv, NEW t \in Threads, pc[t] = "refresh", ~Newest(hand[t]),
             installation.grant = hand[t].grant, hand[t].grant \notin lost
      PROVE  Overtaken(t)
  <2>1. hand[t] \in Pairs /\ hand[t].generation < newest[hand[t].grant]
    <3>1. hand[t] \in Pairs /\ hand[t].generation <= newest[hand[t].grant]
      BY <1>1 DEF IInv, HandsSound, Sound
    <3>2. hand[t].grant \in Grants /\ hand[t].generation \in Nat
      BY <3>1 DEF Pairs
    <3>3. newest \in [Grants -> Nat]
      BY <1>1 DEF IInv, TypeOK
    <3>4. hand[t].generation # newest[hand[t].grant]
      BY <1>1 DEF Newest
    <3> QED
      BY <3>1, <3>2, <3>3, <3>4
  <2>2. CASE Newest(installation)
    <3>1. installation.generation > hand[t].generation
      BY <1>1, <2>1, <2>2 DEF Newest
    <3> QED
      BY <3>1 DEF Overtaken
  <2>3. CASE ~Newest(installation)
    <3>1. installation # NoPair
      BY <1>1, <2>1, ConstantsAssumption DEF NoPair, Pairs
    <3>2. PICK u \in Threads : /\ pc[u] = "save_refreshed" /\ Newest(hand[u])
                               /\ hand[u].grant = installation.grant
      BY <1>1, <2>3, <3>1 DEF IInv, NewestIsKept
    <3>3. u # t /\ hand[u].generation > hand[t].generation
      BY <1>1, <2>1, <3>2 DEF Newest
    <3> QED
      BY <1>1, <3>2, <3>3 DEF Overtaken
  <2> QED
    BY <2>2, <2>3
<1>2. IInv => \A t \in Threads : pc[t] = "refresh" /\ ~Newest(hand[t]) => Overtaken(t)
  BY <1>1 DEF Overtaken
<1> QED
  BY <1>2, Invariance, PTL
=============================================================================
