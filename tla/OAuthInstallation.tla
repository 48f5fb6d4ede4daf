-------------------------- MODULE OAuthInstallation --------------------------
(***************************************************************************)
(* The installation of ProductAgent in Linear and its tokens: the OAuth    *)
(* states of begin_installation and complete_installation, the one stored  *)
(* installation, and the token refresh of webhook threads, on concurrent   *)
(* threads of the server.                                                  *)
(*                                                                         *)
(* A grant is what one consent of the workspace gives: a code, then a      *)
(* chain of token pairs of which a refresh spends one and brings the next. *)
(* LiveWebhook has of all this one bit: a token that can write is stored.  *)
(***************************************************************************)
EXTENDS Naturals, FiniteSets

CONSTANTS
  Threads,
  States,           \* values of secrets.token_urlsafe, never drawn twice
  Grants,           \* consents; the code of a grant is the grant
  Writable,         \* the grants with the scope `write`
  MaxAge,           \* how long a state is accepted
  MaxTime,          \* BOUND: the clock
  MaxGeneration,    \* BOUND: token pairs of a grant
  MaxRequests       \* BOUND: callbacks and webhooks received

ASSUME ConstantsAssumption ==
  /\ Writable \subseteq Grants /\ "none" \notin Grants /\ IsFiniteSet(Threads)
  /\ {MaxAge, MaxTime, MaxGeneration, MaxRequests} \subseteq Nat

VARIABLES
  backend,          \* the installation store that is configured
  now,
  issued,           \* states drawn so far
  oauth_states,     \* the state documents: when they were created
  accepted,         \* accepted[s]: how many callbacks were let through with s
  installation,     \* the stored token pair
  newest,           \* Linear: the newest token pair of each grant, 0 for none
  expired,          \* Linear: grants whose newest access token has expired
  lost,             \* grants whose newest pair went down with a call or thread
  pc, request,      \* per thread: the next step or the answer; the callback
  fresh,            \* what pop has found
  hand,             \* the token pair in the thread's hands
  requests          \* callbacks and webhooks so far

states == <<issued, oauth_states, accepted>>
linear == <<newest, expired, lost>>
local  == <<request, fresh, hand>>
vars   == <<backend, now, issued, oauth_states, accepted, installation, newest, expired, lost,
            pc, request, fresh, hand, requests>>

Pairs  == [grant : Grants, generation : Nat \ {0}]
NoPair == [grant |-> "none", generation |-> 0]

Callbacks  == [state : States, grant : Grants]
NoCallback == [state |-> "none", grant |-> "none"]

Answers == {"idle", "rejected", "installed", "error", "unavailable", "processed", "dead"}
Working == {"pop", "pop_delete", "exchange", "save",
            "load", "call", "refresh", "save_refreshed", "retry"}

Put(f, k, d) == [x \in DOMAIN f \cup {k} |-> IF x = k THEN d ELSE f[x]]
Remove(f, k) == [x \in DOMAIN f \ {k} |-> f[x]]

Init ==
  /\ backend \in {"sqlite", "firestore"}
  /\ now = 0 /\ issued = {} /\ oauth_states = << >>
  /\ accepted = [s \in States |-> 0]
  /\ installation = NoPair
  /\ newest = [g \in Grants |-> 0] /\ expired = {} /\ lost = {}
  /\ pc = [t \in Threads |-> "idle"]
  /\ request = [t \in Threads |-> NoCallback]
  /\ fresh = [t \in Threads |-> FALSE]
  /\ hand = [t \in Threads |-> NoPair]
  /\ requests = 0

Goto(t, label) == pc' = [pc EXCEPT ![t] = label]

Answer(t, label) ==
  /\ Goto(t, label)
  /\ request' = [request EXCEPT ![t] = NoCallback]
  /\ fresh' = [fresh EXCEPT ![t] = FALSE]
  /\ hand' = [hand EXCEPT ![t] = NoPair]

-----------------------------------------------------------------------------
(* The world *)

Tick ==
  /\ now < MaxTime
  /\ now' = now + 1
  /\ UNCHANGED <<backend, states, installation, linear, pc, local, requests>>

Expire(g) ==
  /\ newest[g] # 0 /\ g \notin expired
  /\ expired' = expired \cup {g}
  /\ UNCHANGED <<backend, now, states, installation, newest, lost, pc, local, requests>>

\* begin_installation: the browser is sent to Linear with a new state.
Begin(s) ==
  /\ s \notin issued
  /\ issued' = issued \cup {s}
  /\ oauth_states' = Put(oauth_states, s, now)
  /\ UNCHANGED <<backend, now, accepted, installation, linear, pc, local, requests>>

Receive(t, label) ==
  /\ pc[t] \in Answers
  /\ requests < MaxRequests
  /\ requests' = requests + 1
  /\ Goto(t, label)
  /\ UNCHANGED <<backend, now, states, installation, linear, fresh, hand>>

\* The browser comes back, perhaps again, late, or with a state that is none.
Callback(t, c) == Receive(t, "pop") /\ request' = [request EXCEPT ![t] = c]

Webhook(t) == Receive(t, "load") /\ UNCHANGED request

-----------------------------------------------------------------------------
(* complete_installation *)

Fresh(s) == s \in DOMAIN oauth_states /\ now - oauth_states[s] <= MaxAge

\* A callback is let through, or turned away as missing, expired or used.
Decide(t, ok) ==
  IF ok
  THEN /\ Goto(t, "exchange")
       /\ accepted' = [accepted EXCEPT ![request[t].state] = @ + 1]
       /\ UNCHANGED local
  ELSE Answer(t, "rejected") /\ UNCHANGED accepted

\* OAuthStateStore.pop: a select and a delete under one lock.
Pop(t) ==
  /\ pc[t] = "pop" /\ backend = "sqlite"
  /\ Decide(t, Fresh(request[t].state))
  /\ oauth_states' = Remove(oauth_states, request[t].state)
  /\ UNCHANGED <<backend, now, issued, installation, linear, requests>>

\* FirestoreOAuthStateStore.pop: a read and a delete.
PopGet(t) ==
  /\ pc[t] = "pop" /\ backend = "firestore"
  /\ fresh' = [fresh EXCEPT ![t] = Fresh(request[t].state)]
  /\ Goto(t, "pop_delete")
  /\ UNCHANGED <<backend, now, states, installation, linear, request, hand, requests>>

\* Mutant of PopDelete: the document stays.
PopDelete_Kept(t) ==
  /\ pc[t] = "pop_delete"
  /\ Decide(t, fresh[t])
  /\ UNCHANGED <<backend, now, issued, oauth_states, installation, linear, requests>>

PopDelete(t) ==
  /\ pc[t] = "pop_delete"
  /\ oauth_states' = Remove(oauth_states, request[t].state)
  /\ Decide(t, fresh[t])
  /\ UNCHANGED <<backend, now, issued, installation, linear, requests>>

\* Linear takes a code once.  Its answer may be lost; without the write scope
\* the pair is not stored.
Exchange(t) ==
  /\ pc[t] = "exchange"
  /\ LET g == request[t].grant
     IN  \/ /\ newest[g] = 0
            /\ newest' = [newest EXCEPT ![g] = 1]
            /\ \/ /\ g \in Writable
                  /\ hand' = [hand EXCEPT ![t] = [grant |-> g, generation |-> 1]]
                  /\ Goto(t, "save") /\ UNCHANGED <<request, fresh>>
               \/ g \notin Writable /\ Answer(t, "rejected")
               \/ Answer(t, "error")
         \/ Answer(t, "error") /\ UNCHANGED newest
  /\ UNCHANGED <<backend, now, states, installation, expired, lost, requests>>

\* save_installation replaces the one installation, whichever it is.
Save(t) ==
  /\ pc[t] = "save"
  /\ installation' = hand[t]
  /\ Answer(t, "installed")
  /\ UNCHANGED <<backend, now, states, linear, requests>>

-----------------------------------------------------------------------------
(* A webhook thread: load_installation and _respond_to_session *)

Load(t) ==
  /\ pc[t] = "load"
  /\ IF installation.grant \in Writable
     THEN /\ Goto(t, "call") /\ hand' = [hand EXCEPT ![t] = installation]
          /\ UNCHANGED <<request, fresh>>
     ELSE Answer(t, "unavailable")
  /\ UNCHANGED <<backend, now, states, installation, linear, requests>>

Newest(p) == p.generation = newest[p.grant]
Valid(p)  == Newest(p) /\ p.grant \notin expired

\* Mutant of Call: the pair in use is saved again after the calls.
Call_Saves(t) ==
  /\ pc[t] \in {"call", "retry"}
  /\ \/ /\ Valid(hand[t]) \/ ~Newest(hand[t])
        /\ installation' = hand[t] /\ Answer(t, "processed")
     \/ Answer(t, "error") /\ UNCHANGED installation
     \/ /\ pc[t] = "call" /\ ~Valid(hand[t])
        /\ Goto(t, "refresh") /\ UNCHANGED <<local, installation>>
  /\ UNCHANGED <<backend, now, states, linear, requests>>

\* The calls of Linear: an access token that was replaced may still be valid.
\* An authentication error of the first attempt is answered by a refresh.
Call(t) ==
  /\ pc[t] \in {"call", "retry"}
  /\ \/ (Valid(hand[t]) \/ ~Newest(hand[t])) /\ Answer(t, "processed")
     \/ Answer(t, "error")
     \/ pc[t] = "call" /\ ~Valid(hand[t]) /\ Goto(t, "refresh") /\ UNCHANGED local
  /\ UNCHANGED <<backend, now, states, installation, linear, requests>>

\* Mutant of NextPair: the answer has no refresh token.
NextPair_AccessOnly(t) == [grant |-> hand[t].grant]
NextPair(t) == [grant |-> hand[t].grant, generation |-> newest[hand[t].grant] + 1]

\* Mutant of Refresh: the attempt is repeated before the pair is saved.
Refresh_RetriesFirst(t) ==
  /\ pc[t] = "refresh"
  /\ \/ /\ Newest(hand[t]) /\ newest[hand[t].grant] < MaxGeneration
        /\ newest' = [newest EXCEPT ![hand[t].grant] = @ + 1]
        /\ expired' = expired \ {hand[t].grant}
        /\ \/ /\ hand' = [hand EXCEPT ![t] = NextPair(t)]
              /\ Goto(t, "retry") /\ UNCHANGED <<request, fresh, lost>>
           \/ Answer(t, "error") /\ lost' = lost \cup {hand[t].grant}
     \/ Answer(t, "error") /\ UNCHANGED linear
  /\ UNCHANGED <<backend, now, states, installation, requests>>

\* Linear spends the newest refresh token and refuses the ones before; its
\* answer may be lost.  The scope is that of the grant and is not looked at.
Refresh(t) ==
  /\ pc[t] = "refresh"
  /\ \/ /\ Newest(hand[t]) /\ newest[hand[t].grant] < MaxGeneration
        /\ newest' = [newest EXCEPT ![hand[t].grant] = @ + 1]
        /\ expired' = expired \ {hand[t].grant}
        /\ \/ /\ hand' = [hand EXCEPT ![t] = NextPair(t)]
              /\ Goto(t, "save_refreshed") /\ UNCHANGED <<request, fresh, lost>>
           \/ Answer(t, "error") /\ lost' = lost \cup {hand[t].grant}
     \/ Answer(t, "error") /\ UNCHANGED linear
  /\ UNCHANGED <<backend, now, states, installation, requests>>

SaveRefreshed(t) ==
  /\ pc[t] = "save_refreshed"
  /\ installation' = hand[t]
  /\ Goto(t, "retry")
  /\ UNCHANGED <<backend, now, states, linear, local, requests>>

\* A store call raises or the process dies; what the thread holds is gone.
Die(t) ==
  /\ pc[t] \in Working
  /\ lost' = IF pc[t] = "save_refreshed" THEN lost \cup {hand[t].grant} ELSE lost
  /\ Answer(t, "dead")
  /\ UNCHANGED <<backend, now, states, installation, newest, expired, requests>>

Next ==
  \/ Tick
  \/ \E g \in Grants : Expire(g)
  \/ \E s \in States : Begin(s)
  \/ \E t \in Threads :
       \/ \E c \in Callbacks : Callback(t, c)
       \/ Webhook(t)
       \/ Pop(t) \/ PopGet(t) \/ PopDelete(t) \/ Exchange(t) \/ Save(t)
       \/ Load(t) \/ Call(t) \/ Refresh(t) \/ SaveRefreshed(t)
       \/ Die(t)

Spec == Init /\ [][Next]_vars

-----------------------------------------------------------------------------
(* Properties *)

\* The type invariant.
TypeOK ==
  /\ backend \in {"sqlite", "firestore"} /\ now \in Nat
  /\ issued \subseteq States /\ DOMAIN oauth_states \subseteq issued
  /\ oauth_states \in [DOMAIN oauth_states -> 0..now]
  /\ accepted \in [States -> Nat]
  /\ installation \in Pairs \cup {NoPair}
  /\ newest \in [Grants -> Nat] /\ expired \subseteq Grants /\ lost \subseteq Grants
  /\ pc \in [Threads -> Answers \cup Working]
  /\ request \in [Threads -> Callbacks \cup {NoCallback}]
  /\ fresh \in [Threads -> BOOLEAN]
  /\ hand \in [Threads -> Pairs \cup {NoPair}]
  /\ requests \in Nat

\* With the locked pop of SQLite a state lets one callback through, however
\* many arrive together.  The pop of Firestore is a read and a delete: callbacks
\* that read a state before the first of them deletes it all get through, but
\* none that reads it later, so at most one on each thread.
StateUsedOnce ==
  \A s \in States :
    /\ accepted[s] > 0 => s \notin DOMAIN oauth_states
    /\ accepted[s] <= IF backend = "sqlite" THEN 1 ELSE Cardinality(Threads)

\* Whatever installations and refreshes interleave, the stored token can
\* write: the check of complete_installation is the only one before a save.
StoredCanWrite == installation # NoPair => installation.grant \in Writable

\* Concurrent refreshes do not end the installation: of the grant that is
\* stored the newest pair is stored, or a thread is about to store it, or it
\* was lost with an answer of Linear or with a thread.  A thread whose refresh
\* token is refused has thus been overtaken by one that saved.
NewestIsKept ==
  \/ installation = NoPair
  \/ Newest(installation)
  \/ installation.grant \in lost
  \/ \E t \in Threads : pc[t] = "save_refreshed" /\ Newest(hand[t])
                        /\ hand[t].grant = installation.grant

\* A token pair is stored only as the newest of its grant, although threads
\* save without looking: an old pair never comes back over a newer one.
SavedIsNewest == [][installation' # installation => Newest(installation)']_vars
=============================================================================
