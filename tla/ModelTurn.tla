------------------------------ MODULE ModelTurn ------------------------------
(***************************************************************************)
(* The turns of an agent session from the stored outcome of the command to *)
(* the answer: the comments a turn reads, the ledger of decisions taken    *)
(* from them, the model call, the brief, the answer, which is a comment of *)
(* the thread in the turns to come, and the outcome that copies of the     *)
(* command repeat.                                                         *)
(*                                                                         *)
(* CommandTurn resolves the prompt of a delivery; here the command is the  *)
(* comment.  ProductBriefs stores the brief; here it is one step.          *)
(* Approvals and brief references read no conversation and are left out.   *)
(***************************************************************************)
EXTENDS Naturals, Sequences, DecisionLedger, ModelCall

CONSTANTS
  Threads,
  Prompts,          \* what people write: the kind of request and what it says
  Issue,            \* title and description of the issue
  Drafts,           \* what the model may say
  StaleAfter,       \* age at which a receipt may be taken over
  MaxComments,      \* BOUND: comments that people write
  MaxTurns          \* BOUND: deliveries taken

Kinds == {"stop", "milestone_report", "product_brief", "scope_proposal", "fresh_start",
          "discovery", "advisory", "conversation"}

\* The longest call: every attempt times out, and the pauses are at most
\* MaxRetries each.
Slot == Timeout + MaxRetries

ASSUME ConstantsAssumption ==
  /\ Prompts \subseteq [kind : Kinds, says : Texts]
  /\ Issue \subseteq Facts
  /\ Drafts \subseteq SUBSET Facts /\ Drafts # {}
  /\ {MaxRetries, Timeout, StaleAfter, MaxComments, MaxTurns} \subseteq Nat
  /\ (MaxRetries + 1) * Slot < StaleAfter       \* three times 20 s and pauses, 5 min

VARIABLES
  comments,         \* of the thread: author, kind and what they say
  outcomes,         \* stored outcomes: command -> answer
  briefs,           \* Product Briefs: their command, draft and ledger
  said,             \* what the models have said
  pc, command,      \* per thread: the next step; the comment it answers
  late,             \* whether the outcome was stored when the turn began
  ledger, call, draft, answer,
  turns

local == <<command, late, ledger, call, draft, answer>>
vars  == <<comments, outcomes, briefs, said, pc, command, late, ledger, call, draft, answer, turns>>

Working == {"lookup", "fetch", "call", "save", "publish", "repeat", "store"}

Answer(type, says) == [type |-> type, says |-> says]
NoAnswer == Answer("none", {})

Init ==
  /\ comments = << >> /\ outcomes = << >> /\ briefs = {} /\ said = {}
  /\ pc = [t \in Threads |-> "idle"]
  /\ command = [t \in Threads |-> 0]
  /\ late = [t \in Threads |-> FALSE]
  /\ ledger = [t \in Threads |-> {}]
  /\ call = [t \in Threads |-> FirstAttempt]
  /\ draft = [t \in Threads |-> {}]
  /\ answer = [t \in Threads |-> NoAnswer]
  /\ turns = 0

Goto(t, label) == pc' = [pc EXCEPT ![t] = label]

Done(t) ==
  /\ Goto(t, "idle")
  /\ command' = [command EXCEPT ![t] = 0]
  /\ late' = [late EXCEPT ![t] = FALSE]
  /\ ledger' = [ledger EXCEPT ![t] = {}]
  /\ call' = [call EXCEPT ![t] = FirstAttempt]
  /\ draft' = [draft EXCEPT ![t] = {}]
  /\ answer' = [answer EXCEPT ![t] = NoAnswer]

\* The turn has its answer, of an optional type, and goes on to publish it.
Conclude(t, a) ==
  /\ answer' = [answer EXCEPT ![t] = a]
  /\ Goto(t, "publish")

-----------------------------------------------------------------------------
(* The thread *)

ByPeople(n) == {i \in 1..n : comments[i].author = "person"}

\* What the first n comments say, all of them or those of people.
AllSay(n)    == UNION {comments[i].says : i \in 1..n}
PeopleSay(n) == UNION {comments[i].says : i \in ByPeople(n)}

Write(p) ==
  /\ Cardinality(ByPeople(Len(comments))) < MaxComments
  /\ comments' = Append(comments, [author |-> "person", kind |-> p.kind, says |-> p.says])
  /\ UNCHANGED <<outcomes, briefs, said, pc, local, turns>>

\* A delivery of the command, the first or another one.
Take(t, n) ==
  /\ pc[t] = "idle"
  /\ turns < MaxTurns
  /\ n \in ByPeople(Len(comments))
  /\ turns' = turns + 1
  /\ command' = [command EXCEPT ![t] = n]
  /\ late' = [late EXCEPT ![t] = n \in DOMAIN outcomes]
  /\ Goto(t, "lookup")
  /\ UNCHANGED <<comments, outcomes, briefs, said, ledger, call, draft, answer>>

-----------------------------------------------------------------------------
(* The turn *)

Request(t) == comments[command[t]]
Replied(t) == \E i \in 1..command[t] : comments[i].author = "agent"

\* _response_mode; a stop has gone before.
Mode(t) ==
  IF Replied(t) /\ Request(t).kind \in {"advisory", "conversation"} THEN "discovery"
  ELSE Request(t).kind

\* Mutant of Lookup: the outcome is used for a repeated answer only.
Lookup_ResponsesOnly(t) ==
  /\ pc[t] = "lookup"
  /\ \/ /\ command[t] \in DOMAIN outcomes /\ outcomes[command[t]].type = "response"
        /\ answer' = [answer EXCEPT ![t] = outcomes[command[t]]]
        /\ Goto(t, "repeat")
     \/ /\ ~(command[t] \in DOMAIN outcomes /\ outcomes[command[t]].type = "response")
        /\ Goto(t, "fetch") /\ UNCHANGED answer
  /\ UNCHANGED <<comments, outcomes, briefs, said, command, late, ledger, call, draft, turns>>

Lookup(t) ==
  /\ pc[t] = "lookup"
  /\ \/ /\ command[t] \in DOMAIN outcomes
        /\ answer' = [answer EXCEPT ![t] = outcomes[command[t]]]
        /\ Goto(t, "repeat")
     \/ command[t] \notin DOMAIN outcomes /\ Goto(t, "fetch") /\ UNCHANGED answer
  /\ UNCHANGED <<comments, outcomes, briefs, said, command, late, ledger, call, draft, turns>>

\* Mutant of Known: of the comments only the newest that Linear returns.
Known_Live(t) == Issue \cup Request(t).says \cup comments[Len(comments)].says

\* _decision_ledger: the issue, the request, the earlier comments of the
\* payload, whoever wrote them, and those of people that Linear returns now.
Known(t) == Issue \cup AllSay(command[t]) \cup PeopleSay(Len(comments))

\* What the policy is given: a fresh start has its request only.
Context(t) == IF Mode(t) = "fresh_start" THEN {} ELSE Issue \cup AllSay(command[t] - 1)
Earlier(t) == Mode(t) # "fresh_start" /\ command[t] > 1

\* What create_or_reuse finds under its operation key.
Kept(t) == {b \in briefs : b.command = command[t]}

BriefAnswer(t, model, facts) ==
  Answer("response", Request(t).says \cup model \cup Says("product_brief", facts))

AsksModel(t) ==
  \/ Mode(t) = "product_brief" /\ Kept(t) = {}
  \/ Mode(t) \in {"fresh_start", "advisory"}
       /\ ~FollowUp(Request(t).says, Context(t), Earlier(t))

\* The comments are fetched, and the answer is put together unless the model
\* is asked or the command has its brief already.  Every answer quotes its
\* request.
Fetch(t) ==
  /\ pc[t] = "fetch"
  /\ ledger' = [ledger EXCEPT ![t] = Ledger(Known(t))]
  /\ \/ /\ AsksModel(t)
        /\ Goto(t, "call")
        /\ UNCHANGED answer
     \/ /\ ~AsksModel(t) /\ Mode(t) \in {"fresh_start", "advisory"}
        /\ Conclude(t, Answer("response", Request(t).says \cup SynthesisSays(Context(t))))
     \/ /\ Mode(t) = "product_brief"
        /\ \E b \in Kept(t) : Conclude(t, BriefAnswer(t, b.draft, b.ledger))
     \/ /\ Mode(t) \notin {"fresh_start", "advisory", "product_brief"}
        /\ Conclude(t, Answer("response", (IF Mode(t) = "stop" THEN {} ELSE Request(t).says)
                                            \cup Says(Mode(t), Ledger(Known(t)))))
  /\ UNCHANGED <<comments, outcomes, briefs, said, command, late, call, draft, turns>>

\* An attempt of the model call: repeated, a draft, or failed.  Only output that
\* fits the schema is a draft.
Attempt(t, result) ==
  /\ pc[t] = "call"
  /\ \/ /\ Again(call[t], result)
        /\ \E time \in 0..Timeout : call' = [call EXCEPT ![t] = NextAttempt(@, result, time)]
        /\ UNCHANGED <<said, pc, draft, answer>>
     \/ /\ ~Again(call[t], result)
        /\ call' = [call EXCEPT ![t] = FirstAttempt]
        /\ \/ /\ result = "valid"
              /\ \E d \in Drafts :
                   /\ said' = said \cup d
                   /\ \/ /\ Mode(t) = "product_brief"
                         /\ draft' = [draft EXCEPT ![t] = d]
                         /\ Goto(t, "save") /\ UNCHANGED answer
                      \/ /\ Mode(t) # "product_brief"
                         /\ Conclude(t, Answer("response", Request(t).says \cup d))
                         /\ UNCHANGED draft
           \/ /\ result # "valid"
              /\ \E e \in Errors(Mode(t) = "product_brief", result) :
                   Conclude(t, Answer(IF e = "provider" THEN "response" ELSE "error", {}))
              /\ UNCHANGED <<said, draft>>
  /\ UNCHANGED <<comments, outcomes, briefs, command, late, ledger, turns>>

\* A brief of any command with the content that t is about to save.
SameContent(t) == {b \in briefs : b.draft = draft[t] /\ b.ledger = ledger[t]}

\* create_or_reuse, once it has a draft: the ledger is put over it.  A brief of
\* this content that nothing has superseded is handed back, and the command has
\* none of its own; which are superseded is up to ProductBriefs.
Save(t) ==
  /\ pc[t] = "save"
  /\ \/ /\ \/ briefs' = briefs \cup {[command |-> command[t], draft |-> draft[t],
                                       ledger |-> ledger[t]]}
           \/ SameContent(t) # {} /\ UNCHANGED briefs
        /\ Conclude(t, BriefAnswer(t, draft[t], ledger[t]))
     \/ Conclude(t, Answer("error", {})) /\ UNCHANGED briefs
  /\ UNCHANGED <<comments, outcomes, said, command, late, ledger, call, draft, turns>>

\* The answer is a comment of the thread from now on.
Publish(t) ==
  /\ pc[t] \in {"publish", "repeat"}
  /\ comments' = Append(comments, [author |-> "agent", kind |-> Request(t).kind,
                                   says |-> answer[t].says])
  /\ \/ pc[t] = "publish" /\ Goto(t, "store") /\ UNCHANGED local
     \/ pc[t] = "repeat" /\ Done(t)
  /\ UNCHANGED <<outcomes, briefs, said, turns>>

\* Failures are stored as well, unless another copy has stored an outcome.
Store(t) ==
  /\ pc[t] = "store"
  /\ outcomes' = IF command[t] \in DOMAIN outcomes THEN outcomes
                 ELSE [n \in DOMAIN outcomes \cup {command[t]} |->
                         IF n = command[t] THEN answer[t] ELSE outcomes[n]]
  /\ Done(t)
  /\ UNCHANGED <<comments, briefs, said, turns>>

\* A call of Linear or of a store fails, or the thread dies.
Fail(t) ==
  /\ pc[t] \in Working \ {"call"}
  /\ Done(t)
  /\ UNCHANGED <<comments, outcomes, briefs, said, turns>>

Step(t) ==
  \/ Lookup(t) \/ Fetch(t) \/ Save(t) \/ Publish(t) \/ Store(t) \/ Fail(t)
  \/ \E result \in Results : Attempt(t, result)

Next ==
  \/ \E p \in Prompts : Write(p)
  \/ \E t \in Threads : Step(t) \/ \E n \in 1..Len(comments) : Take(t, n)

Spec == Init /\ [][Next]_vars

-----------------------------------------------------------------------------
(* Properties *)

Answered == [type : {"none", "response", "error"}, says : Texts]

\* The type invariant.
TypeOK ==
  /\ comments \in Seq([author : {"person", "agent"}, kind : Kinds, says : Texts])
  /\ outcomes \in [DOMAIN outcomes -> Answered] /\ DOMAIN outcomes \subseteq ByPeople(Len(comments))
  /\ briefs \subseteq [command : ByPeople(Len(comments)), draft : SUBSET Facts,
                       ledger : SUBSET Facts]
  /\ said \subseteq Facts
  /\ pc \in [Threads -> {"idle"} \cup Working]
  /\ command \in [Threads -> Nat] /\ turns \in Nat
  /\ \A t \in Threads : pc[t] # "idle" => command[t] \in ByPeople(Len(comments))
  /\ late \in [Threads -> BOOLEAN] /\ ledger \in [Threads -> SUBSET Facts]
  /\ call \in [Threads -> Calls]
  /\ draft \in [Threads -> SUBSET Facts] /\ answer \in [Threads -> Answered]

\* What the wording of the answers decides on its own.
Wording == {"job", "move", "no_delete", "gate", "provider"}

\* The answers of the agent are read again in the turns that follow, and their
\* lines decide facts.  Over any number of turns this invents no more than
\* Wording: the user, the folders, the review, the approvals and the failures
\* that a ledger has were named by people or by a model.
NothingElseInvented ==
  LET known == Issue \cup PeopleSay(Len(comments)) \cup said \cup Wording
  IN  /\ \A i \in DOMAIN comments : Ledger(comments[i].says) \subseteq known
      /\ \A b \in briefs : b.ledger \subseteq known

\* A decision that a person has written in the thread before a brief was
\* requested is in the ledger of the brief, through copies, other turns and
\* failures between the request and the save.
SaidIsKept ==
  \A b \in briefs : Ledger(Issue \cup PeopleSay(b.command)) \subseteq b.ledger

\* A turn that begins after the outcome of its command was stored asks no
\* model, saves no brief and repeats that outcome, failures included.
SettledIsRepeated ==
  \A t \in Threads : late[t] =>
    /\ command[t] \in DOMAIN outcomes
    /\ pc[t] \in {"lookup", "repeat"}
    /\ pc[t] = "repeat" => answer[t] = outcomes[command[t]]

\* A model call ends before the receipt of its delivery can be taken over, even
\* if the attempt under way takes the whole timeout, and it asks for more output
\* at most once per repetition.
CallFits ==
  \A t \in Threads : call[t].elapsed + Timeout < StaleAfter /\ call[t].grown <= MaxRetries

\* What a brief has as confirmed by the Founder, people have written.
ConfirmedByPeople ==
  \A b \in briefs : Confirmed(b.ledger) \subseteq Issue \cup PeopleSay(Len(comments))
=============================================================================
