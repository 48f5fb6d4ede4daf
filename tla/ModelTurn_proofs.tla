-------------------------- MODULE ModelTurn_proofs --------------------------
(***************************************************************************)
(* Proofs about ModelTurn for any threads, prompts, drafts and bounds: its *)
(* types, what its answers may invent, what they keep, repeated outcomes,  *)
(* and the time of a model call.                                           *)
(***************************************************************************)
EXTENDS ModelTurn, Integers, TLAPS

Comment == [author : {"person", "agent"}, kind : Kinds, says : Texts]

\* The thread grows at its end.
Grows ==
  /\ Len(comments) <= Len(comments')
  /\ \A i \in 1..Len(comments) : comments'[i] = comments[i]

\* What a fact of the thread may come from.
Origins == Issue \cup PeopleSay(Len(comments)) \cup said \cup Wording

AllFound ==
  /\ \A i \in DOMAIN comments : Ledger(comments[i].says) \subseteq Origins
  /\ \A n \in DOMAIN outcomes : Ledger(outcomes[n].says) \subseteq Origins
  /\ \A b \in briefs : b.ledger \subseteq Origins /\ b.draft \subseteq Origins
  /\ \A t \in Threads : /\ Ledger(answer[t].says) \subseteq Origins
                        /\ ledger[t] \subseteq Origins /\ draft[t] \subseteq Origins

\* The ledger of a turn has what people said before its request.
LedgerKeeps ==
  \A t \in Threads : pc[t] \in {"call", "save"} =>
    Ledger(Issue \cup PeopleSay(command[t])) \subseteq ledger[t]

\* So many attempts, so much time.
CallsBounded ==
  \A t \in Threads :
    /\ 1 <= call[t].attempt /\ call[t].attempt <= MaxRetries + 1
    /\ call[t].grown <= call[t].attempt - 1
    /\ call[t].elapsed <= (call[t].attempt - 1) * Slot

IInv ==
  /\ TypeOK /\ AllFound /\ LedgerKeeps /\ SaidIsKept /\ SettledIsRepeated
  /\ CallsBounded

-----------------------------------------------------------------------------
(* The tables *)

\* A line says its own fact, or what its wording adds.
LEMMA SayOwn ==
  ASSUME NEW table, NEW facts,
         \A f \in DOMAIN table : table[f] \subseteq {f} \cup Wording
  PROVE  Say(table, facts) \subseteq facts \cup Wording
BY DEF Say

LEMMA LinesOf ==
  ASSUME NEW rank, NEW facts, NEW n
  PROVE  Lines(rank, facts, n) \subseteq facts
BY DEF Lines

LEMMA LineSaysOwn == \A f \in DOMAIN LineSays : LineSays[f] \subseteq {f} \cup Wording
BY DEF LineSays, Wording

LEMMA AdviceSaysOwn == \A f \in DOMAIN AdviceSays : AdviceSays[f] \subseteq {f} \cup Wording
BY DEF AdviceSays, Wording

LEMMA BriefSaysOwn == \A f \in DOMAIN BriefSays : BriefSays[f] \subseteq {f} \cup Wording
BY DEF BriefSays, Wording

\* An answer that is put together from a ledger says what the ledger has, and
\* what its wording adds.
LEMMA SaysFound ==
  ASSUME NEW mode, NEW facts \in SUBSET Facts
  PROVE  Says(mode, facts) \subseteq facts \cup Wording
<1>1. Asks(facts) \subseteq Wording
  BY DEF Asks, Wording
<1>2. ASSUME NEW n PROVE Say(LineSays, Lines(LineRank, facts, n)) \subseteq facts \cup Wording
  BY SayOwn, LinesOf, LineSaysOwn
<1>3. ASSUME NEW n PROVE Say(AdviceSays, Lines(AdviceRank, facts, n)) \subseteq facts \cup Wording
  BY SayOwn, LinesOf, AdviceSaysOwn
<1>4. Say(LineSays, Lines(MilestoneRank, facts, 4)) \subseteq facts \cup Wording
  BY SayOwn, LinesOf, LineSaysOwn
<1>5. Say(BriefSays, facts) \subseteq facts \cup Wording
  BY SayOwn, BriefSaysOwn
<1>6. ScopeSays(facts) \subseteq facts \cup Wording
  BY <1>3 DEF ScopeSays, Wording
<1> QED
  BY <1>1, <1>2, <1>3, <1>4, <1>5, <1>6 DEF Says

\* The follow-up that is written without a model says no more than Wording.
LEMMA SynthesisFound == ASSUME NEW c PROVE SynthesisSays(c) \subseteq Wording
BY DEF SynthesisSays, Wording

LEMMA WordingFacts == Wording \subseteq Facts
BY DEF Wording, Facts

-----------------------------------------------------------------------------
(* The thread *)

LEMMA Appending ==
  ASSUME comments \in Seq(Comment), NEW c \in Comment, comments' = Append(comments, c)
  PROVE  /\ comments' \in Seq(Comment) /\ Grows
         /\ Len(comments') = Len(comments) + 1 /\ comments'[Len(comments) + 1] = c
         /\ DOMAIN comments' = 1..(Len(comments) + 1)
BY DEF Grows

\* What has been said stays said, by the same.
LEMMA Growing ==
  ASSUME comments \in Seq(Comment), Grows, comments' \in Seq(Comment)
  PROVE  /\ \A n \in 0..Len(comments) : /\ ByPeople(n)' = ByPeople(n)
                                        /\ PeopleSay(n)' = PeopleSay(n)
         /\ ByPeople(Len(comments)) \subseteq ByPeople(Len(comments))'
         /\ PeopleSay(Len(comments)) \subseteq PeopleSay(Len(comments))'
<1>1. Len(comments) \in Nat /\ Len(comments') \in Nat
  OBVIOUS
<1>2. ASSUME NEW n \in 0..Len(comments) PROVE ByPeople(n)' = ByPeople(n)
  <2>1. 1..n \subseteq 1..Len(comments)
    BY <1>1
  <2> QED
    BY <2>1 DEF ByPeople, Grows
<1>3. ASSUME NEW n \in 0..Len(comments) PROVE PeopleSay(n)' = PeopleSay(n)
  <2>1. ByPeople(n) \subseteq 1..Len(comments)
    BY <1>1 DEF ByPeople
  <2>2. \A i \in ByPeople(n) : comments'[i] = comments[i]
    BY <2>1 DEF Grows
  <2>3. ByPeople(n)' = ByPeople(n)
    BY <1>2
  <2> QED
    BY <2>2, <2>3 DEF PeopleSay
<1>4. ByPeople(Len(comments)) \subseteq ByPeople(Len(comments))'
  <2>1. 1..Len(comments) \subseteq 1..Len(comments')
    BY <1>1 DEF Grows
  <2> QED
    BY <2>1 DEF ByPeople, Grows
<1>5. PeopleSay(Len(comments)) \subseteq PeopleSay(Len(comments))'
  <2>1. \A i \in ByPeople(Len(comments)) : comments'[i] = comments[i]
    BY DEF ByPeople, Grows
  <2> QED
    BY <1>4, <2>1 DEF PeopleSay
<1> QED
  BY <1>2, <1>3, <1>4, <1>5

-----------------------------------------------------------------------------
(* Types *)

\* What has been written of a turn keeps its type in the thread to come.
LEMMA KeptTypes ==
  ASSUME TypeOK, Grows, comments' \in Seq(Comment)
  PROVE  /\ ByPeople(Len(comments)) \subseteq ByPeople(Len(comments))'
         /\ \A t \in Threads : pc[t] # "idle" => command[t] \in ByPeople(Len(comments))'
         /\ briefs \subseteq [command : ByPeople(Len(comments))', draft : SUBSET Facts,
                              ledger : SUBSET Facts]
         /\ DOMAIN outcomes \subseteq ByPeople(Len(comments))'
<1>1. ByPeople(Len(comments)) \subseteq ByPeople(Len(comments))'
  BY Growing DEF TypeOK, Comment
<1> QED
  BY <1>1 DEF TypeOK

\* A command is a comment of the thread that a person wrote.
LEMMA RequestTypes ==
  ASSUME TypeOK, NEW t \in Threads, pc[t] # "idle"
  PROVE  /\ command[t] \in ByPeople(Len(comments)) /\ command[t] \in 1..Len(comments)
         /\ Request(t) \in Comment
<1>1. command[t] \in ByPeople(Len(comments)) /\ command[t] \in 1..Len(comments)
  BY DEF TypeOK, ByPeople
<1>2. comments \in Seq(Comment)
  BY DEF TypeOK, Comment
<1> QED
  BY <1>1, <1>2 DEF Request

LEMMA DoneTypes ==
  ASSUME TypeOK, NEW t \in Threads, Done(t)
  PROVE  /\ pc' \in [Threads -> {"idle"} \cup Working] /\ command' \in [Threads -> Nat]
         /\ late' \in [Threads -> BOOLEAN] /\ ledger' \in [Threads -> SUBSET Facts]
         /\ call' \in [Threads -> Calls] /\ draft' \in [Threads -> SUBSET Facts]
         /\ answer' \in [Threads -> Answered]
         /\ \A s \in Threads : pc'[s] # "idle" =>
              s # t /\ pc[s] # "idle" /\ command'[s] = command[s]
<1>1. pc' \in [Threads -> {"idle"} \cup Working] /\ command' \in [Threads -> Nat]
  BY DEF Done, Goto, TypeOK
<1>2. late' \in [Threads -> BOOLEAN] /\ ledger' \in [Threads -> SUBSET Facts]
  BY DEF Done, TypeOK
<1>3. call' \in [Threads -> Calls]
  BY DEF Done, TypeOK, Calls, FirstAttempt
<1>4. draft' \in [Threads -> SUBSET Facts] /\ answer' \in [Threads -> Answered]
  BY DEF Done, TypeOK, Texts, NoAnswer, Answer, Answered
<1>5. ASSUME NEW s \in Threads, pc'[s] # "idle"
      PROVE  s # t /\ pc[s] # "idle" /\ command'[s] = command[s]
  BY <1>5 DEF Done, Goto, TypeOK
<1> QED
  BY <1>1, <1>2, <1>3, <1>4, <1>5

LEMMA ConcludeTypes ==
  ASSUME TypeOK, NEW t \in Threads, NEW type \in {"response", "error"}, NEW says \in Texts,
         pc[t] # "idle", Conclude(t, Answer(type, says))
  PROVE  /\ answer' \in [Threads -> Answered] /\ pc' \in [Threads -> {"idle"} \cup Working]
         /\ \A s \in Threads : pc'[s] # "idle" => pc[s] # "idle"
<1>1. Answer(type, says) \in Answered
  BY DEF Answer, Answered, Texts
<1> QED
  BY <1>1 DEF Conclude, Goto, TypeOK, Working

LEMMA InitTypeOK == Init => TypeOK
<1> SUFFICES ASSUME Init PROVE TypeOK
  OBVIOUS
<1>1. comments \in Seq(Comment) /\ outcomes = << >> /\ DOMAIN outcomes = {}
  BY DEF Init
<1>2. call \in [Threads -> Calls]
  BY DEF Init, Calls, FirstAttempt
<1>3. draft \in [Threads -> SUBSET Facts] /\ answer \in [Threads -> Answered]
  BY DEF Init, Texts, NoAnswer, Answer, Answered
<1> QED
  BY <1>1, <1>2, <1>3 DEF Init, TypeOK, Comment

\* Every step keeps the types, and the thread grows at its end.
LEMMA NextTypeOK ==
  ASSUME TypeOK, [Next]_vars
  PROVE  TypeOK' /\ Grows
<1> USE ConstantsAssumption
<1>0. comments' = comments => Grows
  BY DEF Grows, TypeOK
<1>1. ASSUME NEW p \in Prompts, Write(p) PROVE TypeOK' /\ Grows
  <2> DEFINE c == [author |-> "person", kind |-> p.kind, says |-> p.says]
  <2>1. c \in Comment
    BY DEF Comment, Texts
  <2>2. comments' \in Seq(Comment) /\ Grows
    BY <1>1, <2>1, Appending DEF Write, TypeOK, Comment
  <2> QED
    BY <1>1, <2>2, KeptTypes DEF Write, TypeOK, Comment, local
<1>2. ASSUME NEW t \in Threads, NEW n \in 1..Len(comments), Take(t, n) PROVE TypeOK' /\ Grows
  <2>1. n \in Nat
    BY DEF TypeOK
  <2> QED
    BY <1>0, <1>2, <2>1 DEF Take, TypeOK, Goto, Working, ByPeople
<1>3. ASSUME NEW t \in Threads, Step(t) PROVE TypeOK' /\ Grows
  <2>1. CASE Lookup(t)
    BY <1>0, <2>1 DEF Lookup, TypeOK, Goto, Working, ByPeople
  <2>2. CASE Fetch(t)
    <3>1. Request(t) \in Comment
      BY <2>2, RequestTypes DEF Fetch
    <3>2. Ledger(Known(t)) \in SUBSET Facts
      BY DEF Ledger
    <3>3. Says(Mode(t), Ledger(Known(t))) \subseteq Facts
      BY <3>2, SaysFound, WordingFacts
    <3>4. SynthesisSays(Context(t)) \subseteq Facts
      BY SynthesisFound, WordingFacts
    <3> DEFINE synthesis == Request(t).says \cup SynthesisSays(Context(t))
               composed == (IF Mode(t) = "stop" THEN {} ELSE Request(t).says)
                             \cup Says(Mode(t), Ledger(Known(t)))
    <3>5. synthesis \in Texts /\ composed \in Texts
      BY <3>1, <3>3, <3>4 DEF Comment, Texts
    <3>6. \/ pc' = [pc EXCEPT ![t] = "call"] /\ answer' = answer
          \/ Conclude(t, Answer("response", synthesis))
          \/ Conclude(t, Answer("response", composed))
          \/ \E b \in Kept(t) : Conclude(t, BriefAnswer(t, b.draft, b.ledger))
      BY <2>2 DEF Fetch, Goto
    <3>8. ASSUME NEW b \in Kept(t)
          PROVE  /\ Request(t).says \cup b.draft \cup Says("product_brief", b.ledger) \in Texts
                 /\ BriefAnswer(t, b.draft, b.ledger) =
                      Answer("response",
                             Request(t).says \cup b.draft \cup Says("product_brief", b.ledger))
      <4>1. b.draft \in SUBSET Facts /\ b.ledger \in SUBSET Facts
        BY DEF Kept, TypeOK
      <4>2. Says("product_brief", b.ledger) \subseteq Facts
        BY <4>1, SaysFound, WordingFacts
      <4> QED
        BY <3>1, <4>1, <4>2 DEF BriefAnswer, Comment, Texts
    <3> HIDE DEF synthesis, composed
    <3>7. /\ answer' \in [Threads -> Answered] /\ pc' \in [Threads -> {"idle"} \cup Working]
          /\ \A s \in Threads : pc'[s] # "idle" => pc[s] # "idle"
      <4>1. pc[t] # "idle"
        BY <2>2 DEF Fetch
      <4>2. CASE pc' = [pc EXCEPT ![t] = "call"] /\ answer' = answer
        BY <4>1, <4>2 DEF TypeOK, Working
      <4>3. ASSUME NEW b \in Kept(t), Conclude(t, BriefAnswer(t, b.draft, b.ledger))
            PROVE  /\ answer' \in [Threads -> Answered]
                   /\ pc' \in [Threads -> {"idle"} \cup Working]
                   /\ \A s \in Threads : pc'[s] # "idle" => pc[s] # "idle"
        BY <3>8, <4>1, <4>3, ConcludeTypes
      <4> QED
        BY <3>5, <3>6, <4>1, <4>2, <4>3, ConcludeTypes
    <3> QED
      BY <1>0, <2>2, <3>2, <3>7 DEF Fetch, TypeOK, ByPeople
  <2>3. CASE Save(t)
    <3>1. Request(t) \in Comment /\ command[t] \in ByPeople(Len(comments))
      BY <2>3, RequestTypes DEF Save
    <3>2. ledger[t] \in SUBSET Facts
      BY DEF TypeOK
    <3>3. Says("product_brief", ledger[t]) \subseteq Facts
      BY <3>2, SaysFound, WordingFacts
    <3> DEFINE says == Request(t).says \cup draft[t] \cup Says("product_brief", ledger[t])
    <3>4. says \in Texts /\ {} \in Texts
      BY <3>1, <3>3 DEF Comment, Texts, TypeOK
    <3>5. \/ Conclude(t, Answer("response", says))
          \/ Conclude(t, Answer("error", {}))
      BY <2>3 DEF Save, BriefAnswer
    <3> HIDE DEF says
    <3>7. /\ answer' \in [Threads -> Answered] /\ pc' \in [Threads -> {"idle"} \cup Working]
          /\ \A s \in Threads : pc'[s] # "idle" => pc[s] # "idle"
      <4>1. pc[t] # "idle"
        BY <2>3 DEF Save
      <4> QED
        BY <3>4, <3>5, <4>1, ConcludeTypes
    <3>6. briefs' \subseteq [command : ByPeople(Len(comments)), draft : SUBSET Facts,
                             ledger : SUBSET Facts]
      BY <2>3, <3>1, <3>2 DEF Save, TypeOK
    <3> QED
      BY <1>0, <2>3, <3>6, <3>7 DEF Save, TypeOK, ByPeople
  <2>4. CASE Publish(t)
    <3> DEFINE c == [author |-> "agent", kind |-> Request(t).kind, says |-> answer[t].says]
    <3>1. c \in Comment
      BY <2>4, RequestTypes DEF Publish, TypeOK, Comment, Answered, Texts
    <3>2. comments' \in Seq(Comment) /\ Grows
      BY <2>4, <3>1, Appending DEF Publish, TypeOK, Comment
    <3>3. CASE pc[t] = "publish"
      <4>1. /\ pc' \in [Threads -> {"idle"} \cup Working] /\ UNCHANGED local
            /\ \A s \in Threads : pc'[s] # "idle" => pc[s] # "idle"
        BY <2>4, <3>3 DEF Publish, Goto, TypeOK, Working
      <4> QED
        BY <2>4, <3>2, <4>1, KeptTypes DEF Publish, TypeOK, Comment, local
    <3>4. CASE pc[t] = "repeat"
      <4>1. Done(t)
        BY <2>4, <3>4 DEF Publish
      <4> QED
        BY <2>4, <3>2, <4>1, KeptTypes, DoneTypes DEF Publish, TypeOK, Comment
    <3> QED
      BY <2>4, <3>3, <3>4 DEF Publish
  <2>5. CASE Store(t)
    <3>1. command[t] \in ByPeople(Len(comments)) /\ answer[t] \in Answered
      BY <2>5, RequestTypes DEF Store, TypeOK
    <3>2. /\ outcomes' \in [DOMAIN outcomes' -> Answered]
          /\ DOMAIN outcomes' \subseteq ByPeople(Len(comments))
      BY <2>5, <3>1 DEF Store, TypeOK
    <3>3. Done(t)
      BY <2>5 DEF Store
    <3> QED
      BY <1>0, <2>5, <3>2, <3>3, DoneTypes DEF Store, TypeOK, ByPeople
  <2>6. CASE Fail(t)
    <3>1. Done(t)
      BY <2>6 DEF Fail
    <3> QED
      BY <1>0, <2>6, <3>1, DoneTypes DEF Fail, TypeOK, ByPeople
  <2>7. ASSUME NEW result \in Results, Attempt(t, result) PROVE TypeOK' /\ Grows
    <3>1. Request(t) \in Comment
      BY <2>7, RequestTypes DEF Attempt
    <3>2. CASE Again(call[t], result)
      <4>1. PICK time \in 0..Timeout : call' = [call EXCEPT ![t] = NextAttempt(@, result, time)]
        BY <2>7, <3>2 DEF Attempt
      <4>2. time \in Nat /\ call[t] \in Calls
        BY DEF TypeOK
      <4>3. NextAttempt(call[t], result, time) \in Calls
        BY <4>2 DEF NextAttempt, Calls
      <4>4. call' \in [Threads -> Calls]
        BY <4>1, <4>3 DEF TypeOK
      <4> QED
        BY <1>0, <2>7, <3>2, <4>4 DEF Attempt, TypeOK, ByPeople
    <3>3. CASE ~Again(call[t], result)
      <4>1. call' \in [Threads -> Calls]
        <5>1. FirstAttempt \in Calls
          BY DEF FirstAttempt, Calls
        <5>2. call' = [call EXCEPT ![t] = FirstAttempt]
          BY <2>7, <3>3 DEF Attempt
        <5> QED
          BY <5>1, <5>2 DEF TypeOK
      <4>2. /\ said' \subseteq Facts /\ draft' \in [Threads -> SUBSET Facts]
            /\ answer' \in [Threads -> Answered] /\ pc' \in [Threads -> {"idle"} \cup Working]
            /\ \A s \in Threads : pc'[s] # "idle" => pc[s] # "idle"
        <5>1. ASSUME NEW d \in Drafts
              PROVE  d \in SUBSET Facts
          OBVIOUS
        <5>2. CASE \E d \in Drafts :
                     /\ said' = said \cup d
                     /\ draft' = [draft EXCEPT ![t] = d] /\ Goto(t, "save") /\ UNCHANGED answer
          BY <2>7, <5>1, <5>2 DEF Attempt, TypeOK, Goto, Working, Texts
        <5>3. CASE \E d \in Drafts :
                     /\ said' = said \cup d
                     /\ Conclude(t, Answer("response", Request(t).says \cup d)) /\ UNCHANGED draft
          BY <2>7, <3>1, <5>1, <5>3
          DEF Attempt, TypeOK, Goto, Working, Texts, Conclude, Answer, Answered, Comment
        <5>4. CASE /\ \E type \in {"response", "error"} : Conclude(t, Answer(type, {}))
                   /\ UNCHANGED <<said, draft>>
          BY <2>7, <5>4 DEF Attempt, TypeOK, Goto, Working, Conclude, Answer, Answered, Texts
        <5> QED
          BY <2>7, <3>3, <5>2, <5>3, <5>4 DEF Attempt
      <4> QED
        BY <1>0, <2>7, <4>1, <4>2 DEF Attempt, TypeOK, ByPeople
    <3> QED
      BY <3>2, <3>3
  <2> QED
    BY <1>3, <2>1, <2>2, <2>3, <2>4, <2>5, <2>6, <2>7 DEF Step
<1>4. CASE UNCHANGED vars
  BY <1>0, <1>4 DEF vars, local, TypeOK, ByPeople
<1> QED
  BY <1>1, <1>2, <1>3, <1>4 DEF Next

\* The records of ModelTurn, of its comments, outcomes, briefs and calls, keep
\* their types.
THEOREM TypeCorrect == Spec => []TypeOK
<1>1. TypeOK /\ [Next]_vars => TypeOK'
  BY NextTypeOK
<1> QED
  BY <1>1, InitTypeOK, PTL DEF Spec

-----------------------------------------------------------------------------
(* What a step may write *)

Same(s) == /\ answer'[s] = answer[s] /\ ledger'[s] = ledger[s] /\ draft'[s] = draft[s]
           /\ pc'[s] = pc[s] /\ command'[s] = command[s]
           /\ late'[s] = late[s] /\ call'[s] = call[s]

Emptied(s) == /\ answer'[s].says = {} /\ ledger'[s] = {} /\ draft'[s] = {} /\ pc'[s] = "idle"
              /\ late'[s] = FALSE /\ call'[s] = FirstAttempt

LEMMA DoneEffect ==
  ASSUME TypeOK, NEW t \in Threads, Done(t)
  PROVE  \A s \in Threads : Same(s) \/ Emptied(s)
<1>1. ASSUME NEW s \in Threads, s # t PROVE Same(s)
  BY <1>1 DEF Done, Goto, Same, TypeOK
<1>2. Emptied(t)
  BY DEF Done, Goto, Emptied, TypeOK, NoAnswer, Answer
<1> QED
  BY <1>1, <1>2

\* The new comment of a step, if it has one: what a person writes, or the answer
\* of a thread.
LEMMA NewComment ==
  ASSUME TypeOK, [Next]_vars
  PROVE  \/ comments' = comments
         \/ \E p \in Prompts :
              comments' = Append(comments, [author |-> "person", kind |-> p.kind, says |-> p.says])
         \/ \E t \in Threads :
              /\ pc[t] \in {"publish", "repeat"}
              /\ comments' = Append(comments, [author |-> "agent", kind |-> Request(t).kind,
                                               says |-> answer[t].says])
<1>1. ASSUME NEW t \in Threads, Step(t)
      PROVE  comments' = comments \/ Publish(t)
  BY <1>1 DEF Step, Lookup, Fetch, Save, Store, Fail, Attempt
<1> QED
  BY <1>1 DEF Next, Write, Take, Publish, vars

\* Stored outcomes stay, and a new one is the answer of a thread.
LEMMA NewOutcome ==
  ASSUME TypeOK, [Next]_vars
  PROVE  /\ DOMAIN outcomes \subseteq DOMAIN outcomes'
         /\ \A n \in DOMAIN outcomes : outcomes'[n] = outcomes[n]
         /\ \A n \in DOMAIN outcomes' \ DOMAIN outcomes :
              \E t \in Threads : outcomes'[n] = answer[t]
<1>1. ASSUME NEW t \in Threads, Step(t)
      PROVE  outcomes' = outcomes \/ Store(t)
  BY <1>1 DEF Step, Lookup, Fetch, Save, Publish, Fail, Attempt
<1>2. outcomes' = outcomes \/ \E t \in Threads : Store(t)
  BY <1>1 DEF Next, Write, Take, vars
<1>3. ASSUME NEW t \in Threads, Store(t)
      PROVE  /\ DOMAIN outcomes \subseteq DOMAIN outcomes'
             /\ \A n \in DOMAIN outcomes : outcomes'[n] = outcomes[n]
             /\ \A n \in DOMAIN outcomes' \ DOMAIN outcomes : outcomes'[n] = answer[t]
  BY <1>3 DEF Store
<1> QED
  BY <1>2, <1>3

\* A new brief has the ledger of the thread that saves it.
LEMMA NewBrief ==
  ASSUME TypeOK, [Next]_vars
  PROVE  \A b \in briefs' : b \in briefs
           \/ \E t \in Threads : /\ pc[t] = "save"
                                 /\ b = [command |-> command[t], draft |-> draft[t],
                                         ledger |-> ledger[t]]
<1>1. ASSUME NEW t \in Threads, Step(t)
      PROVE  briefs' = briefs \/ Save(t)
  BY <1>1 DEF Step, Lookup, Fetch, Store, Publish, Fail, Attempt
<1>2. briefs' = briefs \/ \E t \in Threads : Save(t)
  BY <1>1 DEF Next, Write, Take, vars
<1>3. ASSUME NEW t \in Threads, Save(t), NEW b \in briefs', b \notin briefs
      PROVE  /\ pc[t] = "save"
             /\ b = [command |-> command[t], draft |-> draft[t], ledger |-> ledger[t]]
  BY <1>3 DEF Save
<1> QED
  BY <1>2, <1>3

\* What a step does with the state of a turn: it begins, repeats an outcome,
\* looks further, works on its answer, or is over.
Begins(t) ==
  /\ pc[t] = "idle" /\ pc'[t] = "lookup"
  /\ late'[t] = (command'[t] \in DOMAIN outcomes)
  /\ answer'[t] = answer[t] /\ ledger'[t] = ledger[t] /\ draft'[t] = draft[t]
  /\ call'[t] = call[t]

Repeats(t) ==
  /\ pc[t] = "lookup" /\ command[t] \in DOMAIN outcomes /\ pc'[t] = "repeat"
  /\ answer'[t] = outcomes[command[t]] /\ ledger'[t] = ledger[t] /\ draft'[t] = draft[t]
  /\ command'[t] = command[t] /\ late'[t] = late[t] /\ call'[t] = call[t]

Looks(t) ==
  /\ pc[t] = "lookup" /\ command[t] \notin DOMAIN outcomes /\ pc'[t] = "fetch"
  /\ answer'[t] = answer[t] /\ ledger'[t] = ledger[t] /\ draft'[t] = draft[t]
  /\ command'[t] = command[t] /\ late'[t] = late[t] /\ call'[t] = call[t]

Works(t) ==
  /\ pc[t] \in Working \ {"lookup", "repeat"} /\ pc'[t] \in Working \ {"lookup", "repeat"}
  /\ command'[t] = command[t] /\ late'[t] = late[t]
  /\ \/ answer'[t] = answer[t]
     \/ answer'[t].says \subseteq Request(t).says \cup Wording \cup ledger'[t] \cup draft[t]
                                    \cup (said' \cap Facts)
     \/ \E b \in briefs :
          answer'[t].says \subseteq Request(t).says \cup Wording \cup b.draft \cup b.ledger
  /\ draft'[t] = draft[t] \/ draft'[t] \subseteq said' \cap Facts
  /\ \/ pc[t] = "fetch" /\ ledger'[t] = Ledger(Known(t))
     \/ pc[t] # "fetch" /\ ledger'[t] = ledger[t]
  /\ pc'[t] \in {"call", "save"} => pc[t] \in {"fetch", "call"}
  /\ \/ call'[t] = call[t] \/ call'[t] = FirstAttempt
     \/ \E result \in Results, time \in 0..Timeout :
          /\ Again(call[t], result) /\ call'[t] = NextAttempt(call[t], result, time)

TurnEffect(t) == Same(t) \/ Emptied(t) \/ Begins(t) \/ Repeats(t) \/ Looks(t) \/ Works(t)

LEMMA Turns ==
  ASSUME TypeOK, [Next]_vars, NEW s \in Threads
  PROVE  TurnEffect(s)
<1> USE ConstantsAssumption
<1>1. CASE UNCHANGED vars
  BY <1>1 DEF vars, TurnEffect, Same
<1>2. ASSUME NEW p \in Prompts, Write(p) PROVE TurnEffect(s)
  BY <1>2 DEF Write, local, TurnEffect, Same
<1>3. ASSUME NEW t \in Threads, NEW n \in 1..Len(comments), Take(t, n) PROVE TurnEffect(s)
  <2>1. CASE s = t
    BY <1>3, <2>1 DEF Take, Goto, TypeOK, TurnEffect, Begins
  <2>2. CASE s # t
    BY <1>3, <2>2 DEF Take, Goto, TypeOK, TurnEffect, Same
  <2> QED
    BY <2>1, <2>2
<1>4. ASSUME NEW t \in Threads, Step(t), s # t PROVE TurnEffect(s)
  <2>1. CASE Done(t)
    BY <2>1, DoneEffect DEF TurnEffect
  <2>2. CASE Lookup(t)
    BY <1>4, <2>2 DEF Lookup, Goto, TypeOK, TurnEffect, Same
  <2>3. CASE Fetch(t)
    BY <1>4, <2>3 DEF Fetch, Conclude, Goto, TypeOK, TurnEffect, Same
  <2>4. CASE Save(t)
    BY <1>4, <2>4 DEF Save, Conclude, Goto, TypeOK, TurnEffect, Same
  <2>5. CASE Publish(t)
    BY <1>4, <2>1, <2>5 DEF Publish, local, Goto, TypeOK, TurnEffect, Same
  <2>6. ASSUME NEW result \in Results, Attempt(t, result) PROVE TurnEffect(s)
    BY <1>4, <2>6 DEF Attempt, Conclude, Goto, TypeOK, TurnEffect, Same
  <2> QED
    BY <1>4, <2>1, <2>2, <2>3, <2>4, <2>5, <2>6 DEF Step, Store, Fail
<1>5. ASSUME Step(s) PROVE TurnEffect(s)
  <2>1. CASE Done(s)
    BY <2>1, DoneEffect DEF TurnEffect
  <2>2. CASE Lookup(s)
    BY <2>2 DEF Lookup, Goto, TypeOK, TurnEffect, Repeats, Looks
  <2>3. CASE Fetch(s)
    <3>1. ledger'[s] = Ledger(Known(s)) /\ Ledger(Known(s)) \in SUBSET Facts
      BY <2>3 DEF Fetch, TypeOK, Ledger
    <3>2. /\ Says(Mode(s), Ledger(Known(s))) \subseteq ledger'[s] \cup Wording
          /\ SynthesisSays(Context(s)) \subseteq Wording
      BY <3>1, SaysFound, SynthesisFound
    <3>3. /\ pc'[s] \in {"call", "publish"} /\ pc[s] = "fetch"
          /\ command' = command /\ late' = late /\ draft' = draft /\ call' = call
      BY <2>3 DEF Fetch, Conclude, Goto, TypeOK
    <3>4. \/ answer'[s] = answer[s]
          \/ answer'[s].says = Request(s).says \cup SynthesisSays(Context(s))
          \/ answer'[s].says = (IF Mode(s) = "stop" THEN {} ELSE Request(s).says)
                                  \cup Says(Mode(s), Ledger(Known(s)))
          \/ \E b \in Kept(s) :
               answer'[s].says = Request(s).says \cup b.draft \cup Says("product_brief", b.ledger)
      <4>1. ASSUME NEW a, Conclude(s, a) PROVE answer'[s] = a
        BY <4>1 DEF Conclude, TypeOK
      <4>2. CASE AsksModel(s) /\ UNCHANGED answer
        BY <4>2
      <4>3. CASE Conclude(s, Answer("response", Request(s).says \cup SynthesisSays(Context(s))))
        BY <4>1, <4>3 DEF Answer
      <4>4. CASE \E b \in Kept(s) : Conclude(s, BriefAnswer(s, b.draft, b.ledger))
        BY <4>1, <4>4 DEF BriefAnswer, Answer
      <4>5. CASE Conclude(s, Answer("response", (IF Mode(s) = "stop" THEN {} ELSE Request(s).says)
                                                   \cup Says(Mode(s), Ledger(Known(s)))))
        BY <4>1, <4>5 DEF Answer
      <4> QED
        BY <2>3, <4>2, <4>3, <4>4, <4>5 DEF Fetch
    <3>6. ASSUME NEW b \in Kept(s)
          PROVE  b \in briefs /\ Says("product_brief", b.ledger) \subseteq b.ledger \cup Wording
      <4>1. b \in briefs /\ b.ledger \in SUBSET Facts
        BY DEF Kept, TypeOK
      <4> QED
        BY <4>1, SaysFound
    <3>5. \/ answer'[s] = answer[s]
          \/ answer'[s].says \subseteq Request(s).says \cup Wording \cup ledger'[s]
          \/ \E b \in briefs :
               answer'[s].says \subseteq Request(s).says \cup Wording \cup b.draft \cup b.ledger
      BY <3>2, <3>4, <3>6
    <3> QED
      BY <3>1, <3>3, <3>5 DEF TurnEffect, Works, Working
  <2>4. CASE Save(s)
    <3>1. ledger' = ledger /\ ledger[s] \in SUBSET Facts
      BY <2>4 DEF Save, TypeOK
    <3>2. Says("product_brief", ledger[s]) \subseteq ledger'[s] \cup Wording
      BY <3>1, SaysFound
    <3>3. /\ pc'[s] = "publish" /\ pc[s] = "save"
          /\ command' = command /\ late' = late /\ draft' = draft /\ call' = call
      BY <2>4 DEF Save, Conclude, Goto, TypeOK
    <3>4. \/ answer'[s].says = {}
          \/ answer'[s].says = Request(s).says \cup draft[s] \cup Says("product_brief", ledger[s])
      BY <2>4 DEF Save, Conclude, Answer, BriefAnswer, TypeOK
    <3>5. answer'[s].says \subseteq Request(s).says \cup Wording \cup ledger'[s] \cup draft[s]
      BY <3>2, <3>4
    <3> QED
      BY <3>1, <3>3, <3>5 DEF TurnEffect, Works, Working
  <2>5. CASE Publish(s)
    BY <2>1, <2>5 DEF Publish, local, Goto, TypeOK, TurnEffect, Works, Working
  <2>6. ASSUME NEW result \in Results, Attempt(s, result) PROVE TurnEffect(s)
    <3>1. /\ command' = command /\ late' = late /\ ledger' = ledger /\ pc[s] = "call"
      BY <2>6 DEF Attempt
    <3>2. CASE Again(call[s], result)
      <4>1. PICK time \in 0..Timeout : call' = [call EXCEPT ![s] = NextAttempt(@, result, time)]
        BY <2>6, <3>2 DEF Attempt
      <4>2. call'[s] = NextAttempt(call[s], result, time)
        BY <4>1 DEF TypeOK
      <4>3. pc' = pc /\ draft' = draft /\ answer' = answer
        BY <2>6, <3>2 DEF Attempt
      <4> QED
        BY <3>1, <3>2, <4>2, <4>3 DEF TurnEffect, Works, Working
    <3>3. CASE ~Again(call[s], result)
      <4>1. call'[s] = FirstAttempt
        BY <2>6, <3>3 DEF Attempt, TypeOK
      <4>2. ASSUME NEW d \in Drafts
            PROVE  d \subseteq Facts
        OBVIOUS
      <4>3. /\ pc'[s] \in {"save", "publish"}
            /\ \/ answer'[s] = answer[s]
               \/ answer'[s].says \subseteq Request(s).says \cup (said' \cap Facts)
            /\ draft'[s] = draft[s] \/ draft'[s] \subseteq said' \cap Facts
        BY <2>6, <3>3, <4>2 DEF Attempt, Conclude, Goto, Answer, TypeOK
      <4> QED
        BY <3>1, <4>1, <4>3 DEF TurnEffect, Works, Working
    <3> QED
      BY <3>2, <3>3
  <2> QED
    BY <1>5, <2>1, <2>2, <2>3, <2>4, <2>5, <2>6 DEF Step, Store, Fail
<1> QED
  BY <1>1, <1>2, <1>3, <1>4, <1>5 DEF Next

-----------------------------------------------------------------------------
(* The invariant *)

\* The new comment at its place, and all others where they were.
LEMMA NextComments ==
  ASSUME TypeOK, [Next]_vars
  PROVE  /\ Grows /\ comments' \in Seq(Comment)
         /\ \A i \in DOMAIN comments' :
              \/ i \in DOMAIN comments /\ comments'[i] = comments[i]
              \/ \E p \in Prompts :
                   comments'[i] = [author |-> "person", kind |-> p.kind, says |-> p.says]
              \/ \E t \in Threads :
                   comments'[i] = [author |-> "agent", kind |-> Request(t).kind,
                                   says |-> answer[t].says]
         /\ \A i \in DOMAIN comments' :
              i \notin DOMAIN comments /\ comments'[i].author = "person" =>
                i \in ByPeople(Len(comments))'
<1>1. Grows /\ comments' \in Seq(Comment) /\ comments \in Seq(Comment)
  BY NextTypeOK DEF TypeOK, Comment
<1>2. ASSUME NEW c, comments' = Append(comments, c), NEW i \in DOMAIN comments'
      PROVE  (i \in DOMAIN comments /\ comments'[i] = comments[i]) \/ comments'[i] = c
  BY <1>1, <1>2
<1>3. ASSUME NEW i \in DOMAIN comments', comments'[i].author = "person"
      PROVE  i \in ByPeople(Len(comments))'
  BY <1>1, <1>3 DEF ByPeople
<1> QED
  BY <1>1, <1>2, <1>3, NewComment

\* What the thread has, and has had, to take facts from only grows.
LEMMA OriginsGrow ==
  ASSUME TypeOK, [Next]_vars
  PROVE  Origins \subseteq Origins'
<1>1. PeopleSay(Len(comments)) \subseteq PeopleSay(Len(comments))'
  BY NextTypeOK, NextComments, Growing DEF TypeOK, Comment
<1>2. said \subseteq said'
  BY DEF Next, Write, Take, Step, Lookup, Fetch, Save, Publish, Store, Fail, Attempt, vars
<1> QED
  BY <1>1, <1>2 DEF Origins

\* A ledger has no fact from nowhere.
LEMMA KnownFound ==
  ASSUME TypeOK, AllFound, NEW t \in Threads, pc[t] # "idle"
  PROVE  Ledger(Known(t)) \subseteq Origins
<1>1. command[t] \in 1..Len(comments) /\ Len(comments) \in Nat
  BY RequestTypes DEF TypeOK
<1>2. \A i \in 1..command[t] : Ledger(comments[i].says) \subseteq Origins
  BY <1>1 DEF AllFound, TypeOK
<1>3. Ledger(AllSay(command[t])) \subseteq Origins
  BY <1>2 DEF AllSay, Ledger
<1> QED
  BY <1>3 DEF Known, Ledger, Origins

LEMMA FoundStep ==
  ASSUME TypeOK, AllFound, [Next]_vars
  PROVE  AllFound'
<1> USE ConstantsAssumption
<1>1. TypeOK' /\ Origins \subseteq Origins'
  BY NextTypeOK, OriginsGrow
<1>2. \A i \in DOMAIN comments' : Ledger(comments'[i].says) \subseteq Origins'
  <2>1. ASSUME NEW i \in DOMAIN comments', i \notin DOMAIN comments,
               comments'[i].author = "person"
        PROVE  Ledger(comments'[i].says) \subseteq Origins'
    <3>1. i \in ByPeople(Len(comments))'
      BY <2>1, NextComments
    <3>2. comments'[i].says \subseteq PeopleSay(Len(comments))'
      BY <3>1 DEF PeopleSay
    <3> QED
      BY <3>2 DEF Ledger, Origins
  <2>2. ASSUME NEW i \in DOMAIN comments' PROVE Ledger(comments'[i].says) \subseteq Origins'
    <3>1. CASE i \in DOMAIN comments /\ comments'[i] = comments[i]
      BY <1>1, <3>1 DEF AllFound
    <3>2. CASE i \notin DOMAIN comments /\ comments'[i].author = "person"
      BY <2>1, <3>2
    <3>3. ASSUME NEW t \in Threads, comments'[i].says = answer[t].says
          PROVE  Ledger(comments'[i].says) \subseteq Origins'
      BY <1>1, <3>3 DEF AllFound
    <3>4. CASE \E p \in Prompts :
                 comments'[i] = [author |-> "person", kind |-> p.kind, says |-> p.says]
      <4>1. comments'[i].author = "person"
        BY <3>4
      <4>2. i \in DOMAIN comments => comments'[i] = comments[i]
        <5>1. Grows
          BY NextComments
        <5>2. comments \in Seq(Comment)
          BY DEF TypeOK, Comment
        <5> QED
          BY <5>1, <5>2 DEF Grows
      <4> QED
        BY <3>1, <3>2, <4>1, <4>2
    <3>5. CASE \E t \in Threads :
                 comments'[i] = [author |-> "agent", kind |-> Request(t).kind,
                                 says |-> answer[t].says]
      BY <3>3, <3>5
    <3> QED
      BY <3>1, <3>4, <3>5, NextComments
  <2> QED
    BY <2>2
<1>3. \A n \in DOMAIN outcomes' : Ledger(outcomes'[n].says) \subseteq Origins'
  BY <1>1, NewOutcome DEF AllFound
<1>4. \A b \in briefs' : b.ledger \subseteq Origins' /\ b.draft \subseteq Origins'
  BY <1>1, NewBrief DEF AllFound
<1>5. ASSUME NEW t \in Threads
      PROVE  /\ Ledger(answer'[t].says) \subseteq Origins'
             /\ ledger'[t] \subseteq Origins' /\ draft'[t] \subseteq Origins'
  <2>1. TurnEffect(t)
    BY Turns
  <2>2. said' \subseteq Origins' /\ Wording \subseteq Origins
    BY DEF Origins
  <2>3. CASE Works(t)
    <3>1. pc[t] # "idle"
      BY <2>3 DEF Works, Working
    <3>2. Ledger(Request(t).says) \subseteq Origins
      BY <3>1, RequestTypes DEF AllFound, Request, TypeOK
    <3>3. ledger'[t] \subseteq Origins'
      BY <1>1, <2>3, <3>1, KnownFound DEF Works, AllFound
    <3>4. draft'[t] \subseteq Origins'
      BY <1>1, <2>2, <2>3 DEF Works, AllFound
    <3>5. Ledger(answer'[t].says) \subseteq Origins'
      <4>1. CASE answer'[t] = answer[t]
        BY <1>1, <4>1 DEF AllFound
      <4>2. CASE answer'[t].says \subseteq Request(t).says \cup Wording \cup ledger'[t]
                                             \cup draft[t] \cup (said' \cap Facts)
        <5>1. draft[t] \subseteq Origins
          BY DEF AllFound
        <5> QED
          BY <1>1, <2>2, <3>2, <3>3, <4>2, <5>1 DEF Ledger
      <4>3. ASSUME NEW b \in briefs,
                   answer'[t].says \subseteq Request(t).says \cup Wording \cup b.draft \cup b.ledger
            PROVE  Ledger(answer'[t].says) \subseteq Origins'
        <5>1. b.draft \subseteq Origins /\ b.ledger \subseteq Origins
          BY DEF AllFound
        <5> QED
          BY <1>1, <2>2, <3>2, <4>3, <5>1 DEF Ledger
      <4> QED
        BY <2>3, <4>1, <4>2, <4>3 DEF Works
    <3> QED
      BY <3>3, <3>4, <3>5
  <2>4. CASE ~Works(t)
    <3>1. /\ ledger'[t] = ledger[t] \/ ledger'[t] = {}
          /\ draft'[t] = draft[t] \/ draft'[t] = {}
          /\ \/ answer'[t] = answer[t] \/ answer'[t].says = {}
             \/ command[t] \in DOMAIN outcomes /\ answer'[t] = outcomes[command[t]]
      BY <2>1, <2>4 DEF TurnEffect, Same, Emptied, Begins, Repeats, Looks
    <3>2. Ledger({}) = {}
      BY DEF Ledger
    <3> QED
      BY <1>1, <3>1, <3>2 DEF AllFound
  <2> QED
    BY <2>3, <2>4
<1> QED
  BY <1>2, <1>3, <1>4, <1>5 DEF AllFound

LEMMA KeepsStep ==
  ASSUME TypeOK, LedgerKeeps, SaidIsKept, [Next]_vars
  PROVE  LedgerKeeps' /\ SaidIsKept'
<1>1. ASSUME NEW n \in ByPeople(Len(comments)) PROVE PeopleSay(n)' = PeopleSay(n)
  <2>1. n \in 0..Len(comments)
    BY DEF ByPeople, TypeOK
  <2> QED
    BY <2>1, NextTypeOK, NextComments, Growing DEF TypeOK, Comment
<1>2. ASSUME NEW t \in Threads, pc'[t] \in {"call", "save"}
      PROVE  Ledger(Issue \cup PeopleSay(command[t]))' \subseteq ledger'[t]
  <2>1. TurnEffect(t)
    BY Turns
  <2>2. pc[t] # "idle" /\ command'[t] = command[t]
    BY <1>2, <2>1 DEF TurnEffect, Same, Emptied, Begins, Repeats, Looks, Works, Working
  <2>3. PICK n \in ByPeople(Len(comments)) : command[t] = n
    BY <2>2, RequestTypes
  <2>4. PeopleSay(command[t])' = PeopleSay(n)'
    BY <2>2, <2>3 DEF PeopleSay, ByPeople
  <2>5. PeopleSay(command[t])' = PeopleSay(n)
    BY <1>1, <2>4
  <2>6. CASE pc[t] = "fetch"
    <3>1. ledger'[t] = Ledger(Known(t))
      BY <1>2, <2>1, <2>6 DEF TurnEffect, Same, Emptied, Begins, Repeats, Looks, Works
    <3>2. PeopleSay(n) \subseteq Known(t)
      BY <2>3 DEF PeopleSay, AllSay, ByPeople, Known
    <3> QED
      BY <2>5, <3>1, <3>2 DEF Ledger, Known
  <2>7. CASE pc[t] # "fetch"
    <3>1. ledger'[t] = ledger[t] /\ pc[t] \in {"call", "save"}
      BY <1>2, <2>1, <2>7 DEF TurnEffect, Same, Emptied, Begins, Repeats, Looks, Works
    <3>2. Ledger(Issue \cup PeopleSay(n)) \subseteq ledger[t]
      BY <2>3, <3>1 DEF LedgerKeeps
    <3> QED
      BY <2>5, <3>1, <3>2 DEF Ledger
  <2> QED
    BY <2>6, <2>7
<1>3. ASSUME NEW b \in briefs'
      PROVE  Ledger(Issue \cup PeopleSay(b.command))' \subseteq b.ledger
  <2>1. CASE b \in briefs
    <3>1. b.command \in ByPeople(Len(comments))
      BY <2>1 DEF TypeOK
    <3> QED
      BY <1>1, <2>1, <3>1 DEF SaidIsKept
  <2>2. ASSUME NEW t \in Threads, pc[t] = "save",
               b = [command |-> command[t], draft |-> draft[t], ledger |-> ledger[t]]
        PROVE  Ledger(Issue \cup PeopleSay(b.command))' \subseteq b.ledger
    <3>1. command[t] \in ByPeople(Len(comments))
      BY <2>2, RequestTypes
    <3> QED
      BY <1>1, <2>2, <3>1 DEF LedgerKeeps
  <2> QED
    BY <2>1, <2>2, NewBrief
<1> QED
  BY <1>2, <1>3 DEF LedgerKeeps, SaidIsKept

LEMMA SettledStep ==
  ASSUME TypeOK, SettledIsRepeated, [Next]_vars
  PROVE  SettledIsRepeated'
<1> SUFFICES ASSUME NEW t \in Threads, late'[t]
             PROVE  /\ command'[t] \in DOMAIN outcomes' /\ pc'[t] \in {"lookup", "repeat"}
                    /\ pc'[t] = "repeat" => answer'[t] = outcomes'[command'[t]]
  BY DEF SettledIsRepeated
<1>1. TurnEffect(t)
  BY Turns
<1>2. /\ DOMAIN outcomes \subseteq DOMAIN outcomes'
      /\ \A n \in DOMAIN outcomes : outcomes'[n] = outcomes[n]
  BY NewOutcome
<1>3. CASE Begins(t)
  BY <1>2, <1>3 DEF Begins
<1>4. CASE ~Begins(t)
  <2>1. late[t]
    BY <1>1, <1>4 DEF TurnEffect, Same, Emptied, Repeats, Looks, Works
  <2>2. /\ command[t] \in DOMAIN outcomes /\ pc[t] \in {"lookup", "repeat"}
        /\ pc[t] = "repeat" => answer[t] = outcomes[command[t]]
    BY <2>1 DEF SettledIsRepeated
  <2> QED
    BY <1>1, <1>2, <1>4, <2>2 DEF TurnEffect, Same, Emptied, Repeats, Looks, Works
<1> QED
  BY <1>3, <1>4

LEMMA SlotNat == Slot \in Nat /\ MaxRetries \in Nat /\ Timeout \in Nat /\ StaleAfter \in Nat
BY ConstantsAssumption DEF Slot

\* One more attempt takes at most one more slot.
LEMMA NextBounded ==
  ASSUME NEW c \in Calls, NEW result, NEW time \in 0..Timeout, Again(c, result),
         1 <= c.attempt, c.grown <= c.attempt - 1, c.elapsed <= (c.attempt - 1) * Slot
  PROVE  LET d == NextAttempt(c, result, time)
         IN  /\ 1 <= d.attempt /\ d.attempt <= MaxRetries + 1
             /\ d.grown <= d.attempt - 1 /\ d.elapsed <= (d.attempt - 1) * Slot
<1> DEFINE d == NextAttempt(c, result, time)
<1>1. c.attempt \in Nat /\ c.grown \in Nat /\ c.elapsed \in Nat /\ time \in Nat
  BY SlotNat DEF Calls
<1>2. c.attempt <= MaxRetries
  BY DEF Again
<1>3. d.attempt = c.attempt + 1 /\ d.grown <= c.grown + 1
      /\ d.elapsed = c.elapsed + time + c.attempt
  BY <1>1 DEF NextAttempt
<1>4. time + c.attempt <= Slot
  BY <1>1, <1>2, SlotNat DEF Slot
<1>5. c.attempt * Slot = (c.attempt - 1) * Slot + Slot
  BY <1>1, SlotNat
<1>6. (c.attempt - 1) * Slot \in Int
  BY <1>1, SlotNat
<1>7. d.elapsed <= c.attempt * Slot
  BY <1>1, <1>3, <1>4, <1>5, <1>6, SlotNat
<1>8. d.grown \in Nat
  BY <1>1 DEF NextAttempt
<1> QED
  BY <1>1, <1>2, <1>3, <1>7, <1>8, SlotNat

LEMMA CallsStep ==
  ASSUME TypeOK, CallsBounded, [Next]_vars
  PROVE  CallsBounded'
<1> DEFINE Bounded(c) == /\ 1 <= c.attempt /\ c.attempt <= MaxRetries + 1
                         /\ c.grown <= c.attempt - 1 /\ c.elapsed <= (c.attempt - 1) * Slot
<1>1. Bounded(FirstAttempt)
  BY SlotNat DEF FirstAttempt
<1>2. ASSUME NEW t \in Threads PROVE Bounded(call'[t])
  <2>1. TurnEffect(t)
    BY Turns
  <2>2. Bounded(call[t]) /\ call[t] \in Calls
    BY DEF CallsBounded, TypeOK
  <2>3. CASE call'[t] = call[t] \/ call'[t] = FirstAttempt
    BY <1>1, <2>2, <2>3
  <2>4. ASSUME NEW result \in Results, NEW time \in 0..Timeout,
               Again(call[t], result), call'[t] = NextAttempt(call[t], result, time)
        PROVE  Bounded(call'[t])
    BY <2>2, <2>4, NextBounded
  <2> QED
    BY <2>1, <2>3, <2>4 DEF TurnEffect, Same, Emptied, Begins, Repeats, Looks, Works
<1> QED
  BY <1>2 DEF CallsBounded

-----------------------------------------------------------------------------
(* Theorems *)

LEMMA InitInvariant == Init => IInv
<1> SUFFICES ASSUME Init PROVE IInv
  OBVIOUS
<1>1. TypeOK
  BY InitTypeOK
<1>2. AllFound
  BY DEF Init, AllFound, NoAnswer, Answer, Ledger
<1>3. LedgerKeeps /\ SaidIsKept /\ SettledIsRepeated
  BY DEF Init, LedgerKeeps, SaidIsKept, SettledIsRepeated
<1>4. CallsBounded
  BY SlotNat DEF Init, CallsBounded, FirstAttempt
<1> QED
  BY <1>1, <1>2, <1>3, <1>4 DEF IInv

LEMMA NextInvariant == IInv /\ [Next]_vars => IInv'
BY NextTypeOK, FoundStep, KeepsStep, SettledStep, CallsStep DEF IInv

\* Every state of ModelTurn satisfies the inductive invariant.
THEOREM Invariance == Spec => []IInv
BY InitInvariant, NextInvariant, PTL DEF Spec

\* The agent's own answers, read again by _decision_ledger in turn after turn,
\* bring nothing into a thread but what people and models said and the few facts
\* of Wording.
THEOREM NothingInvented == Spec => []NothingElseInvented
<1>1. IInv => NothingElseInvented
  BY DEF IInv, AllFound, Origins, NothingElseInvented
<1> QED
  BY <1>1, Invariance, PTL

\* What people wrote in a thread before they asked for a brief is in the ledger
\* that create_or_reuse puts over the draft of the model.
THEOREM SaidKept == Spec => []SaidIsKept
<1>1. IInv => SaidIsKept
  BY DEF IInv
<1> QED
  BY <1>1, Invariance, PTL

\* A delivery whose command has a stored outcome when it begins repeats it, and
\* reaches neither the model nor the briefs.
THEOREM SettledRepeated == Spec => []SettledIsRepeated
<1>1. IInv => SettledIsRepeated
  BY DEF IInv
<1> QED
  BY <1>1, Invariance, PTL

\* Whatever its attempts bring, a model call of either adapter ends before the
\* receipt of its delivery is old enough to be taken over.
THEOREM CallsFit == Spec => []CallFits
<1>1. IInv => CallFits
  <2> SUFFICES ASSUME IInv, NEW t \in Threads
               PROVE  call[t].elapsed + Timeout < StaleAfter /\ call[t].grown <= MaxRetries
    BY DEF CallFits
  <2> DEFINE k == call[t].attempt - 1
  <2>1. /\ call[t].attempt \in Nat /\ call[t].grown \in Nat /\ call[t].elapsed \in Nat
    BY DEF IInv, TypeOK, Calls
  <2>2. /\ k \in Nat /\ k <= MaxRetries /\ call[t].grown <= k /\ call[t].elapsed <= k * Slot
    BY <2>1, SlotNat DEF IInv, CallsBounded
  <2>3. k * Slot <= MaxRetries * Slot
    BY <2>2, SlotNat
  <2>4. (MaxRetries + 1) * Slot = MaxRetries * Slot + Slot
    BY SlotNat
  <2>5. Timeout <= Slot
    BY SlotNat DEF Slot
  <2>6. k * Slot \in Nat /\ MaxRetries * Slot \in Nat
    BY <2>2, SlotNat
  <2>7. MaxRetries * Slot + Slot < StaleAfter
    BY <2>4, ConstantsAssumption
  <2> HIDE DEF k
  <2> QED
    BY <2>1, <2>2, <2>3, <2>5, <2>6, <2>7, SlotNat
<1> QED
  BY <1>1, Invariance, PTL

-----------------------------------------------------------------------------
(* What has been answered can be read in the thread *)

\* The answer a to comment n is a later comment of the agent.
InThread(n, a) ==
  \E i \in DOMAIN comments :
    n < i /\ comments[i] = [author |-> "agent", kind |-> comments[n].kind, says |-> a.says]

\* What is stored as the outcome of a command, or is about to be, people can
\* read: nothing is settled behind their back.
OutcomesShown ==
  /\ \A n \in DOMAIN outcomes : InThread(n, outcomes[n])
  /\ \A t \in Threads : pc[t] = "store" => InThread(command[t], answer[t])

\* A comment is neither edited nor removed.
LEMMA CommentsStay ==
  ASSUME TypeOK, [Next]_vars, NEW i \in DOMAIN comments
  PROVE  i \in DOMAIN comments' /\ comments'[i] = comments[i]
<1>1. comments \in Seq(Comment)
  BY DEF TypeOK, Comment
<1>2. Grows /\ comments' \in Seq(Comment)
  BY NextComments
<1>3. i \in 1..Len(comments) /\ Len(comments) \in Nat /\ Len(comments') \in Nat
  BY <1>1, <1>2
<1>4. Len(comments) <= Len(comments') /\ comments'[i] = comments[i]
  BY <1>2, <1>3 DEF Grows
<1>5. i \in 1..Len(comments')
  BY <1>3, <1>4
<1>6. DOMAIN comments' = 1..Len(comments')
  BY <1>2
<1> QED
  BY <1>4, <1>5, <1>6

\* A command at work is a comment of the thread.
LEMMA CommandInThread ==
  ASSUME TypeOK, NEW t \in Threads, pc[t] # "idle"
  PROVE  command[t] \in DOMAIN comments
<1>1. comments \in Seq(Comment)
  BY DEF TypeOK, Comment
<1>2. command[t] \in 1..Len(comments)
  BY DEF TypeOK, ByPeople
<1> QED
  BY <1>1, <1>2

\* A thread comes to store an answer by publishing it.
LEMMA StoresWhatItPublished ==
  ASSUME TypeOK, [Next]_vars, NEW s \in Threads, pc'[s] = "store"
  PROVE  /\ answer'[s] = answer[s] /\ command'[s] = command[s]
         /\ pc[s] = "store" \/ Publish(s)
<1>1. CASE UNCHANGED vars
  BY <1>1 DEF vars
<1>2. ASSUME NEW p \in Prompts, Write(p) PROVE answer' = answer /\ command' = command /\ pc' = pc
  BY <1>2 DEF Write, local
<1>3. ASSUME NEW t \in Threads, NEW n \in 1..Len(comments), Take(t, n)
      PROVE  pc[s] = "store" /\ answer' = answer /\ command'[s] = command[s]
  BY <1>3 DEF Take, Goto, TypeOK
<1>4. ASSUME NEW t \in Threads, Step(t), t # s
      PROVE  pc'[s] = pc[s] /\ answer'[s] = answer[s] /\ command'[s] = command[s]
  BY <1>4 DEF Step, Lookup, Fetch, Save, Publish, Store, Fail, Attempt, Conclude, Done, Goto,
     local, TypeOK
<1>5. ASSUME Step(s) PROVE Publish(s) /\ answer'[s] = answer[s] /\ command'[s] = command[s]
  <2>1. ~Done(s)
    BY DEF Done, Goto, TypeOK
  <2>2. Publish(s)
    BY <1>5, <2>1 DEF Step, Lookup, Fetch, Save, Store, Fail, Attempt, Conclude, Goto, TypeOK
  <2> QED
    BY <2>1, <2>2 DEF Publish, local
<1> QED
  BY <1>1, <1>2, <1>3, <1>4, <1>5 DEF Next

\* Every step keeps the stored outcomes in the thread.
LEMMA ShownStep ==
  ASSUME TypeOK, OutcomesShown, [Next]_vars
  PROVE  OutcomesShown'
<1>1. ASSUME NEW s \in Threads, pc'[s] = "store" PROVE InThread(command[s], answer[s])'
  <2>1. answer'[s] = answer[s] /\ command'[s] = command[s]
    BY <1>1, StoresWhatItPublished
  <2>2. CASE pc[s] = "store"
    <3>1. command[s] \in DOMAIN comments
      BY <2>2, CommandInThread
    <3>2. InThread(command[s], answer[s])
      BY <2>2 DEF OutcomesShown
    <3>3. \E i \in DOMAIN comments' :
            command[s] < i /\ comments'[i] = [author |-> "agent", kind |-> comments'[command[s]].kind,
                                              says |-> answer[s].says]
      <4> DEFINE n == command[s]
                 a == answer[s]
      <4>1. n \in DOMAIN comments /\ InThread(n, a)
        BY <3>1, <3>2
      <4> HIDE DEF n, a
      <4>2. PICK i \in DOMAIN comments :
              n < i /\ comments[i] = [author |-> "agent", kind |-> comments[n].kind, says |-> a.says]
        BY <4>1 DEF InThread
      <4>3. i \in DOMAIN comments' /\ comments'[i] = comments[i] /\ comments'[n] = comments[n]
        BY <4>1, <4>2, CommentsStay
      <4> QED
        BY <4>2, <4>3 DEF n, a
    <3> QED
      BY <2>1, <3>3 DEF InThread
  <2>3. CASE Publish(s)
    <3>1. command[s] \in 1..Len(comments) /\ Len(comments) \in Nat
      BY <2>3 DEF Publish, TypeOK, ByPeople
    <3>2. comments' = Append(comments, [author |-> "agent", kind |-> comments[command[s]].kind,
                                        says |-> answer[s].says])
      BY <2>3 DEF Publish, Request
    <3>3. /\ Len(comments) + 1 \in DOMAIN comments'
          /\ comments'[Len(comments) + 1] = [author |-> "agent", kind |-> comments[command[s]].kind,
                                             says |-> answer[s].says]
          /\ comments'[command[s]] = comments[command[s]]
      BY <3>1, <3>2 DEF TypeOK
    <3> QED
      BY <2>1, <3>1, <3>3 DEF InThread
  <2> QED
    BY <1>1, <2>2, <2>3, StoresWhatItPublished
<1>2. ASSUME NEW n \in DOMAIN outcomes' PROVE InThread(n, outcomes[n])'
  <2>1. CASE n \in DOMAIN outcomes
    <3> DEFINE a == outcomes[n]
    <3>1. outcomes'[n] = a /\ n \in DOMAIN comments /\ InThread(n, a)
      BY <2>1, NewOutcome DEF OutcomesShown, TypeOK, ByPeople
    <3> HIDE DEF a
    <3>2. PICK i \in DOMAIN comments :
            n < i /\ comments[i] = [author |-> "agent", kind |-> comments[n].kind, says |-> a.says]
      BY <3>1 DEF InThread
    <3>3. i \in DOMAIN comments' /\ comments'[i] = comments[i] /\ comments'[n] = comments[n]
      BY <3>1, <3>2, CommentsStay
    <3> QED
      BY <3>1, <3>2, <3>3 DEF InThread
  <2>2. CASE n \notin DOMAIN outcomes
    <3>1. PICK t \in Threads : Store(t)
      <4>1. ASSUME NEW t \in Threads, Step(t)
            PROVE  outcomes' = outcomes \/ Store(t)
        BY <4>1 DEF Step, Lookup, Fetch, Save, Publish, Fail, Attempt
      <4> QED
        BY <2>2, <4>1 DEF Next, Write, Take, vars
    <3>2. /\ pc[t] = "store" /\ n = command[t] /\ outcomes'[n] = answer[t]
          /\ comments' = comments
      BY <2>2, <3>1 DEF Store
    <3>3. InThread(command[t], answer[t])
      BY <3>2 DEF OutcomesShown
    <3> QED
      BY <3>2, <3>3 DEF InThread
  <2> QED
    BY <2>1, <2>2
<1> QED
  BY <1>1, <1>2 DEF OutcomesShown

\* Whatever is stored as the outcome of a command was published before it was
\* stored, in the words in which it will be repeated.
THEOREM OutcomesAreShown == Spec => []OutcomesShown
<1>1. Init => OutcomesShown
  BY DEF Init, OutcomesShown
<1>2. IInv /\ OutcomesShown /\ [Next]_vars => OutcomesShown'
  BY ShownStep DEF IInv
<1> QED
  BY <1>1, <1>2, Invariance, PTL DEF Spec

\* What a thread of comments, its outcomes and its briefs have, they keep.
RecordsStay ==
  [][/\ \A i \in DOMAIN comments : i \in DOMAIN comments' /\ comments'[i] = comments[i]
     /\ \A n \in DOMAIN outcomes : n \in DOMAIN outcomes' /\ outcomes'[n] = outcomes[n]
     /\ briefs \subseteq briefs']_vars

\* No turn edits a comment, replaces a stored outcome or drops a brief: the
\* first outcome that is stored for a command is the one for good.
THEOREM RecordsAreKept == Spec => RecordsStay
<1> DEFINE Stay ==
      /\ \A i \in DOMAIN comments : i \in DOMAIN comments' /\ comments'[i] = comments[i]
      /\ \A n \in DOMAIN outcomes : n \in DOMAIN outcomes' /\ outcomes'[n] = outcomes[n]
      /\ briefs \subseteq briefs'
<1>1. ASSUME IInv, [Next]_vars PROVE Stay
  <2>1. \A i \in DOMAIN comments : i \in DOMAIN comments' /\ comments'[i] = comments[i]
    BY <1>1, CommentsStay DEF IInv
  <2>2. \A n \in DOMAIN outcomes : n \in DOMAIN outcomes' /\ outcomes'[n] = outcomes[n]
    BY <1>1, NewOutcome DEF IInv
  <2>3. briefs \subseteq briefs'
    BY <1>1 DEF Next, Write, Take, Step, Lookup, Fetch, Save, Publish, Store, Fail, Attempt, vars
  <2> QED
    BY <2>1, <2>2, <2>3
<1> HIDE DEF Stay
<1>2. Spec => [][Stay]_vars
  BY <1>1, Invariance, PTL DEF Spec
<1> QED
  BY <1>2, PTL DEF RecordsStay, Stay
=============================================================================
