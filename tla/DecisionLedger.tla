--------------------------- MODULE DecisionLedger ---------------------------
(***************************************************************************)
(* What the agent takes from a conversation, and what its answers say.     *)
(* build_conversation_decision_ledger looks for phrases in all texts of a  *)
(* thread; each phrase decides a fact.  A text is the set of the facts     *)
(* that would be read from it, with the marks that the policy looks for.   *)
(*                                                                         *)
(* The tables below hold, for every line that an answer may have, the      *)
(* facts that the same function would read from that line, since answers   *)
(* are texts of the thread in the next turn.  Left out are a phrase that   *)
(* begins in one text and ends in the next, and texts that say "probably   *)
(* delete", which add an action to the scope.                              *)
(***************************************************************************)
EXTENDS Naturals, FiniteSets

Facts == {"target", "provider", "later", "job", "move", "folders",
          "no_delete", "gate", "review", "bulk", "failure"}

\* A marker of _follow_up_advisory, another provider, Linear's starter comment.
Marks == {"follow_up", "outlook", "starter"}

Texts == SUBSET (Facts \cup Marks)

\* Mutant of Ledger: whatever was found is kept.
Ledger_All(words) == words

Ledger(words) == words \cap Facts

\* founder_confirmed_decisions: every fact but the prohibition has its sentence.
Confirmed(ledger) == ledger \ {"no_delete"}

\* Mutant of Asks: the question names the review model.
Asks_ReviewModel(ledger) ==
  IF {"target", "provider", "job"} \subseteq ledger THEN {"no_delete", "gate"} ELSE {"review"}

\* One of the two unresolved questions names the delete authority.
Asks(ledger) ==
  IF {"target", "provider", "job"} \subseteq ledger THEN {"no_delete", "gate"} ELSE {}

\* The ranks of the lines of an answer, and what each line says.  The line of
\* the permissions ends in "folders or labels", and names the folder creation
\* if no approval is required for it, as taken here; that of the gate begins
\* with "Delete gate".
LineRank == [target |-> 1, provider |-> 2, later |-> 3, job |-> 4, move |-> 5, folders |-> 5,
             no_delete |-> 6, review |-> 7, gate |-> 8, bulk |-> 9]
LineSays == [target |-> {"target"}, provider |-> {"provider"}, later |-> {"later"},
             job |-> {"job"}, move |-> {"move", "job"}, folders |-> {"folders"},
             no_delete |-> {"no_delete"}, review |-> {"review"},
             gate |-> {"no_delete", "gate"}, bulk |-> {"bulk"}]

AdviceRank == [job |-> 1, provider |-> 2, review |-> 3, gate |-> 4, bulk |-> 5]
AdviceSays == [job |-> {"job"}, provider |-> {"provider"}, review |-> {},
               gate |-> {"gate"}, bulk |-> {"bulk"}]

MilestoneRank == [target |-> 1, provider |-> 2, job |-> 3, review |-> 4, gate |-> 5]

\* _apply_decision_ledger puts these facts where the answer shows them.
BriefSays == [target |-> {"target"}, provider |-> {"provider"}, later |-> {"later"},
              job |-> {"job"}, move |-> {"move", "job"}, folders |-> {"folders"},
              no_delete |-> {"no_delete"}, failure |-> {"no_delete", "failure"}]

\* The first n lines of those that a ledger has.
Lines(rank, ledger, n) ==
  {f \in ledger \cap DOMAIN rank :
     Cardinality({rank[g] : g \in {g \in ledger \cap DOMAIN rank : rank[g] < rank[f]}}) < n}

Say(table, facts) == UNION {table[f] : f \in facts \cap DOMAIN table}

\* The goal, the actions in scope or their fallback, the defaults.
ScopeSays(ledger) ==
  Say(AdviceSays, Lines(AdviceRank, ledger, 4))
    \cup (IF "job" \in ledger THEN {"job"}
          ELSE {"move"} \cup (ledger \cap {"provider"}))

\* What an answer says that is put together from the ledger.
Says(mode, ledger) ==
  CASE mode = "conversation" ->
         Say(LineSays, Lines(LineRank, ledger, 4)) \cup Say(AdviceSays, Lines(AdviceRank, ledger, 2))
           \cup Asks(ledger)
    [] mode = "discovery" ->
         Say(LineSays, Lines(LineRank, ledger, 5)) \cup Say(AdviceSays, Lines(AdviceRank, ledger, 3))
           \cup Asks(ledger)
    [] mode = "scope_proposal" -> ScopeSays(ledger) \cup Asks(ledger)
    [] mode = "milestone_report" -> Say(LineSays, Lines(MilestoneRank, ledger, 4))
    [] mode = "product_brief" -> Say(BriefSays, ledger) \cup Asks(ledger)
    [] OTHER -> {}

\* _follow_up_advisory answers without a model when a marker is anywhere in
\* what it is given, or when the request is Linear's starter comment and there
\* are earlier comments.
FollowUp(request, context, earlier) ==
  "follow_up" \in request \cup context \/ ("starter" \in request /\ earlier)

SynthesisSays(context) ==
  {"job", "move", "no_delete"} \cup (IF "outlook" \in context THEN {} ELSE {"provider"})
=============================================================================
