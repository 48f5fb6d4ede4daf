------------------------------ MODULE Evaluator ------------------------------
(***************************************************************************)
(* The conformance evaluator as operators: which words and phrases of a    *)
(* Decision Package a text mentions, and the findings that follow.         *)
(*                                                                         *)
(* A statement of a package (a scope item, a non-goal, a criterion) is a   *)
(* value with the set of its distinctive words: those of five letters or   *)
(* more that are no stop words.  A text is the set of what it mentions:    *)
(* its words, and the statements whose phrase it contains; a phrase found  *)
(* inside longer words does not bring its own words with it.               *)
(***************************************************************************)
EXTENDS Naturals, FiniteSets

CONSTANTS
  Contents,         \* contents of Decision Packages
  Words, Statements,
  WordsOf,          \* WordsOf[s]: the distinctive words of statement s
  Security,         \* the words among _SECURITY_TERMS
  InScope, OutOfScope, Criteria  \* of a package content: sets of statements

ASSUME EvaluatorAssumption ==
  /\ Words \cap Statements = {} /\ Security \subseteq Words
  /\ WordsOf \in [Statements -> SUBSET Words]
  /\ {InScope, OutOfScope, Criteria} \subseteq [Contents -> SUBSET Statements]

Tokens(text) == text \cap Words

\* A quoted statement counts once, as the phrase, and not by its words.
Hits(s, text) == IF s \in text THEN {s} ELSE WordsOf[s] \cap Tokens(text)

FindConcepts(statements, text) == UNION {Hits(s, text) : s \in statements}

SecurityHits(text, hits) ==
  (Security \cap Tokens(text)) \cup {s \in hits \cap Statements : WordsOf[s] \cap Security # {}}

\* Security comes first, then non-goals, then the absence of any scope (and
\* the mutant: scope that is found clears the item).
EvaluateWork_ScopeFirst(c, text) ==
  CASE FindConcepts(InScope[c], text) # {}    -> "aligned"
    [] FindConcepts(OutOfScope[c], text) # {} -> "scope_expansion"
    [] OTHER                                  -> "clarification"

EvaluateWork(c, text) ==
  LET nonGoals == FindConcepts(OutOfScope[c], text)
  IN  IF SecurityHits(text, nonGoals) # {} THEN "risk"
      ELSE IF nonGoals # {} THEN "scope_expansion"
      ELSE IF FindConcepts(InScope[c], text) = {} THEN "clarification"
      ELSE "aligned"

\* Two concepts of a criterion are required if it has two distinctive words.
CriterionHasEvidence(s, tests) ==
  Cardinality(Hits(s, tests)) >= IF Cardinality(WordsOf[s]) <= 1 THEN 1 ELSE 2

Missing(c, tests) == {s \in Criteria[c] : ~CriterionHasEvidence(s, tests)}

\* The classes of the findings about a delivery report.
EvaluateDelivery(c, changed, tests) ==
  LET nonGoals == FindConcepts(OutOfScope[c], changed)
      drift    == IF SecurityHits(changed, nonGoals) # {} THEN {"risk"}
                  ELSE IF nonGoals # {} THEN {"scope_expansion"} ELSE {}
      gaps     == IF Missing(c, tests) # {} THEN {"missing_evidence"} ELSE {}
  IN  IF drift \cup gaps = {} THEN {"aligned"} ELSE drift \cup gaps
=============================================================================
