-------------------------- MODULE Conformance_proofs --------------------------
(***************************************************************************)
(* Proofs about Conformance for every tracker, every text and any number   *)
(* of versions and collections.                                            *)
(***************************************************************************)
EXTENDS Conformance, FiniteSetTheorems, SequenceTheorems, TLAPS

-----------------------------------------------------------------------------
(* The evaluator *)

\* A longer text has more tokens.
LEMMA TokensMonotone ==
  ASSUME NEW x, NEW y, x \subseteq y
  PROVE  Tokens(x) \subseteq Tokens(y)
BY DEF Tokens

\* A longer text has a concept wherever the shorter one has one, although a
\* quotation replaces the single words of its statement.
LEMMA ConceptsRemain ==
  ASSUME NEW x, NEW y, x \subseteq y, NEW S \in SUBSET Statements, FindConcepts(S, x) # {}
  PROVE  FindConcepts(S, y) # {}
<1>1. PICK s \in S : Hits(s, x) # {}
  BY DEF FindConcepts
<1>2. Hits(s, y) # {}
  BY <1>1, TokensMonotone DEF Hits
<1> QED
  BY <1>2 DEF FindConcepts

\* A hit that is a statement is one that the text quotes.
LEMMA StatementHitsAreQuoted ==
  ASSUME NEW x, NEW S \in SUBSET Statements, NEW t \in FindConcepts(S, x) \cap Statements
  PROVE  t \in S /\ t \in x
<1>1. PICK s \in S : t \in Hits(s, x)
  BY DEF FindConcepts
<1>2. t \notin WordsOf[s]
  BY EvaluatorAssumption
<1> QED
  BY <1>1, <1>2 DEF Hits

\* Security that a text touches, a longer text touches.
LEMMA SecurityRemains ==
  ASSUME NEW x, NEW y, x \subseteq y, NEW S \in SUBSET Statements,
         SecurityHits(x, FindConcepts(S, x)) # {}
  PROVE  SecurityHits(y, FindConcepts(S, y)) # {}
<1>1. CASE Security \cap Tokens(x) # {}
  BY <1>1, TokensMonotone DEF SecurityHits
<1>2. CASE \E t \in FindConcepts(S, x) \cap Statements : WordsOf[t] \cap Security # {}
  <2>1. PICK t \in FindConcepts(S, x) \cap Statements : WordsOf[t] \cap Security # {}
    BY <1>2
  <2>2. t \in S /\ t \in y
    BY StatementHitsAreQuoted
  <2>3. t \in FindConcepts(S, y)
    BY <2>2 DEF FindConcepts, Hits
  <2> QED
    BY <2>1, <2>3 DEF SecurityHits
<1> QED
  BY <1>1, <1>2 DEF SecurityHits

\* The verdict of a longer work item is not milder: a risk remains a risk, a
\* scope expansion remains one or becomes a risk.
LEMMA LongerIsNotMilder ==
  ASSUME NEW c \in Contents, NEW x, NEW y, x \subseteq y
  PROVE  /\ EvaluateWork(c, x) = "risk" => EvaluateWork(c, y) = "risk"
         /\ EvaluateWork(c, x) = "scope_expansion" =>
              EvaluateWork(c, y) \in {"risk", "scope_expansion"}
<1>1. OutOfScope[c] \in SUBSET Statements
  BY EvaluatorAssumption
<1>2. ASSUME EvaluateWork(c, x) = "risk" PROVE EvaluateWork(c, y) = "risk"
  <2>1. SecurityHits(x, FindConcepts(OutOfScope[c], x)) # {}
    BY <1>2 DEF EvaluateWork
  <2>2. SecurityHits(y, FindConcepts(OutOfScope[c], y)) # {}
    BY <1>1, <2>1, SecurityRemains
  <2> QED
    BY <2>2 DEF EvaluateWork
<1>3. ASSUME EvaluateWork(c, x) = "scope_expansion"
      PROVE  EvaluateWork(c, y) \in {"risk", "scope_expansion"}
  <2>1. FindConcepts(OutOfScope[c], x) # {}
    BY <1>3 DEF EvaluateWork
  <2>2. FindConcepts(OutOfScope[c], y) # {}
    BY <1>1, <2>1, ConceptsRemain
  <2> QED
    BY <2>2 DEF EvaluateWork
<1> QED
  BY <1>2, <1>3

\* Drift of the changed areas is found in every larger change as well.
LEMMA LargerChangeDriftsToo ==
  ASSUME NEW c \in Contents, NEW x, NEW y, x \subseteq y, NEW tests, NEW more
  PROVE  /\ "risk" \in EvaluateDelivery(c, x, tests) => "risk" \in EvaluateDelivery(c, y, more)
         /\ "scope_expansion" \in EvaluateDelivery(c, x, tests) =>
              EvaluateDelivery(c, y, more) \cap {"risk", "scope_expansion"} # {}
<1>1. OutOfScope[c] \in SUBSET Statements
  BY EvaluatorAssumption
<1>2. ASSUME "risk" \in EvaluateDelivery(c, x, tests) PROVE "risk" \in EvaluateDelivery(c, y, more)
  <2>1. SecurityHits(x, FindConcepts(OutOfScope[c], x)) # {}
    BY <1>2 DEF EvaluateDelivery
  <2>2. SecurityHits(y, FindConcepts(OutOfScope[c], y)) # {}
    BY <1>1, <2>1, SecurityRemains
  <2> QED
    BY <2>2 DEF EvaluateDelivery
<1>3. ASSUME "scope_expansion" \in EvaluateDelivery(c, x, tests)
      PROVE  EvaluateDelivery(c, y, more) \cap {"risk", "scope_expansion"} # {}
  <2>1. FindConcepts(OutOfScope[c], x) # {}
    BY <1>3 DEF EvaluateDelivery
  <2>2. FindConcepts(OutOfScope[c], y) # {}
    BY <1>1, <2>1, ConceptsRemain
  <2> QED
    BY <2>2 DEF EvaluateDelivery
<1> QED
  BY <1>2, <1>3

\* More tests keep the evidence of a criterion that they do not quote.
LEMMA MoreTestsKeepEvidence ==
  ASSUME NEW s \in Statements, IsFiniteSet(WordsOf[s]), NEW x, NEW y, x \subseteq y, s \notin y,
         CriterionHasEvidence(s, x)
  PROVE  CriterionHasEvidence(s, y)
<1>1. Hits(s, x) = WordsOf[s] \cap Tokens(x) /\ Hits(s, y) = WordsOf[s] \cap Tokens(y)
  BY DEF Hits
<1>2. Hits(s, x) \subseteq Hits(s, y) /\ Hits(s, y) \subseteq WordsOf[s]
  BY <1>1, TokensMonotone
<1>3. IsFiniteSet(Hits(s, y)) /\ IsFiniteSet(Hits(s, x))
  BY <1>2, FS_Subset
<1>4. Cardinality(Hits(s, x)) <= Cardinality(Hits(s, y))
  BY <1>2, <1>3, FS_Subset
<1>5. Cardinality(Hits(s, x)) \in Nat /\ Cardinality(Hits(s, y)) \in Nat
  BY <1>3, FS_CardinalityType
<1> QED
  BY <1>4, <1>5 DEF CriterionHasEvidence

\* Tests that quote a criterion of several distinctive words are no evidence
\* for it: the quotation is one hit where two are required.
LEMMA QuotationIsOneHit ==
  ASSUME NEW s \in Statements, NEW tests, s \in tests, ~(Cardinality(WordsOf[s]) <= 1)
  PROVE  ~CriterionHasEvidence(s, tests)
<1>1. Hits(s, tests) = {s}
  BY DEF Hits
<1>2. Cardinality({s}) = 1
  BY FS_Singleton
<1> QED
  BY <1>1, <1>2 DEF CriterionHasEvidence

-----------------------------------------------------------------------------
(* The engine *)

\* A caller that collects or processes holds a package.
HoldsPackage == pc # "idle" => held # 0

\* What the caller knows of the pull requests it has matched.
MatchedSound ==
  /\ todo \subseteq DOMAIN matched
  /\ pc \in {"idle", "process"} => todo = {}
  /\ \A p \in DOMAIN matched : matched[p].version \in 1..MaxVersion

\* Whatever a finding is about has been claimed.
FindingsClaimed == \A f \in findings : EventId(f.evidence) \in DOMAIN events

IInv ==
  /\ TypeOK /\ HoldsPackage /\ MatchedSound
  /\ FindingsClaimed /\ FindingsStand /\ OneFindingPerEvent

-----------------------------------------------------------------------------
(* Lemmas *)

\* The elements of a bag made from a set are those of the set.
LEMMA SetElements ==
  ASSUME NEW S
  PROVE  BagToSet(SetToBag(S)) = S
BY DEF BagToSet, SetToBag

\* The empty bag has no element.
LEMMA NoElements == BagToSet(EmptyBag) = {}
BY SetElements DEF EmptyBag

\* Adding a bag adds its elements.
LEMMA UnionElements ==
  ASSUME NEW A, NEW B
  PROVE  BagToSet(A (+) B) = BagToSet(A) \cup BagToSet(B)
BY DEF BagToSet, (+)

\* Taking from a bag adds no element.
LEMMA DifferenceElements ==
  ASSUME NEW A, NEW B
  PROVE  BagToSet(A (-) B) \subseteq BagToSet(A)
BY DEF BagToSet, (-)

\* Counting the records that were not matched gives a number.
LEMMA FiniteCounts ==
  ASSUME NEW S, IsFiniteSet(S), NEW T
  PROVE  Cardinality(S \ T) \in Nat
BY FS_Difference, FS_CardinalityType

\* The version that a record names is one of the decision, or none.
LEMMA MentionsTyped ==
  ASSUME NEW r \in Issues \cup Pulls \cup Commits, NEW n \in 1..Len(Mentions[r])
  PROVE  Mentions[r][n] \in 0..MaxVersion
<1>1. Mentions[r] \in Seq(0..MaxVersion)
  BY ConstantsAssumption
<1> QED
  BY <1>1, ElementOfSeq

\* Commits have one revision at least.
LEMMA FirstRevision ==
  ASSUME NEW r \in Issues \cup Pulls \cup Commits
  PROVE  1 \in 1..Len(Mentions[r])
<1>1. Mentions[r] \in Seq(0..MaxVersion) /\ Len(Mentions[r]) > 0
  BY ConstantsAssumption
<1> QED
  BY <1>1

\* The next record of a list is one of the list.
LEMMA FirstIn ==
  ASSUME NEW S, S # {}
  PROVE  First(S) \in S
BY DEF First

\* Nothing collected, claimed or found satisfies the inductive invariant.
LEMMA InitIInv == Init => IInv
<1> SUFFICES ASSUME Init PROVE IInv
  OBVIOUS
<1>1. BagToSet(batch) = {}
  BY NoElements DEF Init
<1>2. TypeOK
  <2>1. log \in Seq(Contents) /\ Len(log) = 0
    BY DEF Init
  <2>2. /\ revision \in [Issues \cup Pulls -> Nat \ {0}]
        /\ \A r \in Issues \cup Pulls : revision[r] <= Len(Mentions[r])
    BY FirstRevision DEF Init
  <2>3. DOMAIN matched = {}
    BY DEF Init
  <2> QED
    BY <1>1, <2>1, <2>2, <2>3, ConstantsAssumption DEF Init, TypeOK
<1> QED
  BY <1>2 DEF Init, IInv, HoldsPackage, MatchedSound, FindingsClaimed, FindingsStand,
     OneFindingPerEvent

-----------------------------------------------------------------------------
(* Type correctness *)

\* Packages, tracker, collection and engine keep their types, and the caller
\* what it knows of the pull requests it reads.
LEMMA NextType == IInv /\ [Next]_vars => TypeOK' /\ HoldsPackage' /\ MatchedSound'
<1> SUFFICES ASSUME IInv, [Next]_vars PROVE TypeOK' /\ HoldsPackage' /\ MatchedSound'
  OBVIOUS
<1> USE ConstantsAssumption
    DEF IInv, TypeOK, HoldsPackage, MatchedSound, tracker, poll, engine
<1>1. CASE UNCHANGED vars
  BY <1>1 DEF vars
<1>2. CASE NewVersion
  <2>1. PICK c \in Contents : log' = Append(log, c)
    BY <1>2 DEF NewVersion, Versions!AppendVersion
  <2>2. log' \in Seq(Contents) /\ Len(log') = Len(log) + 1
    BY <2>1
  <2>3. held' \in 0..Len(log') /\ \A f \in findings : f.version \in 1..Len(log')
    BY <1>2, <2>2 DEF NewVersion
  <2> QED
    BY <1>2, <2>2, <2>3 DEF NewVersion
<1>3. CASE Hold
  BY <1>3 DEF Hold
<1>4. ASSUME NEW r \in Issues \cup Pulls, Edit(r)
      PROVE TypeOK' /\ HoldsPackage' /\ MatchedSound'
  <2>1. revision[r] < Len(Mentions[r]) /\ Mentions[r] \in Seq(0..MaxVersion)
    BY <1>4 DEF Edit
  <2>2. revision' = [revision EXCEPT ![r] = revision[r] + 1]
    BY <1>4 DEF Edit
  <2>3. /\ revision' \in [Issues \cup Pulls -> Nat \ {0}]
        /\ \A q \in Issues \cup Pulls : revision'[q] <= Len(Mentions[q])
    BY <2>1, <2>2
  <2> QED
    BY <1>4, <2>3 DEF Edit
<1>5. ASSUME NEW p \in Pulls, EndChecks(p) \/ Merge(p)
      PROVE TypeOK' /\ HoldsPackage' /\ MatchedSound'
  BY <1>5 DEF EndChecks, Merge
<1>6. CASE ListIssues
  <2> DEFINE E == {Evidence("issue", i, revision[i], Mention(i), None, {}, {}) : i \in Matched(Issues)}
  <2>1. \A i \in Matched(Issues) : Mention(i) \in 1..MaxVersion
    BY MentionsTyped DEF Matched, Mention
  <2>2. \A e \in E : e.version \in 1..MaxVersion
    BY <2>1 DEF Evidence
  <2>3. batch' = SetToBag(E) /\ unmatched' = Cardinality(Issues \ Matched(Issues))
    BY <1>6 DEF ListIssues
  <2> HIDE DEF E
  <2>4. \A e \in BagToSet(batch') : e.version \in 1..MaxVersion
    BY <2>2, <2>3, SetElements
  <2>5. unmatched' \in Nat
    BY <2>3, FiniteCounts
  <2>6. /\ pc' = "pulls" /\ polls' \in 0..MaxPolls /\ held # 0
        /\ UNCHANGED <<log, tracker, held, todo, matched, linked, listed, engine>>
    BY <1>6 DEF ListIssues
  <2> HIDE DEF IInv
  <2>7. TypeOK'
    BY <2>4, <2>5, <2>6 DEF IInv
  <2> QED
    BY <2>6, <2>7 DEF IInv
<1>7. CASE ListPulls
  <2>1. \A p \in Matched(Pulls) : Mention(p) \in 1..MaxVersion
    BY MentionsTyped DEF Matched, Mention
  <2>2. Cardinality(Pulls \ Matched(Pulls)) \in Nat
    BY FiniteCounts
  <2>3. unmatched' \in Nat
    BY <1>7, <2>2 DEF ListPulls
  <2>4. /\ DOMAIN matched' = Matched(Pulls) /\ Matched(Pulls) \subseteq Pulls
        /\ \A p \in DOMAIN matched' : matched'[p].version = Mention(p)
    BY <1>7 DEF ListPulls, Matched
  <2> QED
    BY <1>7, <2>1, <2>3, <2>4 DEF ListPulls
<1>8. CASE ReadPull
  <2> DEFINE p == First(todo)
             n == matched[p].rev
             changed == Files[p][revision[p]] \cup Notes[p][n]
             tests == Tests[p][n] \cup IF p \in checked THEN CheckText[p] ELSE {}
             E == {Evidence("pull_request", p, n, matched[p].version, None, {}, {}),
                   Evidence("delivery", p, n, matched[p].version, None, changed, tests)}
  <2>1. p \in DOMAIN matched
    BY <1>8, FirstIn DEF ReadPull
  <2>2. batch' = batch (+) SetToBag(E)
    BY <1>8 DEF ReadPull
  <2>3. \A e \in E : e.version \in 1..MaxVersion
    BY <2>1 DEF Evidence
  <2> HIDE DEF E
  <2>4. \A e \in BagToSet(batch') : e.version \in 1..MaxVersion
    BY <2>2, <2>3, SetElements, UnionElements
  <2> QED
    BY <1>8, <2>4 DEF ReadPull
<1>9. CASE ListCommits
  <2>1. linked' \subseteq Commits
    BY <1>9 DEF ListCommits
  <2>2. \A m \in linked' : Mentions[m][1] \in 1..MaxVersion
    BY <1>9, <2>1, MentionsTyped, FirstRevision DEF ListCommits
  <2>3. \A e \in BagToSet(batch') : e.version \in 1..MaxVersion
    BY <1>9, <2>2, SetElements, UnionElements DEF ListCommits, Evidence
  <2> QED
    BY <1>9, <2>1, <2>3 DEF ListCommits
<1>10. CASE ReadCommits
  <2> DEFINE p == First(todo)
             version(m) == IF Mentions[m][1] # 0 THEN Mentions[m][1] ELSE matched[p].version
             E == {Evidence("commit", m, 1, version(m), p, {}, {}) : m \in CommitsOf[p] \ linked}
  <2>1. p \in DOMAIN matched /\ CommitsOf[p] \subseteq Commits
    BY <1>10, FirstIn DEF ReadCommits
  <2>2. batch' = batch (+) SetToBag(E) /\ linked' = linked \cup CommitsOf[p]
    BY <1>10 DEF ReadCommits
  <2>3. \A m \in CommitsOf[p] : version(m) \in 1..MaxVersion
    BY <2>1, MentionsTyped, FirstRevision
  <2>4. \A e \in E : e.version \in 1..MaxVersion
    BY <2>3 DEF Evidence
  <2> HIDE DEF E
  <2>5. \A e \in BagToSet(batch') : e.version \in 1..MaxVersion
    BY <2>2, <2>4, SetElements, UnionElements
  <2> QED
    BY <1>10, <2>1, <2>2, <2>5 DEF ReadCommits
<1>11. CASE Collected
  <2>1. IsFiniteSet(listed)
    BY FS_Subset
  <2>2. Cardinality(listed \ linked) \in Nat
    BY <2>1, FiniteCounts
  <2>3. unmatched' \in Nat
    BY <1>11, <2>2 DEF Collected
  <2> QED
    BY <1>11, <2>3 DEF Collected
<1>12. CASE RequestFails
  <2>1. BagToSet(batch') = {} /\ DOMAIN matched' = {}
    BY <1>12, NoElements DEF RequestFails
  <2> QED
    BY <1>12, <2>1 DEF RequestFails
<1>13. CASE Process
  <2>1. PICK e : /\ batch' = batch (-) SetToBag({e})
                 /\ findings' \in {findings, findings \cup {Finding(e)}}
    BY <1>13 DEF Process
  <2>2. \A d \in BagToSet(batch') : d.version \in 1..MaxVersion
    BY <2>1, DifferenceElements
  <2>3. held \in 1..Len(log)
    BY <1>13 DEF Process
  <2>4. \A f \in findings' : f.version \in 1..Len(log)
    BY <2>1, <2>3 DEF Finding
  <2> QED
    BY <1>13, <2>2, <2>4 DEF Process
<1>14. CASE Finish
  <2>1. DOMAIN matched' = {}
    BY <1>14 DEF Finish
  <2> QED
    BY <1>14, <2>1 DEF Finish
<1> QED
  BY <1>1, <1>2, <1>3, <1>4, <1>5, <1>6, <1>7, <1>8, <1>9, <1>10, <1>11, <1>12, <1>13, <1>14
  DEF Next

-----------------------------------------------------------------------------
(* Findings *)

\* The steps that change packages, claims or findings.
LEMMA EngineChange ==
  ASSUME [Next]_vars
  PROVE  NewVersion \/ Process \/ UNCHANGED <<log, events, findings>>
BY DEF Next, Hold, Edit, EndChecks, Merge, ListIssues, ListPulls, ReadPull, ListCommits,
   ReadCommits, Collected, RequestFails, Finish, vars, engine

\* Versions that are added leave the contents of the others, and an event that
\* is claimed leads to no second finding.
LEMMA NextFindings ==
  ASSUME IInv, [Next]_vars
  PROVE  FindingsClaimed' /\ FindingsStand' /\ OneFindingPerEvent'
<1> USE DEF IInv, TypeOK
<1>1. CASE UNCHANGED <<log, events, findings>>
  BY <1>1 DEF FindingsClaimed, FindingsStand, OneFindingPerEvent
<1>2. CASE NewVersion
  <2>1. PICK c \in Contents : log' = Append(log, c)
    BY <1>2 DEF NewVersion, Versions!AppendVersion
  <2>2. \A v \in 1..Len(log) : log'[v] = log[v]
    BY <2>1
  <2>3. UNCHANGED <<events, findings>>
    BY <1>2 DEF NewVersion, engine
  <2> QED
    BY <2>2, <2>3 DEF FindingsClaimed, FindingsStand, OneFindingPerEvent
<1>3. CASE Process
  <2>1. PICK e :
          /\ events' = IF Claimable(e) THEN Put(events, EventId(e), Hash(e)) ELSE events
          /\ findings' = IF Claimable(e) /\ Current(e) THEN findings \cup {Finding(e)}
                         ELSE findings
    BY <1>3 DEF Process
  <2>2. log' = log
    BY <1>3 DEF Process
  <2>3. CASE findings' = findings
    BY <2>1, <2>2, <2>3 DEF FindingsClaimed, FindingsStand, OneFindingPerEvent, Put
  <2>4. CASE findings' # findings
    <3> DEFINE new == Finding(e)
    <3>1. Claimable(e) /\ Current(e) /\ findings' = findings \cup {new}
      BY <2>1, <2>4
    <3>2. DOMAIN events' = DOMAIN events \cup {EventId(e)}
      BY <2>1, <3>1 DEF Put
    <3>3. /\ new.evidence = e /\ new.version = held
          /\ new.classes = IF e.kind = "delivery"
                           THEN EvaluateDelivery(log[held], e.changed, e.tests)
                           ELSE {EvaluateWork(log[held], Text[e.record][e.rev])}
      BY DEF Finding
    <3> HIDE DEF new
    <3>4. FindingsClaimed'
      BY <3>1, <3>2, <3>3 DEF FindingsClaimed
    <3>5. FindingsStand'
      BY <2>2, <3>1, <3>3 DEF FindingsStand, Current
    <3>6. \A f \in findings : EventId(f.evidence) # EventId(new.evidence)
      BY <3>1, <3>3 DEF FindingsClaimed, Claimable
    <3>7. OneFindingPerEvent'
      BY <3>1, <3>6 DEF OneFindingPerEvent
    <3> QED
      BY <3>4, <3>5, <3>7
  <2> QED
    BY <2>3, <2>4
<1> QED
  BY <1>1, <1>2, <1>3, EngineChange

-----------------------------------------------------------------------------
(* What a collection has gathered *)

Collecting == pc \in {"pulls", "read_pulls", "read_commits"}

\* The pull requests and the commits that are evidence by now.
PullsRead ==
  IF pc = "pulls" THEN {} ELSE IF pc = "read_pulls" THEN DOMAIN matched \ todo ELSE DOMAIN matched
CommitsRead == IF pc = "read_commits" THEN linked ELSE {}
IssuesRead  == {e.record : e \in {f \in BagToSet(batch) : f.kind = "issue"}}

\* The evidence is once in the batch and is about a record that was read.
EvidenceRead ==
  \A e \in BagToSet(batch) :
    /\ batch[e] = 1
    /\ \/ e.kind = "issue" /\ e.record \in Issues
       \/ e.kind \in {"pull_request", "delivery"} /\ e.record \in PullsRead
       \/ e.kind = "commit" /\ e.record \in CommitsRead

OnePerRecord ==
  \A e, f \in BagToSet(batch) : e.kind = f.kind /\ e.record = f.record => e = f

AllRead ==
  /\ \A p \in PullsRead : \E e \in BagToSet(batch) : e.kind = "delivery" /\ e.record = p
  /\ \A m \in CommitsRead : \E e \in BagToSet(batch) : e.kind = "commit" /\ e.record = m

Counted ==
  unmatched = Cardinality(Issues \ IssuesRead)
                + IF pc = "pulls" THEN 0 ELSE Cardinality(Pulls \ DOMAIN matched)

Gathered == Collecting => EvidenceRead /\ OnePerRecord /\ AllRead /\ Counted

\* New evidence is in the batch once if it was not there before.
LEMMA AddedOnce ==
  ASSUME NEW A, NEW S, \A e \in BagToSet(A) : A[e] = 1, S \cap BagToSet(A) = {}
  PROVE  /\ BagToSet(A (+) SetToBag(S)) = BagToSet(A) \cup S
         /\ \A e \in BagToSet(A) \cup S : (A (+) SetToBag(S))[e] = 1
<1>1. BagToSet(A (+) SetToBag(S)) = BagToSet(A) \cup S
  BY UnionElements, SetElements
<1>2. ASSUME NEW e \in BagToSet(A) \cup S PROVE (A (+) SetToBag(S))[e] = 1
  <2>1. DOMAIN A = BagToSet(A) /\ DOMAIN SetToBag(S) = S
    BY DEF BagToSet, SetToBag
  <2>2. (A (+) SetToBag(S))[e] = (IF e \in BagToSet(A) THEN A[e] ELSE 0)
                                   + (IF e \in S THEN SetToBag(S)[e] ELSE 0)
    BY <2>1 DEF (+)
  <2>3. e \in S => SetToBag(S)[e] = 1
    BY DEF SetToBag
  <2> QED
    BY <2>2, <2>3
<1> QED
  BY <1>1, <1>2

\* Evidence of different kinds or records has different event ids.
LEMMA IdsTellApart ==
  ASSUME NEW e, NEW f, EventId(e) = EventId(f)
  PROVE  e.kind = f.kind /\ e.record = f.record
<1>1. ASSUME NEW a, NEW b, NEW c, NEW d, NEW n PROVE <<a, b>> # <<c, d, n>>
  OBVIOUS
<1> QED
  BY <1>1 DEF EventId

\* The fields of a piece of evidence.
LEMMA EvidenceFields ==
  ASSUME NEW kind, NEW r, NEW n, NEW version, NEW link, NEW changed, NEW tests
  PROVE  /\ Evidence(kind, r, n, version, link, changed, tests).kind = kind
         /\ Evidence(kind, r, n, version, link, changed, tests).record = r
BY DEF Evidence

\* A request whose answer adds evidence about pull requests or commits of which
\* there was none.
LEMMA Gathering ==
  ASSUME Collecting, Gathered, Collecting', pc # "pulls", pc' # "pulls",
         PullsRead \subseteq PullsRead', CommitsRead \subseteq CommitsRead',
         UNCHANGED <<matched, unmatched>>,
         NEW S, batch' = batch (+) SetToBag(S),
         \A e \in S :
           \/ e.kind \in {"pull_request", "delivery"} /\ e.record \in PullsRead' \ PullsRead
           \/ e.kind = "commit" /\ e.record \in CommitsRead' \ CommitsRead,
         \A e, f \in S : e.kind = f.kind /\ e.record = f.record => e = f,
         \A p \in PullsRead' \ PullsRead : \E e \in S : e.kind = "delivery" /\ e.record = p,
         \A m \in CommitsRead' \ CommitsRead : \E e \in S : e.kind = "commit" /\ e.record = m
  PROVE  Gathered'
<1> USE DEF Gathered
<1>1. \A e \in BagToSet(batch) : batch[e] = 1
  BY DEF EvidenceRead
<1>2. \A e \in BagToSet(batch), f \in S : e.kind # f.kind \/ e.record # f.record
  BY DEF EvidenceRead
<1>3. S \cap BagToSet(batch) = {}
  BY <1>2
<1>4. /\ BagToSet(batch') = BagToSet(batch) \cup S
      /\ \A e \in BagToSet(batch) \cup S : batch'[e] = 1
  BY <1>1, <1>3, AddedOnce
<1>5. EvidenceRead'
  BY <1>4 DEF EvidenceRead
<1>6. OnePerRecord'
  BY <1>2, <1>4 DEF OnePerRecord
<1>7. AllRead'
  BY <1>4 DEF AllRead
<1>8. IssuesRead' = IssuesRead
  BY <1>4 DEF IssuesRead
<1>9. Counted'
  BY <1>8 DEF Counted
<1> QED
  BY <1>5, <1>6, <1>7, <1>9

\* A step that leaves the collection alone.
LEMMA GatheredStays ==
  ASSUME Gathered, UNCHANGED <<pc, todo, matched, linked, batch, unmatched>>
  PROVE  Gathered'
BY DEF Gathered, Collecting, PullsRead, CommitsRead, IssuesRead, EvidenceRead, OnePerRecord,
   AllRead, Counted

\* Every request of collect_for_decision keeps what is gathered.
LEMMA NextGathered ==
  ASSUME IInv, Gathered, [Next]_vars
  PROVE  Gathered'
<1> USE DEF IInv
<1>1. CASE UNCHANGED vars \/ NewVersion \/ Hold
           \/ (\E r \in Issues \cup Pulls : Edit(r)) \/ (\E p \in Pulls : EndChecks(p) \/ Merge(p))
  <2>1. UNCHANGED <<pc, todo, matched, linked, batch, unmatched>>
    BY <1>1 DEF NewVersion, Hold, Edit, EndChecks, Merge, vars, poll
  <2> QED
    BY <2>1, GatheredStays
<1>2. CASE Collected \/ RequestFails \/ Process \/ Finish
  <2>1. ~Collecting'
    BY <1>2 DEF Collected, RequestFails, Process, Finish, Collecting
  <2> QED
    BY <2>1 DEF Gathered
<1>3. CASE ListIssues
  <2> DEFINE Ev(i) == Evidence("issue", i, revision[i], Mention(i), None, {}, {})
             E == {Ev(i) : i \in Matched(Issues)}
  <2>1. /\ batch' = SetToBag(E) /\ unmatched' = Cardinality(Issues \ Matched(Issues))
        /\ pc' = "pulls"
    BY <1>3 DEF ListIssues
  <2>2. /\ \A e \in E : e.kind = "issue" /\ e.record \in Issues
        /\ \A e, f \in E : e.record = f.record => e = f
        /\ {e.record : e \in E} = Matched(Issues)
    <3>1. \A i : Ev(i).kind = "issue" /\ Ev(i).record = i
      BY EvidenceFields
    <3>2. Matched(Issues) \subseteq Issues
      BY DEF Matched
    <3> HIDE DEF Ev
    <3> QED
      BY <3>1, <3>2
  <2> HIDE DEF E
  <2>3. BagToSet(batch') = E
    BY <2>1, SetElements
  <2>4. \A e \in E : batch'[e] = 1
    BY <2>1 DEF SetToBag
  <2>5. PullsRead' = {} /\ CommitsRead' = {}
    BY <2>1 DEF PullsRead, CommitsRead
  <2>6. EvidenceRead' /\ OnePerRecord' /\ AllRead'
    BY <2>2, <2>3, <2>4, <2>5 DEF EvidenceRead, OnePerRecord, AllRead
  <2>7. IssuesRead' = Matched(Issues)
    BY <2>2, <2>3 DEF IssuesRead
  <2>8. Cardinality(Issues \ Matched(Issues)) \in Nat
    BY FiniteCounts, ConstantsAssumption
  <2>9. Counted'
    BY <2>1, <2>7, <2>8 DEF Counted
  <2> QED
    BY <2>6, <2>9 DEF Gathered
<1>4. CASE ListPulls
  <2>1. /\ pc = "pulls" /\ pc' = "read_pulls" /\ batch' = batch
        /\ DOMAIN matched' = Matched(Pulls) /\ todo' = Matched(Pulls)
        /\ unmatched' = unmatched + Cardinality(Pulls \ Matched(Pulls))
    BY <1>4 DEF ListPulls
  <2>2. /\ PullsRead = {} /\ CommitsRead = {} /\ PullsRead' = {} /\ CommitsRead' = {}
        /\ IssuesRead' = IssuesRead
    BY <2>1 DEF PullsRead, CommitsRead, IssuesRead
  <2>3. EvidenceRead /\ OnePerRecord /\ AllRead /\ Counted
    BY <2>1 DEF Gathered, Collecting
  <2>4. EvidenceRead' /\ OnePerRecord' /\ AllRead'
    BY <2>1, <2>2, <2>3 DEF EvidenceRead, OnePerRecord, AllRead
  <2>5. Cardinality(Issues \ IssuesRead) \in Nat
    BY FiniteCounts, ConstantsAssumption
  <2>6. Counted'
    BY <2>1, <2>2, <2>3, <2>5 DEF Counted
  <2> QED
    BY <2>4, <2>6 DEF Gathered
<1>5. CASE ReadPull
  <2> DEFINE p == First(todo)
             n == matched[p].rev
             changed == Files[p][revision[p]] \cup Notes[p][n]
             tests == Tests[p][n] \cup IF p \in checked THEN CheckText[p] ELSE {}
             E == {Evidence("pull_request", p, n, matched[p].version, None, {}, {}),
                   Evidence("delivery", p, n, matched[p].version, None, changed, tests)}
  <2>1. p \in todo /\ todo \subseteq DOMAIN matched
    BY <1>5, FirstIn DEF ReadPull, MatchedSound
  <2>2. /\ pc = "read_pulls" /\ pc' = pc /\ todo' = todo \ {p} /\ batch' = batch (+) SetToBag(E)
        /\ UNCHANGED <<matched, unmatched>>
    BY <1>5 DEF ReadPull
  <2>3. /\ \A e \in E : e.kind \in {"pull_request", "delivery"} /\ e.record = p
        /\ \A e, f \in E : e.kind = f.kind => e = f
        /\ \E e \in E : e.kind = "delivery" /\ e.record = p
    BY EvidenceFields
  <2> HIDE DEF E, p
  <2>4. /\ PullsRead' = PullsRead \cup {p} /\ p \notin PullsRead
        /\ CommitsRead' = CommitsRead
    BY <2>1, <2>2 DEF PullsRead, CommitsRead
  <2>5. Collecting /\ Collecting' /\ pc # "pulls" /\ pc' # "pulls"
    BY <2>2 DEF Collecting
  <2> QED
    BY <2>2, <2>3, <2>4, <2>5, Gathering
<1>6. CASE ListCommits
  <2> DEFINE Ev(m) == Evidence("commit", m, 1, Mentions[m][1], None, {}, {})
             E == {Ev(m) : m \in linked'}
  <2>1. /\ pc = "read_pulls" /\ pc' = "read_commits" /\ todo = {} /\ batch' = batch (+) SetToBag(E)
        /\ UNCHANGED <<matched, unmatched>>
    BY <1>6 DEF ListCommits
  <2>2. /\ \A e \in E : e.kind = "commit" /\ e.record \in linked'
        /\ \A e, f \in E : e.record = f.record => e = f
        /\ \A m \in linked' : \E e \in E : e.kind = "commit" /\ e.record = m
    <3>1. \A m : Ev(m).kind = "commit" /\ Ev(m).record = m
      BY EvidenceFields
    <3> HIDE DEF Ev
    <3> QED
      BY <3>1
  <2> HIDE DEF E
  <2>3. /\ PullsRead' = PullsRead
        /\ CommitsRead = {} /\ CommitsRead' = linked'
    BY <2>1 DEF PullsRead, CommitsRead
  <2>4. Collecting /\ Collecting' /\ pc # "pulls" /\ pc' # "pulls"
    BY <2>1 DEF Collecting
  <2> QED
    BY <2>1, <2>2, <2>3, <2>4, Gathering
<1>7. CASE ReadCommits
  <2> DEFINE p == First(todo)
             version(m) == IF Mentions[m][1] # 0 THEN Mentions[m][1] ELSE matched[p].version
             Ev(m) == Evidence("commit", m, 1, version(m), p, {}, {})
             M == CommitsOf[p] \ linked
             E == {Ev(m) : m \in M}
  <2>1. /\ pc = "read_commits" /\ pc' = pc /\ batch' = batch (+) SetToBag(E)
        /\ linked' = linked \cup CommitsOf[p] /\ UNCHANGED <<matched, unmatched>>
    BY <1>7 DEF ReadCommits
  <2>2. /\ \A e \in E : e.kind = "commit" /\ e.record \in M
        /\ \A e, f \in E : e.record = f.record => e = f
        /\ \A m \in M : \E e \in E : e.kind = "commit" /\ e.record = m
    <3>1. \A m : Ev(m).kind = "commit" /\ Ev(m).record = m
      BY EvidenceFields
    <3> HIDE DEF Ev, M
    <3> QED
      BY <3>1
  <2> HIDE DEF E
  <2>3. /\ PullsRead' = PullsRead
        /\ CommitsRead' = CommitsRead \cup M /\ M \cap CommitsRead = {}
    BY <2>1 DEF PullsRead, CommitsRead
  <2>4. Collecting /\ Collecting' /\ pc # "pulls" /\ pc' # "pulls"
    BY <2>1 DEF Collecting
  <2> HIDE DEF M
  <2> QED
    BY <2>1, <2>2, <2>3, <2>4, Gathering
<1> QED
  BY <1>1, <1>2, <1>3, <1>4, <1>5, <1>6, <1>7 DEF Next

-----------------------------------------------------------------------------
(* Theorems *)

\* The inductive invariant of collection and engine.
THEOREM Invariance == Spec => []IInv
<1>1. IInv /\ [Next]_vars => IInv'
  BY NextType, NextFindings DEF IInv
<1> QED
  BY <1>1, InitIInv, PTL DEF Spec

\* collect_for_decision and the engine keep their types.
THEOREM TypeCorrect == Spec => []TypeOK
<1>1. IInv => TypeOK
  BY DEF IInv
<1> QED
  BY <1>1, Invariance, PTL

\* The verdict of a finding is that of the version its evidence names.
THEOREM FindingsAreSound == Spec => []FindingsStand
<1>1. IInv => FindingsStand
  BY DEF IInv
<1> QED
  BY <1>1, Invariance, PTL

\* However often a tracker is read, _claim_event lets an event be evaluated once.
THEOREM EventsCountOnce == Spec => []OneFindingPerEvent
<1>1. IInv => OneFindingPerEvent
  BY DEF IInv
<1> QED
  BY <1>1, Invariance, PTL

\* Whatever texts say, a work item that says more is not judged milder.
THEOREM PaddingIsFutile == Spec => []PaddingNeverClears
<1>1. IInv => PaddingNeverClears
  <2> SUFFICES ASSUME IInv, NEW f \in findings, NEW g \in findings, f.version = g.version,
                      "delivery" \notin {f.evidence.kind, g.evidence.kind},
                      Text[f.evidence.record][f.evidence.rev]
                        \subseteq Text[g.evidence.record][g.evidence.rev]
               PROVE  /\ f.classes = {"risk"} => g.classes = {"risk"}
                      /\ f.classes = {"scope_expansion"} =>
                           g.classes \subseteq {"risk", "scope_expansion"}
    BY DEF PaddingNeverClears
  <2> DEFINE c == log[f.version]
             x == Text[f.evidence.record][f.evidence.rev]
             y == Text[g.evidence.record][g.evidence.rev]
  <2>1. c \in Contents
    BY DEF IInv, TypeOK
  <2>2. f.classes = {EvaluateWork(c, x)} /\ g.classes = {EvaluateWork(c, y)}
    BY DEF IInv, FindingsStand
  <2>3. /\ EvaluateWork(c, x) = "risk" => EvaluateWork(c, y) = "risk"
        /\ EvaluateWork(c, x) = "scope_expansion" =>
             EvaluateWork(c, y) \in {"risk", "scope_expansion"}
    BY <2>1, LongerIsNotMilder
  <2> HIDE DEF c, x, y
  <2> QED
    BY <2>2, <2>3
<1> QED
  BY <1>1, Invariance, PTL

\* Of two delivery reports checked against one package, the one that changes
\* all that the other changes drifts if the other does, whatever its tests.
THEOREM LargerDeliveriesDriftToo ==
  Spec => [](\A f, g \in findings :
               /\ f.version = g.version /\ f.evidence.kind = "delivery" /\ g.evidence.kind = "delivery"
               /\ f.evidence.changed \subseteq g.evidence.changed
               => /\ "risk" \in f.classes => "risk" \in g.classes
                  /\ "scope_expansion" \in f.classes =>
                       g.classes \cap {"risk", "scope_expansion"} # {})
<1> DEFINE Drifts(f, g) ==
      /\ f.version = g.version /\ f.evidence.kind = "delivery" /\ g.evidence.kind = "delivery"
      /\ f.evidence.changed \subseteq g.evidence.changed
      => /\ "risk" \in f.classes => "risk" \in g.classes
         /\ "scope_expansion" \in f.classes => g.classes \cap {"risk", "scope_expansion"} # {}
<1>1. ASSUME IInv, NEW f \in findings, NEW g \in findings PROVE Drifts(f, g)
  <2> SUFFICES ASSUME f.version = g.version,
                      f.evidence.kind = "delivery", g.evidence.kind = "delivery",
                      f.evidence.changed \subseteq g.evidence.changed
               PROVE  /\ "risk" \in f.classes => "risk" \in g.classes
                      /\ "scope_expansion" \in f.classes =>
                           g.classes \cap {"risk", "scope_expansion"} # {}
    OBVIOUS
  <2>1. log[f.version] \in Contents
    BY <1>1 DEF IInv, TypeOK
  <2>2. /\ f.classes = EvaluateDelivery(log[f.version], f.evidence.changed, f.evidence.tests)
        /\ g.classes = EvaluateDelivery(log[f.version], g.evidence.changed, g.evidence.tests)
    BY <1>1 DEF IInv, FindingsStand
  <2> QED
    BY <2>1, <2>2, LargerChangeDriftsToo
<1>2. IInv => \A f, g \in findings : Drifts(f, g)
  BY <1>1
<1> QED
  BY <1>2, Invariance, PTL

\* A delivery report whose tests quote an acceptance criterion of several
\* distinctive words is found to miss the evidence for it, although
\* _criterion_has_evidence asks for "more than one meaningful criterion
\* concept" and the quotation has them all.
THEOREM QuotedCriteriaAreMissing ==
  Spec => [](\A f \in findings : \A s \in Criteria[log[f.version]] :
               /\ f.evidence.kind = "delivery" /\ s \in f.evidence.tests
               /\ ~(Cardinality(WordsOf[s]) <= 1)
               => "missing_evidence" \in f.classes)
<1>1. ASSUME IInv, NEW f \in findings, NEW s \in Criteria[log[f.version]],
             f.evidence.kind = "delivery", s \in f.evidence.tests,
             ~(Cardinality(WordsOf[s]) <= 1)
      PROVE  "missing_evidence" \in f.classes
  <2>1. log[f.version] \in Contents
    BY <1>1 DEF IInv, TypeOK
  <2>2. s \in Statements
    BY <2>1, EvaluatorAssumption
  <2>3. s \in Missing(log[f.version], f.evidence.tests)
    BY <1>1, <2>2, QuotationIsOneHit DEF Missing
  <2>4. f.classes = EvaluateDelivery(log[f.version], f.evidence.changed, f.evidence.tests)
    BY <1>1 DEF IInv, FindingsStand
  <2> QED
    BY <2>3, <2>4 DEF EvaluateDelivery
<1>2. IInv => \A f \in findings : \A s \in Criteria[log[f.version]] :
                /\ f.evidence.kind = "delivery" /\ s \in f.evidence.tests
                /\ ~(Cardinality(WordsOf[s]) <= 1)
                => "missing_evidence" \in f.classes
  BY <1>1
<1> QED
  BY <1>2, Invariance, PTL

\* Finite sets with nothing in common add up.
LEMMA DisjointUnion ==
  ASSUME NEW A, NEW B, IsFiniteSet(A), IsFiniteSet(B), A \cap B = {}
  PROVE  /\ IsFiniteSet(A \cup B)
         /\ Cardinality(A \cup B) = Cardinality(A) + Cardinality(B)
         /\ Cardinality(A) \in Nat /\ Cardinality(B) \in Nat
<1>1. /\ IsFiniteSet(A \cup B)
      /\ Cardinality(A \cup B) = Cardinality(A) + Cardinality(B) - Cardinality({})
  BY FS_Union
<1>2. Cardinality({}) = 0 /\ Cardinality(A) \in Nat /\ Cardinality(B) \in Nat
  BY FS_EmptySet, FS_CardinalityType
<1> QED
  BY <1>1, <1>2

\* The issues I, the pull requests P and the commits L are evidence, the other
\* issues, pull requests and commits of C are not: each counts once.
EachCountsOnce(I, P, L, C) ==
  Cardinality(Issues \ I) + Cardinality(Pulls \ P) + Cardinality(C \ L) + Cardinality(I \cup P \cup L)
    = Cardinality(Issues \cup Pulls \cup C \cup (I \cup P \cup L))

\* It is so because the kinds of records have nothing in common.
LEMMA RecordsAddUp ==
  ASSUME NEW I \in SUBSET Issues, NEW P \in SUBSET Pulls, NEW L \in SUBSET Commits,
         NEW C \in SUBSET Commits
  PROVE  EachCountsOnce(I, P, L, C)
<1> USE ConstantsAssumption
<1>1. /\ IsFiniteSet(I) /\ IsFiniteSet(P) /\ IsFiniteSet(L) /\ IsFiniteSet(C)
      /\ IsFiniteSet(C \ L)
  BY FS_Subset, FS_Difference
<1>2. /\ Cardinality(I) \in Nat /\ Cardinality(P) \in Nat /\ Cardinality(L) \in Nat
      /\ Cardinality(Issues) \in Nat /\ Cardinality(Pulls) \in Nat /\ Cardinality(C \ L) \in Nat
  BY <1>1, FS_CardinalityType
<1>3. /\ Cardinality(Issues \ I) = Cardinality(Issues) - Cardinality(I)
      /\ Cardinality(Pulls \ P) = Cardinality(Pulls) - Cardinality(P)
  <2>1. Issues \cap I = I /\ Pulls \cap P = P
    OBVIOUS
  <2> QED
    BY <2>1, FS_Difference
<1>5. IsFiniteSet(I \cup P) /\ Cardinality(I \cup P) = Cardinality(I) + Cardinality(P)
  <2>1. I \cap P = {}
    OBVIOUS
  <2> QED
    BY <1>1, <2>1, DisjointUnion
<1>6. Cardinality(I \cup P \cup L) = Cardinality(I) + Cardinality(P) + Cardinality(L)
  <2>1. (I \cup P) \cap L = {}
    OBVIOUS
  <2> QED
    BY <1>1, <1>5, <2>1, DisjointUnion
<1>7. IsFiniteSet(Issues \cup Pulls)
      /\ Cardinality(Issues \cup Pulls) = Cardinality(Issues) + Cardinality(Pulls)
  BY DisjointUnion
<1>8. IsFiniteSet(L \cup (C \ L)) /\ Cardinality(L \cup (C \ L)) = Cardinality(L) + Cardinality(C \ L)
  <2>1. L \cap (C \ L) = {}
    OBVIOUS
  <2> QED
    BY <1>1, <2>1, DisjointUnion
<1>9. Cardinality((Issues \cup Pulls) \cup (L \cup (C \ L)))
        = Cardinality(Issues) + Cardinality(Pulls) + Cardinality(L) + Cardinality(C \ L)
  <2>1. (Issues \cup Pulls) \cap (L \cup (C \ L)) = {}
    OBVIOUS
  <2> DEFINE X == Issues \cup Pulls
             Y == L \cup (C \ L)
  <2>2. /\ Cardinality(X) = Cardinality(Issues) + Cardinality(Pulls)
        /\ Cardinality(Y) = Cardinality(L) + Cardinality(C \ L)
    BY <1>7, <1>8
  <2>3. Cardinality(X \cup Y) = Cardinality(X) + Cardinality(Y)
    <3>1. X \cap Y = {} /\ IsFiniteSet(X) /\ IsFiniteSet(Y)
      BY <1>7, <1>8, <2>1
    <3> HIDE DEF X, Y
    <3> QED
      BY <3>1, DisjointUnion
  <2> QED
    BY <1>2, <2>2, <2>3
<1>10. Issues \cup Pulls \cup C \cup (I \cup P \cup L) = (Issues \cup Pulls) \cup (L \cup (C \ L))
  OBVIOUS
<1>11. Cardinality(Issues \cup Pulls \cup C \cup (I \cup P \cup L))
         = Cardinality(Issues) + Cardinality(Pulls) + Cardinality(L) + Cardinality(C \ L)
  BY <1>9, <1>10
<1> QED
  BY <1>2, <1>3, <1>6, <1>11 DEF EachCountsOnce

\* What has been gathered when the last request is answered.
LEMMA CollectedOnce ==
  ASSUME IInv, Gathered, Collected
  PROVE  LET evidence == {e.record : e \in BagToSet(batch)}
         IN  /\ NoRepeats
             /\ unmatched' + Cardinality(evidence) =
                  Cardinality(Issues \cup Pulls \cup listed \cup evidence)
<1> DEFINE evidence == {e.record : e \in BagToSet(batch)}
<1>1. /\ pc = "read_commits" /\ unmatched' = unmatched + Cardinality(listed \ linked)
      /\ PullsRead = DOMAIN matched /\ CommitsRead = linked
  BY DEF Collected, PullsRead, CommitsRead
<1>2. EvidenceRead /\ OnePerRecord /\ AllRead /\ Counted
  BY <1>1 DEF Gathered, Collecting
<1>3. NoRepeats
  BY <1>2, IdsTellApart DEF NoRepeats, EvidenceRead, OnePerRecord
<1>4. evidence = IssuesRead \cup DOMAIN matched \cup linked
  <2>1. ASSUME NEW e \in BagToSet(batch) PROVE e.record \in IssuesRead \cup DOMAIN matched \cup linked
    BY <1>1, <1>2 DEF EvidenceRead, IssuesRead
  <2>2. IssuesRead \subseteq evidence
    BY DEF IssuesRead
  <2>3. DOMAIN matched \subseteq evidence /\ linked \subseteq evidence
    BY <1>1, <1>2 DEF AllRead
  <2> QED
    BY <2>1, <2>2, <2>3
<1>5. /\ IssuesRead \in SUBSET Issues /\ DOMAIN matched \in SUBSET Pulls
      /\ linked \in SUBSET Commits /\ listed \in SUBSET Commits
  BY <1>2, ConstantsAssumption DEF IInv, TypeOK, IssuesRead, EvidenceRead
<1>6. unmatched' = Cardinality(Issues \ IssuesRead) + Cardinality(Pulls \ DOMAIN matched)
                     + Cardinality(listed \ linked)
  BY <1>1, <1>2 DEF Counted
<1> HIDE DEF evidence
<1>7. unmatched' + Cardinality(evidence) = Cardinality(Issues \cup Pulls \cup listed \cup evidence)
  <2> DEFINE read == IssuesRead \cup DOMAIN matched \cup linked
  <2>1. EachCountsOnce(IssuesRead, DOMAIN matched, linked, listed)
    BY <1>5, RecordsAddUp
  <2>2. evidence = read
    BY <1>4
  <2> QED
    BY <1>6, <2>1, <2>2 DEF EachCountsOnce
<1> QED
  BY <1>3, <1>7 DEF evidence

\* Every record that a collection reads is evidence or is counted as unmatched,
\* and no event is repeated in a batch, although the tracker changes between
\* the requests and commits are reached in several ways.
THEOREM RecordsCountOnce == Spec => EveryRecordOnce
<1> DEFINE Once ==
      pc = "read_commits" /\ pc' = "process" =>
        LET evidence == {e.record : e \in BagToSet(batch)}
        IN  /\ NoRepeats
            /\ unmatched' + Cardinality(evidence) =
                 Cardinality(Issues \cup Pulls \cup listed \cup evidence)
<1>1. Init => Gathered
  BY DEF Init, Gathered, Collecting
<1>2. IInv /\ Gathered /\ [Next]_vars => Gathered'
  BY NextGathered
<1>3. ASSUME IInv, Gathered, [Next]_vars PROVE [Once]_vars
  <2>1. pc = "read_commits" /\ pc' = "process" => Collected
    BY <1>3 DEF Next, NewVersion, Hold, Edit, EndChecks, Merge, ListIssues, ListPulls, ReadPull,
       ListCommits, ReadCommits, RequestFails, Process, Finish, vars
  <2> QED
    BY <1>3, <2>1, CollectedOnce
<1> HIDE DEF Once
<1>4. Spec => [][Once]_vars
  BY Invariance, <1>1, <1>2, <1>3, PTL DEF Spec
<1> QED
  BY <1>4, PTL DEF EveryRecordOnce, Once
=============================================================================
