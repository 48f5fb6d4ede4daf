----------------------------- MODULE Conformance -----------------------------
(***************************************************************************)
(* A caller of the Product Decision Compiler: it holds a Decision Package, *)
(* collects the records of a tracker that name the decision                *)
(* (GitHubReadOnlyAdapter.collect_for_decision, while the records change   *)
(* between its requests, any of which may fail) and gives the evidence to  *)
(* the ConformanceEngine.                                                  *)
(*                                                                         *)
(* The packages are those of DecisionPackages, of which only what BriefLog *)
(* promises is used: an append-only log of contents.                       *)
(***************************************************************************)
EXTENDS Evaluator, Naturals, Sequences, Bags

CONSTANTS
  Issues, Pulls, Commits,   \* records of the tracker
  Mentions,                 \* Mentions[r][n]: the version that revision n of
                            \* record r names, 0 for none of this decision
                            \* (BOUND: its length is the number of revisions)
  Text,                     \* Text[r][n]: its title and description
  Tests,                    \* Tests[p][n]: the `test:` lines of pull request p
  Notes,                    \* Notes[p][n]: its `deviation:` and `risk:` lines
  Files,                    \* Files[p][n]: the files that revision n changes
  CommitsOf,                \* CommitsOf[p]: its commits
  CheckText,                \* CheckText[p]: what the checks of p are called
  None,                     \* no pull request
  MaxVersion,               \* BOUND: versions of the decision
  MaxPolls                  \* BOUND: collections

ASSUME ConstantsAssumption ==
  /\ IsFiniteSet(Issues) /\ IsFiniteSet(Pulls) /\ IsFiniteSet(Commits)
  /\ Issues \cap Pulls = {} /\ (Issues \cup Pulls) \cap Commits = {}   \* kinds of records
  /\ MaxVersion \in Nat /\ MaxPolls \in Nat
  /\ Mentions \in [Issues \cup Pulls \cup Commits -> Seq(0..MaxVersion)]
  /\ \A r \in Issues \cup Pulls \cup Commits : Len(Mentions[r]) > 0
  /\ CommitsOf \in [Pulls -> SUBSET Commits]

VARIABLES
  log,                      \* the contents of the versions of the decision
  revision, checked, main,  \* the tracker: revisions, pull requests whose
                            \* checks have ended, commits on the main branch
  held,                     \* the version of the package the caller holds
  pc, polls,                \* the next step of the caller; collections so far
  todo, matched,            \* pull requests to read; their references
  linked,                   \* seen_commits
  listed,                   \* commits that list_commits returned
  batch, unmatched,         \* the evidence collected, records not matched
  events,                   \* the engine: claimed events, by event id
  findings                  \* what the engine has found so far

tracker == <<revision, checked, main>>
poll    == <<todo, matched, linked, listed, batch, unmatched>>
engine  == <<events, findings>>
vars    == <<log, revision, checked, main, held, pc, polls, todo, matched, linked, listed,
             batch, unmatched, events, findings>>

Evidence(kind, r, n, version, link, changed, tests) ==
  [kind |-> kind, record |-> r, rev |-> n, version |-> version, link |-> link,
   changed |-> changed, tests |-> tests]

\* source_event_id: revisions of a record differ in updated_at; the id of a
\* commit is its hash alone.
EventId(e) == IF e.kind = "commit" THEN <<"commit", e.record>> ELSE <<e.kind, e.record, e.rev>>

\* evidence_content_hash: everything but the event id and the time.
Hash(e) == IF e.kind = "delivery"
           THEN <<e.record, e.version, e.changed, e.tests>>
           ELSE <<e.kind, e.record, e.version, Text[e.record][e.rev], e.link>>

Put(f, k, d) == [x \in DOMAIN f \cup {k} |-> IF x = k THEN d ELSE f[x]]

Init ==
  /\ log = << >>
  /\ revision = [r \in Issues \cup Pulls |-> 1] /\ checked = {} /\ main = {}
  /\ held = 0 /\ pc = "idle" /\ polls = 0
  /\ todo = {} /\ matched = << >> /\ linked = {} /\ listed = {}
  /\ batch = EmptyBag /\ unmatched = 0
  /\ events = << >> /\ findings = {}

-----------------------------------------------------------------------------
(* Packages and the tracker *)

Versions == INSTANCE BriefLog WITH
  approved <- << >>, Complete <- {}, ApproveComments <- {}, Names <- << >>

NewVersion ==
  /\ Len(log) < MaxVersion
  /\ \E c \in Contents : Versions!AppendVersion(c)
  /\ UNCHANGED <<tracker, held, pc, polls, poll, engine>>

\* Mutant of Hold: an off-by-one.
Hold_Next ==
  /\ pc = "idle" /\ held < Len(log)
  /\ held' = Len(log) + 1
  /\ UNCHANGED <<log, tracker, pc, polls, poll, engine>>

\* The caller takes the newest package between two collections.
Hold ==
  /\ pc = "idle" /\ held < Len(log)
  /\ held' = Len(log)
  /\ UNCHANGED <<log, tracker, pc, polls, poll, engine>>

Edit(r) ==
  /\ revision[r] < Len(Mentions[r])
  /\ revision' = [revision EXCEPT ![r] = @ + 1]
  /\ checked' = checked \ {r}
  /\ UNCHANGED <<log, main, held, pc, polls, poll, engine>>

\* Checks end and commits are merged without a new revision.
EndChecks(p) ==
  /\ p \notin checked
  /\ checked' = checked \cup {p}
  /\ UNCHANGED <<log, revision, main, held, pc, polls, poll, engine>>

Merge(p) ==
  /\ ~(CommitsOf[p] \subseteq main)
  /\ main' = main \cup CommitsOf[p]
  /\ UNCHANGED <<log, revision, checked, held, pc, polls, poll, engine>>

-----------------------------------------------------------------------------
(* collect_for_decision *)

\* reference_for: the version that a record names, whichever it is.
Mention(r) == Mentions[r][revision[r]]

Matched(records) == {r \in records : Mention(r) # 0}

ListIssues ==
  /\ pc = "idle" /\ held # 0 /\ polls < MaxPolls
  /\ polls' = polls + 1
  /\ batch' = SetToBag({Evidence("issue", i, revision[i], Mention(i), None, {}, {}) :
                          i \in Matched(Issues)})
  /\ unmatched' = Cardinality(Issues \ Matched(Issues))
  /\ pc' = "pulls"
  /\ UNCHANGED <<log, tracker, held, todo, matched, linked, listed, engine>>

\* The list of pull requests is one answer: their revisions are those of now.
ListPulls ==
  /\ pc = "pulls"
  /\ matched' = [p \in Matched(Pulls) |-> [version |-> Mention(p), rev |-> revision[p]]]
  /\ todo' = Matched(Pulls)
  /\ unmatched' = unmatched + Cardinality(Pulls \ Matched(Pulls))
  /\ pc' = "read_pulls"
  /\ UNCHANGED <<log, tracker, held, polls, linked, listed, batch, engine>>

\* Pull requests and evidence are taken in the order of their list.
First(S) == CHOOSE x \in S : TRUE

\* The files and checks of each matched pull request are read later, one by
\* one: they may be newer than the text that the list has returned.
ReadPull ==
  /\ pc = "read_pulls" /\ todo # {}
  /\ todo' = todo \ {First(todo)}
  /\ LET p       == First(todo)
         n       == matched[p].rev
         changed == Files[p][revision[p]] \cup Notes[p][n]
         tests   == Tests[p][n] \cup IF p \in checked THEN CheckText[p] ELSE {}
         found   == {Evidence("pull_request", p, n, matched[p].version, None, {}, {}),
                     Evidence("delivery", p, n, matched[p].version, None, changed, tests)}
     IN  batch' = batch (+) SetToBag(found)
  /\ UNCHANGED <<log, tracker, held, pc, polls, matched, linked, listed, unmatched, engine>>

ListCommits ==
  /\ pc = "read_pulls" /\ todo = {}
  /\ listed' = main
  /\ linked' = {m \in main : Mentions[m][1] # 0}
  /\ batch' = batch (+) SetToBag({Evidence("commit", m, 1, Mentions[m][1], None, {}, {}) : m \in linked'})
  /\ todo' = DOMAIN matched
  /\ pc' = "read_commits"
  /\ UNCHANGED <<log, tracker, held, polls, matched, unmatched, engine>>

\* A commit without a reference of its own has that of its pull request.
ReadCommits ==
  /\ pc = "read_commits" /\ todo # {}
  /\ todo' = todo \ {First(todo)}
  /\ LET p == First(todo)
         version(m) == IF Mentions[m][1] # 0 THEN Mentions[m][1] ELSE matched[p].version
     IN  /\ batch' = batch (+) SetToBag({Evidence("commit", m, 1, version(m), p, {}, {}) :
                                           m \in CommitsOf[p] \ linked})
         /\ linked' = linked \cup CommitsOf[p]
  /\ UNCHANGED <<log, tracker, held, pc, polls, matched, listed, unmatched, engine>>

\* Mutant of Collected: commits found through a pull request count as unmatched.
Collected_AllUnlinked ==
  /\ pc = "read_commits" /\ todo = {}
  /\ unmatched' = unmatched + Cardinality({m \in listed : Mentions[m][1] = 0})
  /\ pc' = "process"
  /\ UNCHANGED <<log, tracker, held, polls, todo, matched, linked, listed, batch, engine>>

Collected ==
  /\ pc = "read_commits" /\ todo = {}
  /\ unmatched' = unmatched + Cardinality(listed \ linked)
  /\ pc' = "process"
  /\ UNCHANGED <<log, tracker, held, polls, todo, matched, linked, listed, batch, engine>>

\* A request that fails ends the collection; its evidence is lost.
RequestFails ==
  /\ \/ pc = "pulls"
     \/ pc = "read_pulls"
     \/ pc = "read_commits" /\ todo # {}
  /\ pc' = "idle"
  /\ todo' = {} /\ matched' = << >> /\ linked' = {} /\ listed' = {}
  /\ batch' = EmptyBag /\ unmatched' = 0
  /\ UNCHANGED <<log, tracker, held, polls, engine>>

-----------------------------------------------------------------------------
(* ConformanceEngine *)

\* An event is claimed by its id before its version is looked at (and the
\* mutant: only the very same evidence is refused).
Claimable_ByHash(e) == \A k \in DOMAIN events : events[k] # Hash(e)
Claimable(e) == EventId(e) \notin DOMAIN events

Finding(e) ==
  [evidence |-> e, version |-> held,
   classes |-> IF e.kind = "delivery" THEN EvaluateDelivery(log[held], e.changed, e.tests)
               ELSE {EvaluateWork(log[held], Text[e.record][e.rev])}]

\* _require_current_version: the version of the package that the caller holds
\* (and the mutant: only a newer one is refused).
Current_NotNewer(e) == e.version <= held
Current(e) == e.version = held

\* Work items are processed before delivery reports.  A claimed event and
\* stale evidence are rejected, and the caller goes on.
Process ==
  /\ pc = "process" /\ batch # EmptyBag
  /\ LET work == {e \in BagToSet(batch) : e.kind # "delivery"}
         e    == First(IF work # {} THEN work ELSE BagToSet(batch))
     IN  /\ batch' = batch (-) SetToBag({e})
         /\ events' = IF Claimable(e) THEN Put(events, EventId(e), Hash(e)) ELSE events
         /\ findings' = IF Claimable(e) /\ Current(e) THEN findings \cup {Finding(e)} ELSE findings
  /\ UNCHANGED <<log, tracker, held, pc, polls, todo, matched, linked, listed, unmatched>>

Finish ==
  /\ pc = "process" /\ batch = EmptyBag
  /\ pc' = "idle"
  /\ matched' = << >> /\ linked' = {} /\ listed' = {} /\ unmatched' = 0
  /\ UNCHANGED <<log, tracker, held, polls, todo, batch, engine>>

Next ==
  \/ NewVersion \/ Hold
  \/ \E r \in Issues \cup Pulls : Edit(r)
  \/ \E p \in Pulls : EndChecks(p) \/ Merge(p)
  \/ ListIssues \/ ListPulls \/ ReadPull \/ ListCommits \/ ReadCommits \/ Collected
  \/ RequestFails
  \/ Process \/ Finish

Spec == Init /\ [][Next]_vars

-----------------------------------------------------------------------------
(* Properties *)

\* The type invariant.
TypeOK ==
  /\ log \in Seq(Contents) /\ held \in 0..Len(log)
  /\ revision \in [Issues \cup Pulls -> Nat \ {0}]
  /\ \A r \in Issues \cup Pulls : revision[r] <= Len(Mentions[r])
  /\ checked \subseteq Pulls /\ main \subseteq Commits
  /\ pc \in {"idle", "pulls", "read_pulls", "read_commits", "process"} /\ polls \in 0..MaxPolls
  /\ todo \subseteq Pulls /\ DOMAIN matched \subseteq Pulls
  /\ linked \subseteq Commits /\ listed \subseteq Commits
  /\ \A e \in BagToSet(batch) : e.version \in 1..MaxVersion
  /\ unmatched \in Nat
  /\ \A f \in findings : f.version \in 1..Len(log)

\* A collection names every event once.
NoRepeats ==
  \A e, f \in BagToSet(batch) :
    /\ batch[e] = 1
    /\ e # f => EventId(e) # EventId(f)

\* Every record read by a collection is evidence or counted as unmatched, and
\* never both: a commit without a reference that is reached through a matched
\* pull request is evidence, on the main branch or not.  No event is repeated,
\* although commits may be reached in several ways and merged in between.
EveryRecordOnce ==
  [][pc = "read_commits" /\ pc' = "process" =>
       LET evidence == {e.record : e \in BagToSet(batch)}
       IN  /\ NoRepeats
           /\ unmatched' + Cardinality(evidence) =
                Cardinality(Issues \cup Pulls \cup listed \cup evidence)]_vars

\* What a finding says stays true: its evidence named the version it was
\* checked against, and the verdict is that of the content which this version
\* still has, however many versions were added since the caller got it.
FindingsStand ==
  \A f \in findings :
    /\ f.evidence.version = f.version
    /\ f.classes = IF f.evidence.kind = "delivery"
                   THEN EvaluateDelivery(log[f.version], f.evidence.changed, f.evidence.tests)
                   ELSE {EvaluateWork(log[f.version], Text[f.evidence.record][f.evidence.rev])}

\* However often the tracker is read, an event leads to one finding.
OneFindingPerEvent ==
  \A f, g \in findings : EventId(f.evidence) = EventId(g.evidence) => f = g

\* Nobody hides a drift by writing more: of two work items checked against
\* one package, the one that says all the other says is flagged if it is.
PaddingNeverClears ==
  \A f, g \in findings :
    /\ f.version = g.version /\ "delivery" \notin {f.evidence.kind, g.evidence.kind}
    /\ Text[f.evidence.record][f.evidence.rev] \subseteq Text[g.evidence.record][g.evidence.rev]
    => /\ f.classes = {"risk"} => g.classes = {"risk"}
       /\ f.classes = {"scope_expansion"} => g.classes \subseteq {"risk", "scope_expansion"}
=============================================================================
