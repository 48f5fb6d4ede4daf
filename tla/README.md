# Verification of AI-native studio

TLA+ models, TLC runs and TLAPS proofs of `src/ai_native_studio`: a Linear
agent (ProductAgent) that turns issues into versioned Product Briefs which a
human Founder approves by commenting `APPROVE SPEC <version>`, a compiler of
Decision Packages with a conformance check of delivery evidence, and a
synthetic proof service. Paths below are relative to `src/src/ai_native_studio`.

## The system

| Component | State | Operations | Interacts with |
|---|---|---|---|
| Live webhook handling (`product_agent_live/service.py`, `server.py`, `storage.py`) | receipt, outcome and provenance documents, pinned app user | `handle_webhook`: freshness, app user, `reserve` / `complete` / `release` of the receipt, cached outcome, thought, terminal activity, retry after a token refresh | Linear (GraphQL calls that fail, and may have been carried out), token store, Product Briefs, model provider |
| Product Briefs (`product_agent_live/product_briefs.py`, `storage.py`) | version, approval and operation documents of an issue | `create_or_reuse`, `approve` | the webhook threads call it; the document store keeps it; a model drafts |
| OAuth installation and tokens (`product_agent_live/tokens.py`, `install.py`, `linear_api.py`, `service.py` 209-245) | OAuth states, the one saved installation | `begin_installation`, `complete_installation`, the refresh of `_respond_to_session` | Linear's OAuth endpoints, webhook threads |
| Command resolution and routing (`product_agent_live/service.py` 364-498, 552-723, 941-1236, 1702-1792, 1885-1903) | stored outcomes of commands | which human prompt a webhook is about, which mode and route it takes, the key and the outcome of a command | webhook handling, Linear (comments and activities, read as they are when asked for) |
| Decision Packages (`product_decision_compiler/contracts.py`, `compiler.py`) | versions and approvals of a decision | `create_or_reuse`, `approve` over a store that locks one call at a time | conformance engine |
| Conformance engine (`product_decision_compiler/conformance.py`, `integrations.py`) | claimed event ids | `collect_for_decision`; `process_work`, `process_delivery`: claim the event, require the version of the package held, classify | Decision Packages, records of GitHub and Linear |
| Turns of a conversation (`product_agent_live/service.py` 376-498, 1905-2190, `product_briefs.py` 534-616, 755-960) | comments of the thread, stored outcomes, briefs | one turn: the stored outcome, the comments read, the ledger of decisions, the model, the brief, the answer | model providers, Linear, Product Briefs |
| Conversation state (`product_agent_proof/conversation_state.py`) | none | `build_conversation_decision_ledger`: decisions found by phrases in the texts of a thread | turns |
| Prompt policy (`product_agent_proof/policy.py`) | none | an answer without the model, from markers in the thread | turns, proof service |
| Model providers (`product_agent_proof/providers.py`, `product_briefs.py` 368-503) | none | one call with retries that share a count, a growing output budget, validation of the answer | OpenAI |
| Proof service (`product_agent_proof/service.py`, `dedup.py`, `approval.py`) | receipts (SQLite), approval list | `handle`: signature, timestamp, receipt, identity, policy, adapter | adapter, policy |
| Answer formatting (`activity_format.py`, layout in `service.py`) | none | headings, lists; `activity_format.py` is called by tests only | |
| Payload parsing, Linear adapter, digest, configuration, logging, HTTP server, demos | none | conversions, environment, scripts | |

What is hard about it:

* **Concurrency.** `ThreadingHTTPServer` starts a thread per request
  (`product_agent_live/server.py:214`) and Cloud Run may start several instances. The document
  stores lock one call at a time (`storage.py:154-199`) and Firestore is used
  without transactions (202-252), so every operation above is a sequence of
  separate reads and whole-document writes.
* **Delivery.** Linear repeats deliveries until they are answered, and the same
  command may come under several webhook ids. Receipts make a delivery
  processed once, cached outcomes make a command answered alike.
* **Partial failure.** Any store call or call of Linear may raise between two
  writes; a crash or an unexpected exception leaves what was written.
* **Time.** A delivery is accepted within a tolerance of its timestamp, and a
  reservation may be taken over when it is five minutes old. The proof service
  never completes a receipt: its age alone keeps a delivery from running again.
* **Feedback.** The agent's answers are comments of the thread that it reads in
  the next turn.

What makes each component correct:

* *Webhook*: one thread at a time processes a delivery; a completed receipt is
  final and stands for an answer that reached Linear; a delivery refused as a
  duplicate is in work or done; no reservation is left behind.
* *Product Briefs*: gapless version numbers, at most the newest version open,
  approvals bind exactly the stored content and come from the Founder, an
  approved version has its record, a comment is accepted once.
* *OAuth*: a state lets one callback through (with Firestore: those that read it before the
  first delete); the stored token can write;
  refreshes of concurrent threads never leave a spent token stored.
* *Decision Packages*: like briefs, a version's author never approves it, and a stale copy that is
  saved never reopens a package.
* *Conformance*: a record that was read is evidence once or counted as
  unmatched; an event is evaluated once, and only against the version that it
  names; saying more never makes a verdict milder.
* *Turns*: what the agent reads in its own answers adds nothing to what people and models
  named; what people decided before a brief was requested is in the brief; a command whose
  outcome is stored is answered by it; a model call ends while its receipt holds.
* *Proof service*: a delivery reaches the policy once; an id should reach it once, and does so only
  until its receipt is stale.
* *Command resolution*: a delivery is about one human prompt, written before it
  was sent, whenever it is tried; text and author are those of that prompt; the
  answer of a command is never given to another one.

## Modules

### `BriefLog` - the abstract specification

What the Product Brief store promises: an append-only sequence of contents and
permanent approvals, each binding the content that the named version has. `Bound` and
`Permanent` are what a reader of the log relies on, and follow from its specification alone.

### `ProductBriefs` (with `MCProductBriefs`)

`create_or_reuse` (`product_briefs.py:534-616`) and `approve` (618-752) on
concurrent handlers. **One store call is one step**, and what a handler has read
stays in `seen[h]` until it writes it back, changed, as the code does with
`model_copy` and `save_version`.

| Step | Code |
|---|---|
| `BeginCreate`, `BeginApprove` | a thread starts; the actor checks of `approve` precede every store call |
| `GetOperation` | the operation record of this command (539-548) |
| `CreateDraft` | the model's draft: any content, or an error (549-552) |
| `ListVersions` | reuse of a version with the same content, or the next number (553-592) |
| `Supersede` | `save_version` of the copy read, as superseded (593-594) |
| `CreateVersion`, `CreateOperation` | create-if-absent, results ignored (595-616) |
| `GetApproval`, `GetVersion` | duplicate and status checks (660-722) |
| `CreateApproval`, `SaveApproved` | create-if-absent, then `save_version` of the copy read, as approved (723-752) |
| `Fail` | a store call raises, or the process dies, before any step |

Contents are values with equal contents having equal hashes; an incomplete draft
(`_initial_status`) starts as `draft` instead of `awaiting`. One brief is
followed: documents of different issues share no key. The history variable `cut` has the
second writes (`SecondWrites`) that a failure kept a handler from making.

### `LiveWebhook` (with `MCLiveWebhook`)

`handle_webhook` (`service.py:247-348`), `_respond_to_session` (350-362) and
`_process_session_event` (364-498) on concurrent threads, with the
**Firestore** receipt store (`storage.py:358-415`), whose `reserve` is a create, a
read and an overwrite, and whose `complete` and `release` are a read and a
write; the SQLite store holds one lock for each of the three and so allows fewer
behaviours. A thread is at a label `pc[t]`; labels in `Holding` are those
between a successful `reserve` and the end of `complete` or `release`.

`create_agent_activity` (`linear_api.py:105-127`) asks Linear for `success` and never reads it, so a
call that does not raise counts as published, in the code and in `Publish`.
`AfterError` is the dispatch of the except clauses: an authentication error of
the first attempt leads to a token refresh and a second attempt, any other
`LinearAPIError` to `release`. `Publish` distinguishes the call that fails from
the one that fails after Linear carried it out. `Die` is an exception that no
clause handles, or a crash: the reservation stays. `Compute` stands for
the command itself (an approval, a brief, a model answer), every exception of which
`_build_terminal_activity` turns into an error activity; its effects on briefs are
`ProductBriefs`.

### `DeliveryGate` - what the receipts promise

A delivery is open, at work, done or lost; one thread at a time works on it; done and lost are
final; it is lost only when the thread at work on it ends without an answer. `LiveWebhook`
implements it: `Work` pairs the thread at a label of `Holding` with the key of its delivery (that is, from
a successful `reserve` until `complete` or `release` has written), `Done` are the keys of
completed receipts, `Lost` those of reservations that nobody holds.

### `DecisionPackages` (with `MCDecisionPackages`)

`DecisionPackageService.create_or_reuse` and `approve` (`contracts.py:227-330`)
on threads that share the in-memory store of `contracts.py`, whose lock covers
one call. As in `ProductBriefs` **one store call is one step** and `seen[h]` is the
copy a caller works on. The control differs: a creator that finds its number taken
hands back the stored package (`Create`, `GetExisting`), the version is read
before the approval record (`Get`, `GetApproval`), a draft with a blank field is
refused before anything is written (`Buildable`), and no call can fail. The
module implements `BriefLog` too.

### `Evaluator` and `Conformance` (with `MCConformance`)

`Evaluator` holds the pure classification (`conformance.py:78-235`, 383-431) as
operators over words and phrases: a text is a set of words and of statements that it
quotes. The code finds a phrase anywhere in the normalised text, inside a longer word as well; a
statement that a text quotes may therefore be there without its words. `Conformance` is a caller that holds a package, collects a tracker and
gives the evidence to the engine.

| Step | Code |
|---|---|
| `ListIssues`, `ListPulls` | the two lists, records with and without a reference (`integrations.py:404-425`) |
| `ReadPull` | files and checks of one matched pull request (426-444): the files (`Files`) are those of the revision there is now, text, deviations and risks (`Notes`) those of the revision the list returned |
| `ListCommits`, `ReadCommits` | the commits of the main branch, then those of each matched pull request (446-466) |
| `Collected` | what stays unmatched (468-476) |
| `RequestFails` | a request raises; the collection is lost |
| `Process` | claim, version check, verdict (`conformance.py:245-281`); work items precede delivery reports |
| `Edit`, `EndChecks`, `Merge`, `NewVersion` | the tracker and the decision change between any two requests |

`First` is the fixed order of a list. Of the packages only the append-only log
is used, which is what `DecisionPackages` implements. The Linear adapter collects
issues the way `ListIssues` does.

### `OAuthInstallation` (with `MCOAuthInstallation`)

The callbacks of installations and the token handling of webhook threads, which share
one stored installation without a lock around load, refresh and save.

| Step | Code |
|---|---|
| `Begin` | `begin_installation`: a new state is stored (`install.py:12-32`) |
| `Callback`, `Webhook` | a thread starts (`server.py:147-186`) |
| `Pop`; `PopGet`, `PopDelete` | `pop` of the SQLite store, one step under its lock (`tokens.py:41-50`); that of Firestore, a read and a delete (`storage.py:281-287`) |
| `Exchange`, `Save` | the code is exchanged and the scope checked, then the pair is saved (`service.py:226-245`) |
| `Load` | the installation of a webhook, with its scope check (301-322) |
| `Call`, `Refresh`, `SaveRefreshed` | `_respond_to_session`: the first attempt, the refresh, the save, the second attempt (350-362) |
| `Tick`, `Expire`, `Die` | time, Linear's expiry, a store call that raises or a crash |

`Init` chooses the store. Linear's side is external: a code works once, a refresh spends
the newest refresh token and makes the pair before invalid for another refresh, an old
access token may go on working, and an answer may be lost after Linear
has acted. `lost` remembers the grants whose newest pair went down that way: nothing
in the code recovers them but another installation. `LiveWebhook` has of all this
one bit, that a token that can write is stored.

### `CommandTurn` (with `MCCommandTurn`)

The turn of a delivery: `_command_envelope` (`service.py:941-1137`), the queries it makes, the
classifications of the text, and the outcome stored under the key of the command. Threads
resolve deliveries, and resolve them again after a failed call, while the people and
the agent of the session go on writing.

| Step | Code |
|---|---|
| `Tick`, `Comment`, `Activity` | Linear: time, comments of the issue, activities of the session |
| `DeliverCreated`, `DeliverPrompted` | a webhook is sent; its payload is a snapshot (`seen`, `at`), with or without the activity (`inline`) and the session's comment (`rooted`) |
| `Take` | a thread starts, or starts again, with a delivery (364-372) |
| `ResolveCreated`, `FetchComments` | a created session: its comment, the issue's description, or for a comment that no person wrote the last human comment (953-1036) |
| `ResolvePrompted` | a prompt in the payload, the session's comment, or a query (1038-1112) |
| `FetchActivities` | the one latest prompt up to the time of the delivery (1721-1777), for a created session without a human comment as well |
| `Lookup`, `Store` | the stored outcome of the command, or the command is run and its outcome stored (375-498) |
| `Fail` | a call raises or the process dies; the delivery may come again |

`Turns` is what a delivery is resolved to: where its text is from and the id, text,
author and signals. `Route`, `Mode` and `Handler` classify a text, which is the set of the
markers that the patterns of the code look for; `Key` is `_logical_operation_key`. A
delivery is handled at a time later than its own (`sent[n].at < now`: time stamps
are milliseconds and the delivery has crossed the network); Linear returns comments in the
order written. How often a delivery is tried is up to the receipts of `LiveWebhook`; here it
is tried any number of times. A refused command (`Refuse`) stores its
error under the id of the delivery, where no command is looked up. Two tests of the created session
(974, 1002-1009) never change the result and have no branch: the session's own comment is older than the
comments of the issue, and a second look for a comment finds what the first has not found. The payload
of a created session is taken to carry no activity (1726-1737).

`Steady` names the deliveries that `RetriesAgree` is about: all but that of a session
created on a filler comment without an earlier comment of a person, for which the code
takes whatever Linear returns at the time.

### `ModelTurn` over `DecisionLedger` and `ModelCall` (with `MCModelTurn`)

The turns of a session from the stored outcome of a command to its answer. A text is the set
of the facts that the ledger would find in it, with the markers that the policy looks for; which
facts the *lines of an answer* are found to have is in the tables of `DecisionLedger`,
derived phrase by phrase from the patterns (`conversation_state.py`) and the wording
(`service.py` 1905-2190, `product_briefs.py` 755-960, `policy.py`). The command is the comment,
as resolved by `CommandTurn`; the brief is stored in one step, which `ProductBriefs` splits.

| Step | Code |
|---|---|
| `Write` | a person writes a comment: a request of some kind that says something |
| `Take` | a delivery of that command, the first or another one (`service.py:364-375`) |
| `Lookup` | a stored outcome is repeated (376-383) |
| `Fetch` | `_decision_ledger` of the issue, the earlier comments and the comments of people that Linear returns now (2160-2190); an answer that needs no model: conversation, discovery, proposal, report, a brief already stored under the operation key, the policy's follow-up |
| `Attempt` | an attempt of the model call: repeated, a valid draft, or failed (`providers.py:430-617`, `product_briefs.py:368-503`) |
| `Save` | the ledger is put over the draft; a brief of the same content that is not superseded is handed back without an operation record, so that a copy of the command asks the model again; or the brief is stored, or the store raises |
| `Publish`, `Store` | the answer is a comment of the thread; the outcome is stored unless another copy has stored one |
| `Fail` | a call of Linear or of a store raises, or the thread dies |

`ModelCall` has the attempts: all transient failures share one count, the pause before an attempt
is its number (in half seconds), an answer cut off for its budget gets a larger budget, and `Errors` tells what each
of the two adapters makes of what it does not repeat. Approvals and brief references read no
conversation and are not here. Left out of the tables are phrases that begin in one text and end in the next, and
"probably delete", which adds an action to the scope.

### `ProofService` (with `MCProofService`)

`handle` of the proof webhook (`product_agent_proof/service.py:38-103`) with the SQLite ledger of
`dedup.py`, on the threads of its server.

| Step | Code |
|---|---|
| `Receive` | the request; `handle` reads the clock here, before it waits for the ledger |
| `Reserve` | under the lock of the ledger: a young receipt refuses (duplicate or replay conflict), another one is taken over |
| `Identity`, `Evaluate`, `Publish` | the agent's identity, the policy, the adapter; none of them touches the receipt |
| `Restart` | the server is started again on the same file |

## Runs

| Run | Instance | Shows |
|---|---|---|
| `briefs_safety` | 3 handlers, 4 requests of 1 create command and 3 comments (two versions, one by a stranger), 3 contents, any call fails | `OnlyLatestOpen`, `ApprovalSound`, `ApprovedHasRecord`, `AcceptedOnce`, `NeverReopened`, `HalfDoneByFailure`, the implementation of `BriefLog` |
| `briefs_approved_preserved` | 2 handlers, no failure | violation: a creator with a stale list overwrites an approved version as superseded |
| `webhook_safety` | 2 threads, 2 bodies under one receipt key, 3 arrivals at times inside and outside of the window, Linear errors, deaths | `OneHolder`, `HolderOwnsReceipt`, `CompletedIsAnswered`, the implementation of `DeliveryGate` |
| `webhook_takeover` | no death, takeover age below twice the tolerance, one command under two keys | `CachedIsPublished` and `DuplicateIsHandled` even when reservations are taken over from working threads, and the liveness property `ReservationSettles` |
| `packages_safety` | 2 callers, 4 calls, 3 contents of which one is blank, 3 approvals of which one is by the agent | `ReturnedIsStored`, `StatusMovesForward`, the liveness property `ApprovalTakesEffect`, the implementation of `BriefLog` |
| `conformance_safety` | 2 versions, 1 issue, 2 pull requests, 2 commits, 2 collections | `FindingsStand`, `EveryRecordOnce`, `OneFindingPerEvent`, `PaddingNeverClears` |
| `oauth_safety` | 2 threads, 2 states, 3 grants of which one cannot write, 4 callbacks and webhooks, either store | `StateUsedOnce`, `NewestIsKept`, `SavedIsNewest` |
| `command_safety` | 1 thread, 3 texts, 4 sessions, 2 comments or prompts, 2 deliveries, times 0 to 2 | `RetriesAgree`, `SourceSaysIt` |
| `proof_safety` | 2 threads, 1 id, 2 bodies, times 0 to 5, tolerance 1 and stale age 2, 3 requests, restarts | `RunsOnce` |
| `proof_altered_retry` | 1 thread, 1 id, 2 bodies, 2 requests | violation: another body under an id that has run is run as well |
| `turn_safety` | 2 threads, 4 kinds of prompts, 2 comments of people, 3 deliveries, 2 retries, every result of an attempt | `NothingElseInvented`, `SaidIsKept`, `SettledIsRepeated`, `CallFits` |
| `turn_confirmed_by_people` | as `turn_safety`, 2 deliveries | violation: the default of a proposal is confirmed by the Founder in the next brief |

Bounds: `MaxRequests` and `MaxArrivals` count what enters, not what the code
does with it. Four requests are two creators and two approvers, or three and
one, which is what every race in the hazards needs (two writers and a reader
between them) plus one; three handlers run them all but one at once. Version
numbers reach 4. For a receipt, three arrivals on two threads give a first
holder, a competitor and a later copy; one unit of time is the tolerance, and
the times 0, 2 and 3 around the timestamp 1 are both borders of the window and
one point outside it. Threads are a symmetry set in the runs without liveness;
complete contents as well. The tracker of `MCConformance` has one record for every
way evidence is found: an issue about the second version, a pull request to which files are pushed, one
that names the decision only after an edit, a commit with a reference of
its own and one that two pull requests share; the second collection is the one that
returns old evidence again. In `MCOAuthInstallation` four requests are two callbacks with one state and
two webhooks that refresh one grant, or a reinstallation between them; a grant has up to
three pairs, so that an old one can come back over a newer. In
`MCCommandTurn` one thread is enough, because threads meet only in the stored outcomes
(the theorems hold for any number); two deliveries may be about one prompt or
about two; with two prompts the first is answered while the second is written; three times
let a prompt be written before, at and after the time of a delivery and still be seen by
a later try; the sessions start without a comment, with and without a description, with
Linear's starter comment and with a request. In `MCProofService` three requests are a first run, one that waits
for the lock and one that overtakes it; five units of time let a receipt become stale twice. In `MCModelTurn` the prompts
are a brief that names facts, a proposal with the policy's marker, an advisory with a fact that
only a brief's answer shows, and a fresh start; two comments and three deliveries are two commands
and a copy of one, so that each answer is read again by another turn; two retries are those of the configuration. Deadlock is not checked: the system stops when the
bounded requests are answered.

Fairness: `LiveWebhook` and `DecisionPackages` state weak fairness of the steps of each
thread. Threads are scheduled preemptively, no step waits for another thread, and
every call of Linear and of a model has a timeout; the callers of Decision Packages are threads of
one process over an in-memory store. Arrivals, failures and deaths are never fair. The other modules
state no liveness: what `create_or_reuse` and `approve` of the briefs promise eventually is
that of their twin in `DecisionPackages`, minus the failures, and a failed call
promises nothing.

## Proofs

The theorems hold for every number of threads, requests, contents, keys and
deliveries and without the bounds (`MaxRequests`, `MaxArrivals`, `MaxTurns` and the like are any numbers). They are in eight modules, one per component.

**`ProductBriefs_proofs`** rests on `ConstantsAssumption` alone. The properties
are not inductive: what keeps them is what handlers may assume of the stale
documents they hold. `IInv` adds `StaleReadsSound` (the predecessor of the
version a handler creates is closed when it creates; the content it read is
still the stored one; one handler has won the approval it is about to save), that a
comment counted as accepted has its record, and that open versions that await
approval are complete, and that version numbers have no gap (`VersionsContiguous`). `NextGrows` shows first that no step removes a document,
changes a content or reopens a version; the soundness of the reads of the *other*
handlers follows from that alone, and each step is then examined for its own handler.
Theorems: `TypeCorrect`, `OneOpenVersion`, `ApprovalsAreSound`,
`ApprovalsAreRecorded`, `AcceptedAtMostOnce`, `NoReopening`, and `ImplementsLog` (every step
appends a version, records an approval or is invisible to `BriefLog`), from which `ContentsStand`
follows through the log alone. `NothingIsRewritten` is `NextGrows` as a property of behaviours.
`NothingIsLeftHalfDone` (`HalfDoneByFailure`) is inductive once it says who makes the second write: a record whose
version is still open has its handler at `save_approved`, a superseded version without a successor has one at
`create_version`, or the write is in `cut`; `NextPending` and `NextSuccessor` are its two halves, and
`StaysInHand` says that a write in hand is made or cut off. `RequestsAreBounded` ranks the steps of a handler
(`CallsLeft`, at most six): no handler waits for another.

**`LiveWebhook_proofs`** has two inductive invariants.

* `Exclusive` (`ExclusiveProcessing`, `HoldersOwn`, `CompletedIsFinal`, `ImplementsGate`,
  `DuplicatesAreHandled`, `ReservationsAreHeld`)
  needs `2 * Tolerance <= StaleAfter`, which the code satisfies with 60 seconds
  against five minutes (`storage.py:385`). It says that reservations and working
  threads are as fresh as the timestamp in their key, so nobody reaches the takeover, that a thread
  about to complete has read its own reservation, and that holders are unique
  and own their receipt. `ImplementsGate` puts this together: with the values of the code the takeover of
  `storage.py:385` cannot be reached by a fresh delivery, so a reservation whose thread has died is
  never processed under its key again (`Lost` is final). Without the assumption the protocol has no owner
  to compare and does interfere; the run `webhook_takeover` is set there.
  `DuplicatesAreHandled` assumes moreover that no thread dies. This is needed: an exception
  that no clause of `handle_webhook` names, or a crash, leaves the reservation, and every
  redelivery within its age is answered as already processed though nobody handles it.
* `WorkIsBounded` needs no assumption: a rank on the labels of `Holding` falls with every step of the thread
  that holds, the second attempt included. With `ReservationsAreHeld` (no thread dies: every open reservation
  has its thread) this is `ReservationSettles` but for the fairness of threads.
* `Answers` (`AnswersReachLinear`, `CachedReachLinear`) needs no assumption: a thread past `publish` has
  its answer among those Linear accepted.

**`DecisionPackages_proofs`** follows the same plan: `Grows` (no step removes a
package, changes a content or reopens a version) carries `ReadsSound`, what a
caller may assume of its copy; `VersionsContiguous` and `ApprovalsBind` complete
the invariant. Theorems: `TypeCorrect`, `OneOpenVersion`, `ApprovalsAreRecorded`,
`StatusIsSound`, `ResultsAreStored`, `ImplementsLog`, `ContentsStand`, `NothingIsRewritten`. `ApprovalsArePending` (the record
of an open version has its caller at `save_approved`) and `CallsAreBounded` (a call at a step
can take it, and each step brings it closer to its return) are `ApprovalTakesEffect` but for the
fairness of callers.

**`Conformance_proofs`** holds for every tracker, vocabulary and package
(`EvaluatorAssumption` keeps words and statements apart and says that the
distinctive words of a statement are words). `FindingsClaimed` (a finding has claimed its event)
and `MatchedSound` (the references of matched pull requests are versions)
make the invariant inductive. `LongerIsNotMilder` is the lemma about the operators:
concepts found in a text, and security terms, remain when it grows
(`ConceptsRemain`, `SecurityRemains`), and the order in which `EvaluateWork` looks
at them is from the gravest to the mildest. `RecordsCountOnce` follows a collection from its
first request: `Gathered` says for each of its steps which records the batch has, once each, and how many
were counted as unmatched (`DisjointUnion` and `RecordsAddUp` are the lemmas about bags); it
needs that issues, pull requests and commits are different records (`ConstantsAssumption`), as the prefixes of
their ids make them. Of delivery reports two theorems say what holds and what does not:
`LargerDeliveriesDriftToo`, and `QuotedCriteriaAreMissing` (see Findings). Theorems: `TypeCorrect`,
`FindingsAreSound`, `EventsCountOnce`, `RecordsCountOnce`, `PaddingIsFutile`, `LargerDeliveriesDriftToo`,
`QuotedCriteriaAreMissing`.

**`OAuthInstallation_proofs`** rests on `ConstantsAssumption`. `UsedOnce` says that a state whose document
is there has let nobody through, that the callbacks it has let through and those that have read it and not yet
deleted it (`Readers`) are together no more than the threads, and that with SQLite one is let through at most.
`PendingIsMine` is what makes `NewestIsKept` inductive: a pair about to be
saved is the newest of its grant and in no other thread's hands, so that whoever is
refused a refresh has been overtaken by a thread that saved. Theorems: `TypeCorrect`,
`StatesAreSingleUse`, `StoredTokenCanWrite`, `NewestPairIsKept`, `SavesAreNewest`, `WriteAccessStays`,
`NeverBackToAnOlderPair`, and `RefusedWasOvertaken`: a thread whose refresh is refused finds the
stored pair newer, replaced or about to be, or lost, so it never fails over the last good one. `WriteAccessStays` is about the
bit that `LiveWebhook` has of all this; its `Refresh` allows the bit to fall as well.

**`CommandTurn_proofs`** rests on `ConstantsAssumption`. `Expected(d)` is the turn of a
steady delivery as a function of what Linear has, and the heart of the invariant is that it
does not change: comments that come later do not move `LatestHuman(d.seen)`
(`LatestHumanStays`), and once the clock has passed a delivery no prompt can become eligible
for it, while its own cause always is (`LatestStays`). `Right(u, d)` says that a turn is sourced and,
for a steady delivery, the expected one; `RightStays` carries it through every step of Linear,
`SettleStep` establishes it in every way of resolving a delivery. That the last
human comment exists is found by the well-founded order of `WellFoundedInduction`. `RetriesRepeat`
combines `PromptIsFixed` on both sides of a step with the outcomes, which are written once. Theorems:
`TypeCorrect`, `PromptIsFixed`, `TurnsAreSourced`, `AnswersFitCommands`, `ClassificationsFit`, `RetriesRepeat`.

**`ProofService_proofs`** rests on `ConstantsAssumption`; `RunsOnce` needs twice the tolerance within the stale
age, `SameIdRunsApart` does not: it is what the age of a receipt gives where the documents promise
`NoSecondExecution`. The clock that a request has read may be behind that of the receipt it
finds, and the request that holds a receipt may be overtaken by the one that takes it over, so the
invariant orders by the clocks read and not by the steps: every run and every thread past
`reserve` is at or below the receipt of its id, and any two of them are `Apart`
(`TakenIsLater`, `BelowAfterStamp`, `ReserveKeeps`). Theorems: `TypeCorrect`, `SameIdRunsApart`,
`DeliveriesRunOnce`.

**`ModelTurn_proofs`** holds for any threads, prompts, drafts and retries. The lemmas about the tables say that every
line of an answer is read back as its own fact or as one of `Wording` (`LineSaysOwn`,
`AdviceSaysOwn`, `BriefSaysOwn`, `SaysFound`); the invariant carries this from the comments to the ledgers
that threads hold, their answers, the stored outcomes and the briefs (`FoundStep`), which is the whole loop. `KeepsStep` does the same
for what people said before the request; `SettledStep` and `CallsStep` are independent of both: `elapsed` is bounded by the number of
attempts times the longest one. `OutcomesAreShown` (a stored outcome is a comment of the agent after
the prompt it answers) and `RecordsAreKept` are about the order of publishing and storing: nobody finds an
outcome that the thread does not show. Theorems: `TypeCorrect`, `NothingInvented`, `SaidKept`,
`SettledRepeated`, `CallsFit`, `OutcomesAreShown`, `RecordsAreKept`.

Proved and not a property of a run: `OneOpenVersion` and `ApprovalsAreRecorded` of the packages,
`StoredTokenCanWrite`, `SameIdRunsApart`, `AnswersFitCommands`, `ClassificationsFit`, `CompletedIsFinal`; the permanence of what is stored
(`ContentsStand`, `NothingIsRewritten`, `RecordsAreKept`, `RetriesRepeat`); what stands behind the liveness
(`ApprovalsArePending`, `ReservationsAreHeld` and the ranks `RequestsAreBounded`,
`CallsAreBounded`, `WorkIsBounded`); `WriteAccessStays`, `NeverBackToAnOlderPair`,
`RefusedWasOvertaken`, `OutcomesAreShown`, the two theorems about delivery reports, and the inductive
invariants themselves.

Only model-checked: the liveness properties `ApprovalTakesEffect` and
`ReservationSettles`, because the proof system has no rules for fairness and
`ENABLED` here. Their safety parts and their ranks are proved as said above; what is left to TLC is that
a fair thread takes the steps it can. Induction over data and RECURSIVE
operators are out of its reach as well; the modules use neither.

## Findings

The three violation runs are listed in `PROJECT.json` with the lines they quote.

* `briefs_approved_preserved`: a creator saves a copy it read before an approval, and the
  approved version becomes superseded. What is lost is the *status*; the approval record and the
  content stay (`ApprovalsAreSound`).
* `proof_altered_retry`: `reserve` (`product_agent_proof/dedup.py:77`) refuses a known id while its receipt is
  young, and the service completes none, so a second body under an id runs once the receipt is stale.
  `products/studio_agents/architecture.md:69-70` says that "altered retries cannot cause a second execution", and
  `threat_model.md:44-45` beside it that duplicates and conflicting replays are both rejected. The same delivery
  does not run again (`RunsOnce`), and the runs of an id are more than the stale age apart
  (`SameIdRunsApart`).
* `turn_confirmed_by_people`: `_decision_ledger` (`service.py:2185`) reads the agent's own
  answers of the payload, so the default of a scope proposal is a Founder-confirmed decision
  of the next brief. `NothingElseInvented` bounds what comes in that way: the five facts of
  `Wording`, and what people or models have named.

Read in the code and not made a run: an exception after the first write of a request is answered with "No approval
or Product Brief change was recorded." (`service.py:538-548`) although that write stays; `HalfDoneByFailure` says what
such a failure may leave behind, and that nothing else does. A package that is approved while a second draft is
compared becomes superseded (`contracts.py:268`) as a brief does in `briefs_approved_preserved`. Overlapping callbacks
of one OAuth state are all let through by the `pop` of Firestore (`storage.py:285`), which `StateUsedOnce` bounds.
`_provider_failure_body` calls every failure of the provider temporary. `_criterion_has_evidence` requires
two meaningful concepts of a criterion (`conformance.py:404`, "Require more than one meaningful
criterion concept"), but a criterion of several words that a test name contains word for word counts as one
hit: a delivery whose tests quote its criterion exactly is judged `missing_evidence`, while a test
that mentions two of its words is not. `QuotedCriteriaAreMissing` proves this for every vocabulary,
and with it that more tests may lose evidence.

## Not modelled

* Configuration, logging, the HTTP server, demos, fixtures and evaluation: environment, I/O and scripts.
* Payload parsing, signature verification, paging, the Linear adapter of the conformance engine
  (its control is the issue part of the GitHub adapter), the digest: functions of data, without state.
* The patterns behind markers and facts, wording and layout beyond the facts that a line carries.
* The provenance record of a webhook and the race of two app users for the pinned identity
  (read at `service.py:291`, written at 299 without a condition); no statement of the code is about it.
* Approvals and brief references in `ModelTurn`, and the stored brief in several steps: they are
  `ProductBriefs`.
* The approval list of the proof service: a chain of refusals over one request and a list nobody reads.
* A model call that outlives its own timeout. `CallFits` assumes that an attempt ends within it;
  the OpenAI client applies it to each read of its connection (`providers.py:712`).

What a longer development would add: `LiveWebhook` and `ModelTurn` composed, so that takeovers and
cached outcomes meet in one state space; `DeliveryGate` as the interface of that composition.
