---------------------------- MODULE ProductBriefs ----------------------------
(***************************************************************************)
(* ProductBriefService.create_or_reuse and .approve over the document      *)
(* store, run by the threads of the webhook server.                        *)
(*                                                                         *)
(* One call of the store (get, list, create-if-absent, overwrite) is one   *)
(* atomic step: InMemoryDocumentStore holds its lock for one call only and *)
(* Firestore is used without transactions.  What a handler has read is     *)
(* therefore kept in seen[h] and may be stale when the handler writes.     *)
(* The module follows one brief (one Linear issue): documents of different *)
(* briefs share no key.                                                    *)
(***************************************************************************)
EXTENDS Naturals, Sequences

CONSTANTS
  Handlers,        \* threads of the webhook server
  CreateCommands,  \* logical create requests (values of _operation_key)
  ApproveComments, \* comments holding an exact `APPROVE SPEC <version>`
  Names,           \* Names[a]: the version number that comment a names
  Author,          \* Author[a]: the authenticated actor who wrote a
  Founder, App,    \* the configured Founder and the app's own Linear user
  Contents,        \* normalised drafts: one per canonical content hash
  Complete,        \* drafts long enough to await approval
  NoContent,       \* content of no document
  MaxRequests,     \* BOUND: requests that the handlers begin
  MayFail          \* whether a store call may raise or the process may die

ASSUME ConstantsAssumption ==
  /\ Names \in [ApproveComments -> Nat \ {0}]
  /\ Complete \subseteq Contents
  /\ NoContent \notin Contents
  /\ MaxRequests \in Nat
  /\ MayFail \in BOOLEAN

VARIABLES
  versions,        \* the version documents, by version number
  approvals,       \* the approval records, by comment: the bound content
  operations,      \* the operation records, by create command
  pc,              \* the next store call of each handler, or its answer
  cmd,             \* the command each handler serves
  draft,           \* the draft the model returned to the handler
  target,          \* the version number the handler creates or approves
  seen,            \* the document the handler read: the latest one, or target
  begun,           \* requests begun so far
  wins,            \* history: answers "accepted" given for each comment
  cut              \* history: the second writes that a failure has cut off

docs  == <<versions, approvals, operations>>
local == <<cmd, draft, target, seen>>
vars  == <<versions, approvals, operations, pc, cmd, draft, target, seen,
           begun, wins, cut>>

Open     == {"draft", "awaiting"}
Statuses == Open \cup {"approved", "superseded"}
Docs     == [content : Contents, status : Statuses]
NoDoc    == [content |-> NoContent, status |-> "absent"]

\* A handler that has answered, or has not begun, takes the next request.
Answered == {"idle", "created", "reused", "accepted", "duplicate",
             "rejected", "failed"}
Working  == {"get_operation", "create_draft", "list_versions", "supersede",
             "create_version", "create_operation", "get_approval",
             "get_version", "create_approval", "save_approved"}

\* The second of the two writes of a request whose first one stands.
SecondWrites == {"create_version", "save_approved"}

\* The documents f after k has been written with d.
Put(f, k, d) == [x \in DOMAIN f \cup {k} |-> IF x = k THEN d ELSE f[x]]

\* create_document: writes nothing when the key is taken.
CreateIfAbsent(f, k, d) == IF k \in DOMAIN f THEN f ELSE Put(f, k, d)

\* model_copy: the document as it was read, with another status.
WithStatus(d, s) == [content |-> d.content, status |-> s]

\* The version number after n, the highest one listed.
NextVersion_Same(n) == n
NextVersion(n) == n + 1

\* Whether the latest document d has to be superseded by a new version.
Superseding_DraftOnly(d) == d.status = "draft"
Superseding(d) == d.status \in Open

\* Whether document d may be approved.
Approvable(d) == d.status = "awaiting"

InitialStatus(c) == IF c \in Complete THEN "awaiting" ELSE "draft"

\* n is the highest version number listed, 0 when there is none.
IsLatest(n) ==
  /\ n \in DOMAIN versions \cup {0}
  /\ \A v \in DOMAIN versions : v <= n

Init ==
  /\ versions = << >> /\ approvals = << >> /\ operations = << >>
  /\ pc = [h \in Handlers |-> "idle"]
  /\ cmd = [h \in Handlers |-> "none"]
  /\ draft = [h \in Handlers |-> NoContent]
  /\ target = [h \in Handlers |-> 0]
  /\ seen = [h \in Handlers |-> NoDoc]
  /\ begun = 0
  /\ wins = [a \in ApproveComments |-> 0]
  /\ cut = {}

Goto(h, label) == pc' = [pc EXCEPT ![h] = label]

-----------------------------------------------------------------------------
(* Requests *)

Begin(h, c, label) ==
  /\ pc[h] \in Answered
  /\ begun < MaxRequests
  /\ begun' = begun + 1
  /\ Goto(h, label)
  /\ cmd' = [cmd EXCEPT ![h] = c]
  /\ draft' = [draft EXCEPT ![h] = NoContent]
  /\ target' = [target EXCEPT ![h] = IF c \in ApproveComments THEN Names[c] ELSE 0]
  /\ seen' = [seen EXCEPT ![h] = NoDoc]
  /\ UNCHANGED <<docs, wins, cut>>

BeginCreate(h, c) == c \in CreateCommands /\ Begin(h, c, "get_operation")

\* The checks on the actor come before any access to the store.
Authorized(a) == Author[a] # App /\ Author[a] = Founder

BeginApprove(h, a) ==
  /\ a \in ApproveComments
  /\ Begin(h, a, IF Authorized(a) THEN "get_approval" ELSE "rejected")

-----------------------------------------------------------------------------
(* create_or_reuse *)

\* An operation record of this very command ends the request; the version it
\* points at is never deleted, so its read is no step of its own.
GetOperation(h) ==
  /\ pc[h] = "get_operation"
  /\ Goto(h, IF /\ cmd[h] \in DOMAIN operations
                /\ operations[cmd[h]].version \in DOMAIN versions
             THEN "reused" ELSE "create_draft")
  /\ UNCHANGED <<docs, local, begun, wins, cut>>

\* The model may return any draft, a different one at every call, or none.
CreateDraft(h) ==
  /\ pc[h] = "create_draft"
  /\ \/ \E c \in Contents : draft' = [draft EXCEPT ![h] = c] /\ Goto(h, "list_versions")
     \/ UNCHANGED draft /\ Goto(h, "failed")
  /\ UNCHANGED <<docs, cmd, target, seen, begun, wins, cut>>

ListVersions(h) ==
  /\ pc[h] = "list_versions"
  /\ \/ /\ \E v \in DOMAIN versions : /\ versions[v].content = draft[h]
                                      /\ versions[v].status # "superseded"
        /\ Goto(h, "reused")
        /\ UNCHANGED <<target, seen>>
     \/ /\ \A v \in DOMAIN versions : \/ versions[v].content # draft[h]
                                      \/ versions[v].status = "superseded"
        /\ \E n \in DOMAIN versions \cup {0} :
             /\ IsLatest(n)
             /\ target' = [target EXCEPT ![h] = NextVersion(n)]
             /\ seen' = [seen EXCEPT ![h] = IF n = 0 THEN NoDoc ELSE versions[n]]
        /\ Goto(h, IF Superseding(seen'[h]) THEN "supersede" ELSE "create_version")
  /\ UNCHANGED <<docs, cmd, draft, begun, wins, cut>>

\* Mutant of Supersede: the copy keeps its status.
Supersede_AsRead(h) ==
  /\ pc[h] = "supersede"
  /\ versions' = Put(versions, target[h] - 1, seen[h])
  /\ Goto(h, "create_version")
  /\ UNCHANGED <<approvals, operations, local, begun, wins, cut>>

\* save_version(latest with status superseded): the whole document as read.
Supersede(h) ==
  /\ pc[h] = "supersede"
  /\ versions' = Put(versions, target[h] - 1, WithStatus(seen[h], "superseded"))
  /\ Goto(h, "create_version")
  /\ UNCHANGED <<approvals, operations, local, begun, wins, cut>>

\* The result of create_version is not looked at.
CreateVersion(h) ==
  /\ pc[h] = "create_version"
  /\ versions' = CreateIfAbsent(versions, target[h],
                   [content |-> draft[h], status |-> InitialStatus(draft[h])])
  /\ Goto(h, "create_operation")
  /\ UNCHANGED <<approvals, operations, local, begun, wins, cut>>

CreateOperation(h) ==
  /\ pc[h] = "create_operation"
  /\ operations' = CreateIfAbsent(operations, cmd[h],
                     [version |-> target[h], content |-> draft[h]])
  /\ Goto(h, "created")
  /\ UNCHANGED <<versions, approvals, local, begun, wins, cut>>

-----------------------------------------------------------------------------
(* approve *)

GetApproval(h) ==
  /\ pc[h] = "get_approval"
  /\ Goto(h, IF cmd[h] \in DOMAIN approvals THEN "duplicate" ELSE "get_version")
  /\ UNCHANGED <<docs, local, begun, wins, cut>>

\* An unknown, superseded or approved version and an incomplete draft are
\* rejected.  The recomputed hash always agrees: no step edits a content.
GetVersion(h) ==
  /\ pc[h] = "get_version"
  /\ \/ /\ target[h] \in DOMAIN versions
        /\ Approvable(versions[target[h]])
        /\ seen' = [seen EXCEPT ![h] = versions[target[h]]]
        /\ Goto(h, "create_approval")
     \/ /\ target[h] \in DOMAIN versions => ~Approvable(versions[target[h]])
        /\ Goto(h, "rejected")
        /\ UNCHANGED seen
  /\ UNCHANGED <<docs, cmd, draft, target, begun, wins, cut>>

\* Mutants of CreateApproval: its result is ignored; the version is saved
\* before the record; the winner answers without saving the version.
CreateApproval_Ignored(h) ==
  /\ pc[h] = "create_approval"
  /\ approvals' = CreateIfAbsent(approvals, cmd[h], seen[h].content)
  /\ Goto(h, "save_approved")
  /\ UNCHANGED <<versions, operations, local, begun, wins, cut>>

CreateApproval_SavedFirst(h) ==
  /\ pc[h] = "create_approval"
  /\ versions' = Put(versions, target[h], WithStatus(seen[h], "approved"))
  /\ Goto(h, "save_approved")
  /\ UNCHANGED <<approvals, operations, local, begun, wins, cut>>

CreateApproval_Answered(h) ==
  /\ pc[h] = "create_approval"
  /\ approvals' = CreateIfAbsent(approvals, cmd[h], seen[h].content)
  /\ Goto(h, IF cmd[h] \in DOMAIN approvals THEN "duplicate" ELSE "accepted")
  /\ UNCHANGED <<versions, operations, local, begun, wins, cut>>

CreateApproval(h) ==
  /\ pc[h] = "create_approval"
  /\ approvals' = CreateIfAbsent(approvals, cmd[h], seen[h].content)
  /\ Goto(h, IF cmd[h] \in DOMAIN approvals THEN "duplicate" ELSE "save_approved")
  /\ UNCHANGED <<versions, operations, local, begun, wins, cut>>

SaveApproved(h) ==
  /\ pc[h] = "save_approved"
  /\ versions' = Put(versions, target[h], WithStatus(seen[h], "approved"))
  /\ wins' = [wins EXCEPT ![cmd[h]] = @ + 1]
  /\ Goto(h, "accepted")
  /\ UNCHANGED <<approvals, operations, local, begun, cut>>

-----------------------------------------------------------------------------
(* Failure *)

\* A store call raises (the service answers with an error) or the process
\* dies: either way the rest of the request is not executed.
Fail(h) ==
  /\ MayFail
  /\ pc[h] \in Working
  /\ Goto(h, "failed")
  /\ cut' = IF pc[h] \in SecondWrites THEN cut \cup {<<pc[h], cmd[h], target[h]>>} ELSE cut
  /\ UNCHANGED <<docs, local, begun, wins>>

Step(h) ==
  \/ GetOperation(h) \/ CreateDraft(h) \/ ListVersions(h) \/ Supersede(h)
  \/ CreateVersion(h) \/ CreateOperation(h)
  \/ GetApproval(h) \/ GetVersion(h) \/ CreateApproval(h) \/ SaveApproved(h)

Next == \E h \in Handlers :
  \/ \E c \in CreateCommands : BeginCreate(h, c)
  \/ \E a \in ApproveComments : BeginApprove(h, a)
  \/ Step(h)
  \/ Fail(h)

Spec == Init /\ [][Next]_vars

-----------------------------------------------------------------------------
(* Properties *)

\* The type invariant: the shape of the documents and of what a handler of
\* create_or_reuse or approve holds.
TypeOK ==
  /\ DOMAIN versions \subseteq Nat \ {0} /\ versions \in [DOMAIN versions -> Docs]
  /\ DOMAIN approvals \subseteq ApproveComments
  /\ approvals \in [DOMAIN approvals -> Contents]
  /\ DOMAIN operations \subseteq CreateCommands
  /\ operations \in [DOMAIN operations -> [version : Nat \ {0}, content : Contents]]
  /\ pc \in [Handlers -> Answered \cup Working]
  /\ cmd \in [Handlers -> CreateCommands \cup ApproveComments \cup {"none"}]
  /\ draft \in [Handlers -> Contents \cup {NoContent}]
  /\ target \in [Handlers -> Nat]
  /\ seen \in [Handlers -> Docs \cup {NoDoc}]
  /\ begun \in Nat
  /\ wins \in [ApproveComments -> Nat]
  /\ cut \subseteq SecondWrites \X (CreateCommands \cup ApproveComments) \X Nat

\* Only the newest version of a brief can still be waiting for a decision:
\* create_or_reuse closes its predecessor before it creates a version, and no
\* stale whole-document write reopens an older one.
OnlyLatestOpen ==
  \A v \in DOMAIN versions :
    v + 1 \in DOMAIN versions => versions[v].status \notin Open

\* A recorded approval names a stored version, binds exactly the content that
\* this version still has, and that content was complete and approved by the
\* configured Founder.
ApprovalSound ==
  \A a \in DOMAIN approvals :
    /\ Authorized(a)
    /\ Names[a] \in DOMAIN versions
    /\ approvals[a] = versions[Names[a]].content
    /\ approvals[a] \in Complete

\* A version shows as approved only when approve has recorded who approved it:
\* there is no window, and no crash, between the two that loses the record.
ApprovedHasRecord ==
  \A v \in DOMAIN versions :
    versions[v].status = "approved" => \E a \in DOMAIN approvals : Names[a] = v

\* Copies of one approval comment handled at the same time, or again later,
\* get the answer "accepted" at most once; the others are duplicates.
AcceptedOnce == \A a \in ApproveComments : wins[a] <= 1

\* A version that left the open states never returns to them, although
\* save_version overwrites whole documents with copies read earlier.
NeverReopened ==
  [][\A v \in DOMAIN versions :
       /\ v \in DOMAIN versions'
       /\ versions[v].status \notin Open => versions'[v].status \notin Open]_vars

\* The write `label` of request c to version t is about to be made, or failed.
InHand(label, c, t) ==
  \/ \E h \in Handlers : pc[h] = label /\ cmd[h] = c /\ target[h] = t
  \/ <<label, c, t>> \in cut

\* The two writes of approve and of create_or_reuse come apart only by a
\* failure between them, never by the steps of the other handlers: a recorded
\* approval whose version is still open, and a superseded version without its
\* successor, have a handler that makes the second write or failed at it.
HalfDoneByFailure ==
  /\ \A a \in DOMAIN approvals :
       versions[Names[a]].status \in Open => InHand("save_approved", a, Names[a])
  /\ \A v \in DOMAIN versions :
       versions[v].status = "superseded" /\ v + 1 \notin DOMAIN versions =>
         \E c \in CreateCommands : InHand("create_version", c, v + 1)

\* What a handler of create_or_reuse or approve may rely on although the
\* documents it read are stale: the predecessor of the version it creates
\* exists and is closed when it creates, the content it read is still the
\* stored one, and one handler alone won the approval it is about to save.
ReadsSound(h) ==
  /\ pc[h] \in {"get_operation", "create_draft", "list_versions", "supersede",
                "create_version", "create_operation"} => cmd[h] \in CreateCommands
  /\ pc[h] \in {"list_versions", "supersede", "create_version", "create_operation"} =>
       draft[h] \in Contents
  /\ pc[h] \in {"supersede", "create_version", "create_operation"} =>
       target[h] > 0 /\ target[h] - 1 \in DOMAIN versions \cup {0}
  /\ pc[h] = "supersede" =>
       /\ target[h] - 1 \in DOMAIN versions
       /\ seen[h] \in Docs /\ seen[h].content = versions[target[h] - 1].content
  /\ pc[h] = "create_version" =>
       \/ target[h] - 1 \notin DOMAIN versions
       \/ versions[target[h] - 1].status \notin Open
  /\ pc[h] \in {"get_approval", "get_version", "create_approval", "save_approved"} =>
       cmd[h] \in ApproveComments /\ target[h] = Names[cmd[h]] /\ Authorized(cmd[h])
  /\ pc[h] \in {"create_approval", "save_approved"} =>
       /\ target[h] \in DOMAIN versions
       /\ seen[h] \in Docs /\ seen[h].content = versions[target[h]].content
       /\ seen[h].content \in Complete
  /\ pc[h] = "save_approved" =>
       /\ cmd[h] \in DOMAIN approvals /\ wins[cmd[h]] = 0
       /\ \A g \in Handlers \ {h} : ~(pc[g] = "save_approved" /\ cmd[g] = cmd[h])

StaleReadsSound == \A h \in Handlers : ReadsSound(h)

\* The store implements the append-only log: the only visible effects of a
\* request are to append a version and to record an approval.
Log == INSTANCE BriefLog WITH
  log      <- [v \in DOMAIN versions |-> versions[v].content],
  approved <- approvals

LogSpec == Log!Spec

-----------------------------------------------------------------------------
(* What the code or its tests say, and the interleavings do not keep *)

\* "Approved version is preserved when a new version is created".
ApprovedPreserved ==
  [][\A v \in DOMAIN versions :
       versions[v].status = "approved" => versions'[v].status = "approved"]_vars
=============================================================================
