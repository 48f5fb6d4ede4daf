-------------------------- MODULE DecisionPackages --------------------------
(***************************************************************************)
(* DecisionPackageService.create_or_reuse and .approve over the thread-safe*)
(* in-memory store, called by several threads for one decision.  The lock  *)
(* of the store covers one call, so one call is one step; what a caller    *)
(* has read, or is handed back, is seen[h], a copy of version target[h].   *)
(*                                                                         *)
(* The service differs from ProductBriefService in its control: a create   *)
(* that finds the version number taken hands the stored package back, the  *)
(* version is read before the approval record, and no call can fail.       *)
(***************************************************************************)
EXTENDS Naturals, Sequences

CONSTANTS
  Callers,          \* threads that share one service
  Approvals,        \* approval ids: a founder, a version and a source event
  Names,            \* Names[a]: the version number that a names
  Author, Agent,    \* Author[a]: the founder_id of a; the product agent's id
  Contents,         \* drafts with their source: one per content hash
  Blank,            \* drafts with fields that cleaning empties
  NoContent,        \* content of no package
  MaxRequests       \* BOUND: calls made

ASSUME ConstantsAssumption ==
  /\ Names \in [Approvals -> Nat \ {0}]
  /\ Blank \subseteq Contents /\ NoContent \notin Contents
  /\ MaxRequests \in Nat

VARIABLES
  versions,         \* the packages stored, by version number
  approvals,        \* the approval records: the bound content
  pc,               \* the next store call of each caller, or its result
  request,          \* the draft to store, or the approval to record
  target, seen,     \* the version the caller works on, as it was read
  begun             \* calls made so far

store == <<versions, approvals>>
vars  == <<versions, approvals, pc, request, target, seen, begun>>

Open     == {"draft", "awaiting_founder_approval"}
Packages == [content : Contents \ Blank, status : Open \cup {"approved", "superseded"}]
NoPackage == [content |-> NoContent, status |-> "absent"]

\* Results of create_or_reuse and of approve; those that carry a package.
WithPackage == {"created", "reused", "accepted", "duplicate", "rejected"}
Results == WithPackage \cup {"idle", "unknown_version", "invalid"}
Working == {"list_versions", "supersede", "create", "get_existing",
            "get", "get_approval", "create_approval", "save_approved"}

Put(f, k, d) == [x \in DOMAIN f \cup {k} |-> IF x = k THEN d ELSE f[x]]

WithStatus(p, s) == [content |-> p.content, status |-> s]

\* build_decision_package: a new package always awaits the Founder.
NewPackage(c) == [content |-> c, status |-> "awaiting_founder_approval"]

Init ==
  /\ versions = << >> /\ approvals = << >>
  /\ pc = [h \in Callers |-> "idle"]
  /\ request = [h \in Callers |-> NoContent]
  /\ target = [h \in Callers |-> 0]
  /\ seen = [h \in Callers |-> NoPackage]
  /\ begun = 0

Goto(h, label) == pc' = [pc EXCEPT ![h] = label]
Read(h, v, p) == target' = [target EXCEPT ![h] = v] /\ seen' = [seen EXCEPT ![h] = p]

Begin(h, r, v, label) ==
  /\ pc[h] \in Results
  /\ begun < MaxRequests
  /\ begun' = begun + 1
  /\ request' = [request EXCEPT ![h] = r]
  /\ Read(h, v, NoPackage)
  /\ Goto(h, label)
  /\ UNCHANGED store

BeginCreate(h, c)  == Begin(h, c, 0, "list_versions")
BeginApprove(h, a) == Begin(h, a, Names[a], "get")

-----------------------------------------------------------------------------
(* create_or_reuse *)

\* v is the greatest of a set of version numbers.
IsMax(S, v) == v \in S /\ \A w \in S : w <= v

Reusable(c) == {v \in DOMAIN versions :
                  versions[v].content = c /\ versions[v].status # "superseded"}

\* Whether build_decision_package accepts the draft after cleaning its fields.
Buildable_Always(c) == TRUE
Buildable(c) == c \notin Blank

\* The newest package with this content is reused.  Otherwise the package is
\* built, which raises for a blank field, before anything is written.
ListVersions(h) ==
  /\ pc[h] = "list_versions"
  /\ \/ /\ \E v \in Reusable(request[h]) :
             IsMax(Reusable(request[h]), v) /\ Read(h, v, versions[v])
        /\ Goto(h, "reused")
     \/ /\ Reusable(request[h]) = {} /\ ~Buildable(request[h])
        /\ Goto(h, "invalid")
        /\ UNCHANGED <<target, seen>>
     \/ /\ Reusable(request[h]) = {} /\ Buildable(request[h])
        /\ \E v \in DOMAIN versions \cup {0} :
             /\ IsMax(DOMAIN versions \cup {0}, v)
             /\ Read(h, v + 1, IF v = 0 THEN NoPackage ELSE versions[v])
        /\ Goto(h, IF seen'[h].status \in Open THEN "supersede" ELSE "create")
  /\ UNCHANGED <<store, request, begun>>

\* Mutant of Supersede: the copy is saved as it was read.
Supersede_AsRead(h) ==
  /\ pc[h] = "supersede"
  /\ versions' = Put(versions, target[h] - 1, seen[h])
  /\ Goto(h, "create")
  /\ UNCHANGED <<approvals, request, target, seen, begun>>

Supersede(h) ==
  /\ pc[h] = "supersede"
  /\ versions' = Put(versions, target[h] - 1, WithStatus(seen[h], "superseded"))
  /\ Goto(h, "create")
  /\ UNCHANGED <<approvals, request, target, seen, begun>>

\* Mutants of Create: it overwrites; the result of the store is ignored.
Create_Saves(h) ==
  /\ pc[h] = "create"
  /\ versions' = Put(versions, target[h], NewPackage(request[h]))
  /\ Read(h, target[h], NewPackage(request[h]))
  /\ Goto(h, "created")
  /\ UNCHANGED <<approvals, request, begun>>

Create_Ignored(h) ==
  /\ pc[h] = "create"
  /\ versions' = IF target[h] \in DOMAIN versions THEN versions
                 ELSE Put(versions, target[h], NewPackage(request[h]))
  /\ Read(h, target[h], NewPackage(request[h]))
  /\ Goto(h, "created")
  /\ UNCHANGED <<approvals, request, begun>>

Create(h) ==
  /\ pc[h] = "create"
  /\ \/ /\ target[h] \notin DOMAIN versions
        /\ versions' = Put(versions, target[h], NewPackage(request[h]))
        /\ Read(h, target[h], NewPackage(request[h]))
        /\ Goto(h, "created")
     \/ /\ target[h] \in DOMAIN versions
        /\ Goto(h, "get_existing")
        /\ UNCHANGED <<versions, target, seen>>
  /\ UNCHANGED <<approvals, request, begun>>

\* Another caller created this version: its package is the result.
GetExisting(h) ==
  /\ pc[h] = "get_existing"
  /\ target[h] \in DOMAIN versions
  /\ Read(h, target[h], versions[target[h]])
  /\ Goto(h, "reused")
  /\ UNCHANGED <<store, request, begun>>

-----------------------------------------------------------------------------
(* approve *)

\* The version is read first; its author may not approve it.
Get(h) ==
  /\ pc[h] = "get"
  /\ IF target[h] \notin DOMAIN versions
     THEN Goto(h, "unknown_version") /\ UNCHANGED <<target, seen>>
     ELSE /\ Read(h, target[h], versions[target[h]])
          /\ Goto(h, IF Author[request[h]] = Agent THEN "rejected" ELSE "get_approval")
  /\ UNCHANGED <<store, request, begun>>

\* The statuses tested are those of the package read before.
Approvable(p) == p.status = "awaiting_founder_approval"

GetApproval(h) ==
  /\ pc[h] = "get_approval"
  /\ Goto(h, CASE request[h] \in DOMAIN approvals -> "duplicate"
               [] request[h] \notin DOMAIN approvals /\ Approvable(seen[h]) -> "create_approval"
               [] OTHER -> "rejected")
  /\ UNCHANGED <<store, request, target, seen, begun>>

\* Mutant of CreateApproval: the version is not saved.
CreateApproval_NotSaved(h) ==
  /\ pc[h] = "create_approval"
  /\ approvals' = Put(approvals, request[h], seen[h].content)
  /\ Goto(h, "accepted")
  /\ UNCHANGED <<versions, request, target, seen, begun>>

CreateApproval(h) ==
  /\ pc[h] = "create_approval"
  /\ IF request[h] \in DOMAIN approvals
     THEN Goto(h, "duplicate") /\ UNCHANGED approvals
     ELSE Goto(h, "save_approved") /\ approvals' = Put(approvals, request[h], seen[h].content)
  /\ UNCHANGED <<versions, request, target, seen, begun>>

SaveApproved(h) ==
  /\ pc[h] = "save_approved"
  /\ versions' = Put(versions, target[h], WithStatus(seen[h], "approved"))
  /\ Read(h, target[h], WithStatus(seen[h], "approved"))
  /\ Goto(h, "accepted")
  /\ UNCHANGED <<approvals, request, begun>>

Step(h) ==
  \/ ListVersions(h) \/ Supersede(h) \/ Create(h) \/ GetExisting(h)
  \/ Get(h) \/ GetApproval(h) \/ CreateApproval(h) \/ SaveApproved(h)

Next == \E h \in Callers :
  \/ \E c \in Contents : BeginCreate(h, c)
  \/ \E a \in Approvals : BeginApprove(h, a)
  \/ Step(h)

\* The callers are threads of one process; no step waits for another caller.
Fairness == \A h \in Callers : WF_vars(Step(h))

Spec == Init /\ [][Next]_vars /\ Fairness

-----------------------------------------------------------------------------
(* Properties *)

\* The type invariant.
TypeOK ==
  /\ DOMAIN versions \subseteq Nat \ {0} /\ versions \in [DOMAIN versions -> Packages]
  /\ DOMAIN approvals \subseteq Approvals
  /\ approvals \in [DOMAIN approvals -> Contents \ Blank]
  /\ pc \in [Callers -> Results \cup Working]
  /\ request \in [Callers -> Contents \cup Approvals \cup {NoContent}]
  /\ target \in [Callers -> Nat]
  /\ seen \in [Callers -> Packages \cup {NoPackage}]
  /\ begun \in Nat

\* Of the versions of a decision only the newest can await the Founder,
\* whatever stale copies concurrent callers save.
OnlyLatestOpen ==
  \A v \in DOMAIN versions : v + 1 \in DOMAIN versions => versions[v].status \notin Open

\* An approval of version v with content c, by somebody other than the agent.
HasRecord(v, c) ==
  \E a \in DOMAIN approvals : Names[a] = v /\ Author[a] # Agent /\ approvals[a] = c

\* A package shows as approved only when the record of its approval, by
\* somebody other than the product agent, is stored and binds its content.
ApprovedHasRecord ==
  \A v \in DOMAIN versions :
    versions[v].status = "approved" => HasRecord(v, versions[v].content)

\* What saving a whole package over the stored one may do to it, however old
\* the copy: it does not put a superseded or approved package back before the
\* Founder, and makes it approved only if the record of that is stored by then.
StatusMovesForward ==
  [][\A v \in DOMAIN versions :
       /\ v \in DOMAIN versions'
       /\ versions[v].status \notin Open => versions'[v].status \notin Open
       /\ versions'[v].status = "approved" => HasRecord(v, versions'[v].content)]_vars

\* The package that a call hands back, and that conformance is checked
\* against, is the one stored under its version id, even for the caller that
\* lost the race for the version number.
ReturnedIsStored ==
  \A h \in Callers :
    pc[h] \in WithPackage => /\ target[h] \in DOMAIN versions
                             /\ versions[target[h]].content = seen[h].content

\* The service implements the append-only log of contents and approvals.
Log == INSTANCE BriefLog WITH
  log             <- [v \in DOMAIN versions |-> versions[v].content],
  approved        <- approvals,
  Contents        <- Contents \ Blank,
  Complete        <- Contents \ Blank,
  ApproveComments <- Approvals

PackageLog == Log!Spec

\* An approval that was recorded takes effect: its version leaves the open
\* states.
ApprovalTakesEffect ==
  \A a \in Approvals :
    a \in DOMAIN approvals ~> (a \in DOMAIN approvals /\ versions[Names[a]].status \notin Open)
=============================================================================
