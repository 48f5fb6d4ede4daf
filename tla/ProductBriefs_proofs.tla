------------------------ MODULE ProductBriefs_proofs ------------------------
(***************************************************************************)
(* Proofs about ProductBriefs for every set of handlers, commands and      *)
(* drafts and any number of requests, with or without failing store calls. *)
(***************************************************************************)
EXTENDS ProductBriefs, TLAPS

\* The version numbers of a brief have no gap, although each creator computes
\* its number from a list that may be stale.
VersionsContiguous ==
  \A v \in DOMAIN versions : \A w \in 1..v : w \in DOMAIN versions

\* Without a record for a comment nobody was told that it was accepted.
WinsRecorded ==
  \A a \in ApproveComments : a \notin DOMAIN approvals => wins[a] = 0

\* A version that starts complete is the only kind that ever awaits approval.
AwaitingComplete ==
  \A v \in DOMAIN versions :
    versions[v].status = "awaiting" => versions[v].content \in Complete

IInv ==
  /\ TypeOK /\ StaleReadsSound /\ WinsRecorded /\ AwaitingComplete
  /\ VersionsContiguous /\ OnlyLatestOpen /\ ApprovalSound
  /\ ApprovedHasRecord /\ AcceptedOnce

\* How a step may change the version documents: versions are only added, a
\* content is never edited, and a closed version stays closed.
Grows ==
  /\ DOMAIN versions \subseteq DOMAIN versions'
  /\ \A v \in DOMAIN versions :
       /\ versions'[v].content = versions[v].content
       /\ versions[v].status \notin Open => versions'[v].status \notin Open
  /\ DOMAIN approvals \subseteq DOMAIN approvals'
  /\ \A a \in DOMAIN approvals : approvals'[a] = approvals[a]

-----------------------------------------------------------------------------
(* Lemmas *)

\* The empty store and idle handlers satisfy the inductive invariant.
LEMMA InitIInv == Init => IInv
<1> SUFFICES ASSUME Init PROVE IInv
  OBVIOUS
<1>1. DOMAIN versions = {} /\ DOMAIN approvals = {} /\ DOMAIN operations = {}
  BY DEF Init
<1>2. TypeOK
  BY <1>1, ConstantsAssumption DEF Init, TypeOK, Answered
<1> QED
  BY <1>1, <1>2 DEF Init, IInv, StaleReadsSound, ReadsSound, WinsRecorded, AwaitingComplete,
     VersionsContiguous, OnlyLatestOpen, ApprovalSound, ApprovedHasRecord, AcceptedOnce

-----------------------------------------------------------------------------
(* Every step grows the documents *)

\* No step removes a document, changes a content or reopens a version.
LEMMA NextGrows == IInv /\ [Next]_vars => Grows
<1> SUFFICES ASSUME IInv, [Next]_vars PROVE Grows
  OBVIOUS
<1> USE DEF IInv, Grows
<1>1. CASE UNCHANGED docs
  BY <1>1 DEF docs
<1>2. ASSUME NEW h \in Handlers, Supersede(h) PROVE Grows
  <2>1. /\ target[h] - 1 \in DOMAIN versions
        /\ seen[h] \in Docs /\ seen[h].content = versions[target[h] - 1].content
    BY <1>2 DEF Supersede, StaleReadsSound, ReadsSound
  <2> QED
    BY <1>2, <2>1 DEF Supersede, WithStatus, Open, Put
<1>3. ASSUME NEW h \in Handlers, CreateVersion(h) PROVE Grows
  BY <1>3 DEF CreateVersion, CreateIfAbsent, Put
<1>4. ASSUME NEW h \in Handlers, CreateApproval(h) PROVE Grows
  BY <1>4 DEF CreateApproval, CreateIfAbsent, Put
<1>5. ASSUME NEW h \in Handlers, SaveApproved(h) PROVE Grows
  <2>1. /\ target[h] \in DOMAIN versions
        /\ seen[h] \in Docs /\ seen[h].content = versions[target[h]].content
    BY <1>5 DEF SaveApproved, StaleReadsSound, ReadsSound
  <2> QED
    BY <1>5, <2>1 DEF SaveApproved, WithStatus, Open, Put
<1>6. ASSUME NEW h \in Handlers, CreateOperation(h) PROVE Grows
  BY <1>6 DEF CreateOperation
<1>7. ASSUME NEW h \in Handlers, NEW c, NEW l, Begin(h, c, l) PROVE Grows
  BY <1>7 DEF Begin, docs
<1>8. ASSUME NEW h \in Handlers,
             GetOperation(h) \/ CreateDraft(h) \/ ListVersions(h) \/ GetApproval(h)
             \/ GetVersion(h) \/ Fail(h)
      PROVE Grows
  BY <1>8 DEF GetOperation, CreateDraft, ListVersions, GetApproval, GetVersion, Fail, docs
<1> QED
  BY <1>1, <1>2, <1>3, <1>4, <1>5, <1>6, <1>7, <1>8
  DEF Next, Step, BeginCreate, BeginApprove, vars, docs

-----------------------------------------------------------------------------
(* Type correctness *)

\* Every store call of a handler, and its failure, keeps the types.
LEMMA NextType == IInv /\ [Next]_vars => TypeOK'
<1> SUFFICES ASSUME IInv, [Next]_vars PROVE TypeOK'
  OBVIOUS
<1> USE ConstantsAssumption DEF IInv, TypeOK, Answered, Working, Goto
<1>1. CASE UNCHANGED vars
  BY <1>1 DEF vars
<1>2. ASSUME NEW h \in Handlers, NEW c \in CreateCommands, BeginCreate(h, c) PROVE TypeOK'
  BY <1>2 DEF BeginCreate, Begin, docs
<1>3. ASSUME NEW h \in Handlers, NEW a \in ApproveComments, BeginApprove(h, a) PROVE TypeOK'
  BY <1>3 DEF BeginApprove, Begin, docs
<1>4. ASSUME NEW h \in Handlers, GetOperation(h) PROVE TypeOK'
  BY <1>4 DEF GetOperation, docs, local
<1>5. ASSUME NEW h \in Handlers, CreateDraft(h) PROVE TypeOK'
  BY <1>5 DEF CreateDraft, docs
<1>6. ASSUME NEW h \in Handlers, ListVersions(h) PROVE TypeOK'
  <2>1. target' \in [Handlers -> Nat] /\ seen' \in [Handlers -> Docs \cup {NoDoc}]
    BY <1>6 DEF ListVersions, IsLatest, NextVersion
  <2> QED
    BY <1>6, <2>1 DEF ListVersions, docs
<1>7. ASSUME NEW h \in Handlers, Supersede(h) PROVE TypeOK'
  <2> DEFINE d == WithStatus(seen[h], "superseded")
  <2>1. target[h] - 1 \in DOMAIN versions /\ d \in Docs
    BY <1>7 DEF Supersede, StaleReadsSound, ReadsSound, WithStatus, Docs, Statuses
  <2>2. versions' = Put(versions, target[h] - 1, d)
    BY <1>7 DEF Supersede
  <2> HIDE DEF d
  <2>3. DOMAIN versions' \subseteq Nat \ {0} /\ versions' \in [DOMAIN versions' -> Docs]
    BY <2>1, <2>2 DEF Put
  <2> QED
    BY <1>7, <2>3 DEF Supersede, local
<1>8. ASSUME NEW h \in Handlers, CreateVersion(h) PROVE TypeOK'
  <2> DEFINE d == [content |-> draft[h], status |-> InitialStatus(draft[h])]
  <2>1. target[h] \in Nat \ {0} /\ d \in Docs
    BY <1>8 DEF CreateVersion, StaleReadsSound, ReadsSound, Docs, Statuses, Open, InitialStatus
  <2>2. versions' = versions \/ versions' = Put(versions, target[h], d)
    BY <1>8 DEF CreateVersion, CreateIfAbsent
  <2> HIDE DEF d
  <2>3. DOMAIN versions' \subseteq Nat \ {0} /\ versions' \in [DOMAIN versions' -> Docs]
    BY <2>1, <2>2 DEF Put
  <2> QED
    BY <1>8, <2>3 DEF CreateVersion, local
<1>9. ASSUME NEW h \in Handlers, CreateOperation(h) PROVE TypeOK'
  <2> DEFINE d == [version |-> target[h], content |-> draft[h]]
             Ops == [version : Nat \ {0}, content : Contents]
  <2>1. cmd[h] \in CreateCommands /\ d \in Ops
    BY <1>9 DEF CreateOperation, StaleReadsSound, ReadsSound
  <2>2. operations' = operations \/ operations' = Put(operations, cmd[h], d)
    BY <1>9 DEF CreateOperation, CreateIfAbsent
  <2> HIDE DEF d, Ops
  <2>3. operations \in [DOMAIN operations -> Ops]
    BY DEF Ops
  <2>4. DOMAIN operations' \subseteq CreateCommands /\ operations' \in [DOMAIN operations' -> Ops]
    BY <2>1, <2>2, <2>3 DEF Put
  <2> QED
    BY <1>9, <2>4 DEF CreateOperation, local, Ops
<1>10. ASSUME NEW h \in Handlers, GetApproval(h) PROVE TypeOK'
  BY <1>10 DEF GetApproval, docs, local
<1>11. ASSUME NEW h \in Handlers, GetVersion(h) PROVE TypeOK'
  BY <1>11 DEF GetVersion, docs
<1>12. ASSUME NEW h \in Handlers, CreateApproval(h) PROVE TypeOK'
  <2>1. cmd[h] \in ApproveComments /\ seen[h].content \in Contents
    BY <1>12 DEF CreateApproval, StaleReadsSound, ReadsSound
  <2>2. approvals' = approvals \/ approvals' = Put(approvals, cmd[h], seen[h].content)
    BY <1>12 DEF CreateApproval, CreateIfAbsent
  <2>3. DOMAIN approvals' \subseteq ApproveComments /\ approvals' \in [DOMAIN approvals' -> Contents]
    BY <2>1, <2>2 DEF Put
  <2> QED
    BY <1>12, <2>3 DEF CreateApproval, local
<1>13. ASSUME NEW h \in Handlers, SaveApproved(h) PROVE TypeOK'
  <2> DEFINE d == WithStatus(seen[h], "approved")
  <2>1. target[h] \in DOMAIN versions /\ d \in Docs /\ cmd[h] \in ApproveComments
    BY <1>13 DEF SaveApproved, StaleReadsSound, ReadsSound, WithStatus, Docs, Statuses
  <2>2. versions' = Put(versions, target[h], d)
    BY <1>13 DEF SaveApproved
  <2> HIDE DEF d
  <2>3. DOMAIN versions' \subseteq Nat \ {0} /\ versions' \in [DOMAIN versions' -> Docs]
    BY <2>1, <2>2 DEF Put
  <2>4. wins' \in [ApproveComments -> Nat]
    BY <1>13, <2>1 DEF SaveApproved
  <2> QED
    BY <1>13, <2>3, <2>4 DEF SaveApproved, local
<1>14. ASSUME NEW h \in Handlers, Fail(h) PROVE TypeOK'
  <2>1. pc[h] \in SecondWrites => cmd[h] \in CreateCommands \cup ApproveComments
    BY DEF StaleReadsSound, ReadsSound, SecondWrites
  <2>2. cut' \subseteq SecondWrites \X (CreateCommands \cup ApproveComments) \X Nat
    BY <1>14, <2>1 DEF Fail
  <2> QED
    BY <1>14, <2>2 DEF Fail, docs, local
<1> QED
  BY <1>1, <1>2, <1>3, <1>4, <1>5, <1>6, <1>7, <1>8, <1>9, <1>10, <1>11, <1>12, <1>13, <1>14
  DEF Next, Step

-----------------------------------------------------------------------------
(* What handlers have read stays sound *)

\* A step of h leaves what another handler g holds alone.
LEMMA OthersUntouched ==
  ASSUME IInv, NEW h \in Handlers, NEW g \in Handlers \ {h},
         \/ \E c \in CreateCommands : BeginCreate(h, c)
         \/ \E a \in ApproveComments : BeginApprove(h, a)
         \/ Step(h) \/ Fail(h)
  PROVE  /\ pc'[g] = pc[g] /\ cmd'[g] = cmd[g] /\ draft'[g] = draft[g]
         /\ target'[g] = target[g] /\ seen'[g] = seen[g]
BY DEF IInv, TypeOK, Step, BeginCreate, BeginApprove, Begin, Goto, GetOperation, CreateDraft,
   ListVersions, Supersede, CreateVersion, CreateOperation, GetApproval, GetVersion,
   CreateApproval, SaveApproved, Fail, local

\* Nothing another handler h does makes what g read unsound.
LEMMA OthersSound ==
  ASSUME IInv, Grows, TypeOK', NEW h \in Handlers, NEW g \in Handlers \ {h},
         \/ \E c \in CreateCommands : BeginCreate(h, c)
         \/ \E a \in ApproveComments : BeginApprove(h, a)
         \/ Step(h) \/ Fail(h)
  PROVE  ReadsSound(g)'
<1>1. /\ pc'[g] = pc[g] /\ cmd'[g] = cmd[g] /\ draft'[g] = draft[g]
      /\ target'[g] = target[g] /\ seen'[g] = seen[g]
  BY OthersUntouched
<1>2. ReadsSound(g) /\ ReadsSound(h)
  BY DEF IInv, StaleReadsSound
<1>3. ASSUME pc[g] = "save_approved"
      PROVE  /\ wins'[cmd[g]] = 0
             /\ \A f \in Handlers \ {g} : ~(pc'[f] = "save_approved" /\ cmd'[f] = cmd[g])
  <2>1. /\ cmd[g] \in DOMAIN approvals /\ wins[cmd[g]] = 0
        /\ \A f \in Handlers \ {g} : ~(pc[f] = "save_approved" /\ cmd[f] = cmd[g])
    BY <1>2, <1>3 DEF ReadsSound
  <2>2. \A f \in Handlers \ {h} : pc'[f] = pc[f] /\ cmd'[f] = cmd[f]
    BY OthersUntouched
  <2>3. CASE CreateApproval(h)
    BY <2>1, <2>2, <2>3 DEF CreateApproval, Goto, IInv, TypeOK, local
  <2>4. CASE SaveApproved(h)
    BY <2>1, <2>2, <2>4, <1>2, <1>3 DEF SaveApproved, Goto, IInv, TypeOK, local
  <2>5. CASE \/ \E c \in CreateCommands : BeginCreate(h, c)
             \/ \E a \in ApproveComments : BeginApprove(h, a)
    BY <2>1, <2>2, <2>5 DEF BeginCreate, BeginApprove, Begin, Goto, IInv, TypeOK
  <2>6. CASE \/ GetOperation(h) \/ CreateDraft(h) \/ ListVersions(h) \/ Supersede(h)
             \/ CreateVersion(h) \/ CreateOperation(h) \/ GetApproval(h) \/ GetVersion(h)
             \/ Fail(h)
    BY <2>1, <2>2, <2>6 DEF GetOperation, CreateDraft, ListVersions, Supersede, CreateVersion,
       CreateOperation, GetApproval, GetVersion, Fail, Goto, IInv, TypeOK
  <2> QED
    BY <2>3, <2>4, <2>5, <2>6 DEF Step
<1>4. pc[g] \in {"supersede", "create_version", "create_operation"} =>
        target'[g] > 0 /\ target'[g] - 1 \in DOMAIN versions' \cup {0}
  BY <1>1, <1>2 DEF ReadsSound, Grows
<1>5. pc[g] = "supersede" =>
        /\ target'[g] - 1 \in DOMAIN versions'
        /\ seen'[g].content = versions'[target'[g] - 1].content
  BY <1>1, <1>2 DEF ReadsSound, Grows
<1>6. pc[g] = "create_version" =>
        \/ target'[g] - 1 \notin DOMAIN versions'
        \/ versions'[target'[g] - 1].status \notin Open
  <2> SUFFICES ASSUME pc[g] = "create_version", target[g] - 1 \in DOMAIN versions'
               PROVE  versions'[target[g] - 1].status \notin Open
    BY <1>1
  <2>1. target[g] - 1 \in DOMAIN versions
    BY <1>2 DEF ReadsSound, IInv, TypeOK
  <2> QED
    BY <2>1, <1>2 DEF ReadsSound, Grows
<1>7. pc[g] \in {"create_approval", "save_approved"} =>
        /\ target'[g] \in DOMAIN versions'
        /\ seen'[g].content = versions'[target'[g]].content
  BY <1>1, <1>2 DEF ReadsSound, Grows
<1>8. pc[g] = "save_approved" => cmd'[g] \in DOMAIN approvals'
  BY <1>1, <1>2 DEF ReadsSound, Grows
<1> QED
  BY <1>1, <1>2, <1>3, <1>4, <1>5, <1>6, <1>7, <1>8 DEF ReadsSound, Authorized

\* Every step keeps what the handlers may rely on in their stale reads.
LEMMA NextReads ==
  ASSUME IInv, [Next]_vars, Grows, TypeOK'
  PROVE  StaleReadsSound'
<1>1. CASE UNCHANGED vars
  BY <1>1 DEF IInv, StaleReadsSound, ReadsSound, Authorized, vars
<1>2. ASSUME NEW h \in Handlers,
             \/ \E c \in CreateCommands : BeginCreate(h, c)
             \/ \E a \in ApproveComments : BeginApprove(h, a)
             \/ Step(h) \/ Fail(h)
      PROVE  StaleReadsSound'
  <2> SUFFICES ReadsSound(h)'
    BY <1>2, OthersSound DEF StaleReadsSound
  <2>0. ReadsSound(h)
    BY DEF IInv, StaleReadsSound
  <2> USE <2>0 DEF IInv, TypeOK, Goto, ReadsSound, local, docs
  <2>1. CASE \E c \in CreateCommands : BeginCreate(h, c)
    BY <2>1 DEF BeginCreate, Begin
  <2>2. CASE \E a \in ApproveComments : BeginApprove(h, a)
    BY <2>2 DEF BeginApprove, Begin, Authorized
  <2>3. CASE GetOperation(h)
    BY <2>3 DEF GetOperation
  <2>4. CASE CreateDraft(h)
    BY <2>4 DEF CreateDraft
  <2>5. CASE ListVersions(h)
    <3>1. CASE pc'[h] = "reused"
      BY <2>5, <3>1 DEF ListVersions
    <3>2. CASE pc'[h] # "reused"
      <4>1. PICK n \in DOMAIN versions \cup {0} :
              /\ target'[h] = n + 1
              /\ seen'[h] = IF n = 0 THEN NoDoc ELSE versions[n]
        BY <2>5, <3>2 DEF ListVersions, NextVersion, Superseding
      <4>2. pc'[h] = IF seen'[h].status \in Open THEN "supersede" ELSE "create_version"
        BY <2>5, <3>2 DEF ListVersions, NextVersion, Superseding
      <4>3. n \in Nat /\ target'[h] - 1 = n /\ (n # 0 => versions[n] \in Docs)
        BY <4>1
      <4>4. pc'[h] = "supersede" => n # 0
        BY <4>1, <4>2 DEF NoDoc, Open
      <4>5. /\ versions' = versions /\ cmd' = cmd /\ draft' = draft
            /\ cmd[h] \in CreateCommands /\ draft[h] \in Contents
        BY <2>5 DEF ListVersions
      <4> QED
        BY <4>1, <4>2, <4>3, <4>4, <4>5
    <3> QED
      BY <3>1, <3>2
  <2>6. CASE Supersede(h)
    BY <2>6 DEF Supersede, Put, WithStatus, Open
  <2>7. CASE CreateVersion(h)
    BY <2>7 DEF CreateVersion, CreateIfAbsent, Put
  <2>8. CASE CreateOperation(h)
    BY <2>8 DEF CreateOperation
  <2>9. CASE GetApproval(h)
    BY <2>9 DEF GetApproval, Authorized
  <2>10. CASE GetVersion(h)
    BY <2>10 DEF GetVersion, Approvable, AwaitingComplete, Authorized
  <2>11. CASE CreateApproval(h)
    <3>1. CASE cmd[h] \in DOMAIN approvals
      BY <2>11, <3>1 DEF CreateApproval
    <3>2. CASE cmd[h] \notin DOMAIN approvals
      <4>1. \A g \in Handlers : pc[g] = "save_approved" => cmd[g] # cmd[h]
        BY <3>2 DEF StaleReadsSound
      <4>2. wins[cmd[h]] = 0
        BY <2>11, <3>2 DEF CreateApproval, WinsRecorded
      <4> QED
        BY <2>11, <3>2, <4>1, <4>2 DEF CreateApproval, CreateIfAbsent, Put, Authorized
    <3> QED
      BY <3>1, <3>2
  <2>12. CASE SaveApproved(h)
    BY <2>12 DEF SaveApproved
  <2>13. CASE Fail(h)
    BY <2>13 DEF Fail
  <2> QED
    BY <1>2, <2>1, <2>2, <2>3, <2>4, <2>5, <2>6, <2>7, <2>8, <2>9, <2>10, <2>11, <2>12, <2>13
    DEF Step
<1> QED
  BY <1>1, <1>2 DEF Next

-----------------------------------------------------------------------------
(* The documents *)

\* The steps that leave versions, approvals and the answers alone.
LEMMA DocumentsChange ==
  ASSUME [Next]_vars
  PROVE  \/ UNCHANGED <<versions, approvals, wins>>
         \/ \E h \in Handlers : Supersede(h) \/ CreateVersion(h)
                                \/ CreateApproval(h) \/ SaveApproved(h)
BY DEF Next, Step, BeginCreate, BeginApprove, Begin, GetOperation, CreateDraft, ListVersions,
   CreateOperation, GetApproval, GetVersion, Fail, vars, docs

\* Every step keeps the relations between the documents.
LEMMA NextDocuments ==
  ASSUME IInv, [Next]_vars, Grows
  PROVE  /\ WinsRecorded' /\ AwaitingComplete' /\ VersionsContiguous' /\ OnlyLatestOpen'
         /\ ApprovalSound' /\ ApprovedHasRecord' /\ AcceptedOnce'
<1> USE DEF IInv
<1>1. CASE UNCHANGED <<versions, approvals, wins>>
  BY <1>1 DEF WinsRecorded, AwaitingComplete, VersionsContiguous, OnlyLatestOpen,
     ApprovalSound, ApprovedHasRecord, AcceptedOnce, Authorized
<1>2. ASSUME NEW h \in Handlers, Supersede(h)
      PROVE  /\ WinsRecorded' /\ AwaitingComplete' /\ VersionsContiguous' /\ OnlyLatestOpen'
             /\ ApprovalSound' /\ ApprovedHasRecord' /\ AcceptedOnce'
  <2>1. target[h] - 1 \in DOMAIN versions /\ seen[h].content = versions[target[h] - 1].content
    BY <1>2 DEF Supersede, StaleReadsSound, ReadsSound
  <2>2. /\ DOMAIN versions' = DOMAIN versions
        /\ \A v \in DOMAIN versions :
             /\ versions'[v].content = versions[v].content
             /\ versions'[v].status = versions[v].status \/ versions'[v].status = "superseded"
        /\ UNCHANGED <<approvals, wins>>
    BY <1>2, <2>1 DEF Supersede, Put, WithStatus
  <2> QED
    BY <2>2 DEF WinsRecorded, AwaitingComplete, VersionsContiguous, OnlyLatestOpen, Open,
       ApprovalSound, ApprovedHasRecord, AcceptedOnce, Authorized
<1>3. ASSUME NEW h \in Handlers, CreateVersion(h), target[h] \notin DOMAIN versions
      PROVE  /\ WinsRecorded' /\ AwaitingComplete' /\ VersionsContiguous' /\ OnlyLatestOpen'
             /\ ApprovalSound' /\ ApprovedHasRecord' /\ AcceptedOnce'
  <2> DEFINE t == target[h]
  <2>1. /\ t \in Nat \ {0} /\ t - 1 \in DOMAIN versions \cup {0}
        /\ t - 1 \in DOMAIN versions => versions[t - 1].status \notin Open
    BY <1>3 DEF CreateVersion, StaleReadsSound, ReadsSound, TypeOK
  <2>2. /\ DOMAIN versions' = DOMAIN versions \cup {t}
        /\ \A v \in DOMAIN versions : versions'[v] = versions[v]
        /\ versions'[t] = [content |-> draft[h], status |-> InitialStatus(draft[h])]
        /\ UNCHANGED <<approvals, wins>>
    BY <1>3 DEF CreateVersion, CreateIfAbsent, Put
  <2>3. DOMAIN versions \subseteq Nat \ {0} /\ t \notin DOMAIN versions
    BY <1>3 DEF TypeOK
  <2>4. VersionsContiguous'
    BY <2>1, <2>2, <2>3 DEF VersionsContiguous
  <2>5. t + 1 \notin DOMAIN versions
    BY <2>1, <2>3 DEF VersionsContiguous
  <2>6. OnlyLatestOpen'
    <3> SUFFICES ASSUME NEW v \in DOMAIN versions', v + 1 \in DOMAIN versions'
                 PROVE  versions'[v].status \notin Open
      BY DEF OnlyLatestOpen
    <3>1. v \in DOMAIN versions
      BY <2>1, <2>2, <2>5
    <3>2. v + 1 = t \/ v + 1 \in DOMAIN versions
      BY <2>2
    <3> QED
      BY <3>1, <3>2, <2>1, <2>2, <2>3 DEF OnlyLatestOpen
  <2>7. AwaitingComplete' /\ ApprovedHasRecord'
    BY <2>2 DEF AwaitingComplete, ApprovedHasRecord, InitialStatus
  <2>8. ApprovalSound'
    BY <2>2 DEF ApprovalSound, Authorized
  <2> QED
    BY <2>2, <2>4, <2>6, <2>7, <2>8 DEF WinsRecorded, AcceptedOnce
<1>4. ASSUME NEW h \in Handlers, CreateVersion(h), target[h] \in DOMAIN versions
      PROVE  UNCHANGED <<versions, approvals, wins>>
  BY <1>4 DEF CreateVersion, CreateIfAbsent
<1>5. ASSUME NEW h \in Handlers, CreateApproval(h)
      PROVE  /\ WinsRecorded' /\ AwaitingComplete' /\ VersionsContiguous' /\ OnlyLatestOpen'
             /\ ApprovalSound' /\ ApprovedHasRecord' /\ AcceptedOnce'
  <2>1. /\ cmd[h] \in ApproveComments /\ target[h] = Names[cmd[h]] /\ Authorized(cmd[h])
        /\ target[h] \in DOMAIN versions /\ seen[h].content = versions[target[h]].content
        /\ seen[h].content \in Complete
    BY <1>5 DEF CreateApproval, StaleReadsSound, ReadsSound
  <2>2. UNCHANGED <<versions, wins>>
    BY <1>5 DEF CreateApproval, local
  <2>3. /\ DOMAIN approvals' = DOMAIN approvals \cup {cmd[h]}
        /\ \A a \in DOMAIN approvals : approvals'[a] = approvals[a]
        /\ cmd[h] \notin DOMAIN approvals => approvals'[cmd[h]] = seen[h].content
    BY <1>5 DEF CreateApproval, CreateIfAbsent, Put
  <2>4. ApprovalSound'
    BY <2>1, <2>2, <2>3 DEF ApprovalSound, Authorized
  <2> QED
    BY <2>2, <2>3, <2>4 DEF WinsRecorded, AwaitingComplete, VersionsContiguous, OnlyLatestOpen,
       ApprovedHasRecord, AcceptedOnce
<1>6. ASSUME NEW h \in Handlers, SaveApproved(h)
      PROVE  /\ WinsRecorded' /\ AwaitingComplete' /\ VersionsContiguous' /\ OnlyLatestOpen'
             /\ ApprovalSound' /\ ApprovedHasRecord' /\ AcceptedOnce'
  <2>1. /\ cmd[h] \in ApproveComments /\ target[h] = Names[cmd[h]]
        /\ target[h] \in DOMAIN versions /\ seen[h].content = versions[target[h]].content
        /\ cmd[h] \in DOMAIN approvals /\ wins[cmd[h]] = 0
    BY <1>6 DEF SaveApproved, StaleReadsSound, ReadsSound
  <2>2. /\ DOMAIN versions' = DOMAIN versions
        /\ \A v \in DOMAIN versions :
             /\ versions'[v].content = versions[v].content
             /\ \/ versions'[v].status = versions[v].status
                \/ v = target[h] /\ versions'[v].status = "approved"
        /\ UNCHANGED approvals
    BY <1>6, <2>1 DEF SaveApproved, Put, WithStatus, local
  <2>3. wins' = [wins EXCEPT ![cmd[h]] = 1]
    BY <1>6, <2>1 DEF SaveApproved
  <2>4. WinsRecorded' /\ AcceptedOnce'
    BY <2>1, <2>2, <2>3 DEF WinsRecorded, AcceptedOnce, TypeOK
  <2>5. ApprovedHasRecord'
    BY <2>1, <2>2 DEF ApprovedHasRecord
  <2> QED
    BY <2>2, <2>4, <2>5 DEF AwaitingComplete, VersionsContiguous, OnlyLatestOpen, Open,
       ApprovalSound, Authorized
<1> QED
  BY <1>1, <1>2, <1>3, <1>4, <1>5, <1>6, DocumentsChange

-----------------------------------------------------------------------------
(* Theorems *)

\* The inductive invariant of ProductBriefService.
THEOREM Invariance == Spec => []IInv
<1>1. Init => IInv
  BY InitIInv
<1>2. IInv /\ [Next]_vars => IInv'
  BY NextGrows, NextType, NextReads, NextDocuments DEF IInv
<1> QED
  BY <1>1, <1>2, PTL DEF Spec

\* create_or_reuse and approve keep their documents and locals well typed.
THEOREM TypeCorrect == Spec => []TypeOK
<1>1. IInv => TypeOK
  BY DEF IInv
<1> QED
  BY <1>1, Invariance, PTL

\* A superseded or approved brief never becomes approvable again, and of all
\* versions of a brief only the newest can be: for any number of threads.
THEOREM OneOpenVersion == Spec => [](VersionsContiguous /\ OnlyLatestOpen)
<1>1. IInv => VersionsContiguous /\ OnlyLatestOpen
  BY DEF IInv
<1> QED
  BY <1>1, Invariance, PTL

\* Every approval record binds the stored content of the version it names,
\* which was complete, and is by the Founder.
THEOREM ApprovalsAreSound == Spec => []ApprovalSound
<1>1. IInv => ApprovalSound
  BY DEF IInv
<1> QED
  BY <1>1, Invariance, PTL

\* A version shows as approved only when its approval is recorded, whatever
\* interleaves with approve and wherever it fails.
THEOREM ApprovalsAreRecorded == Spec => []ApprovedHasRecord
<1>1. IInv => ApprovedHasRecord
  BY DEF IInv
<1> QED
  BY <1>1, Invariance, PTL

\* However many copies of an approval comment are handled, approve answers
\* "accepted" at most once.
THEOREM AcceptedAtMostOnce == Spec => []AcceptedOnce
<1>1. IInv => AcceptedOnce
  BY DEF IInv
<1> QED
  BY <1>1, Invariance, PTL

\* A stale save_version never reopens a version.
THEOREM NoReopening == Spec => NeverReopened
<1>1. IInv /\ [Next]_vars
        => [\A v \in DOMAIN versions :
              /\ v \in DOMAIN versions'
              /\ versions[v].status \notin Open => versions'[v].status \notin Open]_vars
  BY NextGrows DEF Grows
<1> QED
  BY <1>1, Invariance, PTL DEF Spec, NeverReopened

-----------------------------------------------------------------------------
(* Refinement of BriefLog *)

contents == [v \in DOMAIN versions |-> versions[v].content]

\* The versions of a brief, numbered without a gap, are a sequence.
LEMMA ContentsSeq ==
  ASSUME IInv, NEW t \in Nat \ {0}, t \notin DOMAIN versions,
         t - 1 \in DOMAIN versions \cup {0}
  PROVE  DOMAIN versions = 1..(t - 1)
<1>1. DOMAIN versions \subseteq Nat \ {0}
  BY DEF IInv, TypeOK
<1>2. \A v \in DOMAIN versions : v < t
  BY <1>1 DEF IInv, VersionsContiguous
<1>3. \A v \in 1..(t - 1) : v \in DOMAIN versions
  BY <1>1 DEF IInv, VersionsContiguous
<1>4. \A v \in DOMAIN versions : v \in 1..(t - 1)
  BY <1>1, <1>2
<1> QED
  BY <1>3, <1>4

\* Creating a version that was absent appends its content.
LEMMA CreateAppends ==
  ASSUME IInv, NEW h \in Handlers, CreateVersion(h), target[h] \notin DOMAIN versions
  PROVE  contents' = Append(contents, draft[h])
<1> DEFINE t == target[h]
<1>1. t \in Nat \ {0} /\ t - 1 \in DOMAIN versions \cup {0} /\ draft[h] \in Contents
  BY DEF IInv, TypeOK, CreateVersion, StaleReadsSound, ReadsSound
<1>2. DOMAIN versions = 1..(t - 1)
  BY <1>1, ContentsSeq
<1>3. versions' = [x \in DOMAIN versions \cup {t} |->
                     IF x = t THEN [content |-> draft[h], status |-> InitialStatus(draft[h])]
                     ELSE versions[x]]
  BY DEF CreateVersion, CreateIfAbsent, Put
<1>4. DOMAIN versions' = 1..t
  BY <1>1, <1>2, <1>3
<1>5. contents' = [v \in 1..t |-> IF v = t THEN draft[h] ELSE versions[v].content]
  BY <1>1, <1>2, <1>3, <1>4 DEF contents
<1>6. contents \in Seq(Contents) /\ Len(contents) = t - 1
  <2>1. \A v \in DOMAIN versions : versions[v].content \in Contents
    BY DEF IInv, TypeOK, Docs
  <2>2. contents \in [1..(t - 1) -> Contents]
    BY <1>2, <2>1 DEF contents
  <2> QED
    BY <1>1, <2>2
<1>7. contents = [v \in 1..(t - 1) |-> versions[v].content]
  BY <1>2 DEF contents
<1> HIDE DEF t
<1>8. Append(contents, draft[h]) =
        [v \in 1..(t - 1) + 1 |-> IF v = (t - 1) + 1 THEN draft[h] ELSE contents[v]]
  BY <1>1, <1>6
<1> QED
  BY <1>1, <1>5, <1>7, <1>8

\* Every step appends a version, records an approval or is invisible.
LEMMA StepRefines ==
  ASSUME IInv, [Next]_vars
  PROVE  [Log!Next]_<<contents, approvals>>
<1>1. CASE UNCHANGED <<versions, approvals, wins>>
  BY <1>1 DEF contents
<1>2. ASSUME NEW h \in Handlers, Supersede(h) PROVE UNCHANGED <<contents, approvals>>
  <2>1. target[h] - 1 \in DOMAIN versions /\ seen[h].content = versions[target[h] - 1].content
    BY <1>2 DEF IInv, Supersede, StaleReadsSound, ReadsSound
  <2> QED
    BY <1>2, <2>1 DEF Supersede, Put, WithStatus, contents
<1>3. ASSUME NEW h \in Handlers, CreateVersion(h) PROVE [Log!Next]_<<contents, approvals>>
  <2>1. draft[h] \in Contents /\ UNCHANGED approvals
    BY <1>3 DEF IInv, CreateVersion, StaleReadsSound, ReadsSound
  <2>2. CASE target[h] \in DOMAIN versions
    BY <1>3, <2>1, <2>2 DEF CreateVersion, CreateIfAbsent, contents
  <2>3. CASE target[h] \notin DOMAIN versions
    BY <1>3, <2>1, <2>3, CreateAppends DEF Log!Next, Log!AppendVersion, contents
  <2> QED
    BY <2>2, <2>3
<1>4. ASSUME NEW h \in Handlers, CreateApproval(h) PROVE [Log!Next]_<<contents, approvals>>
  <2>1. UNCHANGED contents
    BY <1>4 DEF CreateApproval, contents
  <2>2. CASE cmd[h] \in DOMAIN approvals
    BY <1>4, <2>1, <2>2 DEF CreateApproval, CreateIfAbsent
  <2>3. CASE cmd[h] \notin DOMAIN approvals
    <3>1. /\ cmd[h] \in ApproveComments /\ target[h] = Names[cmd[h]]
          /\ target[h] \in DOMAIN versions /\ seen[h].content = versions[target[h]].content
          /\ seen[h].content \in Complete
      BY <1>4 DEF CreateApproval, IInv, StaleReadsSound, ReadsSound
    <3>2. approvals' = Log!Put(approvals, cmd[h], contents[Names[cmd[h]]])
      BY <1>4, <2>3, <3>1 DEF CreateApproval, CreateIfAbsent, Put, Log!Put, contents
    <3> QED
      BY <2>1, <2>3, <3>1, <3>2 DEF Log!Next, Log!Approve, contents
  <2> QED
    BY <2>2, <2>3
<1>5. ASSUME NEW h \in Handlers, SaveApproved(h) PROVE UNCHANGED <<contents, approvals>>
  <2>1. target[h] \in DOMAIN versions /\ seen[h].content = versions[target[h]].content
    BY <1>5 DEF IInv, SaveApproved, StaleReadsSound, ReadsSound
  <2> QED
    BY <1>5, <2>1 DEF SaveApproved, Put, WithStatus, contents
<1> QED
  BY <1>1, <1>2, <1>3, <1>4, <1>5, DocumentsChange

\* create_or_reuse and approve, however interleaved or interrupted, implement
\* the append-only log of contents and permanent approvals.
THEOREM ImplementsLog == Spec => LogSpec
<1>1. Init => Log!Init
  BY DEF Init, Log!Init
<1>2. IInv /\ [Next]_vars => [Log!Next]_<<contents, approvals>>
  BY StepRefines
<1> QED
  BY <1>1, <1>2, Invariance, PTL DEF Spec, LogSpec, Log!Spec, contents

\* What the log promises, of every system that implements it.
LEMMA LogPromises == LogSpec => []Log!Bound /\ Log!Permanent
<1> DEFINE Logged == contents \in Seq(Contents)
           Stays ==
             /\ \A v \in DOMAIN contents : v \in DOMAIN contents' /\ contents'[v] = contents[v]
             /\ \A a \in DOMAIN approvals : a \in DOMAIN approvals' /\ approvals'[a] = approvals[a]
<1>1. Log!Init => Logged /\ Log!Bound
  BY DEF Log!Init, Log!Bound, contents
<1>2. ASSUME Logged, Log!Bound, [Log!Next]_<<contents, approvals>>
      PROVE  Logged' /\ Log!Bound' /\ Stays
  <2>1. CASE UNCHANGED <<contents, approvals>>
    BY <1>2, <2>1 DEF Log!Bound, contents
  <2>2. ASSUME NEW c \in Contents, Log!AppendVersion(c) PROVE Logged' /\ Log!Bound' /\ Stays
    <3>1. contents' = Append(contents, c) /\ approvals' = approvals
      BY <2>2 DEF Log!AppendVersion, contents
    <3>2. Logged' /\ Stays
      BY <1>2, <3>1
    <3>3. Log!Bound'
      BY <1>2, <3>1, <3>2 DEF Log!Bound, contents
    <3> QED
      BY <3>2, <3>3
  <2>3. ASSUME NEW a \in ApproveComments, Log!Approve(a) PROVE Logged' /\ Log!Bound' /\ Stays
    <3>1. /\ contents' = contents /\ a \notin DOMAIN approvals /\ Names[a] \in DOMAIN contents
          /\ approvals' = Log!Put(approvals, a, contents[Names[a]])
      BY <2>3 DEF Log!Approve, contents
    <3>2. Stays
      BY <3>1 DEF Log!Put
    <3>3. \A b \in DOMAIN approvals : Names[b] \in DOMAIN contents /\ approvals[b] = contents[Names[b]]
      BY <1>2 DEF Log!Bound, contents
    <3>4. \A b \in DOMAIN approvals' :
            Names[b] \in DOMAIN contents' /\ approvals'[b] = contents'[Names[b]]
      BY <3>1, <3>3 DEF Log!Put
    <3>5. Log!Bound'
      BY <3>4 DEF Log!Bound, contents
    <3> QED
      BY <1>2, <3>1, <3>2, <3>5
  <2> QED
    BY <1>2, <2>1, <2>2, <2>3 DEF Log!Next
<1>3. Log!Spec => [](Logged /\ Log!Bound) /\ [][Stays]_<<contents, approvals>>
  BY <1>1, <1>2, PTL DEF Log!Spec, contents
<1> QED
  BY <1>3, PTL DEF LogSpec, Log!Permanent, contents

\* What create_or_reuse and approve promise of a brief: a version keeps its
\* content, an approval stays, and it binds the content of its version.
THEOREM ContentsStand == Spec => []Log!Bound /\ Log!Permanent
BY ImplementsLog, LogPromises

-----------------------------------------------------------------------------
(* What was begun is carried through unless a store call fails *)

\* A handler that is about to make the second write of its request stays there
\* until it makes it or fails at it, and what was cut off stays so.
LEMMA StaysInHand ==
  ASSUME IInv, [Next]_vars, NEW label \in SecondWrites, NEW c, NEW t, InHand(label, c, t),
         ~\E h \in Handlers : pc[h] = label /\ cmd[h] = c /\ target[h] = t /\ Step(h)
  PROVE  InHand(label, c, t)'
<1>1. CASE <<label, c, t>> \in cut
  BY <1>1 DEF InHand, Next, Step, BeginCreate, BeginApprove, Begin, GetOperation, CreateDraft,
     ListVersions, Supersede, CreateVersion, CreateOperation, GetApproval, GetVersion,
     CreateApproval, SaveApproved, Fail, vars
<1>2. CASE <<label, c, t>> \notin cut
  <2>1. PICK h \in Handlers : pc[h] = label /\ cmd[h] = c /\ target[h] = t
    BY <1>2 DEF InHand
  <2>2. CASE UNCHANGED vars
    BY <2>1, <2>2 DEF vars, InHand
  <2>3. CASE Fail(h)
    BY <2>1, <2>3 DEF Fail, InHand
  <2>4. ASSUME NEW g \in Handlers,
               \/ \E d \in CreateCommands : BeginCreate(g, d)
               \/ \E a \in ApproveComments : BeginApprove(g, a)
               \/ Step(g) \/ Fail(g),
               ~Fail(h)
        PROVE  InHand(label, c, t)'
    <3>1. g # h
      BY <2>1, <2>4 DEF BeginCreate, BeginApprove, Begin, SecondWrites, Answered
    <3>2. pc'[h] = pc[h] /\ cmd'[h] = cmd[h] /\ target'[h] = target[h]
      BY <2>4, <3>1, OthersUntouched
    <3> QED
      BY <2>1, <3>2 DEF InHand
  <2> QED
    BY <2>2, <2>3, <2>4 DEF Next
<1> QED
  BY <1>1, <1>2

\* Only CreateApproval adds a record, and its handler saves the version next.
LEMMA NextPending ==
  ASSUME IInv, HalfDoneByFailure, [Next]_vars,
         NEW a \in DOMAIN approvals', versions'[Names[a]].status \in Open
  PROVE  InHand("save_approved", a, Names[a])'
<1>1. CASE a \notin DOMAIN approvals
  <2>1. PICK h \in Handlers : CreateApproval(h)
    BY <1>1, DocumentsChange DEF Supersede, CreateVersion, SaveApproved
  <2>2. /\ a = cmd[h] /\ pc'[h] = "save_approved" /\ cmd' = cmd /\ target' = target
        /\ target[h] = Names[cmd[h]]
    BY <1>1, <2>1 DEF CreateApproval, CreateIfAbsent, Put, Goto, local, IInv, TypeOK,
       StaleReadsSound, ReadsSound
  <2> QED
    BY <2>2 DEF InHand
<1>2. CASE a \in DOMAIN approvals
  <2>1. versions[Names[a]].status \in Open
    BY <1>2, NextGrows DEF Grows, IInv, ApprovalSound
  <2>2. InHand("save_approved", a, Names[a])
    BY <1>2, <2>1 DEF HalfDoneByFailure
  <2>3. ASSUME NEW h \in Handlers,
               pc[h] = "save_approved", cmd[h] = a, target[h] = Names[a], Step(h)
        PROVE  FALSE
    <3>1. ~SaveApproved(h)
      BY <2>3 DEF SaveApproved, Put, WithStatus, Open
    <3> QED
      BY <2>3, <3>1 DEF Step, GetOperation, CreateDraft, ListVersions, Supersede, CreateVersion,
         CreateOperation, GetApproval, GetVersion, CreateApproval
  <2> QED
    BY <2>2, <2>3, StaysInHand DEF SecondWrites
<1> QED
  BY <1>1, <1>2

\* Only Supersede supersedes, and its handler creates the successor next.
LEMMA NextSuccessor ==
  ASSUME IInv, HalfDoneByFailure, [Next]_vars,
         NEW v \in DOMAIN versions', versions'[v].status = "superseded",
         v + 1 \notin DOMAIN versions'
  PROVE  \E c \in CreateCommands : InHand("create_version", c, v + 1)'
<1>1. v + 1 \notin DOMAIN versions /\ v \in Nat
  BY NextGrows, NextType DEF Grows, TypeOK
<1>2. CASE v \in DOMAIN versions /\ versions[v].status = "superseded"
  <2>1. PICK c \in CreateCommands : InHand("create_version", c, v + 1)
    BY <1>1, <1>2 DEF HalfDoneByFailure
  <2>2. ASSUME NEW h \in Handlers,
               pc[h] = "create_version", cmd[h] = c, target[h] = v + 1, Step(h)
        PROVE  FALSE
    <3>1. ~CreateVersion(h)
      BY <2>2 DEF CreateVersion, CreateIfAbsent, Put
    <3> QED
      BY <2>2, <3>1 DEF Step, GetOperation, CreateDraft, ListVersions, Supersede,
         CreateOperation, GetApproval, GetVersion, CreateApproval, SaveApproved
  <2>3. InHand("create_version", c, v + 1)'
    BY <2>1, <2>2, StaysInHand DEF SecondWrites
  <2> QED
    BY <2>3
<1>3. CASE ~(v \in DOMAIN versions /\ versions[v].status = "superseded")
  <2>1. PICK h \in Handlers : Supersede(h) \/ CreateVersion(h) \/ SaveApproved(h)
    BY <1>3, DocumentsChange DEF CreateApproval
  <2>2. Supersede(h) /\ target[h] - 1 = v
    BY <1>3, <2>1 DEF Supersede, CreateVersion, SaveApproved, CreateIfAbsent, Put, WithStatus,
       InitialStatus
  <2>3. /\ pc'[h] = "create_version" /\ cmd' = cmd /\ target' = target /\ target[h] \in Nat
        /\ cmd[h] \in CreateCommands
    BY <2>2 DEF Supersede, Goto, local, IInv, TypeOK, StaleReadsSound, ReadsSound
  <2>4. target[h] = v + 1
    BY <1>1, <2>2, <2>3
  <2>5. InHand("create_version", cmd[h], v + 1)'
    BY <2>3, <2>4 DEF InHand
  <2> QED
    BY <2>3, <2>5
<1> QED
  BY <1>2, <1>3

\* No document of approve or create_or_reuse disappears, is edited or reopened.
THEOREM NothingIsRewritten == Spec => [][Grows]_vars
<1>1. IInv /\ [Next]_vars => [Grows]_vars
  BY NextGrows
<1> QED
  BY <1>1, Invariance, PTL DEF Spec

\* Whatever interleaves with approve and create_or_reuse, only a failure
\* between their two writes leaves an approval without effect or a brief
\* without an open version.
THEOREM NothingIsLeftHalfDone == Spec => []HalfDoneByFailure
<1>1. Init => HalfDoneByFailure
  BY DEF Init, HalfDoneByFailure
<1>2. IInv /\ HalfDoneByFailure /\ [Next]_vars => HalfDoneByFailure'
  <2> SUFFICES ASSUME IInv, HalfDoneByFailure, [Next]_vars PROVE HalfDoneByFailure'
    OBVIOUS
  <2>1. \A a \in DOMAIN approvals' :
          versions'[Names[a]].status \in Open => InHand("save_approved", a, Names[a])'
    BY NextPending
  <2>2. \A v \in DOMAIN versions' :
          versions'[v].status = "superseded" /\ v + 1 \notin DOMAIN versions' =>
            \E c \in CreateCommands : InHand("create_version", c, v + 1)'
    BY NextSuccessor
  <2> QED
    BY <2>1, <2>2 DEF HalfDoneByFailure
<1> QED
  BY <1>1, <1>2, Invariance, PTL DEF Spec

\* How many calls of the store or the model a handler has before it.
CallsLeft(label) ==
  CASE label = "get_operation"                          -> 6
    [] label = "create_draft"                           -> 5
    [] label \in {"list_versions", "get_approval"}      -> 4
    [] label \in {"supersede", "get_version"}           -> 3
    [] label \in {"create_version", "create_approval"}  -> 2
    [] OTHER                                            -> 1

\* The calls that each label leaves.
LEMMA CallsLeftOf ==
  /\ CallsLeft("get_operation") = 6 /\ CallsLeft("create_draft") = 5
  /\ CallsLeft("list_versions") = 4 /\ CallsLeft("get_approval") = 4
  /\ CallsLeft("supersede") = 3 /\ CallsLeft("get_version") = 3
  /\ CallsLeft("create_version") = 2 /\ CallsLeft("create_approval") = 2
  /\ CallsLeft("create_operation") = 1 /\ CallsLeft("save_approved") = 1
BY DEF CallsLeft

\* A request of create_or_reuse or approve is answered after at most six calls,
\* whatever the other handlers do meanwhile: no step of it waits or retries.
RequestsEnd ==
  [][\A h \in Handlers :
       Step(h) => pc'[h] \in Answered \/ CallsLeft(pc'[h]) < CallsLeft(pc[h])]_vars

\* create_or_reuse and approve are wait-free.
THEOREM RequestsAreBounded == Spec => RequestsEnd
<1> DEFINE Ends ==
      \A h \in Handlers :
        Step(h) => pc'[h] \in Answered \/ CallsLeft(pc'[h]) < CallsLeft(pc[h])
<1>1. ASSUME IInv, [Next]_vars PROVE Ends
  <2> SUFFICES ASSUME NEW h \in Handlers, Step(h)
               PROVE  pc'[h] \in Answered \/ CallsLeft(pc'[h]) < CallsLeft(pc[h])
    OBVIOUS
  <2>0. h \in DOMAIN pc
    BY <1>1 DEF IInv, TypeOK
  <2>1. CASE GetOperation(h)
    BY <2>0, <2>1, CallsLeftOf DEF GetOperation, Goto, Answered
  <2>2. CASE CreateDraft(h)
    BY <2>0, <2>2, CallsLeftOf DEF CreateDraft, Goto, Answered
  <2>3. CASE ListVersions(h)
    <3>1. pc[h] = "list_versions" /\ pc'[h] \in {"reused", "supersede", "create_version"}
      BY <2>0, <2>3 DEF ListVersions, Goto
    <3> QED
      BY <3>1, CallsLeftOf DEF Answered
  <2>4. CASE Supersede(h)
    BY <2>0, <2>4, CallsLeftOf DEF Supersede, Goto, Answered
  <2>5. CASE CreateVersion(h)
    BY <2>0, <2>5, CallsLeftOf DEF CreateVersion, Goto, Answered
  <2>6. CASE CreateOperation(h) \/ SaveApproved(h)
    BY <2>0, <2>6 DEF CreateOperation, SaveApproved, Goto, Answered
  <2>7. CASE GetApproval(h)
    BY <2>0, <2>7, CallsLeftOf DEF GetApproval, Goto, Answered
  <2>8. CASE GetVersion(h)
    BY <2>0, <2>8, CallsLeftOf DEF GetVersion, Goto, Answered
  <2>9. CASE CreateApproval(h)
    BY <2>0, <2>9, CallsLeftOf DEF CreateApproval, Goto, Answered
  <2> QED
    BY <2>1, <2>2, <2>3, <2>4, <2>5, <2>6, <2>7, <2>8, <2>9 DEF Step
<1> HIDE DEF Ends
<1>2. Spec => [][Ends]_vars
  BY <1>1, Invariance, PTL DEF Spec
<1> QED
  BY <1>2, PTL DEF RequestsEnd, Ends
=============================================================================
