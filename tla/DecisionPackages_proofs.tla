----------------------- MODULE DecisionPackages_proofs -----------------------
(***************************************************************************)
(* Proofs about DecisionPackages for every set of callers, contents and    *)
(* approvals and any number of calls.                                      *)
(***************************************************************************)
EXTENDS DecisionPackages, TLAPS

\* The versions of a decision are numbered without a gap.
VersionsContiguous ==
  \A v \in DOMAIN versions : \A w \in 1..v : w \in DOMAIN versions

\* What a caller relies on after a stale read, at each of its steps.
ReadsSound(h) ==
  /\ pc[h] = "list_versions" => request[h] \in Contents
  /\ pc[h] \in {"supersede", "create"} =>
       /\ request[h] \in Contents \ Blank
       /\ target[h] > 0 /\ target[h] - 1 \in DOMAIN versions \cup {0}
  /\ pc[h] = "supersede" =>
       /\ target[h] - 1 \in DOMAIN versions
       /\ seen[h] \in Packages /\ seen[h].content = versions[target[h] - 1].content
  /\ pc[h] = "create" =>
       \/ target[h] - 1 \notin DOMAIN versions
       \/ versions[target[h] - 1].status \notin Open
  /\ pc[h] \in {"get", "get_approval", "create_approval", "save_approved"} =>
       request[h] \in Approvals /\ target[h] = Names[request[h]]
  /\ pc[h] \in {"get_approval", "create_approval", "save_approved"} =>
       Author[request[h]] # Agent /\ seen[h] \in Packages
  /\ pc[h] \in WithPackage \cup {"get_approval", "create_approval", "save_approved"} =>
       /\ target[h] \in DOMAIN versions
       /\ seen[h].content = versions[target[h]].content
  /\ pc[h] = "save_approved" =>
       request[h] \in DOMAIN approvals /\ approvals[request[h]] = seen[h].content

StaleReadsSound == \A h \in Callers : ReadsSound(h)

\* Records bind the content of the version they name.
ApprovalsBind ==
  \A a \in DOMAIN approvals : Names[a] \in DOMAIN versions
                              /\ approvals[a] = versions[Names[a]].content

IInv ==
  /\ TypeOK /\ StaleReadsSound /\ VersionsContiguous /\ OnlyLatestOpen
  /\ ApprovalsBind /\ ApprovedHasRecord

\* How a step may change the store: versions are only added, a content is never
\* edited, a closed version stays closed, and records are permanent.
Grows ==
  /\ DOMAIN versions \subseteq DOMAIN versions'
  /\ \A v \in DOMAIN versions :
       /\ versions'[v].content = versions[v].content
       /\ versions[v].status \notin Open => versions'[v].status \notin Open
  /\ DOMAIN approvals \subseteq DOMAIN approvals'
  /\ \A a \in DOMAIN approvals : approvals'[a] = approvals[a]

-----------------------------------------------------------------------------
(* Lemmas *)

\* The empty store and idle callers satisfy the inductive invariant.
LEMMA InitIInv == Init => IInv
<1> SUFFICES ASSUME Init PROVE IInv
  OBVIOUS
<1>1. DOMAIN versions = {} /\ DOMAIN approvals = {}
  BY DEF Init
<1>2. TypeOK
  BY <1>1 DEF Init, TypeOK, Results
<1> QED
  BY <1>1, <1>2 DEF Init, IInv, StaleReadsSound, ReadsSound, VersionsContiguous, OnlyLatestOpen,
     ApprovalsBind, ApprovedHasRecord, HasRecord, WithPackage

\* The steps that change the store.
LEMMA StoreChange ==
  ASSUME [Next]_vars
  PROVE  \/ UNCHANGED store
         \/ \E h \in Callers : Supersede(h) \/ Create(h) \/ CreateApproval(h) \/ SaveApproved(h)
BY DEF Next, Step, BeginCreate, BeginApprove, Begin, ListVersions, GetExisting, Get, GetApproval,
   vars, store

\* No step removes a document, changes a content or reopens a version.
LEMMA NextGrows == IInv /\ [Next]_vars => Grows
<1> SUFFICES ASSUME IInv, [Next]_vars PROVE Grows
  OBVIOUS
<1> USE DEF IInv, Grows
<1>1. CASE UNCHANGED store
  BY <1>1 DEF store
<1>2. ASSUME NEW h \in Callers, Supersede(h) PROVE Grows
  <2>1. target[h] - 1 \in DOMAIN versions /\ seen[h].content = versions[target[h] - 1].content
    BY <1>2 DEF Supersede, StaleReadsSound, ReadsSound
  <2> QED
    BY <1>2, <2>1 DEF Supersede, WithStatus, Open, Put
<1>3. ASSUME NEW h \in Callers, Create(h) PROVE Grows
  BY <1>3 DEF Create, Put
<1>4. ASSUME NEW h \in Callers, CreateApproval(h) PROVE Grows
  BY <1>4 DEF CreateApproval, Put
<1>5. ASSUME NEW h \in Callers, SaveApproved(h) PROVE Grows
  <2>1. target[h] \in DOMAIN versions /\ seen[h].content = versions[target[h]].content
    BY <1>5 DEF SaveApproved, StaleReadsSound, ReadsSound
  <2> QED
    BY <1>5, <2>1 DEF SaveApproved, WithStatus, Open, Put
<1> QED
  BY <1>1, <1>2, <1>3, <1>4, <1>5, StoreChange

-----------------------------------------------------------------------------
(* Type correctness *)

\* Every call of the store keeps the types.
LEMMA NextType == IInv /\ [Next]_vars => TypeOK'
<1> SUFFICES ASSUME IInv, [Next]_vars PROVE TypeOK'
  OBVIOUS
<1> USE ConstantsAssumption DEF IInv, TypeOK, Results, WithPackage, Working, Goto, Read, store
<1>1. CASE UNCHANGED vars
  BY <1>1 DEF vars
<1>2. ASSUME NEW h \in Callers, NEW c \in Contents, BeginCreate(h, c) PROVE TypeOK'
  BY <1>2 DEF BeginCreate, Begin
<1>3. ASSUME NEW h \in Callers, NEW a \in Approvals, BeginApprove(h, a) PROVE TypeOK'
  BY <1>3 DEF BeginApprove, Begin
<1>4. ASSUME NEW h \in Callers, ListVersions(h) PROVE TypeOK'
  <2>1. target' \in [Callers -> Nat] /\ seen' \in [Callers -> Packages \cup {NoPackage}]
    BY <1>4 DEF ListVersions, IsMax, Reusable
  <2>2. pc' \in [Callers -> Results \cup Working]
    BY <1>4 DEF ListVersions
  <2> QED
    BY <1>4, <2>1, <2>2 DEF ListVersions
<1>5. ASSUME NEW h \in Callers, Supersede(h) PROVE TypeOK'
  <2> DEFINE d == WithStatus(seen[h], "superseded")
  <2>1. target[h] - 1 \in DOMAIN versions /\ d \in Packages
    BY <1>5 DEF Supersede, StaleReadsSound, ReadsSound, WithStatus, Packages
  <2>2. versions' = Put(versions, target[h] - 1, d)
    BY <1>5 DEF Supersede
  <2> HIDE DEF d
  <2>3. DOMAIN versions' \subseteq Nat \ {0} /\ versions' \in [DOMAIN versions' -> Packages]
    BY <2>1, <2>2 DEF Put
  <2> QED
    BY <1>5, <2>3 DEF Supersede
<1>6. ASSUME NEW h \in Callers, Create(h) PROVE TypeOK'
  <2> DEFINE d == NewPackage(request[h])
  <2>1. target[h] \in Nat \ {0} /\ d \in Packages
    BY <1>6 DEF Create, StaleReadsSound, ReadsSound, NewPackage, Packages, Open
  <2>2. \/ UNCHANGED <<versions, target, seen>>
        \/ /\ versions' = Put(versions, target[h], d)
           /\ target' = [target EXCEPT ![h] = target[h]] /\ seen' = [seen EXCEPT ![h] = d]
    BY <1>6 DEF Create
  <2> HIDE DEF d
  <2>3. DOMAIN versions' \subseteq Nat \ {0} /\ versions' \in [DOMAIN versions' -> Packages]
    BY <2>1, <2>2 DEF Put
  <2>4. target' \in [Callers -> Nat] /\ seen' \in [Callers -> Packages \cup {NoPackage}]
    BY <2>1, <2>2
  <2> QED
    BY <1>6, <2>3, <2>4 DEF Create
<1>7. ASSUME NEW h \in Callers, GetExisting(h) PROVE TypeOK'
  BY <1>7 DEF GetExisting
<1>8. ASSUME NEW h \in Callers, Get(h) PROVE TypeOK'
  BY <1>8 DEF Get
<1>9. ASSUME NEW h \in Callers, GetApproval(h) PROVE TypeOK'
  BY <1>9 DEF GetApproval
<1>10. ASSUME NEW h \in Callers, CreateApproval(h) PROVE TypeOK'
  <2>1. request[h] \in Approvals /\ seen[h].content \in Contents \ Blank
    BY <1>10 DEF CreateApproval, StaleReadsSound, ReadsSound, Packages
  <2>2. approvals' = approvals \/ approvals' = Put(approvals, request[h], seen[h].content)
    BY <1>10 DEF CreateApproval
  <2>3. DOMAIN approvals' \subseteq Approvals
        /\ approvals' \in [DOMAIN approvals' -> Contents \ Blank]
    BY <2>1, <2>2 DEF Put
  <2> QED
    BY <1>10, <2>3 DEF CreateApproval
<1>11. ASSUME NEW h \in Callers, SaveApproved(h) PROVE TypeOK'
  <2> DEFINE d == WithStatus(seen[h], "approved")
  <2>1. target[h] \in DOMAIN versions /\ d \in Packages
    BY <1>11 DEF SaveApproved, StaleReadsSound, ReadsSound, WithStatus, Packages
  <2>2. /\ versions' = Put(versions, target[h], d)
        /\ target' = [target EXCEPT ![h] = target[h]] /\ seen' = [seen EXCEPT ![h] = d]
    BY <1>11 DEF SaveApproved
  <2> HIDE DEF d
  <2>3. DOMAIN versions' \subseteq Nat \ {0} /\ versions' \in [DOMAIN versions' -> Packages]
    BY <2>1, <2>2 DEF Put
  <2>4. target' \in [Callers -> Nat] /\ seen' \in [Callers -> Packages \cup {NoPackage}]
    BY <2>1, <2>2
  <2> QED
    BY <1>11, <2>3, <2>4 DEF SaveApproved
<1> QED
  BY <1>1, <1>2, <1>3, <1>4, <1>5, <1>6, <1>7, <1>8, <1>9, <1>10, <1>11 DEF Next, Step

-----------------------------------------------------------------------------
(* What callers have read stays sound *)

\* A step of h leaves what another caller g holds alone.
LEMMA OthersUntouched ==
  ASSUME IInv, NEW h \in Callers, NEW g \in Callers \ {h},
         \/ \E c \in Contents : BeginCreate(h, c)
         \/ \E a \in Approvals : BeginApprove(h, a)
         \/ Step(h)
  PROVE  /\ pc'[g] = pc[g] /\ request'[g] = request[g]
         /\ target'[g] = target[g] /\ seen'[g] = seen[g]
BY DEF IInv, TypeOK, Step, BeginCreate, BeginApprove, Begin, Goto, Read, ListVersions, Supersede,
   Create, GetExisting, Get, GetApproval, CreateApproval, SaveApproved

\* Nothing another caller does makes what g read unsound.
LEMMA OthersSound ==
  ASSUME IInv, Grows, TypeOK', NEW g \in Callers,
         pc'[g] = pc[g], request'[g] = request[g], target'[g] = target[g], seen'[g] = seen[g]
  PROVE  ReadsSound(g)'
<1>1. ReadsSound(g)
  BY DEF IInv, StaleReadsSound
<1>2. pc[g] \in {"supersede", "create"} => target'[g] - 1 \in DOMAIN versions' \cup {0}
  BY <1>1 DEF ReadsSound, Grows
<1>3. pc[g] = "supersede" =>
        /\ target'[g] - 1 \in DOMAIN versions'
        /\ seen'[g].content = versions'[target'[g] - 1].content
  BY <1>1 DEF ReadsSound, Grows
<1>4. pc[g] = "create" =>
        \/ target'[g] - 1 \notin DOMAIN versions'
        \/ versions'[target'[g] - 1].status \notin Open
  <2> SUFFICES ASSUME pc[g] = "create", target[g] - 1 \in DOMAIN versions'
               PROVE  versions'[target[g] - 1].status \notin Open
    OBVIOUS
  <2>1. target[g] - 1 \in DOMAIN versions
    BY <1>1 DEF ReadsSound, IInv, TypeOK
  <2> QED
    BY <2>1, <1>1 DEF ReadsSound, Grows
<1>5. pc[g] \in WithPackage \cup {"get_approval", "create_approval", "save_approved"} =>
        /\ target'[g] \in DOMAIN versions'
        /\ seen'[g].content = versions'[target'[g]].content
  BY <1>1 DEF ReadsSound, Grows
<1>6. pc[g] = "save_approved" =>
        request'[g] \in DOMAIN approvals' /\ approvals'[request'[g]] = seen'[g].content
  BY <1>1 DEF ReadsSound, Grows
<1> QED
  BY <1>1, <1>2, <1>3, <1>4, <1>5, <1>6 DEF ReadsSound

\* Every step keeps what the callers may rely on in their stale reads.
LEMMA NextReads ==
  ASSUME IInv, [Next]_vars, Grows, TypeOK'
  PROVE  StaleReadsSound'
<1>1. CASE UNCHANGED vars
  BY <1>1, OthersSound DEF StaleReadsSound, vars
<1>2. ASSUME NEW h \in Callers,
             \/ \E c \in Contents : BeginCreate(h, c)
             \/ \E a \in Approvals : BeginApprove(h, a)
             \/ Step(h)
      PROVE  StaleReadsSound'
  <2> SUFFICES ReadsSound(h)'
    BY <1>2, OthersUntouched, OthersSound DEF StaleReadsSound
  <2>0. ReadsSound(h)
    BY DEF IInv, StaleReadsSound
  <2> USE <2>0 DEF IInv, TypeOK, Goto, Read, ReadsSound, WithPackage, store
  <2>1. CASE \E c \in Contents : BeginCreate(h, c)
    BY <2>1 DEF BeginCreate, Begin
  <2>2. CASE \E a \in Approvals : BeginApprove(h, a)
    BY <2>2 DEF BeginApprove, Begin
  <2>3. CASE ListVersions(h)
    <3>1. CASE pc'[h] = "reused"
      BY <2>3, <3>1 DEF ListVersions, Reusable
    <3>2. CASE pc'[h] = "invalid"
      BY <3>2
    <3>3. CASE pc'[h] \notin {"reused", "invalid"}
      <4>1. PICK n \in DOMAIN versions \cup {0} :
              /\ target'[h] = n + 1
              /\ seen'[h] = IF n = 0 THEN NoPackage ELSE versions[n]
        BY <2>3, <3>3 DEF ListVersions
      <4>2. /\ pc'[h] = IF seen'[h].status \in Open THEN "supersede" ELSE "create"
            /\ request[h] \in Contents \ Blank
        BY <2>3, <3>3 DEF ListVersions, Buildable
      <4>3. n \in Nat /\ target'[h] - 1 = n /\ (n # 0 => versions[n] \in Packages)
        BY <4>1
      <4>4. pc'[h] = "supersede" => n # 0
        BY <4>1, <4>2 DEF NoPackage, Open
      <4>5. versions' = versions /\ request' = request
        BY <2>3 DEF ListVersions
      <4> QED
        BY <4>1, <4>2, <4>3, <4>4, <4>5
    <3> QED
      BY <3>1, <3>2, <3>3
  <2>4. CASE Supersede(h)
    BY <2>4 DEF Supersede, Put, WithStatus, Open
  <2>5. CASE Create(h)
    BY <2>5 DEF Create, Put, NewPackage
  <2>6. CASE GetExisting(h)
    BY <2>6 DEF GetExisting
  <2>7. CASE Get(h)
    BY <2>7 DEF Get
  <2>8. CASE GetApproval(h)
    BY <2>8 DEF GetApproval
  <2>9. CASE CreateApproval(h)
    BY <2>9 DEF CreateApproval, Put, IInv, ApprovalsBind
  <2>10. CASE SaveApproved(h)
    BY <2>10 DEF SaveApproved, Put, WithStatus
  <2> QED
    BY <1>2, <2>1, <2>2, <2>3, <2>4, <2>5, <2>6, <2>7, <2>8, <2>9, <2>10 DEF Step
<1> QED
  BY <1>1, <1>2 DEF Next

-----------------------------------------------------------------------------
(* The documents *)

\* Every step keeps the relations between the documents.
LEMMA NextDocuments ==
  ASSUME IInv, [Next]_vars, Grows
  PROVE  /\ VersionsContiguous' /\ OnlyLatestOpen' /\ ApprovalsBind' /\ ApprovedHasRecord'
<1> USE DEF IInv
<1>1. CASE UNCHANGED store
  BY <1>1 DEF store, VersionsContiguous, OnlyLatestOpen, ApprovalsBind, ApprovedHasRecord, HasRecord
<1>2. ASSUME NEW h \in Callers, Supersede(h)
      PROVE  /\ VersionsContiguous' /\ OnlyLatestOpen' /\ ApprovalsBind' /\ ApprovedHasRecord'
  <2>1. target[h] - 1 \in DOMAIN versions /\ seen[h].content = versions[target[h] - 1].content
    BY <1>2 DEF Supersede, StaleReadsSound, ReadsSound
  <2>2. /\ DOMAIN versions' = DOMAIN versions
        /\ \A v \in DOMAIN versions :
             /\ versions'[v].content = versions[v].content
             /\ versions'[v].status = versions[v].status \/ versions'[v].status = "superseded"
        /\ UNCHANGED approvals
    BY <1>2, <2>1 DEF Supersede, Put, WithStatus
  <2> QED
    BY <2>2 DEF VersionsContiguous, OnlyLatestOpen, Open, ApprovalsBind, ApprovedHasRecord,
       HasRecord
<1>3. ASSUME NEW h \in Callers, Create(h), target[h] \notin DOMAIN versions
      PROVE  /\ VersionsContiguous' /\ OnlyLatestOpen' /\ ApprovalsBind' /\ ApprovedHasRecord'
  <2> DEFINE t == target[h]
  <2>1. /\ t \in Nat \ {0} /\ t - 1 \in DOMAIN versions \cup {0}
        /\ t - 1 \in DOMAIN versions => versions[t - 1].status \notin Open
    BY <1>3 DEF Create, StaleReadsSound, ReadsSound, TypeOK
  <2>2. /\ DOMAIN versions' = DOMAIN versions \cup {t}
        /\ \A v \in DOMAIN versions : versions'[v] = versions[v]
        /\ versions'[t] = NewPackage(request[h])
        /\ UNCHANGED approvals
    BY <1>3 DEF Create, Put
  <2>3. DOMAIN versions \subseteq Nat \ {0} /\ t \notin DOMAIN versions
    BY <1>3 DEF TypeOK
  <2>4. VersionsContiguous'
    BY <2>1, <2>2, <2>3 DEF VersionsContiguous
  <2>5. t + 1 \notin DOMAIN versions
    BY <2>1, <2>3 DEF VersionsContiguous
  <2>6. OnlyLatestOpen'
    <3> SUFFICES ASSUME NEW v \in DOMAIN versions', v + 1 \in DOMAIN versions'
                 PROVE  versions'[v].status \notin Open
      BY DEF OnlyLatestOpen
    <3>1. v \in DOMAIN versions
      BY <2>1, <2>2, <2>5
    <3>2. v + 1 = t \/ v + 1 \in DOMAIN versions
      BY <2>2
    <3> QED
      BY <3>1, <3>2, <2>1, <2>2, <2>3 DEF OnlyLatestOpen
  <2> QED
    BY <2>2, <2>4, <2>6 DEF ApprovalsBind, ApprovedHasRecord, HasRecord, NewPackage
<1>4. ASSUME NEW h \in Callers, Create(h), target[h] \in DOMAIN versions
      PROVE  UNCHANGED store
  BY <1>4 DEF Create, store
<1>5. ASSUME NEW h \in Callers, CreateApproval(h)
      PROVE  /\ VersionsContiguous' /\ OnlyLatestOpen' /\ ApprovalsBind' /\ ApprovedHasRecord'
  <2>1. /\ target[h] = Names[request[h]] /\ target[h] \in DOMAIN versions
        /\ seen[h].content = versions[target[h]].content
    BY <1>5 DEF CreateApproval, StaleReadsSound, ReadsSound
  <2>2. UNCHANGED versions
    BY <1>5 DEF CreateApproval
  <2>3. \/ UNCHANGED approvals
        \/ /\ DOMAIN approvals' = DOMAIN approvals \cup {request[h]}
           /\ \A a \in DOMAIN approvals : approvals'[a] = approvals[a]
           /\ approvals'[request[h]] = seen[h].content
    BY <1>5 DEF CreateApproval, Put
  <2> QED
    BY <2>1, <2>2, <2>3 DEF VersionsContiguous, OnlyLatestOpen, ApprovalsBind, ApprovedHasRecord,
       HasRecord
<1>6. ASSUME NEW h \in Callers, SaveApproved(h)
      PROVE  /\ VersionsContiguous' /\ OnlyLatestOpen' /\ ApprovalsBind' /\ ApprovedHasRecord'
  <2>1. /\ target[h] = Names[request[h]] /\ Author[request[h]] # Agent
        /\ target[h] \in DOMAIN versions /\ seen[h].content = versions[target[h]].content
        /\ request[h] \in DOMAIN approvals /\ approvals[request[h]] = seen[h].content
    BY <1>6 DEF SaveApproved, StaleReadsSound, ReadsSound
  <2>2. /\ DOMAIN versions' = DOMAIN versions
        /\ \A v \in DOMAIN versions :
             /\ versions'[v].content = versions[v].content
             /\ \/ versions'[v].status = versions[v].status
                \/ v = target[h] /\ versions'[v].status = "approved"
        /\ UNCHANGED approvals
    BY <1>6, <2>1 DEF SaveApproved, Put, WithStatus
  <2>3. ApprovedHasRecord'
    BY <2>1, <2>2 DEF ApprovedHasRecord, HasRecord
  <2> QED
    BY <2>2, <2>3 DEF VersionsContiguous, OnlyLatestOpen, Open, ApprovalsBind
<1> QED
  BY <1>1, <1>2, <1>3, <1>4, <1>5, <1>6, StoreChange

-----------------------------------------------------------------------------
(* Theorems *)

\* The inductive invariant of DecisionPackageService.
THEOREM Invariance == Spec => []IInv
<1>1. Init => IInv
  BY InitIInv
<1>2. IInv /\ [Next]_vars => IInv'
  BY NextGrows, NextType, NextReads, NextDocuments DEF IInv
<1> QED
  BY <1>1, <1>2, PTL DEF Spec

\* create_or_reuse and approve keep the store and their locals well typed.
THEOREM TypeCorrect == Spec => []TypeOK
<1>1. IInv => TypeOK
  BY DEF IInv
<1> QED
  BY <1>1, Invariance, PTL

\* Versions are numbered without a gap and only the newest one can be approved,
\* whatever copies concurrent callers of the store save.
THEOREM OneOpenVersion == Spec => [](VersionsContiguous /\ OnlyLatestOpen)
<1>1. IInv => VersionsContiguous /\ OnlyLatestOpen
  BY DEF IInv
<1> QED
  BY <1>1, Invariance, PTL

\* A package shown as approved has a record by somebody other than the product
\* agent that binds its content.
THEOREM ApprovalsAreRecorded == Spec => []ApprovedHasRecord
<1>1. IInv => ApprovedHasRecord
  BY DEF IInv
<1> QED
  BY <1>1, Invariance, PTL

\* No save of a package, whatever it read and when, reopens a closed version or
\* shows an approval that is not on record.
THEOREM StatusIsSound == Spec => StatusMovesForward
<1> DEFINE Moves ==
      \A v \in DOMAIN versions :
        /\ v \in DOMAIN versions'
        /\ versions[v].status \notin Open => versions'[v].status \notin Open
        /\ versions'[v].status = "approved" => HasRecord(v, versions'[v].content)
<1>1. ASSUME IInv, IInv', [Next]_vars PROVE [Moves]_vars
  <2>1. Grows
    BY <1>1, NextGrows
  <2>2. ASSUME NEW v \in DOMAIN versions, versions'[v].status = "approved"
        PROVE  HasRecord(v, versions'[v].content)
    <3>1. CASE UNCHANGED approvals
      <4>1. ApprovedHasRecord'
        BY <1>1 DEF IInv
      <4> QED
        BY <2>1, <2>2, <3>1, <4>1 DEF ApprovedHasRecord, HasRecord, Grows
    <3>2. CASE approvals' # approvals
      <4>1. versions' = versions
        BY <1>1, <3>2, StoreChange DEF store, Supersede, Create, CreateApproval, SaveApproved
      <4> QED
        BY <1>1, <2>2, <4>1 DEF IInv, ApprovedHasRecord, HasRecord
    <3> QED
      BY <3>1, <3>2
  <2> QED
    BY <2>1, <2>2 DEF Grows
<1> HIDE DEF Moves
<1>2. Spec => [][Moves]_vars
  BY <1>1, Invariance, PTL DEF Spec
<1> QED
  BY <1>2 DEF StatusMovesForward, Moves

\* What create_or_reuse and approve hand back is what the store has.
THEOREM ResultsAreStored == Spec => []ReturnedIsStored
<1>1. IInv => ReturnedIsStored
  BY DEF IInv, StaleReadsSound, ReadsSound, ReturnedIsStored
<1> QED
  BY <1>1, Invariance, PTL

-----------------------------------------------------------------------------
(* Refinement of BriefLog *)

contents == [v \in DOMAIN versions |-> versions[v].content]

\* Versions numbered without a gap are a sequence.
LEMMA ContentsSeq ==
  ASSUME IInv, NEW t \in Nat \ {0}, t \notin DOMAIN versions,
         t - 1 \in DOMAIN versions \cup {0}
  PROVE  DOMAIN versions = 1..(t - 1)
<1>1. DOMAIN versions \subseteq Nat \ {0}
  BY DEF IInv, TypeOK
<1>2. \A v \in DOMAIN versions : v < t
  BY <1>1 DEF IInv, VersionsContiguous
<1>3. \A v \in 1..(t - 1) : v \in DOMAIN versions
  BY <1>1 DEF IInv, VersionsContiguous
<1>4. \A v \in DOMAIN versions : v \in 1..(t - 1)
  BY <1>1, <1>2
<1> QED
  BY <1>3, <1>4

\* Creating a version that was absent appends its content.
LEMMA CreateAppends ==
  ASSUME IInv, NEW h \in Callers, Create(h), target[h] \notin DOMAIN versions
  PROVE  contents' = Append(contents, request[h])
<1> DEFINE t == target[h]
<1>1. /\ t \in Nat \ {0} /\ t - 1 \in DOMAIN versions \cup {0}
      /\ request[h] \in Contents \ Blank
  BY DEF IInv, TypeOK, Create, StaleReadsSound, ReadsSound
<1>2. DOMAIN versions = 1..(t - 1)
  BY <1>1, ContentsSeq
<1>3. versions' = [x \in DOMAIN versions \cup {t} |->
                     IF x = t THEN NewPackage(request[h]) ELSE versions[x]]
  BY DEF Create, Put
<1>4. DOMAIN versions' = 1..t
  BY <1>1, <1>2, <1>3
<1>5. contents' = [v \in 1..t |-> IF v = t THEN request[h] ELSE versions[v].content]
  BY <1>1, <1>2, <1>3, <1>4 DEF contents, NewPackage
<1>6. contents \in Seq(Contents \ Blank) /\ Len(contents) = t - 1
  <2>1. \A v \in DOMAIN versions : versions[v].content \in Contents \ Blank
    BY DEF IInv, TypeOK, Packages
  <2>2. contents \in [1..(t - 1) -> Contents \ Blank]
    BY <1>2, <2>1 DEF contents
  <2> QED
    BY <1>1, <2>2
<1>7. contents = [v \in 1..(t - 1) |-> versions[v].content]
  BY <1>2 DEF contents
<1> HIDE DEF t
<1>8. Append(contents, request[h]) =
        [v \in 1..(t - 1) + 1 |-> IF v = (t - 1) + 1 THEN request[h] ELSE contents[v]]
  BY <1>1, <1>6
<1> QED
  BY <1>1, <1>5, <1>7, <1>8

\* Every step appends a content, records an approval or is invisible.
LEMMA StepRefines ==
  ASSUME IInv, [Next]_vars
  PROVE  [Log!Next]_<<contents, approvals>>
<1>1. CASE UNCHANGED store
  BY <1>1 DEF contents, store
<1>2. ASSUME NEW h \in Callers, Supersede(h) PROVE UNCHANGED <<contents, approvals>>
  <2>1. target[h] - 1 \in DOMAIN versions /\ seen[h].content = versions[target[h] - 1].content
    BY <1>2 DEF IInv, Supersede, StaleReadsSound, ReadsSound
  <2> QED
    BY <1>2, <2>1 DEF Supersede, Put, WithStatus, contents
<1>3. ASSUME NEW h \in Callers, Create(h) PROVE [Log!Next]_<<contents, approvals>>
  <2>1. request[h] \in Contents \ Blank /\ UNCHANGED approvals
    BY <1>3 DEF IInv, Create, StaleReadsSound, ReadsSound
  <2>2. CASE target[h] \in DOMAIN versions
    BY <1>3, <2>1, <2>2 DEF Create, contents
  <2>3. CASE target[h] \notin DOMAIN versions
    BY <1>3, <2>1, <2>3, CreateAppends DEF Log!Next, Log!AppendVersion, contents
  <2> QED
    BY <2>2, <2>3
<1>4. ASSUME NEW h \in Callers, CreateApproval(h) PROVE [Log!Next]_<<contents, approvals>>
  <2>1. UNCHANGED contents
    BY <1>4 DEF CreateApproval, contents
  <2>2. CASE request[h] \in DOMAIN approvals
    BY <1>4, <2>1, <2>2 DEF CreateApproval
  <2>3. CASE request[h] \notin DOMAIN approvals
    <3>1. /\ request[h] \in Approvals /\ target[h] = Names[request[h]]
          /\ target[h] \in DOMAIN versions /\ seen[h].content = versions[target[h]].content
          /\ seen[h].content \in Contents \ Blank
      BY <1>4 DEF CreateApproval, IInv, StaleReadsSound, ReadsSound, Packages
    <3>2. approvals' = Log!Put(approvals, request[h], contents[Names[request[h]]])
      BY <1>4, <2>3, <3>1 DEF CreateApproval, Put, Log!Put, contents
    <3> QED
      BY <2>1, <2>3, <3>1, <3>2 DEF Log!Next, Log!Approve, contents
  <2> QED
    BY <2>2, <2>3
<1>5. ASSUME NEW h \in Callers, SaveApproved(h) PROVE UNCHANGED <<contents, approvals>>
  <2>1. target[h] \in DOMAIN versions /\ seen[h].content = versions[target[h]].content
    BY <1>5 DEF IInv, SaveApproved, StaleReadsSound, ReadsSound
  <2> QED
    BY <1>5, <2>1 DEF SaveApproved, Put, WithStatus, contents
<1> QED
  BY <1>1, <1>2, <1>3, <1>4, <1>5, StoreChange

\* create_or_reuse and approve of packages, however interleaved, implement the
\* append-only log of contents and permanent approvals.
THEOREM ImplementsLog == Spec => PackageLog
<1>1. Init => Log!Init
  BY DEF Init, Log!Init
<1>2. IInv /\ [Next]_vars => [Log!Next]_<<contents, approvals>>
  BY StepRefines
<1> QED
  BY <1>1, <1>2, Invariance, PTL DEF Spec, PackageLog, Log!Spec, contents

\* What the log promises, of every system that implements it.
LEMMA LogPromises == PackageLog => []Log!Bound /\ Log!Permanent
<1> DEFINE Logged == contents \in Seq((Contents \ Blank))
           Stays ==
             /\ \A v \in DOMAIN contents : v \in DOMAIN contents' /\ contents'[v] = contents[v]
             /\ \A a \in DOMAIN approvals : a \in DOMAIN approvals' /\ approvals'[a] = approvals[a]
<1>1. Log!Init => Logged /\ Log!Bound
  BY DEF Log!Init, Log!Bound, contents
<1>2. ASSUME Logged, Log!Bound, [Log!Next]_<<contents, approvals>>
      PROVE  Logged' /\ Log!Bound' /\ Stays
  <2>1. CASE UNCHANGED <<contents, approvals>>
    BY <1>2, <2>1 DEF Log!Bound, contents
  <2>2. ASSUME NEW c \in (Contents \ Blank), Log!AppendVersion(c) PROVE Logged' /\ Log!Bound' /\ Stays
    <3>1. contents' = Append(contents, c) /\ approvals' = approvals
      BY <2>2 DEF Log!AppendVersion, contents
    <3>2. Logged' /\ Stays
      BY <1>2, <3>1
    <3>3. Log!Bound'
      BY <1>2, <3>1, <3>2 DEF Log!Bound, contents
    <3> QED
      BY <3>2, <3>3
  <2>3. ASSUME NEW a \in Approvals, Log!Approve(a) PROVE Logged' /\ Log!Bound' /\ Stays
    <3>1. /\ contents' = contents /\ a \notin DOMAIN approvals /\ Names[a] \in DOMAIN contents
          /\ approvals' = Log!Put(approvals, a, contents[Names[a]])
      BY <2>3 DEF Log!Approve, contents
    <3>2. Stays
      BY <3>1 DEF Log!Put
    <3>3. \A b \in DOMAIN approvals : Names[b] \in DOMAIN contents /\ approvals[b] = contents[Names[b]]
      BY <1>2 DEF Log!Bound, contents
    <3>4. \A b \in DOMAIN approvals' :
            Names[b] \in DOMAIN contents' /\ approvals'[b] = contents'[Names[b]]
      BY <3>1, <3>3 DEF Log!Put
    <3>5. Log!Bound'
      BY <3>4 DEF Log!Bound, contents
    <3> QED
      BY <1>2, <3>1, <3>2, <3>5
  <2> QED
    BY <1>2, <2>1, <2>2, <2>3 DEF Log!Next
<1>3. Log!Spec => [](Logged /\ Log!Bound) /\ [][Stays]_<<contents, approvals>>
  BY <1>1, <1>2, PTL DEF Log!Spec, contents
<1> QED
  BY <1>3, PTL DEF PackageLog, Log!Permanent, contents

\* What the package service promises of a decision: a version keeps its
\* content, an approval stays, and it binds the content of its version.
THEOREM ContentsStand == Spec => []Log!Bound /\ Log!Permanent
BY ImplementsLog, LogPromises

-----------------------------------------------------------------------------
(* Records are permanent, and what was decided takes effect *)

\* create_if_absent and save never remove a document, edit a content or reopen
\* a version that was superseded or approved.
THEOREM NothingIsRewritten == Spec => [][Grows]_vars
<1>1. IInv /\ [Next]_vars => [Grows]_vars
  BY NextGrows
<1> QED
  BY <1>1, Invariance, PTL DEF Spec

\* A record of approval whose version is still open has a caller that is about
\* to save the version as approved.
Pending ==
  \A a \in DOMAIN approvals :
    versions[Names[a]].status \notin Open
      \/ \E h \in Callers : pc[h] = "save_approved" /\ request[h] = a

\* The store call that a caller is about to make has its document.
NotBlocked == \A h \in Callers : pc[h] = "get_existing" => target[h] \in DOMAIN versions

\* Only CreateApproval adds a record, and its caller saves the version next.
LEMMA NextPending ==
  ASSUME IInv, Pending, [Next]_vars
  PROVE  Pending'
<1> SUFFICES ASSUME NEW a \in DOMAIN approvals', versions'[Names[a]].status \in Open
             PROVE  \E h \in Callers : pc'[h] = "save_approved" /\ request'[h] = a
  BY DEF Pending
<1> USE DEF IInv, TypeOK, Goto
<1>1. CASE a \notin DOMAIN approvals
  <2>1. PICK h \in Callers : CreateApproval(h)
    BY <1>1, StoreChange DEF store, Supersede, Create, SaveApproved
  <2>2. a = request[h] /\ pc'[h] = "save_approved" /\ request' = request
    BY <1>1, <2>1 DEF CreateApproval, Put
  <2> QED
    BY <2>2
<1>2. CASE a \in DOMAIN approvals
  <2>1. versions[Names[a]].status \in Open
    BY <1>2, NextGrows DEF Grows, ApprovalsBind
  <2>2. PICK h \in Callers : pc[h] = "save_approved" /\ request[h] = a
    BY <1>2, <2>1 DEF Pending
  <2>3. ~SaveApproved(h)
    <3>1. target[h] = Names[a]
      BY <2>2 DEF StaleReadsSound, ReadsSound
    <3> QED
      BY <3>1 DEF SaveApproved, Put, WithStatus, Open
  <2>4. pc'[h] = pc[h] /\ request'[h] = request[h]
    BY <2>2, <2>3 DEF Next, Step, BeginCreate, BeginApprove, Begin, ListVersions, Supersede,
       Create, GetExisting, Get, GetApproval, CreateApproval, SaveApproved, Results, WithPackage, vars
  <2> QED
    BY <2>2, <2>4
<1> QED
  BY <1>1, <1>2

\* A caller that found its version number taken finds the package there.
LEMMA NextNotBlocked ==
  ASSUME IInv, NotBlocked, [Next]_vars
  PROVE  NotBlocked'
<1> SUFFICES ASSUME NEW h \in Callers, pc'[h] = "get_existing" PROVE target'[h] \in DOMAIN versions'
  BY DEF NotBlocked
<1>1. DOMAIN versions \subseteq DOMAIN versions'
  BY NextGrows DEF Grows
<1> USE DEF IInv, TypeOK, Goto, Read
<1>2. pc[h] = "get_existing" \/ Create(h)
  BY DEF Next, Step, BeginCreate, BeginApprove, Begin, ListVersions, Supersede,
     Create, GetExisting, Get, GetApproval, CreateApproval, SaveApproved, vars
<1>3. CASE Create(h)
  BY <1>3 DEF Create
<1>4. CASE pc[h] = "get_existing"
  <2>1. target'[h] = target[h]
    BY <1>4 DEF Next, Step, BeginCreate, BeginApprove, Begin, ListVersions, Supersede,
       Create, GetExisting, Get, GetApproval, CreateApproval, SaveApproved, vars, Results, WithPackage
  <2> QED
    BY <1>1, <1>4, <2>1 DEF NotBlocked
<1> QED
  BY <1>2, <1>3, <1>4

\* What ApprovalTakesEffect rests on: a recorded approval is in effect or in
\* the hands of a caller whose next call of the store puts it into effect, and
\* (NothingIsRewritten) it stays in effect.
THEOREM ApprovalsArePending == Spec => []Pending
<1>1. Init => Pending
  BY DEF Init, Pending
<1>2. IInv /\ Pending /\ [Next]_vars => Pending'
  BY NextPending
<1> QED
  BY <1>1, <1>2, Invariance, PTL DEF Spec

\* How many calls of the store a caller has before it.
CallsLeft(label) ==
  CASE label \in {"list_versions", "get"}         -> 4
    [] label \in {"supersede", "get_approval"}    -> 3
    [] label \in {"create", "create_approval"}    -> 2
    [] OTHER                                      -> 1

\* A caller has its result after at most four calls of the store, whatever the
\* others do in between: there is no loop, and nobody undoes its progress.
CallsEnd ==
  [][\A h \in Callers :
       pc[h] \in Working =>
         IF Step(h) THEN pc'[h] \in Results \/ CallsLeft(pc'[h]) < CallsLeft(pc[h])
         ELSE pc'[h] = pc[h] /\ request'[h] = request[h] /\ target'[h] = target[h]]_vars

\* The calls that each label leaves.
LEMMA CallsLeftOf ==
  /\ CallsLeft("list_versions") = 4 /\ CallsLeft("get") = 4
  /\ CallsLeft("supersede") = 3 /\ CallsLeft("get_approval") = 3
  /\ CallsLeft("create") = 2 /\ CallsLeft("create_approval") = 2
  /\ CallsLeft("get_existing") = 1 /\ CallsLeft("save_approved") = 1
BY DEF CallsLeft

\* create_or_reuse and approve are wait-free: every call ends, and no step of
\* it lacks the document that it is about.
THEOREM CallsAreBounded == Spec => []NotBlocked /\ CallsEnd
<1> DEFINE Ends ==
      \A h \in Callers :
        pc[h] \in Working =>
          IF Step(h) THEN pc'[h] \in Results \/ CallsLeft(pc'[h]) < CallsLeft(pc[h])
          ELSE pc'[h] = pc[h] /\ request'[h] = request[h] /\ target'[h] = target[h]
<1>1. Init => NotBlocked
  BY DEF Init, NotBlocked
<1>2. IInv /\ NotBlocked /\ [Next]_vars => NotBlocked'
  BY NextNotBlocked
<1>3. ASSUME IInv, [Next]_vars PROVE [Ends]_vars
  <2> USE <1>3 DEF IInv, TypeOK, Goto
  <2>1. ASSUME NEW h \in Callers, pc[h] \in Working, Step(h)
        PROVE  pc'[h] \in Results \/ CallsLeft(pc'[h]) < CallsLeft(pc[h])
    <3>1. CASE ListVersions(h) \/ Get(h)
      <4>1. /\ pc[h] \in {"list_versions", "get"}
            /\ pc'[h] \in Results \cup {"supersede", "create", "get_approval"}
        BY <3>1 DEF ListVersions, Get, Results, WithPackage
      <4> QED
        BY <4>1, CallsLeftOf
    <3>2. CASE Supersede(h) \/ GetApproval(h)
      <4>1. /\ pc[h] \in {"supersede", "get_approval"}
            /\ pc'[h] \in Results \cup {"create", "create_approval"}
        BY <3>2 DEF Supersede, GetApproval, Results, WithPackage
      <4> QED
        BY <4>1, CallsLeftOf
    <3>3. CASE Create(h) \/ CreateApproval(h)
      <4>1. /\ pc[h] \in {"create", "create_approval"}
            /\ pc'[h] \in Results \cup {"get_existing", "save_approved"}
        BY <3>3 DEF Create, CreateApproval, Results, WithPackage
      <4> QED
        BY <4>1, CallsLeftOf
    <3>4. CASE GetExisting(h) \/ SaveApproved(h)
      BY <3>4 DEF GetExisting, SaveApproved, Results, WithPackage
    <3> QED
      BY <2>1, <3>1, <3>2, <3>3, <3>4 DEF Step
  <2>2. ASSUME NEW h \in Callers, pc[h] \in Working, ~Step(h)
        PROVE  pc'[h] = pc[h] /\ request'[h] = request[h] /\ target'[h] = target[h]
    <3>1. pc[h] \notin Results
      BY <2>2 DEF Working, Results, WithPackage
    <3>2. CASE UNCHANGED vars
      BY <3>2 DEF vars
    <3>3. ASSUME NEW g \in Callers, g # h,
                 Step(g) \/ (\E c \in Contents : BeginCreate(g, c)) \/ (\E a \in Approvals : BeginApprove(g, a))
          PROVE  pc'[h] = pc[h] /\ request'[h] = request[h] /\ target'[h] = target[h]
      BY <3>3 DEF Step, BeginCreate, BeginApprove, Begin, Read, ListVersions, Supersede, Create,
         GetExisting, Get, GetApproval, CreateApproval, SaveApproved
    <3>4. ~(\E c \in Contents : BeginCreate(h, c)) /\ ~(\E a \in Approvals : BeginApprove(h, a))
      BY <3>1 DEF BeginCreate, BeginApprove, Begin
    <3> QED
      BY <2>2, <3>2, <3>3, <3>4 DEF Next
  <2> QED
    BY <2>1, <2>2
<1> HIDE DEF Ends
<1>4. Spec => [][Ends]_vars
  BY <1>3, Invariance, PTL DEF Spec
<1>5. Spec => []NotBlocked
  BY <1>1, <1>2, Invariance, PTL DEF Spec
<1>6. Spec => CallsEnd
  BY <1>4, PTL DEF CallsEnd, Ends
<1> QED
  BY <1>5, <1>6
=============================================================================
