-------------------------- MODULE CommandTurn_proofs --------------------------
(***************************************************************************)
(* Proofs about CommandTurn for every set of threads, people, texts and    *)
(* sessions, and any number of comments, prompts and deliveries.           *)
(***************************************************************************)
EXTENDS CommandTurn, TLAPS, WellFoundedInduction

\* What a delivery says of the session stays true.
DeliveryOK(d) ==
  /\ d.seen <= Len(comments) /\ d.at <= now
  /\ d.rooted => root # NoRoot
  /\ d.action = "prompted" =>
       /\ d.cause \in DOMAIN prompts /\ prompts[d.cause].at <= d.at
       /\ prompts[d.cause].kind = "prompt" \/ d.inline

LinearOK ==
  /\ \A i \in DOMAIN prompts :
       prompts[i].at <= now /\ (prompts[i].kind = "prompt" => prompts[i].author # App)
  /\ \A n \in DOMAIN sent : DeliveryOK(sent[n])

Queried(d) == d.action = "prompted" /\ ~d.inline /\ ~d.rooted

\* What a thread knows of its delivery at each of its steps.
ThreadOK(t) ==
  /\ pc[t] # "idle" => dlv[t] \in DOMAIN sent /\ Payload(t).at < now
  /\ pc[t] = "fetch_comments" =>
       Payload(t).action = "created" /\ root # NoRoot /\ Filler(root.text)
  /\ pc[t] = "fetch_activities" =>
       \/ /\ Payload(t).action = "created" /\ root # NoRoot /\ Filler(root.text)
          /\ LatestHuman(Payload(t).seen) = 0
       \/ Queried(Payload(t))
  /\ live[t] # 0 => Human(comments[live[t]])

\* The part of a turn that its key depends on.
Ident(u) == <<u.from, u.as, u.id, u.text, u.stop, u.replied>>

\* The turn of a steady delivery: it depends on nothing that is written later.
Expected(d) ==
  LET c == LatestHuman(d.seen)
      p == CHOOSE i \in Latest(d) : TRUE
      a == prompts[d.cause]
  IN  IF d.action = "created"
      THEN IF root = NoRoot THEN Ident(DescriptionTurn(d))
           ELSE IF ~Filler(root.text) THEN Ident(RootTurn(d))
           ELSE Ident(CreatedTurn(d, "comment", c, comments[c], Unknown))
      ELSE IF d.inline /\ a.kind = "prompt" THEN Ident(PromptedTurn(d, "prompt", d.cause, a))
      ELSE IF d.rooted THEN Ident(RootTurn(d))
      ELSE IF d.inline \/ (Filler(prompts[p].text) /\ c # 0)
           THEN Ident(PromptedTurn(d, "comment", c, comments[c]))
      ELSE Ident(PromptedTurn(d, "prompt", p, prompts[p]))

\* A delivery that was resolved had something to be resolved to.
Definite(d) ==
  /\ Queried(d) => Latest(d) # {}
  /\ d.action = "prompted" /\ d.inline /\ ~d.rooted /\ prompts[d.cause].kind # "prompt" =>
       LatestHuman(d.seen) # 0

\* A turn from a comment or an activity is that of its source.
Sourced(u) ==
  /\ u.from = "comment" => u.id \in DOMAIN comments
  /\ u.from = "prompt" => u.id \in DOMAIN prompts
  /\ u.from \in {"comment", "prompt"} =>
       /\ u.text = Source(u).text /\ Source(u).author # App
       /\ Source(u).author # Unknown => u.actor = Source(u).author

\* The turn that a delivery may be resolved to.
Right(u, d) == Sourced(u) /\ (Steady(d) => Definite(d) /\ Ident(u) = Expected(d))

ResolvedOK(n) == \A u \in resolved[n] : sent[n].at < now /\ Right(u, sent[n])

OutcomesOK == \A k \in DOMAIN outcomes : Key(outcomes[k]) = k

IInv ==
  /\ TypeOK /\ LinearOK /\ OutcomesOK
  /\ \A t \in Threads : ThreadOK(t)
  /\ \A n \in DOMAIN sent : ResolvedOK(n)

-----------------------------------------------------------------------------
(* Lemmas *)

\* What is written stays, and has the time at which it was written.
Grows ==
  /\ root' = root /\ description' = description /\ now <= now'
  /\ Len(comments) <= Len(comments')
  /\ \A i \in 1..Len(comments) : comments'[i] = comments[i]
  /\ Len(prompts) <= Len(prompts')
  /\ \A i \in 1..Len(prompts) : prompts'[i] = prompts[i]
  /\ \A i \in 1..Len(prompts') : i \notin 1..Len(prompts) => prompts'[i].at = now
  /\ Len(sent) <= Len(sent')
  /\ \A n \in 1..Len(sent) : sent'[n] = sent[n]

\* The last comment of a person among the first n is the only one that no
\* other one follows.
LatestHumanIs(n) ==
  /\ LatestHuman(n) \in 0..n
  /\ LatestHuman(n) # 0 => Human(comments[LatestHuman(n)])
  /\ \A i \in 1..n : Human(comments[i]) => i <= LatestHuman(n)

LatestHumanIsLast == \A n \in Nat : LatestHumanIs(n)

LEMMA LatestHumanRight == LatestHumanIsLast
<1> SUFFICES ASSUME NEW n \in Nat PROVE LatestHumanIs(n)
  BY DEF LatestHumanIsLast
<1> USE DEF LatestHumanIs
<1>1. CASE ~\E i \in 1..n : Human(comments[i])
  BY <1>1 DEF LatestHuman
<1>2. CASE \E i \in 1..n : Human(comments[i])
  <2> DEFINE Gaps == {k \in Nat : k < n /\ Human(comments[n - k])}
  <2>1. Gaps # {}
    <3>1. PICK i \in 1..n : Human(comments[i])
      BY <1>2
    <3>2. n - i \in Nat /\ n - i < n /\ n - (n - i) = i
      OBVIOUS
    <3> QED BY <3>1, <3>2
  <2>2. PICK k \in Gaps : \A j \in Gaps : ~(<<j, k>> \in OpToRel(<, Nat))
    <3>1. Gaps \subseteq Nat
      OBVIOUS
    <3> HIDE DEF Gaps
    <3> QED BY <2>1, <3>1, NatLessThanWellFounded, WFMin
  <2>3. \A j \in Gaps : ~(j < k)
    BY <2>2 DEF OpToRel
  <2>4. \E i \in 1..n : Human(comments[i]) /\ \A j \in i+1..n : ~Human(comments[j])
    <3>1. n - k \in 1..n /\ Human(comments[n - k])
      OBVIOUS
    <3>2. ASSUME NEW j \in (n - k) + 1..n, Human(comments[j]) PROVE FALSE
      <4>1. n - j \in Nat /\ n - j < n /\ n - (n - j) = j /\ n - j < k
        OBVIOUS
      <4> QED BY <2>3, <3>2, <4>1
    <3> QED BY <3>1, <3>2
  <2> HIDE DEF Gaps
  <2>5. LatestHuman(n) =
          CHOOSE i \in 1..n : Human(comments[i]) /\ \A j \in i+1..n : ~Human(comments[j])
    BY <1>2 DEF LatestHuman
  <2>6. /\ LatestHuman(n) \in 1..n /\ Human(comments[LatestHuman(n)])
        /\ \A j \in LatestHuman(n)+1..n : ~Human(comments[j])
    BY <2>4, <2>5
  <2>7. ASSUME NEW i \in 1..n, Human(comments[i]) PROVE i <= LatestHuman(n)
    <3>1. i \notin LatestHuman(n)+1..n
      BY <2>6, <2>7
    <3> QED BY <2>6, <3>1
  <2> QED BY <2>6, <2>7
<1> QED BY <1>1, <1>2

\* Comments that are written later leave it as it is.
LEMMA LatestHumanStays ==
  ASSUME Grows, Len(comments) \in Nat, NEW n \in Nat, n <= Len(comments)
  PROVE  LatestHuman(n)' = LatestHuman(n)
<1>1. \A i \in 1..n : comments'[i] = comments[i]
  BY DEF Grows
<1>2. CASE ~\E i \in 1..n : Human(comments[i])
  BY <1>1, <1>2 DEF LatestHuman
<1>3. CASE \E i \in 1..n : Human(comments[i])
  <2>1. LatestHumanIs(n)
    BY LatestHumanRight DEF LatestHumanIsLast
  <2>2. LatestHumanIsLast'
    BY LatestHumanRight, PTL
  <2>3. LatestHumanIs(n)'
    BY <2>2 DEF LatestHumanIsLast
  <2>4. LatestHuman(n)' \in 1..n /\ Human(comments'[LatestHuman(n)'])
    BY <1>1, <1>3, <2>3 DEF LatestHumanIs
  <2>5. LatestHuman(n) \in 1..n /\ Human(comments'[LatestHuman(n)])
    BY <1>1, <1>3, <2>1 DEF LatestHumanIs
  <2> QED BY <1>1, <2>1, <2>3, <2>4, <2>5 DEF LatestHumanIs
<1> QED BY <1>2, <1>3

\* The types in the form that the steps below need.
LEMMA Types ==
  ASSUME TypeOK
  PROVE  /\ root = NoRoot \/ root \in [text : SUBSET Markers, author : People \cup {App, Unknown}]
         /\ description \in (SUBSET Markers) \cup {NoText}
         /\ now \in Nat /\ Len(comments) \in Nat /\ Len(prompts) \in Nat /\ Len(sent) \in Nat
         /\ DOMAIN comments = 1..Len(comments) /\ DOMAIN prompts = 1..Len(prompts)
         /\ DOMAIN sent = 1..Len(sent) /\ DOMAIN resolved = DOMAIN sent
         /\ \A i \in DOMAIN comments :
              comments[i] \in [text : SUBSET Markers, author : People \cup {App, Unknown}]
         /\ \A i \in DOMAIN prompts :
              prompts[i] \in [text : SUBSET Markers, author : People \cup {App, Unknown},
                              kind : {"prompt", "response"}, at : Nat]
         /\ \A n \in DOMAIN sent :
              sent[n] \in [action : {"created", "prompted"}, cause : Nat, inline : BOOLEAN,
                           rooted : BOOLEAN, seen : Nat, at : Nat]
         /\ \A n \in DOMAIN sent : resolved[n] \in SUBSET Turns
<1>1. PICK s \in Sessions : root = s.comment /\ description = s.description
  BY DEF TypeOK
<1>2. s \in [comment : [text : SUBSET Markers, author : People \cup {App, Unknown}]
                         \cup {NoRoot},
             description : (SUBSET Markers) \cup {NoText}]
  BY ConstantsAssumption
<1>3. /\ root = NoRoot \/ root \in [text : SUBSET Markers, author : People \cup {App, Unknown}]
      /\ description \in (SUBSET Markers) \cup {NoText}
  BY <1>1, <1>2
<1>4. /\ comments \in Seq([text : SUBSET Markers, author : People \cup {App, Unknown}])
      /\ prompts \in Seq([text : SUBSET Markers, author : People \cup {App, Unknown},
                          kind : {"prompt", "response"}, at : Nat])
      /\ sent \in Seq([action : {"created", "prompted"}, cause : Nat, inline : BOOLEAN,
                       rooted : BOOLEAN, seen : Nat, at : Nat])
      /\ resolved \in Seq(SUBSET Turns) /\ Len(resolved) = Len(sent) /\ now \in Nat
  BY DEF TypeOK
<1>5. \A S : \A q \in Seq(S) : Len(q) \in Nat /\ DOMAIN q = 1..Len(q) /\ \A i \in DOMAIN q : q[i] \in S
  OBVIOUS
<1>6. /\ Len(comments) \in Nat /\ DOMAIN comments = 1..Len(comments)
      /\ \A i \in DOMAIN comments :
           comments[i] \in [text : SUBSET Markers, author : People \cup {App, Unknown}]
  BY <1>4, <1>5
<1>7. /\ Len(prompts) \in Nat /\ DOMAIN prompts = 1..Len(prompts)
      /\ \A i \in DOMAIN prompts :
           prompts[i] \in [text : SUBSET Markers, author : People \cup {App, Unknown},
                           kind : {"prompt", "response"}, at : Nat]
  BY <1>4, <1>5
<1>8. /\ Len(sent) \in Nat /\ DOMAIN sent = 1..Len(sent) /\ DOMAIN resolved = DOMAIN sent
      /\ \A n \in DOMAIN sent :
           sent[n] \in [action : {"created", "prompted"}, cause : Nat, inline : BOOLEAN,
                        rooted : BOOLEAN, seen : Nat, at : Nat]
      /\ \A n \in DOMAIN sent : resolved[n] \in SUBSET Turns
  BY <1>4, <1>5
<1> QED BY <1>3, <1>4, <1>6, <1>7, <1>8

\* Every step of the system only adds to what Linear has.
LEMMA NextGrows ==
  ASSUME TypeOK, [Next]_vars
  PROVE  Grows
<1> USE Types DEF Grows
<1>1. ASSUME UNCHANGED linear PROVE Grows
  BY <1>1 DEF linear
<1>2. ASSUME Tick PROVE Grows
  BY <1>2 DEF Tick, Threaded
<1>3. ASSUME NEW e, Comment(e) PROVE Grows
  BY <1>3 DEF Comment, Threaded
<1>4. ASSUME NEW e, NEW k, Activity(e, k) PROVE Grows
  BY <1>4 DEF Activity, Threaded
<1>5. ASSUME NEW a, NEW i, NEW n, NEW r, Deliver(a, i, n, r) PROVE Grows
  BY <1>5 DEF Deliver, Threaded
<1>6. ASSUME UNCHANGED vars PROVE Grows
  BY <1>1, <1>6 DEF vars, linear
<1>7. ASSUME NEW t \in Threads,
             \/ \E n \in DOMAIN sent : Take(t, n)
             \/ ResolveCreated(t) \/ ResolvePrompted(t) \/ FetchComments(t) \/ FetchActivities(t)
             \/ Lookup(t) \/ Store(t) \/ Fail(t)
      PROVE Grows
  <2>1. UNCHANGED linear
    BY <1>7 DEF Take, ResolveCreated, ResolvePrompted, FetchComments, FetchActivities, Lookup,
                Store, Fail
  <2> HIDE DEF Grows
  <2> QED BY <1>1, <2>1
<1> HIDE DEF Grows
<1> QED BY <1>2, <1>3, <1>4, <1>5, <1>6, <1>7 DEF Next, DeliverCreated, DeliverPrompted

Deliveries ==
  [action : {"created", "prompted"}, cause : Nat, inline : BOOLEAN, rooted : BOOLEAN,
   seen : Nat, at : Nat]

\* Once the clock has passed a delivery, the prompts that were there when it
\* was sent are settled.
LEMMA LatestStays ==
  ASSUME TypeOK, TypeOK', Grows, NEW d \in Deliveries, DeliveryOK(d), d.at < now, Queried(d)
  PROVE  /\ Latest(d)' = Latest(d)
         /\ Latest(d) \subseteq {i \in DOMAIN prompts : prompts[i].at <= d.at}
<1> DEFINE Eligible == {i \in Candidates : prompts[i].at <= d.at}
<1>1. d.at \in Nat
  BY DEF Deliveries
<1>2. d.cause \in Eligible
  BY <1>1, Types DEF DeliveryOK, Queried, Candidates
<1>3. Eligible' = Eligible
  <2>1. DOMAIN prompts' = 1..Len(prompts') /\ Len(prompts') \in Nat
    BY DEF TypeOK
  <2>2. ASSUME NEW i \in Eligible PROVE i \in Eligible'
    BY <1>1, <2>1, <2>2, Types DEF Candidates, Grows
  <2>3. ASSUME NEW i \in Eligible' PROVE i \in Eligible
    <3>1. i \in 1..Len(prompts') /\ prompts'[i].at <= d.at /\ prompts'[i].kind = "prompt"
      BY <1>1, <2>1, <2>3 DEF Candidates
    <3>2. i \in 1..Len(prompts)
      BY <1>1, <3>1, Types DEF Grows
    <3> QED BY <3>1, <3>2, Types DEF Candidates, Grows
  <2> HIDE DEF Eligible
  <2> QED BY <2>2, <2>3
<1>4. Pool(d) = Eligible
  BY <1>2 DEF Pool
<1>5. Pool(d)' = Eligible
  <2>1. Pool(d)' = IF Eligible' # {} THEN Eligible' ELSE Candidates'
    BY DEF Pool
  <2> HIDE DEF Eligible
  <2> QED BY <1>2, <1>3, <2>1
<1>6. \A i \in Eligible : i \in 1..Len(prompts) /\ prompts'[i] = prompts[i]
  BY Types DEF Candidates, Grows
<1>7. Eligible \subseteq {i \in DOMAIN prompts : prompts[i].at <= d.at}
  BY DEF Candidates
<1> HIDE DEF Eligible
<1> QED BY <1>4, <1>5, <1>6, <1>7 DEF Latest

\* A turn that was right stays right, whatever is written later.
LEMMA RightStays ==
  ASSUME TypeOK, TypeOK', Grows, NEW d \in Deliveries, DeliveryOK(d), d.at < now,
         NEW u \in Turns, Right(u, d)
  PROVE  Right(u, d)'
<1> DEFINE c == LatestHuman(d.seen)
<1>1. /\ root' = root /\ description' = description
      /\ \A i \in DOMAIN comments : i \in DOMAIN comments' /\ comments'[i] = comments[i]
      /\ \A i \in DOMAIN prompts : i \in DOMAIN prompts' /\ prompts'[i] = prompts[i]
  <2>1. /\ DOMAIN comments' = 1..Len(comments') /\ Len(comments') \in Nat
        /\ DOMAIN prompts' = 1..Len(prompts') /\ Len(prompts') \in Nat
    BY DEF TypeOK
  <2> QED BY <2>1, Types DEF Grows
<1>2. d.seen \in Nat /\ d.seen <= Len(comments) /\ Len(comments) \in Nat
  BY Types DEF DeliveryOK, Deliveries
<1>3. c' = c /\ c \in 0..d.seen /\ (c # 0 => c \in DOMAIN comments)
  <2>1. c' = c
    BY <1>2, LatestHumanStays
  <2>2. LatestHumanIs(d.seen)
    BY <1>2, LatestHumanRight DEF LatestHumanIsLast
  <2> QED BY <1>2, <2>1, <2>2, Types DEF LatestHumanIs
<1>4. Replied(d)' = Replied(d)
  <2>1. \A i \in 1..d.seen : comments'[i] = comments[i]
    BY <1>1, <1>2, Types
  <2> QED BY <2>1 DEF Replied
<1>5. Sourced(u)'
  BY <1>1 DEF Right, Sourced, Source
<1>6. Queried(d) => Latest(d)' = Latest(d) /\ Latest(d) \subseteq DOMAIN prompts
  BY LatestStays
<1>7. d.action = "prompted" => d.cause \in DOMAIN prompts /\ prompts'[d.cause] = prompts[d.cause]
  BY <1>1 DEF DeliveryOK
<1> HIDE DEF c
<1>8. ASSUME Steady(d)' PROVE Definite(d)' /\ Ident(u) = Expected(d)'
  <2>1. Steady(d)
    BY <1>1, <1>3, <1>8 DEF Steady, c
  <2>2. Definite(d) /\ Ident(u) = Expected(d)
    BY <2>1 DEF Right
  <2>3. Definite(d)'
    BY <1>3, <1>6, <1>7, <2>2 DEF Definite, c, Queried
  <2>4. Ident(RootTurn(d))' = Ident(RootTurn(d))
    BY <1>1, <1>4 DEF Ident, RootTurn
  <2>5. Ident(DescriptionTurn(d))' = Ident(DescriptionTurn(d))
    BY <1>1, <1>4 DEF Ident, DescriptionTurn
  <2>6. c # 0 => /\ Ident(CreatedTurn(d, "comment", c, comments[c], Unknown))'
                      = Ident(CreatedTurn(d, "comment", c, comments[c], Unknown))
                 /\ Ident(PromptedTurn(d, "comment", c, comments[c]))'
                      = Ident(PromptedTurn(d, "comment", c, comments[c]))
    BY <1>1, <1>3, <1>4 DEF Ident, CreatedTurn, PromptedTurn
  <2>7. \A i \in DOMAIN prompts :
          Ident(PromptedTurn(d, "prompt", i, prompts[i]))' = Ident(PromptedTurn(d, "prompt", i, prompts[i]))
    BY <1>1, <1>4 DEF Ident, PromptedTurn
  <2>8. CASE d.action = "created"
    BY <1>1, <1>3, <2>1, <2>2, <2>3, <2>4, <2>5, <2>6, <2>8 DEF Expected, c, Steady
  <2>9. CASE d.action = "prompted" /\ ~Queried(d)
    <3>1. c # 0 \/ d.rooted \/ (d.inline /\ prompts[d.cause].kind = "prompt")
      BY <2>2, <2>9 DEF Definite, Queried, c
    <3>2. d.inline \/ d.rooted
      BY <2>9 DEF Queried
    <3> QED BY <1>3, <1>7, <2>2, <2>3, <2>4, <2>6, <2>7, <2>9, <3>1, <3>2 DEF Expected, c
  <2>10. CASE Queried(d)
    <3> DEFINE p == CHOOSE i \in Latest(d) : TRUE
    <3>1. p \in DOMAIN prompts /\ p' = p
      BY <1>6, <2>2, <2>10 DEF Definite
    <3> HIDE DEF p
    <3>2. Expected(d) = IF Filler(prompts[p].text) /\ c # 0
                        THEN Ident(PromptedTurn(d, "comment", c, comments[c]))
                        ELSE Ident(PromptedTurn(d, "prompt", p, prompts[p]))
      BY <2>10 DEF Expected, Queried, c, p
    <3>3. Expected(d)' = (IF Filler(prompts[p].text) /\ c # 0
                          THEN Ident(PromptedTurn(d, "comment", c, comments[c]))
                          ELSE Ident(PromptedTurn(d, "prompt", p, prompts[p])))'
      BY <2>10 DEF Expected, Queried, c, p
    <3>4. Ident(PromptedTurn(d, "prompt", p, prompts[p]))' = Ident(PromptedTurn(d, "prompt", p, prompts[p]))
      BY <1>1, <1>4, <3>1 DEF Ident, PromptedTurn
    <3>5. (Filler(prompts[p].text) /\ c # 0)' <=> Filler(prompts[p].text) /\ c # 0
      BY <1>1, <1>3, <3>1 DEF Filler
    <3> QED BY <2>2, <2>3, <2>6, <3>2, <3>3, <3>4, <3>5
  <2>11. d.action \in {"created", "prompted"}
    BY DEF Deliveries
  <2> QED BY <2>8, <2>9, <2>10, <2>11
<1> QED BY <1>5, <1>8 DEF Right, Ident

\* The fields of a turn have their types.
LEMMA AuthorTypes ==
  ASSUME TypeOK, NEW d
  PROVE  /\ RootAuthor(d) \in People \cup {App, Unknown}
         /\ Replied(d) \in BOOLEAN
         /\ \A a \in People \cup {App, Unknown} : \A b \in People \cup {App, Unknown} :
              Or(a, b) \in People \cup {App, Unknown} /\ Or(a, App) \in People \cup {App}
         /\ \A a \in People \cup {App, Unknown} : \A b \in People \cup {App} :
              Or(a, b) \in People \cup {App}
<1>1. RootAuthor(d) \in People \cup {App, Unknown}
  BY Types DEF RootAuthor, NoRoot
<1> QED BY <1>1 DEF Or, Replied

LEMMA RootTypes ==
  ASSUME TypeOK, NEW d
  PROVE  /\ root # NoRoot => RootTurn(d) \in Turns
         /\ DescriptionTurn(d) \in Turns
<1>1. ASSUME root # NoRoot PROVE RootTurn(d) \in Turns
  BY <1>1, AuthorTypes, Types DEF RootTurn, Turns
<1>2. DescriptionTurn(d) \in Turns
  BY AuthorTypes, Types DEF DescriptionTurn, Turns
<1> QED BY <1>1, <1>2

LEMMA ItemTypes ==
  ASSUME TypeOK, NEW d, NEW from \in {"comment", "prompt"}, NEW id \in Nat,
         NEW item, item.text \in SUBSET Markers, item.author \in People \cup {App, Unknown}
  PROVE  /\ PromptedTurn(d, from, id, item) \in Turns
         /\ \A other \in People \cup {App, Unknown} :
              root # NoRoot => CreatedTurn(d, from, id, item, other) \in Turns
<1>1. PromptedTurn(d, from, id, item) \in Turns
  BY AuthorTypes DEF PromptedTurn, Turns
<1>2. ASSUME NEW other \in People \cup {App, Unknown}, root # NoRoot
      PROVE CreatedTurn(d, from, id, item, other) \in Turns
  BY <1>2, AuthorTypes DEF CreatedTurn, Turns
<1> QED BY <1>1, <1>2

-----------------------------------------------------------------------------
(* The steps *)

\* A step of Linear: nothing that threads know becomes false.
LEMMA LinearStep ==
  ASSUME IInv, TypeOK', Grows, Threaded, LinearOK',
         \A n \in DOMAIN sent : resolved'[n] = resolved[n],
         \A n \in DOMAIN sent' : n \notin DOMAIN sent => resolved'[n] = {}
  PROVE  IInv'
<1> USE DEF IInv
<1>0. /\ now \in Nat /\ now' \in Nat /\ DOMAIN sent' = 1..Len(sent') /\ Len(sent') \in Nat
      /\ \A t \in Threads : live[t] \in 0..Len(comments)
  BY DEF TypeOK
<1>1. ASSUME NEW n \in DOMAIN sent' PROVE ResolvedOK(n)'
  <2>1. CASE n \notin DOMAIN sent
    BY <1>1, <2>1 DEF ResolvedOK
  <2>2. CASE n \in DOMAIN sent
    <3>1. PICK d : d = sent[n]
      OBVIOUS
    <3>2. sent'[n] = d /\ d \in Deliveries /\ DeliveryOK(d) /\ resolved[n] \subseteq Turns
          /\ d.at \in Nat /\ now <= now' /\ now' \in Nat /\ now \in Nat
      BY <2>2, <3>1, Types DEF Grows, LinearOK, Deliveries, TypeOK
    <3>3. ASSUME NEW u \in resolved[n] PROVE d.at < now' /\ Right(u, d)'
      <4>1. d.at < now /\ Right(u, d)
        BY <2>2, <3>1, <3>3 DEF ResolvedOK
      <4> QED BY <3>2, <3>3, <4>1, RightStays
    <3> QED BY <2>2, <3>2, <3>3 DEF ResolvedOK
  <2> QED BY <2>1, <2>2
<1>2. ASSUME NEW t \in Threads PROVE ThreadOK(t)'
  <2>1. pc' = pc /\ dlv' = dlv /\ live' = live /\ root' = root
    BY DEF Threaded, Grows
  <2>2. CASE pc[t] # "idle"
    <3>1. PICK d : d = sent[dlv[t]]
      OBVIOUS
    <3>2. dlv[t] \in DOMAIN sent /\ d.at < now
      BY <2>2, <3>1 DEF ThreadOK, Payload
    <3>3. d \in Deliveries /\ DeliveryOK(d) /\ Payload(t) = d /\ Payload(t)' = d
          /\ dlv[t] \in DOMAIN sent'
      BY <1>0, <2>1, <3>1, <3>2, Types DEF Payload, Deliveries, LinearOK, Grows
    <3>4. d.seen \in Nat /\ d.seen <= Len(comments) /\ d.at \in Nat
      BY <3>3 DEF DeliveryOK, Deliveries
    <3>5. LatestHuman(d.seen)' = LatestHuman(d.seen)
      BY <3>4, Types, LatestHumanStays
    <3>6. d.at < now'
      BY <1>0, <3>2, <3>4 DEF Grows
    <3>7. live[t] # 0 => Human(comments'[live[t]])
      BY <1>0, Types DEF ThreadOK, Grows
    <3> QED BY <2>1, <3>2, <3>3, <3>5, <3>6, <3>7 DEF ThreadOK, Queried
  <2>3. CASE pc[t] = "idle"
    <3>1. live[t] # 0 => Human(comments'[live[t]])
      BY <1>0, Types DEF ThreadOK, Grows
    <3> QED BY <2>1, <2>3, <3>1 DEF ThreadOK
  <2> QED BY <2>2, <2>3
<1>3. OutcomesOK'
  BY DEF OutcomesOK, Threaded
<1> QED BY <1>1, <1>2, <1>3

\* A turn is right or not by what Linear has.
LEMMA RightByLinear ==
  ASSUME UNCHANGED <<root, description, now, comments, prompts, sent>>, NEW n, NEW u
  PROVE  Right(u, sent[n])' <=> Right(u, sent[n])
<1>1. PICK d : d = sent[n]
  OBVIOUS
<1>2. sent'[n] = d
  BY <1>1
<1>3. Sourced(u)' <=> Sourced(u)
  BY DEF Sourced, Source
<1>4. LatestHuman(d.seen)' = LatestHuman(d.seen)
  BY DEF LatestHuman, Human
<1>5. Latest(d)' = Latest(d)
  <2>1. Candidates' = Candidates
    BY DEF Candidates
  <2>2. Pool(d)' = Pool(d)
    BY <2>1 DEF Pool
  <2> QED BY <2>2 DEF Latest
<1>6. Replied(d)' = Replied(d)
  BY DEF Replied
<1>7. (Steady(d)' <=> Steady(d)) /\ (Definite(d)' <=> Definite(d))
  BY <1>4, <1>5 DEF Steady, Definite, Queried
<1>8. /\ Ident(RootTurn(d))' = Ident(RootTurn(d))
      /\ Ident(DescriptionTurn(d))' = Ident(DescriptionTurn(d))
  BY <1>6 DEF Ident, RootTurn, DescriptionTurn
<1>9. Expected(d)' = Expected(d)
  <2> DEFINE c == LatestHuman(d.seen)
             p == CHOOSE i \in Latest(d) : TRUE
  <2>1. c' = c /\ p' = p
    BY <1>4, <1>5
  <2> HIDE DEF c, p
  <2>2. /\ Ident(CreatedTurn(d, "comment", c, comments[c], Unknown))'
             = Ident(CreatedTurn(d, "comment", c, comments[c], Unknown))
        /\ Ident(PromptedTurn(d, "comment", c, comments[c]))'
             = Ident(PromptedTurn(d, "comment", c, comments[c]))
    BY <1>6, <2>1 DEF Ident, CreatedTurn, PromptedTurn
  <2>3. /\ Ident(PromptedTurn(d, "prompt", p, prompts[p]))' = Ident(PromptedTurn(d, "prompt", p, prompts[p]))
        /\ Ident(PromptedTurn(d, "prompt", d.cause, prompts[d.cause]))'
             = Ident(PromptedTurn(d, "prompt", d.cause, prompts[d.cause]))
    BY <1>6, <2>1 DEF Ident, PromptedTurn
  <2> DEFINE E ==
       IF d.action = "created"
       THEN IF root = NoRoot THEN Ident(DescriptionTurn(d))
            ELSE IF ~Filler(root.text) THEN Ident(RootTurn(d))
            ELSE Ident(CreatedTurn(d, "comment", c, comments[c], Unknown))
       ELSE IF d.inline /\ prompts[d.cause].kind = "prompt"
            THEN Ident(PromptedTurn(d, "prompt", d.cause, prompts[d.cause]))
       ELSE IF d.rooted THEN Ident(RootTurn(d))
       ELSE IF d.inline \/ (Filler(prompts[p].text) /\ c # 0)
            THEN Ident(PromptedTurn(d, "comment", c, comments[c]))
       ELSE Ident(PromptedTurn(d, "prompt", p, prompts[p]))
  <2>4. Expected(d) = E /\ Expected(d)' = E'
    BY DEF Expected, c, p
  <2>5. E' = E
    BY <1>8, <2>1, <2>2, <2>3
  <2> QED BY <2>4, <2>5
<1> QED BY <1>1, <1>2, <1>3, <1>7, <1>9 DEF Right, Ident

\* A step of a thread that resolves nothing keeps the invariant if it leaves
\* the thread knowing what it has to know.
LEMMA ThreadStep ==
  ASSUME IInv, NEW t \in Threads, UNCHANGED <<linear, resolved>>, OutcomesOK',
         pc' \in [Threads -> {"idle"} \cup Working], dlv' \in [Threads -> 0..Len(sent)],
         live' \in [Threads -> 0..Len(comments)], turn' \in [Threads -> Turns],
         \A s \in Threads \ {t} : pc'[s] = pc[s] /\ dlv'[s] = dlv[s] /\ live'[s] = live[s],
         ThreadOK(t)'
  PROVE  IInv'
<1> USE DEF IInv
<1>1. UNCHANGED <<root, description, now, comments, prompts, sent, resolved>>
  BY DEF linear
<1>2. TypeOK'
  BY <1>1 DEF TypeOK
<1>3. LinearOK'
  BY <1>1 DEF LinearOK, DeliveryOK
<1>4. ASSUME NEW s \in Threads PROVE ThreadOK(s)'
  BY <1>1, ThreadOK(s) DEF ThreadOK, Payload, LatestHuman, Human, Queried
<1>5. ASSUME NEW n \in DOMAIN sent' PROVE ResolvedOK(n)'
  <2>1. ResolvedOK(n)
    BY <1>1
  <2>2. ASSUME NEW u PROVE Right(u, sent[n])' <=> Right(u, sent[n])
    BY <1>1, RightByLinear
  <2> QED BY <1>1, <2>1, <2>2 DEF ResolvedOK
<1> QED BY <1>2, <1>3, <1>4, <1>5

\* A thread that goes back to idle.
LEMMA DoneStep ==
  ASSUME IInv, NEW t \in Threads, Done(t), UNCHANGED <<linear, resolved>>, OutcomesOK'
  PROVE  IInv'
<1>1. NoTurn \in Turns /\ Len(comments) \in Nat /\ Len(sent) \in Nat
  BY Types DEF NoTurn, Turns, IInv
<1>2. /\ pc' \in [Threads -> {"idle"} \cup Working] /\ dlv' \in [Threads -> 0..Len(sent)]
      /\ live' \in [Threads -> 0..Len(comments)] /\ turn' \in [Threads -> Turns]
      /\ pc'[t] = "idle" /\ live'[t] = 0
      /\ \A s \in Threads \ {t} : pc'[s] = pc[s] /\ dlv'[s] = dlv[s] /\ live'[s] = live[s]
  BY <1>1 DEF Done, Goto, IInv, TypeOK
<1>3. ThreadOK(t)'
  BY <1>2 DEF ThreadOK
<1> QED BY <1>2, <1>3, ThreadStep

\* An element of a sequence is replaced.
LEMMA Replaced ==
  ASSUME NEW S, NEW q \in Seq(S), NEW i \in 1..Len(q), NEW e \in S
  PROVE  /\ [q EXCEPT ![i] = e] \in Seq(S) /\ Len([q EXCEPT ![i] = e]) = Len(q)
         /\ \A j \in 1..Len(q) : [q EXCEPT ![i] = e][j] = IF j = i THEN e ELSE q[j]
OBVIOUS

\* A thread that has resolved its delivery to a turn that is right.
LEMMA SettleStep ==
  ASSUME IInv, NEW t \in Threads, pc[t] # "idle", NEW u \in Turns, Right(u, Payload(t)),
         Settle(t, u), UNCHANGED <<linear, outcomes>>
  PROVE  IInv'
<1> USE DEF IInv
<1>1. UNCHANGED <<root, description, now, comments, prompts, sent>>
  BY DEF linear
<1>2. dlv[t] \in DOMAIN sent /\ sent[dlv[t]].at < now /\ Payload(t) = sent[dlv[t]]
  BY DEF ThreadOK, Payload
<1>3. /\ \A n \in DOMAIN sent : resolved'[n] = IF n = dlv[t] THEN resolved[n] \cup {u} ELSE resolved[n]
      /\ resolved' \in Seq(SUBSET Turns) /\ Len(resolved') = Len(sent)
  <2>1. resolved \in Seq(SUBSET Turns) /\ Len(resolved) = Len(sent) /\ DOMAIN sent = 1..Len(sent)
    BY Types DEF TypeOK
  <2> DEFINE e == resolved[dlv[t]] \cup {u}
  <2>2. dlv[t] \in 1..Len(resolved) /\ e \in SUBSET Turns
    BY <1>2, <2>1
  <2>3. resolved' = [resolved EXCEPT ![dlv[t]] = e]
    BY DEF Settle
  <2> HIDE DEF IInv, e
  <2>4. /\ resolved' \in Seq(SUBSET Turns) /\ Len(resolved') = Len(resolved)
        /\ \A n \in 1..Len(resolved) : resolved'[n] = IF n = dlv[t] THEN e ELSE resolved[n]
    BY <2>1, <2>2, <2>3, Replaced
  <2> QED BY <2>1, <2>4 DEF e
<1>4. TypeOK'
  BY <1>1, <1>3 DEF TypeOK, Settle, Goto, Working
<1>5. LinearOK' /\ OutcomesOK'
  BY <1>1 DEF LinearOK, DeliveryOK, OutcomesOK
<1>6. ASSUME NEW s \in Threads PROVE ThreadOK(s)'
  <2>1. dlv' = dlv /\ live' = live /\ (pc'[s] = pc[s] \/ (s = t /\ pc'[s] = "lookup"))
    BY DEF Settle, Goto, TypeOK
  <2> QED BY <1>1, <1>2, <2>1, ThreadOK(s)
          DEF ThreadOK, Payload, LatestHuman, Human, Queried
<1>7. ASSUME NEW n \in DOMAIN sent' PROVE ResolvedOK(n)'
  <2>1. ASSUME NEW v PROVE Right(v, sent[n])' <=> Right(v, sent[n])
    BY <1>1, RightByLinear
  <2>2. ASSUME NEW v \in resolved'[n] PROVE sent[n].at < now /\ Right(v, sent[n])
    BY <1>1, <1>2, <1>3, <2>2 DEF ResolvedOK
  <2> QED BY <1>1, <2>1, <2>2 DEF ResolvedOK
<1> QED BY <1>4, <1>5, <1>6, <1>7

\* A thread takes a delivery, at a time after its time stamp.
LEMMA TakeStep ==
  ASSUME IInv, NEW t \in Threads, NEW n \in DOMAIN sent, Take(t, n)
  PROVE  IInv'
<1>1. /\ pc' \in [Threads -> {"idle"} \cup Working] /\ dlv' \in [Threads -> 0..Len(sent)]
      /\ live' \in [Threads -> 0..Len(comments)] /\ turn' \in [Threads -> Turns]
      /\ pc'[t] = "resolve" /\ live'[t] = 0 /\ dlv'[t] = n
      /\ \A s \in Threads \ {t} : pc'[s] = pc[s] /\ dlv'[s] = dlv[s] /\ live'[s] = live[s]
  <2>1. Len(sent) \in Nat /\ Len(comments) \in Nat /\ n \in 1..Len(sent)
    BY Types DEF IInv
  <2>2. /\ pc' = [pc EXCEPT ![t] = "resolve"] /\ dlv' = [dlv EXCEPT ![t] = n]
        /\ live' = [live EXCEPT ![t] = 0] /\ turn' = turn
    BY DEF Take, Goto
  <2>3. /\ pc \in [Threads -> {"idle"} \cup Working] /\ dlv \in [Threads -> 0..Len(sent)]
        /\ live \in [Threads -> 0..Len(comments)] /\ turn \in [Threads -> Turns]
    BY DEF IInv, TypeOK
  <2>4. "resolve" \in {"idle"} \cup Working
    BY DEF Working
  <2>5. pc' \in [Threads -> {"idle"} \cup Working] /\ pc'[t] = "resolve"
    BY <2>2, <2>3, <2>4
  <2>6. dlv' \in [Threads -> 0..Len(sent)] /\ dlv'[t] = n
    BY <2>1, <2>2, <2>3
  <2>7. live' \in [Threads -> 0..Len(comments)] /\ live'[t] = 0
    BY <2>1, <2>2, <2>3
  <2>8. \A s \in Threads \ {t} : pc'[s] = pc[s] /\ dlv'[s] = dlv[s] /\ live'[s] = live[s]
    BY <2>2, <2>3
  <2> QED BY <2>2, <2>3, <2>5, <2>6, <2>7, <2>8
<1>2. ThreadOK(t)'
  BY <1>1 DEF ThreadOK, Take, Payload, linear
<1>3. OutcomesOK'
  BY DEF Take, OutcomesOK, IInv
<1> QED BY <1>1, <1>2, <1>3, ThreadStep DEF Take

\* What the resolving steps know of their delivery.
LEMMA PayloadTypes ==
  ASSUME IInv, NEW t \in Threads, pc[t] # "idle"
  PROVE  /\ Payload(t) \in Deliveries /\ DeliveryOK(Payload(t)) /\ Payload(t).at < now
         /\ LatestHuman(Payload(t).seen) \in 0..Payload(t).seen
         /\ LatestHuman(Payload(t).seen) # 0 =>
              LatestHuman(Payload(t).seen) \in DOMAIN comments
              /\ Human(comments[LatestHuman(Payload(t).seen)])
<1>1. Payload(t) \in Deliveries /\ DeliveryOK(Payload(t)) /\ Payload(t).at < now
  BY Types DEF IInv, ThreadOK, Payload, LinearOK, Deliveries
<1>2. LatestHumanIs(Payload(t).seen) /\ Payload(t).seen \in Nat
  BY <1>1, LatestHumanRight DEF LatestHumanIsLast, Deliveries
<1> QED BY <1>1, <1>2, Types DEF LatestHumanIs, DeliveryOK, IInv

\* What a comment or an activity of a person gives.
LEMMA CommentTurns ==
  ASSUME TypeOK, NEW d \in Deliveries, NEW i \in DOMAIN comments, Human(comments[i])
  PROVE  /\ PromptedTurn(d, "comment", i, comments[i]) \in Turns
         /\ Sourced(PromptedTurn(d, "comment", i, comments[i]))
         /\ \A other \in People \cup {App, Unknown} : root # NoRoot =>
              /\ CreatedTurn(d, "comment", i, comments[i], other) \in Turns
              /\ Sourced(CreatedTurn(d, "comment", i, comments[i], other))
<1>1. i \in Nat /\ comments[i].text \in SUBSET Markers /\ comments[i].author # App
      /\ comments[i].author \in People \cup {App, Unknown}
  BY Types DEF Human
<1>2. "comment" \in {"comment", "prompt"}
  OBVIOUS
<1>3. /\ PromptedTurn(d, "comment", i, comments[i]) \in Turns
      /\ \A other \in People \cup {App, Unknown} :
           root # NoRoot => CreatedTurn(d, "comment", i, comments[i], other) \in Turns
  BY <1>1, <1>2, ItemTypes
<1>4. ASSUME NEW other
      PROVE  /\ Sourced(PromptedTurn(d, "comment", i, comments[i]))
             /\ Sourced(CreatedTurn(d, "comment", i, comments[i], other))
  BY <1>1 DEF Sourced, Source, PromptedTurn, CreatedTurn, Or
<1> QED BY <1>3, <1>4

LEMMA PromptTurns ==
  ASSUME TypeOK, LinearOK, NEW d \in Deliveries, NEW i \in DOMAIN prompts,
         prompts[i].kind = "prompt"
  PROVE  /\ PromptedTurn(d, "prompt", i, prompts[i]) \in Turns
         /\ Sourced(PromptedTurn(d, "prompt", i, prompts[i]))
         /\ \A other \in People \cup {App, Unknown} : root # NoRoot =>
              /\ CreatedTurn(d, "prompt", i, prompts[i], other) \in Turns
              /\ Sourced(CreatedTurn(d, "prompt", i, prompts[i], other))
<1>1. i \in Nat /\ prompts[i].text \in SUBSET Markers /\ prompts[i].author # App
      /\ prompts[i].author \in People \cup {App, Unknown}
  BY Types DEF LinearOK
<1>2. "prompt" \in {"comment", "prompt"}
  OBVIOUS
<1>3. /\ PromptedTurn(d, "prompt", i, prompts[i]) \in Turns
      /\ \A other \in People \cup {App, Unknown} :
           root # NoRoot => CreatedTurn(d, "prompt", i, prompts[i], other) \in Turns
  BY <1>1, <1>2, ItemTypes
<1>4. ASSUME NEW other
      PROVE  /\ Sourced(PromptedTurn(d, "prompt", i, prompts[i]))
             /\ Sourced(CreatedTurn(d, "prompt", i, prompts[i], other))
  BY <1>1 DEF Sourced, Source, PromptedTurn, CreatedTurn, Or
<1> QED BY <1>3, <1>4

LEMMA ResolveCreatedStep ==
  ASSUME IInv, NEW t \in Threads, ResolveCreated(t)
  PROVE  IInv'
<1> DEFINE d == Payload(t)
<1>1. d \in Deliveries /\ DeliveryOK(d) /\ TypeOK /\ d.action = "created" /\ pc[t] = "resolve"
      /\ UNCHANGED <<linear, outcomes>>
  <2>1. pc[t] = "resolve" /\ d.action = "created" /\ UNCHANGED <<linear, outcomes>>
    BY DEF ResolveCreated
  <2>2. TypeOK
    BY DEF IInv
  <2> QED BY <2>1, <2>2, PayloadTypes
<1>2. CASE root = NoRoot /\ description # NoText /\ Settle(t, DescriptionTurn(d))
  <2>1. DescriptionTurn(d) \in Turns
    BY <1>1, RootTypes
  <2>2. Right(DescriptionTurn(d), d)
    BY <1>1, <1>2 DEF Right, Sourced, DescriptionTurn, Definite, Expected, Queried
  <2> QED BY <1>1, <1>2, <2>1, <2>2, SettleStep
<1>3. CASE root # NoRoot /\ ~Filler(root.text) /\ Settle(t, RootTurn(d))
  <2>1. RootTurn(d) \in Turns
    BY <1>1, <1>3, RootTypes
  <2>2. Right(RootTurn(d), d)
    BY <1>1, <1>3 DEF Right, Sourced, RootTurn, Definite, Expected, Queried
  <2> QED BY <1>1, <1>3, <2>1, <2>2, SettleStep
<1>4. CASE Refuse(t)
  <2>1. Done(t) /\ UNCHANGED <<linear, resolved>> /\ OutcomesOK'
    BY <1>1, <1>4 DEF Refuse, OutcomesOK, IInv
  <2> QED BY <2>1, DoneStep
<1>5. CASE root # NoRoot /\ Filler(root.text) /\ Fetch(t, "fetch_comments") /\ UNCHANGED live
  <2>1. /\ pc' \in [Threads -> {"idle"} \cup Working] /\ dlv' \in [Threads -> 0..Len(sent)]
        /\ live' \in [Threads -> 0..Len(comments)] /\ turn' \in [Threads -> Turns]
        /\ pc'[t] = "fetch_comments" /\ live' = live /\ dlv' = dlv
        /\ \A s \in Threads \ {t} : pc'[s] = pc[s] /\ dlv'[s] = dlv[s] /\ live'[s] = live[s]
    BY <1>5 DEF Fetch, Goto, IInv, TypeOK, Working
  <2>2. ThreadOK(t)
    BY DEF IInv
  <2>3. ThreadOK(t)'
    BY <1>1, <1>5, <2>1, <2>2 DEF ThreadOK, Payload, linear
  <2>4. OutcomesOK' /\ UNCHANGED <<linear, resolved>>
    BY <1>1, <1>5 DEF OutcomesOK, IInv, Fetch
  <2> QED BY <2>1, <2>3, <2>4, ThreadStep
<1> QED BY <1>2, <1>3, <1>4, <1>5 DEF ResolveCreated

LEMMA FetchCommentsStep ==
  ASSUME IInv, NEW t \in Threads, FetchComments(t)
  PROVE  IInv'
<1> DEFINE d == Payload(t)
           c == LatestHuman(d.seen)
           l == LatestHuman(Len(comments))
<1>1. pc[t] = "fetch_comments" /\ UNCHANGED <<linear, outcomes>>
  BY DEF FetchComments
<1>2. TypeOK /\ ThreadOK(t)
  BY DEF IInv
<1>3. /\ d \in Deliveries /\ d.at < now /\ dlv[t] \in DOMAIN sent
      /\ c # 0 => c \in DOMAIN comments /\ Human(comments[c])
      /\ d.action = "created" /\ root # NoRoot /\ Filler(root.text)
  BY <1>1, <1>2, PayloadTypes DEF ThreadOK
<1>4. /\ l \in 0..Len(comments) /\ (l # 0 => Human(comments[l]))
      /\ CommentAuthor(l) \in People \cup {App, Unknown}
  <2>1. Len(comments) \in Nat /\ DOMAIN comments = 1..Len(comments)
    BY <1>2, Types
  <2>2. LatestHumanIs(Len(comments))
    BY <2>1, LatestHumanRight DEF LatestHumanIsLast
  <2> QED BY <1>2, <2>1, <2>2, Types DEF LatestHumanIs, CommentAuthor
<1>5. CASE c = 0
  <2>1. Fetch(t, "fetch_activities") /\ live' = [live EXCEPT ![t] = l]
    BY <1>5 DEF FetchComments
  <2>2. /\ pc' \in [Threads -> {"idle"} \cup Working] /\ dlv' \in [Threads -> 0..Len(sent)]
        /\ live' \in [Threads -> 0..Len(comments)] /\ turn' \in [Threads -> Turns]
        /\ pc'[t] = "fetch_activities" /\ live'[t] = l /\ dlv' = dlv
        /\ \A s \in Threads \ {t} : pc'[s] = pc[s] /\ dlv'[s] = dlv[s] /\ live'[s] = live[s]
    BY <1>2, <1>4, <2>1 DEF Fetch, Goto, TypeOK, Working
  <2>3. UNCHANGED <<root, now, comments, sent>>
    BY <1>1 DEF linear
  <2>4. ThreadOK(t)'
    <3>1. PICK e : e = Payload(t)
      OBVIOUS
    <3>2. Payload(t)' = e
      BY <2>2, <2>3, <3>1 DEF Payload
    <3>3. LatestHuman(e.seen)' = LatestHuman(e.seen)
      BY <2>3 DEF LatestHuman, Human
    <3>4. live'[t] # 0 => Human(comments'[live'[t]])
      BY <1>4, <2>2, <2>3
    <3>5. /\ e.action = "created" /\ root' # NoRoot /\ Filler(root'.text)
          /\ LatestHuman(e.seen) = 0 /\ e.at < now' /\ dlv'[t] \in DOMAIN sent'
      BY <1>3, <1>5, <2>2, <2>3, <3>1
    <3> HIDE DEF d, c, l
    <3> QED BY <2>2, <3>2, <3>3, <3>4, <3>5 DEF ThreadOK
  <2>5. OutcomesOK' /\ UNCHANGED <<linear, resolved>>
    BY <1>1, <2>1 DEF OutcomesOK, IInv, Fetch
  <2> QED BY <2>2, <2>4, <2>5, ThreadStep
<1>6. CASE c # 0
  <2> DEFINE u == CreatedTurn(d, "comment", c, comments[c], CommentAuthor(l))
  <2>1. Settle(t, u)
    BY <1>6 DEF FetchComments
  <2>2. u \in Turns /\ Sourced(u)
    BY <1>2, <1>3, <1>4, <1>6, CommentTurns
  <2>3. Ident(u) = Expected(d)
    BY <1>3 DEF Ident, Expected, CreatedTurn
  <2>4. Right(u, d)
    BY <1>3, <2>2, <2>3 DEF Right, Definite, Queried
  <2> HIDE DEF u
  <2> QED BY <1>1, <2>1, <2>2, <2>4, SettleStep
<1> QED BY <1>5, <1>6

LEMMA ResolvePromptedStep ==
  ASSUME IInv, NEW t \in Threads, ResolvePrompted(t)
  PROVE  IInv'
<1> DEFINE d == Payload(t)
           a == prompts[d.cause]
           c == LatestHuman(d.seen)
           byPerson == d.inline /\ a.kind = "prompt"
<1>1. pc[t] = "resolve" /\ d.action = "prompted" /\ UNCHANGED <<linear, outcomes>>
  BY DEF ResolvePrompted
<1>2. TypeOK /\ LinearOK /\ ThreadOK(t)
  BY DEF IInv
<1>3. /\ d \in Deliveries /\ DeliveryOK(d) /\ d.cause \in DOMAIN prompts
      /\ d.rooted => root # NoRoot
      /\ c # 0 => c \in DOMAIN comments /\ Human(comments[c])
  <2>1. /\ d \in Deliveries /\ DeliveryOK(d)
        /\ c # 0 => c \in DOMAIN comments /\ Human(comments[c])
    BY <1>1, PayloadTypes
  <2> QED BY <1>1, <2>1 DEF DeliveryOK
<1>4. CASE byPerson /\ Settle(t, PromptedTurn(d, "prompt", d.cause, a))
  <2> DEFINE u == PromptedTurn(d, "prompt", d.cause, a)
  <2>1. u \in Turns /\ Sourced(u)
    BY <1>2, <1>3, <1>4, PromptTurns
  <2>2. Right(u, d)
    BY <1>1, <1>4, <2>1 DEF Right, Definite, Queried, Expected
  <2> QED BY <1>1, <1>4, <2>1, <2>2, SettleStep
<1>5. CASE ~byPerson /\ d.rooted /\ Settle(t, RootTurn(d))
  <2>1. RootTurn(d) \in Turns
    BY <1>2, <1>3, <1>5, RootTypes
  <2>2. Right(RootTurn(d), d)
    BY <1>1, <1>5 DEF Right, Sourced, RootTurn, Definite, Queried, Expected
  <2> QED BY <1>1, <1>5, <2>1, <2>2, SettleStep
<1>6. CASE ~byPerson /\ ~d.rooted /\ d.inline /\ Filler(a.text) /\ c # 0
           /\ Settle(t, PromptedTurn(d, "comment", c, comments[c]))
  <2> DEFINE u == PromptedTurn(d, "comment", c, comments[c])
  <2>1. u \in Turns /\ Sourced(u)
    BY <1>2, <1>3, <1>6, CommentTurns
  <2>2. Right(u, d)
    BY <1>1, <1>6, <2>1 DEF Right, Definite, Queried, Expected
  <2> QED BY <1>1, <1>6, <2>1, <2>2, SettleStep
<1>7. CASE Refuse(t)
  <2>1. Done(t) /\ UNCHANGED <<linear, resolved>> /\ OutcomesOK'
    BY <1>1, <1>7 DEF Refuse, OutcomesOK, IInv
  <2> QED BY <2>1, DoneStep
<1>8. CASE ~d.inline /\ ~d.rooted /\ Fetch(t, "fetch_activities") /\ UNCHANGED live
  <2>1. /\ pc' \in [Threads -> {"idle"} \cup Working] /\ dlv' \in [Threads -> 0..Len(sent)]
        /\ live' \in [Threads -> 0..Len(comments)] /\ turn' \in [Threads -> Turns]
        /\ pc'[t] = "fetch_activities" /\ live' = live /\ dlv' = dlv
        /\ \A s \in Threads \ {t} : pc'[s] = pc[s] /\ dlv'[s] = dlv[s] /\ live'[s] = live[s]
    BY <1>2, <1>8 DEF Fetch, Goto, TypeOK, Working
  <2>2. UNCHANGED <<root, now, comments, sent>>
    BY <1>1 DEF linear
  <2>3. ThreadOK(t)'
    BY <1>1, <1>2, <1>8, <2>1, <2>2 DEF ThreadOK, Payload, Queried, Human
  <2>4. OutcomesOK' /\ UNCHANGED <<linear, resolved>>
    BY <1>1, <1>8 DEF OutcomesOK, IInv, Fetch
  <2> QED BY <2>1, <2>3, <2>4, ThreadStep
<1> QED BY <1>4, <1>5, <1>6, <1>7, <1>8 DEF ResolvePrompted

LEMMA FetchActivitiesStep ==
  ASSUME IInv, NEW t \in Threads, FetchActivities(t)
  PROVE  IInv'
<1> DEFINE d == Payload(t)
           c == LatestHuman(d.seen)
           created == d.action = "created"
           unique == \E i \in Latest(d) : Latest(d) = {i}
           p == CHOOSE i \in Latest(d) : TRUE
<1>1. pc[t] = "fetch_activities" /\ UNCHANGED <<linear, outcomes>>
  BY DEF FetchActivities
<1>2. TypeOK /\ LinearOK /\ ThreadOK(t)
  BY DEF IInv
<1>3. /\ d \in Deliveries /\ DeliveryOK(d)
      /\ c # 0 => c \in DOMAIN comments /\ Human(comments[c])
  BY <1>1, PayloadTypes
<1>4. /\ created => root # NoRoot /\ ~Steady(d)
      /\ ~created => Queried(d)
      /\ live[t] # 0 => live[t] \in DOMAIN comments /\ Human(comments[live[t]])
  BY <1>1, <1>2, Types DEF ThreadOK, Steady, Queried, TypeOK
<1>5. unique => p \in DOMAIN prompts /\ prompts[p].kind = "prompt" /\ Latest(d) # {}
  BY DEF Latest, Pool, Candidates
<1>6. \A k \in 0..Len(comments) : CommentAuthor(k) \in People \cup {App, Unknown}
  BY <1>2, Types DEF CommentAuthor
<1>7. CASE unique /\ created
           /\ Settle(t, CreatedTurn(d, "prompt", p, prompts[p], CommentAuthor(live[t])))
  <2> DEFINE u == CreatedTurn(d, "prompt", p, prompts[p], CommentAuthor(live[t]))
  <2>1. CommentAuthor(live[t]) \in People \cup {App, Unknown}
    BY <1>2, <1>6 DEF TypeOK
  <2> HIDE DEF p
  <2>2. u \in Turns /\ Sourced(u)
    BY <1>2, <1>3, <1>4, <1>5, <1>7, <2>1, PromptTurns
  <2>3. Right(u, d)
    BY <1>4, <1>7, <2>2 DEF Right
  <2> QED BY <1>1, <1>7, <2>2, <2>3, SettleStep
<1>8. CASE unique /\ ~created /\ Filler(prompts[p].text) /\ c # 0
           /\ Settle(t, PromptedTurn(d, "comment", c, comments[c]))
  <2> DEFINE u == PromptedTurn(d, "comment", c, comments[c])
  <2>1. u \in Turns /\ Sourced(u)
    BY <1>2, <1>3, <1>8, CommentTurns
  <2>2. Right(u, d)
    BY <1>4, <1>5, <1>8, <2>1 DEF Right, Definite, Queried, Expected
  <2> QED BY <1>1, <1>8, <2>1, <2>2, SettleStep
<1>9. CASE unique /\ ~created /\ (~Filler(prompts[p].text) \/ c = 0)
           /\ Settle(t, PromptedTurn(d, "prompt", p, prompts[p]))
  <2> DEFINE u == PromptedTurn(d, "prompt", p, prompts[p])
  <2>1. Right(u, d) <=> Sourced(u)
    BY <1>4, <1>5, <1>9 DEF Right, Definite, Queried, Expected
  <2> HIDE DEF p
  <2>2. u \in Turns /\ Sourced(u)
    BY <1>2, <1>3, <1>5, <1>9, PromptTurns
  <2> QED BY <1>1, <1>9, <2>1, <2>2, SettleStep
<1>10. CASE ~unique /\ created /\ live[t] # 0
            /\ Settle(t, CreatedTurn(d, "comment", live[t], comments[live[t]], Unknown))
  <2> DEFINE u == CreatedTurn(d, "comment", live[t], comments[live[t]], Unknown)
  <2>1. u \in Turns /\ Sourced(u)
    BY <1>2, <1>3, <1>4, <1>10, CommentTurns
  <2>2. Right(u, d)
    BY <1>4, <1>10, <2>1 DEF Right
  <2> QED BY <1>1, <1>10, <2>1, <2>2, SettleStep
<1>11. CASE ~unique /\ created /\ live[t] = 0 /\ Settle(t, RootTurn(d))
  <2>1. RootTurn(d) \in Turns
    BY <1>2, <1>4, <1>11, RootTypes
  <2>2. Right(RootTurn(d), d)
    BY <1>4, <1>11 DEF Right, Sourced, RootTurn
  <2> QED BY <1>1, <1>11, <2>1, <2>2, SettleStep
<1>12. CASE Refuse(t)
  <2>1. Done(t) /\ UNCHANGED <<linear, resolved>> /\ OutcomesOK'
    BY <1>1, <1>12 DEF Refuse, OutcomesOK, IInv
  <2> QED BY <2>1, DoneStep
<1> QED BY <1>7, <1>8, <1>9, <1>10, <1>11, <1>12 DEF FetchActivities

LEMMA LookupStep ==
  ASSUME IInv, NEW t \in Threads, Lookup(t)
  PROVE  IInv'
<1>1. UNCHANGED <<linear, outcomes, resolved>> /\ pc[t] = "lookup"
  BY DEF Lookup
<1>2. OutcomesOK'
  BY <1>1 DEF OutcomesOK, IInv
<1>3. CASE Done(t)
  BY <1>1, <1>2, <1>3, DoneStep
<1>4. CASE Goto(t, "store") /\ UNCHANGED <<dlv, live, turn>>
  <2>1. /\ pc' \in [Threads -> {"idle"} \cup Working] /\ dlv' \in [Threads -> 0..Len(sent)]
        /\ live' \in [Threads -> 0..Len(comments)] /\ turn' \in [Threads -> Turns]
        /\ pc'[t] = "store" /\ live' = live /\ dlv' = dlv
        /\ \A s \in Threads \ {t} : pc'[s] = pc[s] /\ dlv'[s] = dlv[s] /\ live'[s] = live[s]
    BY <1>4 DEF Goto, IInv, TypeOK, Working
  <2>2. ThreadOK(t) /\ UNCHANGED <<now, comments, sent>>
    BY <1>1 DEF IInv, linear
  <2>3. ThreadOK(t)'
    BY <1>1, <2>1, <2>2 DEF ThreadOK, Payload
  <2> QED BY <1>1, <1>2, <2>1, <2>3, ThreadStep
<1> QED BY <1>3, <1>4 DEF Lookup

LEMMA StoreStep ==
  ASSUME IInv, NEW t \in Threads, Store(t)
  PROVE  IInv'
<1>1. UNCHANGED <<linear, resolved>> /\ Done(t)
  BY DEF Store
<1>2. OutcomesOK'
  BY DEF Store, OutcomesOK, IInv
<1> QED BY <1>1, <1>2, DoneStep

LEMMA FailStep ==
  ASSUME IInv, NEW t \in Threads, Fail(t)
  PROVE  IInv'
<1>1. UNCHANGED <<linear, resolved>> /\ Done(t) /\ OutcomesOK'
  BY DEF Fail, OutcomesOK, IInv
<1> QED BY <1>1, DoneStep

\* What people and the agent write, and the deliveries of Linear.
LEMMA TickStep ==
  ASSUME IInv, Tick
  PROVE  IInv'
<1>1. TypeOK' /\ LinearOK' /\ Threaded
  BY Types DEF Tick, Threaded, TypeOK, LinearOK, DeliveryOK, IInv
<1>2. /\ \A n \in DOMAIN sent : resolved'[n] = resolved[n]
      /\ \A n \in DOMAIN sent' : n \notin DOMAIN sent => resolved'[n] = {}
  BY DEF Tick
<1>3. Grows
  BY NextGrows DEF Next, IInv
<1> QED BY <1>1, <1>2, <1>3, LinearStep

LEMMA CommentStep ==
  ASSUME IInv, NEW e \in Entries \cup {Reply}, Comment(e)
  PROVE  IInv'
<1> DEFINE item == [text |-> e.text, author |-> e.author]
<1>1. TypeOK /\ LinearOK
  BY DEF IInv
<1>2. item \in [text : SUBSET Markers, author : People \cup {App, Unknown}]
  BY ConstantsAssumption DEF Reply, Markers
<1>3. comments' = Append(comments, item) /\ UNCHANGED <<now, prompts, sent, resolved>> /\ Threaded
  BY DEF Comment
<1> HIDE DEF item
<1>4. /\ comments' \in Seq([text : SUBSET Markers, author : People \cup {App, Unknown}])
      /\ Len(comments') = Len(comments) + 1
  BY <1>1, <1>2, <1>3 DEF TypeOK
<1>5. TypeOK'
  <2>1. Len(comments) \in Nat
    BY <1>1, Types
  <2> QED BY <1>1, <1>3, <1>4, <2>1 DEF TypeOK, Threaded
<1>6. Grows
  BY <1>1, NextGrows DEF Next, IInv
<1>7. LinearOK'
  BY <1>1, <1>3, <1>4, <1>6, Types DEF LinearOK, DeliveryOK, Threaded
<1> QED BY <1>3, <1>5, <1>6, <1>7, LinearStep

LEMMA ActivityStep ==
  ASSUME IInv, NEW e, NEW kind, Activity(e, kind),
         (e \in Entries /\ kind = "prompt") \/ (e = Reply /\ kind = "response")
  PROVE  IInv'
<1> DEFINE item == [text |-> e.text, author |-> e.author, kind |-> kind, at |-> now]
<1>1. TypeOK /\ LinearOK
  BY DEF IInv
<1>2. /\ item \in [text : SUBSET Markers, author : People \cup {App, Unknown},
                   kind : {"prompt", "response"}, at : Nat]
      /\ item.kind = "prompt" => item.author # App
      /\ item.at = now
  BY <1>1, ConstantsAssumption DEF Reply, Markers, TypeOK, App, Unknown
<1>3. prompts' = Append(prompts, item) /\ UNCHANGED <<now, comments, sent, resolved>> /\ Threaded
  BY DEF Activity
<1> HIDE DEF item
<1>4. /\ prompts' \in Seq([text : SUBSET Markers, author : People \cup {App, Unknown},
                           kind : {"prompt", "response"}, at : Nat])
      /\ Len(prompts') = Len(prompts) + 1 /\ Len(prompts) \in Nat
      /\ DOMAIN prompts = 1..Len(prompts) /\ DOMAIN prompts' = 1..Len(prompts) + 1
      /\ \A i \in 1..Len(prompts) : prompts'[i] = prompts[i]
      /\ prompts'[Len(prompts) + 1] = item
  BY <1>1, <1>2, <1>3 DEF TypeOK
<1>5. TypeOK'
  BY <1>1, <1>3, <1>4 DEF TypeOK, Threaded
<1>6. Grows
  BY <1>1, NextGrows DEF Next, IInv
<1>7. LinearOK'
  <2>1. now \in Nat
    BY <1>1 DEF TypeOK
  <2>2. \A i \in DOMAIN prompts' :
          prompts'[i].at <= now /\ (prompts'[i].kind = "prompt" => prompts'[i].author # App)
    BY <1>1, <1>2, <1>4, <2>1 DEF LinearOK
  <2>3. \A n \in DOMAIN sent' : DeliveryOK(sent[n])'
    BY <1>1, <1>3, <1>4, Types DEF LinearOK, DeliveryOK, Threaded
  <2> QED BY <1>3, <2>2, <2>3 DEF LinearOK
<1> QED BY <1>3, <1>5, <1>6, <1>7, LinearStep

LEMMA DeliverStep ==
  ASSUME IInv, DeliverCreated \/
               \E i \in DOMAIN prompts, inline, rooted \in BOOLEAN : DeliverPrompted(i, inline, rooted)
  PROVE  IInv'
<1>1. TypeOK /\ LinearOK
  BY DEF IInv
<1>2. PICK d : /\ d \in Deliveries /\ DeliveryOK(d)
               /\ sent' = Append(sent, d) /\ resolved' = Append(resolved, {})
               /\ UNCHANGED <<now, comments, prompts>> /\ Threaded
  <2>1. CASE DeliverCreated
    <3>1. PICK r \in BOOLEAN : r = (root # NoRoot)
      OBVIOUS
    <3> DEFINE e == [action |-> "created", cause |-> 0, inline |-> FALSE, rooted |-> r,
                     seen |-> Len(comments), at |-> now]
    <3>2. e \in Deliveries /\ e.rooted = r /\ e.action = "created" /\ e.seen = Len(comments) /\ e.at = now
      BY <1>1, Types DEF Deliveries
    <3>3. e.rooted => root # NoRoot
      BY <3>1, <3>2, Zenon
    <3> HIDE DEF e
    <3>4. DeliveryOK(e)
      BY <1>1, <3>2, <3>3, Types DEF DeliveryOK
    <3> QED BY <2>1, <3>1, <3>2, <3>4 DEF DeliverCreated, Deliver, e
  <2>2. ASSUME NEW i \in DOMAIN prompts, NEW inline \in BOOLEAN, NEW rooted \in BOOLEAN,
               DeliverPrompted(i, inline, rooted)
        PROVE  \E d : /\ d \in Deliveries /\ DeliveryOK(d)
                      /\ sent' = Append(sent, d) /\ resolved' = Append(resolved, {})
                      /\ UNCHANGED <<now, comments, prompts>> /\ Threaded
    <3> DEFINE d == [action |-> "prompted", cause |-> i, inline |-> inline, rooted |-> rooted,
                     seen |-> Len(comments), at |-> now]
    <3>1. d \in Deliveries /\ DeliveryOK(d)
      BY <1>1, <2>2, Types DEF Deliveries, DeliveryOK, DeliverPrompted, LinearOK
    <3> QED BY <2>2, <3>1 DEF DeliverPrompted, Deliver
  <2> QED BY <2>1, <2>2
<1>3. /\ sent' \in Seq(Deliveries) /\ resolved' \in Seq(SUBSET Turns)
      /\ Len(sent') = Len(sent) + 1 /\ Len(resolved') = Len(sent) + 1 /\ Len(sent) \in Nat
      /\ DOMAIN sent = 1..Len(sent) /\ DOMAIN sent' = 1..Len(sent) + 1
      /\ \A n \in 1..Len(sent) : sent'[n] = sent[n] /\ resolved'[n] = resolved[n]
      /\ sent'[Len(sent) + 1] = d /\ resolved'[Len(sent) + 1] = {}
  <2>1. sent \in Seq(Deliveries) /\ resolved \in Seq(SUBSET Turns) /\ Len(resolved) = Len(sent)
    BY <1>1 DEF TypeOK, Deliveries
  <2>2. {} \in SUBSET Turns
    OBVIOUS
  <2> QED BY <1>2, <2>1, <2>2
<1>4. TypeOK'
  BY <1>1, <1>2, <1>3 DEF TypeOK, Threaded, Deliveries
<1>5. Grows
  BY <1>1, NextGrows DEF Next
<1>6. DeliveryOK(d)'
  BY <1>2 DEF DeliveryOK, Threaded
<1>7. LinearOK'
  <2>1. ASSUME NEW n \in DOMAIN sent' PROVE DeliveryOK(sent[n])'
    <3>1. n = Len(sent) + 1 \/ n \in 1..Len(sent)
      BY <1>3
    <3>2. n \in 1..Len(sent) => DeliveryOK(sent[n])
      BY <1>1, <1>3 DEF LinearOK
    <3>3. CASE n = Len(sent) + 1
      BY <1>3, <1>6, <3>3
    <3>4. CASE n \in 1..Len(sent)
      <4>1. PICK e : e = sent[n]
        OBVIOUS
      <4>2. DeliveryOK(e)'
        BY <1>2, <3>2, <3>4, <4>1 DEF DeliveryOK, Threaded
      <4>3. sent'[n] = e
        BY <1>3, <3>4, <4>1
      <4> QED BY <4>2, <4>3
    <3> QED BY <3>1, <3>3, <3>4
  <2> QED BY <1>1, <1>2, <2>1 DEF LinearOK
<1>8. /\ \A n \in DOMAIN sent : resolved'[n] = resolved[n]
      /\ \A n \in DOMAIN sent' : n \notin DOMAIN sent => resolved'[n] = {}
  BY <1>3
<1> QED BY <1>2, <1>4, <1>5, <1>7, <1>8, LinearStep

-----------------------------------------------------------------------------
(* The theorems *)

LEMMA InitIInv == Init => IInv
<1> SUFFICES ASSUME Init PROVE IInv
  OBVIOUS
<1>1. /\ now = 0 /\ comments = << >> /\ prompts = << >> /\ sent = << >>
      /\ outcomes = << >> /\ resolved = << >>
      /\ pc = [t \in Threads |-> "idle"] /\ live = [t \in Threads |-> 0]
  BY DEF Init
<1>2. TypeOK
  <2>1. NoTurn \in Turns
    BY DEF NoTurn, Turns
  <2> QED BY <2>1 DEF Init, TypeOK
<1>3. LinearOK /\ OutcomesOK
  BY <1>1 DEF LinearOK, OutcomesOK
<1>4. \A t \in Threads : ThreadOK(t)
  BY <1>1 DEF ThreadOK
<1>5. \A n \in DOMAIN sent : ResolvedOK(n)
  BY <1>1
<1> QED BY <1>2, <1>3, <1>4, <1>5 DEF IInv

LEMMA NextIInv == IInv /\ [Next]_vars => IInv'
<1> SUFFICES ASSUME IInv, [Next]_vars PROVE IInv'
  OBVIOUS
<1>1. CASE Tick
  BY <1>1, TickStep
<1>2. ASSUME NEW e \in Entries \cup {Reply}, Comment(e) PROVE IInv'
  BY <1>2, CommentStep
<1>3. ASSUME NEW e \in Entries, Activity(e, "prompt") PROVE IInv'
  BY <1>3, ActivityStep
<1>4. CASE Activity(Reply, "response")
  BY <1>4, ActivityStep
<1>5. CASE DeliverCreated \/ \E i \in DOMAIN prompts, inline, rooted \in BOOLEAN :
                               DeliverPrompted(i, inline, rooted)
  BY <1>5, DeliverStep
<1>6. ASSUME NEW t \in Threads, NEW n \in DOMAIN sent, Take(t, n) PROVE IInv'
  BY <1>6, TakeStep
<1>7. ASSUME NEW t \in Threads,
             \/ ResolveCreated(t) \/ ResolvePrompted(t) \/ FetchComments(t) \/ FetchActivities(t)
             \/ Lookup(t) \/ Store(t) \/ Fail(t)
      PROVE IInv'
  BY <1>7, ResolveCreatedStep, ResolvePromptedStep, FetchCommentsStep, FetchActivitiesStep,
     LookupStep, StoreStep, FailStep
<1>8. CASE UNCHANGED vars
  <2>1. UNCHANGED <<linear, resolved>> /\ UNCHANGED <<root, description, now, comments, prompts, sent>>
    BY <1>8 DEF vars, linear
  <2>2. ASSUME NEW n, NEW u PROVE Right(u, sent[n])' <=> Right(u, sent[n])
    BY <2>1, RightByLinear
  <2>3. ASSUME NEW n \in DOMAIN sent PROVE ResolvedOK(n)'
    BY <2>1, <2>2, <1>8 DEF ResolvedOK, IInv, vars
  <2>4. TypeOK' /\ LinearOK' /\ OutcomesOK'
    BY <1>8 DEF vars, IInv, TypeOK, LinearOK, DeliveryOK, OutcomesOK
  <2>5. ASSUME NEW t \in Threads PROVE ThreadOK(t)'
    BY <1>8, ThreadOK(t) DEF vars, IInv, ThreadOK, Payload, LatestHuman, Human, Queried
  <2> QED BY <2>1, <2>3, <2>4, <2>5 DEF IInv
<1> QED BY <1>1, <1>2, <1>3, <1>4, <1>5, <1>6, <1>7, <1>8 DEF Next

LEMMA Invariance == Spec => []IInv
BY InitIInv, NextIInv, PTL DEF Spec

\* Types, for every set of threads, people and texts (the steps of
\* _process_session_event and of _command_envelope).
THEOREM TypeCorrect == Spec => []TypeOK
<1>1. IInv => TypeOK
  BY DEF IInv
<1> QED BY <1>1, Invariance, PTL

\* The prompts a query may find were there when the delivery was sent.
LEMMA LatestBefore ==
  ASSUME TypeOK, NEW d \in Deliveries, DeliveryOK(d), Queried(d)
  PROVE  Latest(d) \subseteq {i \in DOMAIN prompts : prompts[i].at <= d.at}
<1> DEFINE Eligible == {i \in Candidates : prompts[i].at <= d.at}
<1>1. d.cause \in Eligible
  BY Types DEF DeliveryOK, Queried, Candidates, Deliveries
<1>2. Pool(d) = Eligible
  BY <1>1 DEF Pool
<1>3. Eligible \subseteq {i \in DOMAIN prompts : prompts[i].at <= d.at}
  BY DEF Candidates
<1> HIDE DEF Eligible
<1> QED BY <1>2, <1>3 DEF Latest

\* A turn that agrees with the expected one of a steady delivery names
\* something written before the delivery.
LEMMA ExpectedBefore ==
  ASSUME TypeOK, NEW d \in Deliveries, DeliveryOK(d), Definite(d), Steady(d),
         NEW u \in Turns, Ident(u) = Expected(d)
  PROVE  Before(u, d)
<1> DEFINE c == LatestHuman(d.seen)
           p == CHOOSE i \in Latest(d) : TRUE
<1>1. c <= d.seen
  BY LatestHumanRight DEF LatestHumanIsLast, LatestHumanIs, Deliveries
<1>2. Queried(d) => prompts[p].at <= d.at
  BY LatestBefore DEF Definite
<1>3. d.action = "prompted" => prompts[d.cause].at <= d.at
  BY DEF DeliveryOK
<1>4. d.action \in {"created", "prompted"}
  BY DEF Deliveries
<1> HIDE DEF c, p
<1>5. ASSUME NEW v, Ident(u) = Ident(v) PROVE u.from = v.from /\ u.id = v.id
  BY <1>5 DEF Ident
<1>6. CASE Expected(d) \in {Ident(RootTurn(d)), Ident(DescriptionTurn(d))}
  <2>1. u.from \in {"root", "description"}
    BY <1>5, <1>6 DEF RootTurn, DescriptionTurn
  <2> QED BY <2>1 DEF Before
<1>7. CASE Expected(d) \in {Ident(CreatedTurn(d, "comment", c, comments[c], Unknown)),
                            Ident(PromptedTurn(d, "comment", c, comments[c]))}
  <2>1. u.from = "comment" /\ u.id = c
    BY <1>5, <1>7 DEF CreatedTurn, PromptedTurn
  <2> QED BY <1>1, <2>1 DEF Before
<1>8. CASE d.action = "prompted" /\ Expected(d) = Ident(PromptedTurn(d, "prompt", d.cause, prompts[d.cause]))
  <2>1. u.from = "prompt" /\ u.id = d.cause
    BY <1>5, <1>8 DEF PromptedTurn
  <2> QED BY <1>3, <1>8, <2>1 DEF Before
<1>9. CASE Queried(d) /\ Expected(d) = Ident(PromptedTurn(d, "prompt", p, prompts[p]))
  <2>1. u.from = "prompt" /\ u.id = p
    BY <1>5, <1>9 DEF PromptedTurn
  <2> QED BY <1>2, <1>9, <2>1 DEF Before
<1> QED BY <1>4, <1>6, <1>7, <1>8, <1>9 DEF Expected, Queried, c, p

\* _command_envelope: a delivery tried again is about the prompt that it was
\* about before, for any number of threads, comments and prompts.
THEOREM PromptIsFixed == Spec => []RetriesAgree
<1>1. ASSUME IInv PROVE RetriesAgree
  <2>1. SUFFICES ASSUME NEW n \in DOMAIN sent, Steady(sent[n]),
                        NEW u \in resolved[n], NEW v \in resolved[n]
                 PROVE  Before(u, sent[n]) /\ Key(u) = Key(v)
    BY DEF RetriesAgree
  <2>2. /\ TypeOK /\ sent[n] \in Deliveries /\ DeliveryOK(sent[n])
        /\ u \in Turns /\ v \in Turns
    BY <1>1, Types DEF IInv, LinearOK, Deliveries
  <2>3. /\ Definite(sent[n])
        /\ Ident(u) = Expected(sent[n]) /\ Ident(v) = Expected(sent[n])
    BY <1>1, <2>1 DEF IInv, ResolvedOK, Right
  <2>4. Before(u, sent[n])
    BY <2>1, <2>2, <2>3, ExpectedBefore
  <2>5. /\ u.from = v.from /\ u.as = v.as /\ u.id = v.id
        /\ u.text = v.text /\ u.stop = v.stop /\ u.replied = v.replied
    BY <2>3 DEF Ident
  <2>6. Key(u) = Key(v)
    BY <2>5 DEF Key, Route
  <2> QED BY <2>4, <2>6
<1> QED BY <1>1, Invariance, PTL

\* _command_envelope: the text, the id and the author of a turn are those of
\* one comment or activity, and never of one the agent wrote.
THEOREM TurnsAreSourced == Spec => []SourceSaysIt
<1>1. IInv => SourceSaysIt
  BY DEF IInv, SourceSaysIt, ResolvedOK, Right, Sourced
<1> QED BY <1>1, Invariance, PTL

\* _logical_operation_key: what is stored under the key of a command is the
\* outcome of that command.
THEOREM AnswersFitCommands == Spec => []AnswersMatch
<1>1. ASSUME IInv PROVE AnswersMatch
  <2>1. SUFFICES ASSUME NEW u, Key(u) \in DOMAIN outcomes, NEW v, v = outcomes[Key(u)]
                 PROVE  v.from = u.from /\ v.id = u.id /\ v.text = u.text /\ Route(v) = Route(u)
    BY DEF AnswersMatch
  <2>2. Key(v) = Key(u)
    BY <1>1, <2>1 DEF IInv, OutcomesOK
  <2> QED BY <2>2 DEF Key
<1> QED BY <1>1, Invariance, PTL

\* _route_type, _response_mode and _compute_terminal_activity agree on every
\* text, whatever markers it has.
THEOREM ClassificationsFit == Spec => []HandlersFit
<1>1. HandlersFit
  <2>1. SUFFICES ASSUME NEW u
                 PROVE  /\ UsesLedger(u) => FetchesComments(u)
                        /\ Route(u) = "approval" <=> Handler(u) = "approve"
                        /\ u.stop => Handler(u) = "stop"
                        /\ Handler(u) # "product_brief"
    BY DEF HandlersFit
  <2>2. UsesLedger(u) => FetchesComments(u)
    BY DEF UsesLedger, FetchesComments, Handler, Route, Mode
  <2>3. /\ Route(u) = "approval" <=> Handler(u) = "approve"
        /\ u.stop => Handler(u) = "stop"
    BY DEF Handler, Route, Mode
  <2>4. Handler(u) # "product_brief"
    BY DEF Handler, Route, Mode
  <2> QED BY <2>2, <2>3, <2>4
<1> QED BY <1>1, PTL
-----------------------------------------------------------------------------
(* Steps *)

OutcomesStand ==
  \A k \in DOMAIN outcomes : k \in DOMAIN outcomes' /\ outcomes'[k] = outcomes[k]

ResolvedGrow ==
  \A n \in DOMAIN sent : n \in DOMAIN resolved' /\ resolved[n] \subseteq resolved'[n]

\* Store has no effect under a key that is taken, and no other action writes
\* outcomes; a delivery keeps every turn it has been resolved to.
LEMMA StoresChange ==
  ASSUME TypeOK, [Next]_vars
  PROVE  OutcomesStand /\ ResolvedGrow
<1> USE Types DEF OutcomesStand, ResolvedGrow
<1>1. CASE UNCHANGED <<outcomes, resolved>>
  BY <1>1
<1>2. CASE Tick
  BY <1>1, <1>2 DEF Tick, Threaded
<1>3. ASSUME NEW e, NEW k, Comment(e) \/ Activity(e, k) PROVE OutcomesStand /\ ResolvedGrow
  BY <1>1, <1>3 DEF Comment, Activity, Threaded
<1>4. ASSUME NEW a, NEW i, NEW n, NEW r, Deliver(a, i, n, r) PROVE OutcomesStand /\ ResolvedGrow
  <2>1. resolved' = Append(resolved, {}) /\ outcomes' = outcomes
    BY <1>4 DEF Deliver, Threaded
  <2>2. resolved \in Seq(SUBSET Turns)
    BY DEF TypeOK
  <2> QED BY <2>1, <2>2
<1>5. ASSUME NEW t, NEW u, Settle(t, u), outcomes' = outcomes PROVE OutcomesStand /\ ResolvedGrow
  BY <1>5 DEF Settle
<1>6. ASSUME NEW t, Store(t) PROVE OutcomesStand /\ ResolvedGrow
  BY <1>6 DEF Store
<1>7. ASSUME NEW t, \/ \E n \in DOMAIN sent : Take(t, n)
                    \/ Lookup(t) \/ Fail(t)
      PROVE OutcomesStand /\ ResolvedGrow
  BY <1>1, <1>7 DEF Take, Lookup, Fail
<1>8. ASSUME NEW t, ResolveCreated(t) \/ FetchComments(t) PROVE OutcomesStand /\ ResolvedGrow
  <2> HIDE DEF OutcomesStand, ResolvedGrow
  <2> QED BY <1>1, <1>5, <1>8 DEF ResolveCreated, FetchComments, Fetch, Refuse
<1>9. ASSUME NEW t, ResolvePrompted(t) \/ FetchActivities(t) PROVE OutcomesStand /\ ResolvedGrow
  <2> HIDE DEF OutcomesStand, ResolvedGrow
  <2> QED BY <1>1, <1>5, <1>9 DEF ResolvePrompted, FetchActivities, Fetch, Refuse
<1>10. CASE UNCHANGED vars
  BY <1>1, <1>10 DEF vars
<1> HIDE DEF OutcomesStand, ResolvedGrow
<1> QED BY <1>2, <1>3, <1>4, <1>6, <1>7, <1>8, <1>9, <1>10
        DEF Next, DeliverCreated, DeliverPrompted

\* A retry of a delivery finds what an earlier try found, whoever has written
\* what in between.
Repeats ==
  \A n \in DOMAIN sent : Steady(sent[n]) =>
    \A u \in resolved[n] : Key(u) \in DOMAIN outcomes =>
      \A v \in resolved'[n] :
        Key(v) \in DOMAIN outcomes' /\ outcomes'[Key(v)] = outcomes[Key(u)]

\* _process_session_event: the outcome of a command is written once and never
\* changed, and a delivery that has had one has that one at every retry.
THEOREM RetriesRepeat == Spec => [][OutcomesStand /\ Repeats]_vars
<1>1. ASSUME IInv, RetriesAgree', [Next]_vars PROVE OutcomesStand /\ Repeats
  <2>1. TypeOK /\ LinearOK
    BY <1>1 DEF IInv
  <2>2. OutcomesStand /\ ResolvedGrow /\ Grows
    BY <1>1, <2>1, StoresChange, NextGrows
  <2>3. ASSUME NEW n \in DOMAIN sent, Steady(sent[n]),
               NEW u \in resolved[n], Key(u) \in DOMAIN outcomes, NEW v \in resolved'[n]
        PROVE  Key(v) \in DOMAIN outcomes' /\ outcomes'[Key(v)] = outcomes[Key(u)]
    <3>1. sent'[n] = sent[n] /\ n \in DOMAIN resolved' /\ u \in resolved'[n]
      BY <2>1, <2>2, <2>3, Types DEF Grows, ResolvedGrow
    <3>2. n \in DOMAIN sent'
      BY <2>1, <2>2, <2>3, Types DEF Grows
    <3>3. PICK d : d = sent[n]
      OBVIOUS
    <3>4. sent'[n] = d
      BY <3>1, <3>3
    <3>5. d.seen \in Nat /\ d.seen <= Len(comments) /\ Len(comments) \in Nat
      BY <2>1, <2>3, <3>3, Types DEF LinearOK, DeliveryOK
    <3>6. LatestHuman(d.seen)' = LatestHuman(d.seen)
      BY <2>2, <3>5, LatestHumanStays
    <3>7. Steady(d)'
      BY <2>2, <2>3, <3>3, <3>6 DEF Steady, Grows
    <3>8. Key(u) = Key(v)
      BY <1>1, <2>3, <3>1, <3>2, <3>4, <3>7 DEF RetriesAgree
    <3> QED BY <2>2, <2>3, <3>8 DEF OutcomesStand
  <2> QED BY <2>2, <2>3 DEF Repeats
<1> QED BY <1>1, Invariance, PromptIsFixed, PTL DEF Spec
=============================================================================
