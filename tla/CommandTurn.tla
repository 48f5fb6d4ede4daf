----------------------------- MODULE CommandTurn -----------------------------
(***************************************************************************)
(* The turn of a delivery: which human prompt of an agent session a        *)
(* webhook is about (_command_envelope and what it fetches from Linear),   *)
(* the route it takes, and the outcome that is stored under the key of the *)
(* command.  One session of one issue is followed; its people and the      *)
(* agent go on writing while threads resolve deliveries and resolve them   *)
(* again after a failed call.                                              *)
(*                                                                         *)
(* A text is the set of the markers that the code looks for in it.         *)
(* Receipts, which LiveWebhook has, decide how often a delivery is tried;  *)
(* here it is tried any number of times.                                   *)
(***************************************************************************)
EXTENDS Naturals, Sequences

CONSTANTS
  Threads,
  People,           \* Linear users
  Entries,          \* what people write: text and author
  Sessions,         \* what a session may start with: comment and description
  MaxTime,          \* BOUND: the clock of Linear
  MaxWritten,       \* BOUND: comments of the issue and activities of the session
  MaxSent           \* BOUND: deliveries

Markers == {"starter", "boilerplate", "stop", "approval", "reference", "brief", "milestone",
            "scope", "fresh", "discovery", "follow_up", "advisory"}
App     == "app"
Unknown == "unknown"
NoText  == {"none"}
NoRoot  == [text |-> NoText, author |-> Unknown]
Reply   == [text |-> {"boilerplate"}, author |-> App]    \* what the agent writes

ASSUME ConstantsAssumption ==
  /\ App \notin People /\ Unknown \notin People
  /\ Entries \subseteq [text : SUBSET Markers, author : People \cup {Unknown}]
  /\ Sessions \subseteq [comment : [text : SUBSET Markers, author : People \cup {App, Unknown}]
                                     \cup {NoRoot},
                         description : (SUBSET Markers) \cup {NoText}]
  /\ {MaxTime, MaxWritten, MaxSent} \subseteq Nat

VARIABLES
  root,             \* the comment of the session, NoRoot without one
  description,      \* of the issue, NoText for an empty one
  now,
  comments,         \* of the issue: text and author, in the order written
  prompts,          \* activities of the session: text, author, kind, time
  sent,             \* deliveries: the payload of each
  pc, dlv,          \* per thread: the next step, and the delivery
  live,             \* the latest comment of the issue when it was fetched
  turn,             \* what the thread's delivery has been resolved to
  outcomes,         \* stored outcomes: command key -> the turn it answers
  resolved          \* per delivery: every turn it has been resolved to

linear == <<root, description, now, comments, prompts, sent>>
vars   == <<root, description, now, comments, prompts, sent,
            pc, dlv, live, turn, outcomes, resolved>>

Working == {"resolve", "fetch_comments", "fetch_activities", "lookup", "store"}

\* A comment of the issue, or an activity, serves as a comment or activity.
Turns == [from : {"root", "comment", "prompt", "description"}, as : {"comment", "activity"},
          id : Nat, text : (SUBSET Markers) \cup {NoText}, actor : People \cup {App},
          stop : BOOLEAN, replied : BOOLEAN]

NoTurn == [from |-> "description", as |-> "comment", id |-> 0, text |-> {},
           actor |-> App, stop |-> FALSE, replied |-> FALSE]

Init ==
  /\ \E s \in Sessions : root = s.comment /\ description = s.description
  /\ now = 0 /\ comments = << >> /\ prompts = << >> /\ sent = << >>
  /\ pc = [t \in Threads |-> "idle"]
  /\ dlv = [t \in Threads |-> 0]
  /\ live = [t \in Threads |-> 0]
  /\ turn = [t \in Threads |-> NoTurn]
  /\ outcomes = << >> /\ resolved = << >>

-----------------------------------------------------------------------------
(* Linear *)

Threaded == UNCHANGED <<root, description, pc, dlv, live, turn, outcomes>>

Tick ==
  /\ now < MaxTime
  /\ now' = now + 1
  /\ UNCHANGED <<comments, prompts, sent, resolved>> /\ Threaded

Comment(e) ==
  /\ Len(comments) + Len(prompts) < MaxWritten
  /\ comments' = Append(comments, [text |-> e.text, author |-> e.author])
  /\ UNCHANGED <<now, prompts, sent, resolved>> /\ Threaded

\* A person writes to the agent, or the agent answers.
Activity(e, kind) ==
  /\ Len(comments) + Len(prompts) < MaxWritten
  /\ prompts' = Append(prompts, [text |-> e.text, author |-> e.author, kind |-> kind, at |-> now])
  /\ UNCHANGED <<now, comments, sent, resolved>> /\ Threaded

\* A payload is a snapshot of the session.
Deliver(action, cause, inline, rooted) ==
  /\ Len(sent) < MaxSent
  /\ sent' = Append(sent, [action |-> action, cause |-> cause, inline |-> inline,
                           rooted |-> rooted, seen |-> Len(comments), at |-> now])
  /\ resolved' = Append(resolved, {})
  /\ UNCHANGED <<now, comments, prompts>> /\ Threaded

DeliverCreated == sent = << >> /\ Deliver("created", 0, FALSE, root # NoRoot)

\* A delivery of a prompt may lack it, and may lack the session's comment.
DeliverPrompted(i, inline, rooted) ==
  /\ prompts[i].kind = "prompt" \/ inline
  /\ rooted => root # NoRoot
  /\ Deliver("prompted", i, inline, rooted)

-----------------------------------------------------------------------------
(* Which prompt: _command_envelope *)

Payload(t) == sent[dlv[t]]

\* Mutant of Human: comments of the agent count as well.
Human_AnyAuthor(c) == "starter" \notin c.text

Human(c) == c.author # App /\ "starter" \notin c.text

\* _latest_previous_human_comment among the first n comments, 0 for none.
LatestHuman(n) ==
  IF \E i \in 1..n : Human(comments[i])
  THEN CHOOSE i \in 1..n : Human(comments[i]) /\ \A j \in i+1..n : ~Human(comments[j])
  ELSE 0

\* A text that no person has written as a request.
Filler(x) == "starter" \in x \/ "boilerplate" \in x

\* Mutant of Or: no fallback for an author that Linear does not name.
Or_First(p, q) == p

Or(p, q) == IF p # Unknown THEN p ELSE q

Replied(d) == \E i \in 1..d.seen : comments[i].author = App

CommentAuthor(i) == IF i = 0 THEN Unknown ELSE comments[i].author

RootAuthor(d) == IF d.rooted THEN root.author ELSE Unknown

RootTurn(d) ==
  [from |-> "root", as |-> "comment", id |-> 0, text |-> root.text, actor |-> Or(root.author, App),
   stop |-> "stop" \in root.text, replied |-> Replied(d)]

DescriptionTurn(d) ==
  [from |-> "description", as |-> "comment", id |-> 0, text |-> description, actor |-> App,
   stop |-> FALSE, replied |-> Replied(d)]

\* A session that was created: the signals stay those of its own comment.
CreatedTurn(d, from, id, item, other) ==
  [from |-> from, as |-> "comment", id |-> id, text |-> item.text,
   actor |-> Or(item.author, Or(other, Or(RootAuthor(d), App))),
   stop |-> "stop" \in root.text, replied |-> Replied(d)]

PromptedTurn(d, from, id, item) ==
  [from |-> from, as |-> "activity", id |-> id, text |-> item.text,
   actor |-> Or(item.author, Or(RootAuthor(d), App)),
   stop |-> "stop" \in item.text, replied |-> Replied(d)]

Goto(t, label) == pc' = [pc EXCEPT ![t] = label]

\* A thread is done with its delivery.
Done(t) ==
  /\ Goto(t, "idle")
  /\ dlv' = [dlv EXCEPT ![t] = 0]
  /\ live' = [live EXCEPT ![t] = 0]
  /\ turn' = [turn EXCEPT ![t] = NoTurn]

Settle(t, u) ==
  /\ turn' = [turn EXCEPT ![t] = u]
  /\ resolved' = [resolved EXCEPT ![dlv[t]] = @ \cup {u}]
  /\ Goto(t, "lookup")
  /\ UNCHANGED <<dlv, live>>

Fetch(t, label) == Goto(t, label) /\ UNCHANGED <<dlv, turn, resolved>>

\* CommandResolutionError: an error is published and no command is run.  It is
\* stored under the id of the delivery, where no command is looked up.
Refuse(t) == Done(t) /\ UNCHANGED resolved

\* The clock has moved on when a delivery is handled, for the first time or
\* again after a failure.
Take(t, n) ==
  /\ pc[t] = "idle"
  /\ sent[n].at < now
  /\ dlv' = [dlv EXCEPT ![t] = n]
  /\ live' = [live EXCEPT ![t] = 0]
  /\ Goto(t, "resolve")
  /\ UNCHANGED <<linear, turn, outcomes, resolved>>

ResolveCreated(t) ==
  /\ pc[t] = "resolve" /\ Payload(t).action = "created"
  /\ \/ root = NoRoot /\ description # NoText /\ Settle(t, DescriptionTurn(Payload(t)))
     \/ root = NoRoot /\ description = NoText /\ Refuse(t)
     \/ root # NoRoot /\ ~Filler(root.text) /\ Settle(t, RootTurn(Payload(t)))
     \/ root # NoRoot /\ Filler(root.text) /\ Fetch(t, "fetch_comments") /\ UNCHANGED live
  /\ UNCHANGED <<linear, outcomes>>

\* Latest comments of the payload go before what Linear returns.  The comment
\* of the session is older than comments and not among them, so the code's test
\* that the two differ holds; with c = 0 its second look for a starter comment
\* finds nothing again.  The payload of a created session has no activity.
FetchComments(t) ==
  /\ pc[t] = "fetch_comments"
  /\ LET d == Payload(t)
         c == LatestHuman(d.seen)
         l == LatestHuman(Len(comments))
     IN  IF c = 0
         THEN Fetch(t, "fetch_activities") /\ live' = [live EXCEPT ![t] = l]
         ELSE Settle(t, CreatedTurn(d, "comment", c, comments[c], CommentAuthor(l)))
  /\ UNCHANGED <<linear, outcomes>>

\* The activity in the payload, the comment of the session, or a query.
ResolvePrompted(t) ==
  /\ pc[t] = "resolve" /\ Payload(t).action = "prompted"
  /\ LET d == Payload(t)
         a == prompts[d.cause]
         c == LatestHuman(d.seen)
         byPerson == d.inline /\ a.kind = "prompt"
     IN  \/ byPerson /\ Settle(t, PromptedTurn(d, "prompt", d.cause, a))
         \/ ~byPerson /\ d.rooted /\ Settle(t, RootTurn(d))
         \/ ~byPerson /\ ~d.rooted /\ d.inline /\ Filler(a.text) /\ c # 0
            /\ Settle(t, PromptedTurn(d, "comment", c, comments[c]))
         \/ ~byPerson /\ ~d.rooted /\ d.inline /\ (~Filler(a.text) \/ c = 0)
            /\ Refuse(t)
         \/ ~d.inline /\ ~d.rooted /\ Fetch(t, "fetch_activities") /\ UNCHANGED live
  /\ UNCHANGED <<linear, outcomes>>

\* _is_prompt_candidate
Candidates == {i \in DOMAIN prompts : prompts[i].kind = "prompt"}

\* Mutant of Pool: what was written after the delivery counts as well.
Pool_AnyTime(d) == Candidates

\* Prompts up to the time of the delivery, or all if there is none.
Pool(d) ==
  LET eligible == {i \in Candidates : prompts[i].at <= d.at}
  IN  IF eligible # {} THEN eligible ELSE Candidates

Latest(d) == {i \in Pool(d) : \A j \in Pool(d) : prompts[j].at <= prompts[i].at}

\* The one latest prompt; two of one millisecond are not told apart.
FetchActivities(t) ==
  /\ pc[t] = "fetch_activities"
  /\ LET d == Payload(t)
         c == LatestHuman(d.seen)
         created == d.action = "created"
         unique == \E i \in Latest(d) : Latest(d) = {i}
         p == CHOOSE i \in Latest(d) : TRUE
     IN  \/ unique /\ created /\ Settle(t, CreatedTurn(d, "prompt", p, prompts[p], CommentAuthor(live[t])))
         \/ unique /\ ~created /\ Filler(prompts[p].text) /\ c # 0
            /\ Settle(t, PromptedTurn(d, "comment", c, comments[c]))
         \/ unique /\ ~created /\ (~Filler(prompts[p].text) \/ c = 0)
            /\ Settle(t, PromptedTurn(d, "prompt", p, prompts[p]))
         \/ ~unique /\ created /\ live[t] # 0
            /\ Settle(t, CreatedTurn(d, "comment", live[t], comments[live[t]], Unknown))
         \/ ~unique /\ created /\ live[t] = 0 /\ Settle(t, RootTurn(d))
         \/ ~unique /\ ~created /\ Refuse(t)
  /\ UNCHANGED <<linear, outcomes>>

-----------------------------------------------------------------------------
(* Route and outcome *)

Route(u) ==
  IF u.stop THEN "stop"
  ELSE IF "approval" \in u.text THEN "approval"
  ELSE IF "reference" \in u.text THEN "brief_reference"
  ELSE IF "brief" \in u.text THEN "product_brief"
  ELSE IF u.replied \/ "follow_up" \in u.text THEN "conversational_follow_up"
  ELSE "advisory"

\* _response_mode decides what is fetched, and answers what has no route.
Mode(u) ==
  IF "milestone" \in u.text THEN "milestone_report"
  ELSE IF "brief" \in u.text THEN "product_brief"
  ELSE IF "scope" \in u.text THEN "scope_proposal"
  ELSE IF "fresh" \in u.text THEN "fresh_start"
  ELSE IF u.replied \/ "discovery" \in u.text THEN "discovery"
  ELSE IF "advisory" \in u.text THEN "advisory"
  ELSE "conversation"

Handler(u) ==
  IF Route(u) = "stop" THEN "stop"
  ELSE IF "approval" \in u.text THEN "approve"
  ELSE IF Route(u) = "product_brief" THEN "create_or_reuse"
  ELSE IF Route(u) = "brief_reference" THEN "brief_reference"
  ELSE Mode(u)

FetchesComments(u) == Mode(u) # "fresh_start"
UsesLedger(u) ==
  Handler(u) \in {"create_or_reuse", "milestone_report", "scope_proposal", "discovery", "conversation"}

\* _logical_operation_key: the route, the ids of the source and the text.
Key(u) == <<Route(u), u.from, u.as, u.id, u.text>>

\* The outcome of an earlier delivery of the command is published again.
Lookup(t) ==
  /\ pc[t] = "lookup"
  /\ \/ Key(turn[t]) \in DOMAIN outcomes /\ Done(t)
     \/ Key(turn[t]) \notin DOMAIN outcomes /\ Goto(t, "store") /\ UNCHANGED <<dlv, live, turn>>
  /\ UNCHANGED <<linear, outcomes, resolved>>

\* The command is run and its outcome published and stored, unless another
\* thread has stored one meanwhile.
Store(t) ==
  /\ pc[t] = "store"
  /\ outcomes' = IF Key(turn[t]) \in DOMAIN outcomes THEN outcomes
                 ELSE [k \in DOMAIN outcomes \cup {Key(turn[t])} |->
                         IF k \in DOMAIN outcomes THEN outcomes[k] ELSE turn[t]]
  /\ Done(t)
  /\ UNCHANGED <<linear, resolved>>

\* A call of Linear fails, or the process dies: the delivery may come again.
Fail(t) ==
  /\ pc[t] \in Working
  /\ Done(t)
  /\ UNCHANGED <<linear, outcomes, resolved>>

Next ==
  \/ Tick
  \/ \E e \in Entries : Comment(e) \/ Activity(e, "prompt")
  \/ Comment(Reply) \/ Activity(Reply, "response")
  \/ DeliverCreated
  \/ \E i \in DOMAIN prompts, inline, rooted \in BOOLEAN : DeliverPrompted(i, inline, rooted)
  \/ \E t \in Threads :
       \/ \E n \in DOMAIN sent : Take(t, n)
       \/ ResolveCreated(t) \/ ResolvePrompted(t) \/ FetchComments(t) \/ FetchActivities(t)
       \/ Lookup(t) \/ Store(t) \/ Fail(t)

Spec == Init /\ [][Next]_vars

-----------------------------------------------------------------------------
(* Properties *)

\* The type invariant.
TypeOK ==
  /\ \E s \in Sessions : root = s.comment /\ description = s.description
  /\ now \in Nat
  /\ comments \in Seq([text : SUBSET Markers, author : People \cup {App, Unknown}])
  /\ prompts \in Seq([text : SUBSET Markers, author : People \cup {App, Unknown},
                      kind : {"prompt", "response"}, at : Nat])
  /\ sent \in Seq([action : {"created", "prompted"}, cause : Nat, inline : BOOLEAN,
                   rooted : BOOLEAN, seen : Nat, at : Nat])
  /\ resolved \in Seq(SUBSET Turns) /\ Len(resolved) = Len(sent)
  /\ pc \in [Threads -> {"idle"} \cup Working]
  /\ dlv \in [Threads -> 0..Len(sent)]
  /\ live \in [Threads -> 0..Len(comments)]
  /\ turn \in [Threads -> Turns]

\* Every delivery but that of a session created on a filler comment, with no
\* earlier comment of a person: such a one is resolved by what is there now.
Steady(d) == d.action = "prompted" \/ ~Filler(root.text) \/ LatestHuman(d.seen) # 0

Before(u, d) ==
  /\ u.from = "prompt" => prompts[u.id].at <= d.at
  /\ u.from = "comment" => u.id <= d.seen

\* A delivery that is tried again is about the same prompt, one written before
\* it was sent, whatever has been written since: it may fail to tell, but it
\* never acts on another prompt, and it finds what it has stored.
RetriesAgree ==
  \A n \in DOMAIN sent : Steady(sent[n]) =>
    \A u, v \in resolved[n] : Before(u, sent[n]) /\ Key(u) = Key(v)

\* Provenance: a turn has the text of the comment or activity it names, and
\* its author if Linear says who that is; the agent is never the author.
Source(u) == IF u.from = "comment" THEN comments[u.id] ELSE prompts[u.id]
SourceSaysIt ==
  \A n \in DOMAIN sent : \A u \in resolved[n] :
    u.from \in {"comment", "prompt"} =>
      /\ u.text = Source(u).text /\ Source(u).author # App
      /\ Source(u).author # Unknown => u.actor = Source(u).author

\* The next two say how parts of one delivery fit and are proved, not checked.
\* The outcome that is published for a command was computed for its prompt: a
\* command takes the answer of another one only if it is that one again.
AnswersMatch ==
  \A n \in DOMAIN sent : \A u \in resolved[n] :
    Key(u) \in DOMAIN outcomes =>
      LET v == outcomes[Key(u)]
      IN  v.from = u.from /\ v.id = u.id /\ v.text = u.text /\ Route(v) = Route(u)

\* The two classifications of a text agree: whoever builds the ledger of
\* decisions has the comments of the issue, and what is stored as a stop,
\* an approval or a brief is what was run.
HandlersFit ==
  \A t \in Threads : pc[t] \in {"lookup", "store"} =>
    LET u == turn[t]
    IN  /\ UsesLedger(u) => FetchesComments(u)
        /\ Route(u) = "approval" <=> Handler(u) = "approve"
        /\ u.stop => Handler(u) = "stop"
        /\ Handler(u) # "product_brief"
=============================================================================
