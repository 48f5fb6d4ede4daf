------------------------------ MODULE BriefLog ------------------------------
(***************************************************************************)
(* What the Product Brief store promises, whatever its handlers do: the    *)
(* versions of one brief form an append-only log whose entries never       *)
(* change, and an approval, once recorded for a comment, is permanent and  *)
(* binds the content that the named version had and still has.             *)
(***************************************************************************)
EXTENDS Naturals, Sequences

CONSTANTS
  Contents,        \* normalised brief contents (one per content hash)
  Complete,        \* the contents that start out awaiting the Founder
  ApproveComments, \* comments holding an exact `APPROVE SPEC <version>`
  Names            \* Names[a]: the version number that comment a names

VARIABLES
  log,             \* log[v]: the content of version v
  approved         \* approved[a]: the content that comment a approved

Put(f, k, d) == [x \in DOMAIN f \cup {k} |-> IF x = k THEN d ELSE f[x]]

Init ==
  /\ log = << >>
  /\ approved = << >>

AppendVersion(c) ==
  /\ log' = Append(log, c)
  /\ UNCHANGED approved

Approve(a) ==
  /\ a \notin DOMAIN approved
  /\ Names[a] \in DOMAIN log
  /\ log[Names[a]] \in Complete
  /\ approved' = Put(approved, a, log[Names[a]])
  /\ UNCHANGED log

Next ==
  \/ \E c \in Contents : AppendVersion(c)
  \/ \E a \in ApproveComments : Approve(a)

Spec == Init /\ [][Next]_<<log, approved>>

-----------------------------------------------------------------------------
(* What a user of the log relies on *)

\* An approval binds the content of the version that it names.
Bound == \A a \in DOMAIN approved : Names[a] \in DOMAIN log /\ approved[a] = log[Names[a]]

\* Neither an entry of the log nor an approval ever changes or goes away.
Permanent ==
  [][/\ \A v \in DOMAIN log : v \in DOMAIN log' /\ log'[v] = log[v]
     /\ \A a \in DOMAIN approved : a \in DOMAIN approved' /\ approved'[a] = approved[a]]_<<log, approved>>
=============================================================================
