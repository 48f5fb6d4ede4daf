---------------------------- MODULE MCConformance ----------------------------
(***************************************************************************)
(* A small instance of Conformance: two versions of a decision about a     *)
(* mobile feature; an issue about the second one; a pull request of two    *)
(* commits to which files are pushed, and another one with one of these    *)
(* commits that names the decision only when it is edited.                 *)
(***************************************************************************)
EXTENDS Conformance, TLC

CONSTANTS c1, c2, i1, p1, p2, m1, m2,
          resume, mobile, billing, account, permissions, resuming, access, invoices

MCWords      == {resume, mobile, billing, account, permissions}
MCStatements == {resuming, access, invoices}
MCWordsOf    == (resuming :> {resume, mobile}) @@ (access :> {account, permissions})
                @@ (invoices :> {billing})

MCInScope    == [c \in {c1, c2} |-> {resuming}]
MCOutOfScope == (c1 :> {invoices, access}) @@ (c2 :> {invoices})
MCCriteria   == [c \in {c1, c2} |-> {resuming}]

MCMentions == (i1 :> <<2>>) @@ (p1 :> <<1, 1>>) @@ (p2 :> <<0, 1>>)
              @@ (m1 :> <<1>>) @@ (m2 :> <<0>>)
MCText     == (i1 :> <<{mobile, permissions}>>) @@ (p1 :> <<{billing}, {billing}>>)
              @@ (p2 :> <<{}, {resuming, resume, mobile, account}>>) @@ (m1 :> <<{mobile, billing}>>)
              @@ (m2 :> <<{resuming, billing, permissions}>>)
MCTests    == (p1 :> <<{resume}, {resume}>>) @@ (p2 :> <<{}, {mobile, resume}>>)
MCNotes    == (p1 :> <<{}, {billing}>>) @@ (p2 :> <<{}, {account}>>)
MCFiles    == (p1 :> <<{mobile}, {mobile, permissions}>>) @@ (p2 :> <<{account}, {account}>>)
MCCommitsOf == (p1 :> {m1, m2}) @@ (p2 :> {m2})
MCCheckText == (p1 :> {mobile}) @@ (p2 :> {resuming})
=============================================================================
