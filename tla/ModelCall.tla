------------------------------ MODULE ModelCall ------------------------------
(***************************************************************************)
(* A call of the model provider: attempts that share one count, whichever  *)
(* way they fail, with a pause after each and a larger output budget after *)
(* an answer that was cut off.  The adapters of advisories and of briefs   *)
(* have the same loop and differ in what they make of bad answers.         *)
(* The unit of time is the first pause, half a second.                     *)
(***************************************************************************)
EXTENDS Naturals

CONSTANTS
  MaxRetries,       \* max_retries
  Timeout           \* timeout_seconds

\* What an attempt may bring: an answer that fits the schema, one that does
\* not, none (a refusal), one cut off for its budget or for another reason,
\* HTTP 429, no connection or time out, a status worth another attempt, another
\* status, any other exception.
Results == {"valid", "invalid", "no_text", "truncated", "incomplete", "rate_limit",
            "unreachable", "busy", "rejected", "unexpected"}

Transient == {"truncated", "rate_limit", "unreachable", "busy"}

Calls == [attempt : Nat, grown : Nat, elapsed : Nat]

FirstAttempt == [attempt |-> 1, grown |-> 0, elapsed |-> 0]

\* Mutant of Again: a cut off answer is asked for again without a limit.
Again_Truncated(call, result) ==
  \/ result = "truncated"
  \/ call.attempt <= MaxRetries /\ result \in Transient

Again(call, result) == call.attempt <= MaxRetries /\ result \in Transient

\* The attempt took some time, and the pause before the next is its number.
NextAttempt(call, result, time) ==
  [attempt |-> call.attempt + 1,
   grown   |-> IF result = "truncated" THEN call.grown + 1 ELSE call.grown,
   elapsed |-> call.elapsed + time + call.attempt]

\* How a call may end that is not repeated: the turn knows an IntelligenceError
\* ("provider") and every other exception ("internal").  The brief adapter lets
\* schema errors and unexpected exceptions pass; the advisory one may trip over
\* an output item without content where it looks for text.
Errors(brief, result) ==
  IF brief /\ result \in {"invalid", "unexpected"} THEN {"internal"}
  ELSE IF ~brief /\ result = "no_text" THEN {"provider", "internal"}
  ELSE {"provider"}
=============================================================================
