--------------------------- MODULE CircuitBreaker ---------------------------
(***************************************************************************)
(* The circuit breaker in front of an LLM provider, a database or an       *)
(* embedder: its fields and its three methods.  The monotonic clock is     *)
(* compared with the recovery timeout only, so `due' says whether the      *)
(* timeout has passed since the breaker last opened.  Nothing but the      *)
(* comparison with failure_threshold reads the count of failures, so it    *)
(* saturates there.                                                        *)
(***************************************************************************)
EXTENDS Naturals

CONSTANTS FailureThreshold, HalfOpenMax

ASSUME ThresholdAssumption ==
  FailureThreshold \in Nat \ {0} /\ HalfOpenMax \in Nat \ {0}

Breaker == [state : {"closed", "open", "half_open"},
            failures : 0 .. FailureThreshold,
            calls : 0 .. HalfOpenMax,
            due : BOOLEAN]

NewBreaker == [state |-> "closed", failures |-> 0, calls |-> 0, due |-> FALSE]

Opened(b) == [b EXCEPT !.state = "open", !.calls = 0, !.due = FALSE]
HalfOpened(b) == [b EXCEPT !.state = "half_open", !.calls = 0, !.due = FALSE]
Closed(b) == [b EXCEPT !.state = "closed", !.failures = 0, !.calls = 0]

\* The answer of can_execute ...  Operators with an underscore in their name
\* are faulty variants of the one they precede.
CanExecute_StaysOpen(b) ==
  b.state = "closed" \/ (b.state = "half_open" /\ b.calls < HalfOpenMax)
CanExecute(b) ==
  \/ b.state = "closed"
  \/ b.state = "open" /\ b.due
  \/ b.state = "half_open" /\ b.calls < HalfOpenMax

\* ... and what it does to the breaker when the answer is yes.
Admit_CountsCalls(b) ==
  LET c == IF b.state = "open" THEN HalfOpened(b) ELSE b
  IN IF c.state = "half_open" THEN [c EXCEPT !.calls = @ + 1] ELSE c
Admit(b) == IF b.state = "open" THEN HalfOpened(b) ELSE b

\* track_success
Success(b) ==
  LET c == IF b.state = "half_open" THEN Closed(b) ELSE b
  IN [c EXCEPT !.failures = 0, !.calls = 0]

\* track_failure
Counted(b) ==
  [b EXCEPT !.failures = IF @ = FailureThreshold THEN @ ELSE @ + 1]
Failure_OnePastThreshold(b) ==
  IF b.state = "half_open" \/ b.failures = FailureThreshold
    THEN Opened(Counted(b)) ELSE Counted(b)
Failure(b) ==
  IF b.state = "half_open" \/ Counted(b).failures = FailureThreshold
    THEN Opened(Counted(b)) ELSE Counted(b)

=============================================================================
