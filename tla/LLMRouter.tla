----------------------------- MODULE LLMRouter ------------------------------
(***************************************************************************)
(* LLMRouter: a primary provider tried up to max_retries times, then a     *)
(* fallback tried once, each behind a circuit breaker that every request   *)
(* of the process shares.  Handlers run on one event loop: what a handler  *)
(* does between two awaits is one step, and a provider call is the await.  *)
(***************************************************************************)
EXTENDS CircuitBreaker

CONSTANTS Requests, MaxRetries, HasFallback

ASSUME RouterAssumption == MaxRetries \in Nat \ {0} /\ HasFallback \in BOOLEAN

VARIABLES
  breaker,    \* the breaker of each provider
  pc,         \* where the request is: the provider it awaits, or its end
  streaming,  \* stream() rather than generate()
  attempt,    \* calls of the primary the request in progress has made
  heard       \* the attempts whose tokens the client was sent

vars == <<breaker, pc, streaming, attempt, heard>>

Providers == {"primary", "fallback"}
Attempts == ({"primary"} \X (1 .. MaxRetries)) \cup {<<"fallback", 1>>}
Returned == {"answered", "truncated"}
Ended == Returned \cup {"raised", "cancelled"}
PC == {"idle"} \cup Providers \cup Ended

CurrentAttempt(r) ==
  IF pc[r] = "primary" THEN <<"primary", attempt[r]>> ELSE <<"fallback", 1>>

Init ==
  /\ breaker = [p \in Providers |-> NewBreaker]
  /\ pc = [r \in Requests |-> "idle"]
  /\ streaming = [r \in Requests |-> FALSE]
  /\ attempt = [r \in Requests |-> 0]
  /\ heard = [r \in Requests |-> {}]

Goto(r, next) == pc' = [pc EXCEPT ![r] = next]

\* The request leaves the primary after n calls of it, and its breaker as b:
\* the fallback is called when there is one and its breaker admits the call.
ToFallback(r, n, b) ==
  LET f == breaker["fallback"]
  IN \/ /\ HasFallback /\ CanExecute(f)
        /\ Goto(r, "fallback")
        /\ attempt' = [attempt EXCEPT ![r] = n]
        /\ breaker' = [p \in Providers |-> IF p = "primary" THEN b ELSE Admit(f)]
     \/ /\ ~(HasFallback /\ CanExecute(f))
        /\ Goto(r, "raised")
        /\ attempt' = [attempt EXCEPT ![r] = 0]
        /\ breaker' = [breaker EXCEPT !["primary"] = b]

\* A handler calls generate or stream.
Ask(r, streams) ==
  /\ pc[r] \in {"idle"} \cup Ended
  /\ streaming' = [streaming EXCEPT ![r] = streams]
  /\ heard' = [heard EXCEPT ![r] = {}]
  /\ LET b == breaker["primary"]
     IN \/ /\ CanExecute(b)
           /\ Goto(r, "primary")
           /\ attempt' = [attempt EXCEPT ![r] = 1]
           /\ breaker' = [breaker EXCEPT !["primary"] = Admit(b)]
        \/ ~CanExecute(b) /\ ToFallback(r, 0, b)

\* The provider yields a token and the client is sent it.
Token(r) ==
  /\ pc[r] \in Providers /\ streaming[r]
  /\ heard' = [heard EXCEPT ![r] = @ \cup {CurrentAttempt(r)}]
  /\ UNCHANGED <<breaker, pc, streaming, attempt>>

Succeed(r) ==
  /\ pc[r] \in Providers
  /\ breaker' = [breaker EXCEPT ![pc[r]] = Success(@)]
  /\ Goto(r, "answered")
  /\ attempt' = [attempt EXCEPT ![r] = 0]
  /\ UNCHANGED <<streaming, heard>>

\* After the first token a failed stream is not tried again: the generator
\* just ends, as after a complete reply.
GivesUp_Never(r) == FALSE
GivesUp(r) == streaming[r] /\ heard[r] # {}

MoreAttempts_OneTooMany(r) == attempt[r] <= MaxRetries
MoreAttempts(r) == attempt[r] < MaxRetries

NextAttempt_NotCounted(r) == attempt[r]
NextAttempt(r) == attempt[r] + 1

\* A call of the primary raised.  A retry does not ask the breaker again.
PrimaryFails(r) ==
  /\ pc[r] = "primary"
  /\ LET b == Failure(breaker["primary"])
     IN \/ /\ GivesUp(r)
           /\ Goto(r, "truncated")
           /\ attempt' = [attempt EXCEPT ![r] = 0]
           /\ breaker' = [breaker EXCEPT !["primary"] = b]
        \/ /\ ~GivesUp(r) /\ MoreAttempts(r)
           /\ attempt' = [attempt EXCEPT ![r] = NextAttempt(r)]
           /\ breaker' = [breaker EXCEPT !["primary"] = b]
           /\ UNCHANGED pc
        \/ ~GivesUp(r) /\ ~MoreAttempts(r) /\ ToFallback(r, attempt[r], b)
  /\ UNCHANGED <<streaming, heard>>

FallbackFails(r) ==
  /\ pc[r] = "fallback"
  /\ breaker' = [breaker EXCEPT !["fallback"] = Failure(@)]
  /\ Goto(r, "raised")
  /\ attempt' = [attempt EXCEPT ![r] = 0]
  /\ UNCHANGED <<streaming, heard>>

\* The handler is cancelled: its time is up, or the client went away.
\* CancelledError and GeneratorExit are no Exception, so no breaker learns it.
Cancel(r) ==
  /\ pc[r] \in Providers
  /\ Goto(r, "cancelled")
  /\ attempt' = [attempt EXCEPT ![r] = 0]
  /\ UNCHANGED <<breaker, streaming, heard>>

\* recovery_timeout has passed since the breaker opened.
RecoveryTimeout(p) ==
  /\ breaker[p].state = "open" /\ ~breaker[p].due
  /\ breaker' = [breaker EXCEPT ![p].due = TRUE]
  /\ UNCHANGED <<pc, streaming, attempt, heard>>

-----------------------------------------------------------------------------
Next ==
  \/ \E r \in Requests, streams \in BOOLEAN : Ask(r, streams)
  \/ \E r \in Requests :
       \/ Token(r) \/ Succeed(r) \/ PrimaryFails(r) \/ FallbackFails(r)
       \/ Cancel(r)
  \/ \E p \in Providers : RecoveryTimeout(p)

Spec == Init /\ [][Next]_vars

(***************************************************************************)
(* A provider call ends: the clients of the adapters have timeouts.  The   *)
(* recovery timeout of an open breaker passes if no call of its provider   *)
(* is in flight, whose late failure would start it anew.  Nobody has to    *)
(* make requests.                                                          *)
(***************************************************************************)
CallEnds(r) == Succeed(r) \/ PrimaryFails(r) \/ FallbackFails(r) \/ Cancel(r)
TimePasses(p) == (\A r \in Requests : pc[r] # p) /\ RecoveryTimeout(p)

FairSpec ==
  /\ Spec
  /\ \A r \in Requests : WF_vars(CallEnds(r))
  /\ \A p \in Providers : WF_vars(TimePasses(p))

-----------------------------------------------------------------------------
(***************************************************************************)
(* Properties.                                                             *)
(***************************************************************************)
TypeOK ==
  /\ breaker \in [Providers -> Breaker]
  /\ pc \in [Requests -> PC]
  /\ streaming \in [Requests -> BOOLEAN]
  /\ attempt \in [Requests -> 0 .. MaxRetries]
  /\ heard \in [Requests -> SUBSET Attempts]

\* A breaker is closed exactly as long as the failures since its last success
\* are below the threshold, also when the calls of several requests report to
\* it in any order and late.
ClosedBelowThreshold ==
  \A p \in Providers :
    breaker[p].state = "closed" => breaker[p].failures < FailureThreshold

\* No provider is locked out: a breaker that half-opened admits a call again
\* once none is in flight, though calls that were cancelled never reported.
NeverLockedOut ==
  \A p \in Providers :
    breaker[p].state = "half_open" /\ (\A r \in Requests : pc[r] # p)
      => CanExecute(breaker[p])

\* A provider that failed is eventually given another chance: an open breaker
\* admits no call, so the late failures that push its recovery back run out.
EventuallyAdmits ==
  \A p \in Providers :
    breaker[p].state = "open" ~> CanExecute(breaker[p])

\* The router seen from the handlers.
PhaseOf(r) ==
  CASE pc[r] \in Providers -> "waiting"
    [] pc[r] \in Returned -> "returned"
    [] OTHER -> pc[r]

CallsMade(r) ==
  CASE pc[r] = "primary" -> attempt[r]
    [] pc[r] = "fallback" -> attempt[r] + 1
    [] OTHER -> 0

Promise == INSTANCE Failover WITH
  MaxCalls <- MaxRetries + 1,
  phase <- [r \in Requests |-> PhaseOf(r)],
  calls <- [r \in Requests |-> CallsMade(r)]

\* Retries, fallback and breakers implement what Failover promises: a reply
\* comes from one provider call only ("cannot retry without garbling output")
\* and costs at most max_retries + 1 of them.
KeepsPromise == Promise!Spec

\* And every request ends.
KeepsFairPromise == Promise!FairSpec

=============================================================================
