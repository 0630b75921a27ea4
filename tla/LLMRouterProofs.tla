-------------------------- MODULE LLMRouterProofs ---------------------------
(***************************************************************************)
(* Proofs about LLMRouter, for any number of requests, retries, thresholds *)
(* and with or without a fallback.                                         *)
(***************************************************************************)
EXTENDS LLMRouter, TLAPS

-----------------------------------------------------------------------------
\* The methods of a breaker return a breaker.
LEMMA BreakerTypes ==
  ASSUME NEW b \in Breaker
  PROVE  /\ NewBreaker \in Breaker
         /\ Admit(b) \in Breaker
         /\ Success(b) \in Breaker
         /\ Failure(b) \in Breaker
         /\ [b EXCEPT !.due = TRUE] \in Breaker
<1>1. 0 \in 0 .. HalfOpenMax /\ 0 \in 0 .. FailureThreshold
  BY ThresholdAssumption
<1>2. NewBreaker \in Breaker
  BY <1>1 DEF NewBreaker, Breaker
<1>3. ASSUME NEW c \in Breaker
      PROVE  /\ Opened(c) \in Breaker
             /\ HalfOpened(c) \in Breaker
             /\ Closed(c) \in Breaker
             /\ [c EXCEPT !.failures = 0, !.calls = 0] \in Breaker
  <2>1. Opened(c) \in Breaker
    BY <1>1 DEF Opened, Breaker
  <2>2. HalfOpened(c) \in Breaker
    BY <1>1 DEF HalfOpened, Breaker
  <2>3. Closed(c) \in Breaker
    BY <1>1 DEF Closed, Breaker
  <2>4. [c EXCEPT !.failures = 0, !.calls = 0] \in Breaker
    BY <1>1 DEF Breaker
  <2> QED
    BY <2>1, <2>2, <2>3, <2>4
<1>4. Admit(b) \in Breaker
  BY <1>3 DEF Admit
<1>5. Success(b) \in Breaker
  BY <1>3 DEF Success
<1>6. Counted(b) \in Breaker
  BY ThresholdAssumption DEF Counted, Breaker
<1>7. Failure(b) \in Breaker
  BY <1>3, <1>6 DEF Failure
<1>8. [b EXCEPT !.due = TRUE] \in Breaker
  BY DEF Breaker
<1> QED
  BY <1>2, <1>4, <1>5, <1>7, <1>8

Below(b) == b.state = "closed" => b.failures < FailureThreshold

\* And none of them leaves a breaker closed at the threshold.
LEMMA BreakerBelow ==
  ASSUME NEW b \in Breaker, Below(b)
  PROVE  /\ Below(NewBreaker)
         /\ Below(Admit(b))
         /\ Below(Success(b))
         /\ Below(Failure(b))
<1>1. Below(NewBreaker)
  BY ThresholdAssumption DEF Below, NewBreaker
<1>2. Below(Admit(b))
  BY DEF Below, Admit, HalfOpened, Breaker
<1>3. Below(Success(b))
  BY ThresholdAssumption DEF Below, Success, Closed, Breaker
<1>4. Below(Failure(b))
  BY ThresholdAssumption DEF Below, Failure, Opened, Counted, Breaker
<1> QED
  BY <1>1, <1>2, <1>3, <1>4

-----------------------------------------------------------------------------
(***************************************************************************)
(* Every step gives each provider a breaker that one method made of the    *)
(* breaker it had.                                                         *)
(***************************************************************************)
Follows(b, c) ==
  \/ c = b
  \/ c = Admit(b)
  \/ c = Success(b)
  \/ c = Failure(b)
  \/ b.state = "open" /\ c = [b EXCEPT !.due = TRUE]

BreakersOK == breaker \in [Providers -> Breaker]

LEMMA BreakersFollow ==
  ASSUME BreakersOK, [Next]_vars
  PROVE  /\ breaker' \in [Providers -> Breaker]
         /\ \A p \in Providers : Follows(breaker[p], breaker'[p])
<1> USE DEF BreakersOK
<1>0. \A p \in Providers : breaker[p] \in Breaker
  OBVIOUS
<1>1. ASSUME NEW r \in Requests, NEW n, NEW b \in Breaker, Follows(breaker["primary"], b),
             ToFallback(r, n, b)
      PROVE  /\ breaker' \in [Providers -> Breaker]
             /\ \A p \in Providers : Follows(breaker[p], breaker'[p])
  <2>1. Admit(breaker["fallback"]) \in Breaker
    BY <1>0, BreakerTypes DEF Providers
  <2> QED
    BY <1>1, <2>1 DEF ToFallback, Follows, Providers
<1>2. ASSUME NEW r \in Requests, NEW streams \in BOOLEAN, Ask(r, streams)
      PROVE  /\ breaker' \in [Providers -> Breaker]
             /\ \A p \in Providers : Follows(breaker[p], breaker'[p])
  <2>0. breaker["primary"] \in Breaker /\ Follows(breaker["primary"], breaker["primary"])
    BY <1>0 DEF Providers, Follows
  <2>1. CASE CanExecute(breaker["primary"])
    <3>1. breaker' = [breaker EXCEPT !["primary"] = Admit(breaker["primary"])]
      BY <1>2, <2>1 DEF Ask
    <3> QED
      BY <3>1, <1>0, BreakerTypes DEF Follows, Providers
  <2>2. CASE ~CanExecute(breaker["primary"])
    <3>1. ToFallback(r, 0, breaker["primary"])
      BY <1>2, <2>2 DEF Ask
    <3> QED
      BY <3>1, <2>0, <1>1
  <2> QED
    BY <2>1, <2>2
<1>3. ASSUME NEW r \in Requests, Succeed(r)
      PROVE  /\ breaker' \in [Providers -> Breaker]
             /\ \A p \in Providers : Follows(breaker[p], breaker'[p])
  BY <1>3, <1>0, BreakerTypes DEF Succeed, Follows, Providers
<1>4. ASSUME NEW r \in Requests, PrimaryFails(r)
      PROVE  /\ breaker' \in [Providers -> Breaker]
             /\ \A p \in Providers : Follows(breaker[p], breaker'[p])
  <2>0. Failure(breaker["primary"]) \in Breaker
        /\ Follows(breaker["primary"], Failure(breaker["primary"]))
    BY <1>0, BreakerTypes DEF Providers, Follows
  <2>1. CASE breaker' = [breaker EXCEPT !["primary"] = Failure(breaker["primary"])]
    BY <2>0, <2>1 DEF Follows, Providers
  <2>2. CASE ToFallback(r, attempt[r], Failure(breaker["primary"]))
    BY <2>0, <2>2, <1>1
  <2> QED
    BY <1>4, <2>1, <2>2 DEF PrimaryFails
<1>5. ASSUME NEW r \in Requests, FallbackFails(r)
      PROVE  /\ breaker' \in [Providers -> Breaker]
             /\ \A p \in Providers : Follows(breaker[p], breaker'[p])
  BY <1>5, <1>0, BreakerTypes DEF FallbackFails, Follows, Providers
<1>6. ASSUME NEW p \in Providers, RecoveryTimeout(p)
      PROVE  /\ breaker' \in [Providers -> Breaker]
             /\ \A q \in Providers : Follows(breaker[q], breaker'[q])
  BY <1>6, <1>0, BreakerTypes DEF RecoveryTimeout, Follows
<1>7. ASSUME UNCHANGED breaker
      PROVE  /\ breaker' \in [Providers -> Breaker]
             /\ \A p \in Providers : Follows(breaker[p], breaker'[p])
  BY <1>7 DEF Follows
<1> QED
  BY <1>2, <1>3, <1>4, <1>5, <1>6, <1>7
     DEF Next, vars, Token, Cancel

\* The breakers keep their type, whatever the requests do.
LEMMA BreakersType == Spec => []BreakersOK
<1>1. Init => BreakersOK
  BY ThresholdAssumption DEF Init, BreakersOK, NewBreaker, Breaker
<1>2. BreakersOK /\ [Next]_vars => BreakersOK'
  BY BreakersFollow DEF BreakersOK
<1> QED
  BY <1>1, <1>2, PTL DEF Spec

\* A closed breaker has counted fewer failures than its threshold, whichever
\* requests report to it, late or not.
THEOREM Threshold == Spec => []ClosedBelowThreshold
<1>1. Init => ClosedBelowThreshold
  BY ThresholdAssumption DEF Init, ClosedBelowThreshold, NewBreaker
<1>2. BreakersOK /\ ClosedBelowThreshold /\ [Next]_vars => ClosedBelowThreshold'
  <2> SUFFICES ASSUME BreakersOK, ClosedBelowThreshold, [Next]_vars,
                      NEW p \in Providers
               PROVE  Below(breaker'[p])
    BY DEF ClosedBelowThreshold, Below
  <2>1. breaker[p] \in Breaker /\ Below(breaker[p])
    BY DEF BreakersOK, ClosedBelowThreshold, Below
  <2>2. Follows(breaker[p], breaker'[p])
    BY BreakersFollow
  <2>3. CASE breaker[p].state = "open" /\ breaker'[p] = [breaker[p] EXCEPT !.due = TRUE]
    BY <2>1, <2>3 DEF Below, Breaker
  <2> QED
    BY <2>1, <2>2, <2>3, BreakerBelow DEF Follows
<1> QED
  BY <1>1, <1>2, BreakersType, PTL DEF Spec

\* No breaker stays half-open against a provider nobody is calling: nothing
\* ever takes one of the calls a half-open breaker allows.
THEOREM NoLockout == Spec => []NeverLockedOut
<1> DEFINE NoneTaken == \A p \in Providers : breaker[p].calls = 0
<1>1. Init => NoneTaken
  BY DEF Init, NewBreaker
<1>2. BreakersOK /\ NoneTaken /\ [Next]_vars => NoneTaken'
  <2> SUFFICES ASSUME BreakersOK, NoneTaken, [Next]_vars, NEW p \in Providers
               PROVE  breaker'[p].calls = 0
    OBVIOUS
  <2>1. breaker[p] \in Breaker /\ breaker[p].calls = 0
    BY DEF BreakersOK
  <2>2. Follows(breaker[p], breaker'[p])
    BY BreakersFollow
  <2>3. /\ Admit(breaker[p]).calls = 0
        /\ Success(breaker[p]).calls = 0
        /\ [breaker[p] EXCEPT !.due = TRUE].calls = 0
    BY <2>1 DEF Admit, HalfOpened, Success, Closed, Breaker
  <2>4. Failure(breaker[p]).calls = 0
    BY <2>1 DEF Failure, Opened, Counted, Breaker
  <2> QED
    BY <2>1, <2>2, <2>3, <2>4 DEF Follows
<1>3. NoneTaken => NeverLockedOut
  BY ThresholdAssumption DEF NeverLockedOut, CanExecute
<1> QED
  BY <1>1, <1>2, <1>3, BreakersType, PTL DEF Spec

-----------------------------------------------------------------------------
(***************************************************************************)
(* The promise of Failover.  What it rests on is what the handler knows of *)
(* the provider call it awaits.                                            *)
(***************************************************************************)
RequestOK ==
  /\ pc \in [Requests -> PC]
  /\ streaming \in [Requests -> BOOLEAN]
  /\ attempt \in [Requests -> 0 .. MaxRetries]
  /\ heard \in [Requests -> SUBSET Attempts]
  /\ \A r \in Requests :
       /\ pc[r] = "primary" => attempt[r] > 0
       /\ ~streaming[r] => heard[r] = {}
       /\ pc[r] \in Providers => heard[r] \subseteq {CurrentAttempt(r)}

\* Every step keeps it: the second try and the fallback start unheard.
LEMMA RequestsKeepOK ==
  ASSUME RequestOK, [Next]_vars
  PROVE  RequestOK'
<1> USE RouterAssumption
<1>1. ASSUME NEW r \in Requests, NEW streams \in BOOLEAN, Ask(r, streams)
      PROVE  RequestOK'
  <2>1. /\ streaming' \in [Requests -> BOOLEAN]
        /\ heard' \in [Requests -> SUBSET Attempts]
        /\ heard'[r] = {}
        /\ \A q \in Requests \ {r} : heard'[q] = heard[q] /\ streaming'[q] = streaming[q]
    BY <1>1 DEF Ask, RequestOK
  <2>2. \E n \in 0 .. MaxRetries, where \in {"primary", "fallback", "raised"} :
          /\ pc' = [pc EXCEPT ![r] = where] /\ attempt' = [attempt EXCEPT ![r] = n]
          /\ where = "primary" => n > 0
    BY <1>1 DEF Ask, ToFallback, Goto
  <2> QED
    BY <2>1, <2>2 DEF RequestOK, CurrentAttempt, PC, Providers, Ended
<1>2. ASSUME NEW r \in Requests, Token(r)
      PROVE  RequestOK'
  <2>1. CurrentAttempt(r) \in Attempts
    BY <1>2 DEF Token, RequestOK, CurrentAttempt, Attempts, Providers
  <2> QED
    BY <1>2, <2>1 DEF Token, RequestOK, CurrentAttempt, Providers
<1>3. ASSUME NEW r \in Requests, PrimaryFails(r)
      PROVE  RequestOK'
  <2>1. CASE GivesUp(r)
    BY <1>3, <2>1 DEF PrimaryFails, Goto, RequestOK, CurrentAttempt, PC, Providers,
                      Ended, Returned
  <2>2. CASE ~GivesUp(r) /\ MoreAttempts(r)
    <3>1. heard[r] = {}
      BY <2>2 DEF GivesUp, RequestOK
    <3>2. attempt' = [attempt EXCEPT ![r] = attempt[r] + 1]
          /\ UNCHANGED <<pc, streaming, heard>>
      BY <1>3, <2>2 DEF PrimaryFails, NextAttempt
    <3> QED
      BY <2>2, <3>1, <3>2 DEF MoreAttempts, RequestOK, CurrentAttempt
  <2>3. CASE ~GivesUp(r) /\ ~MoreAttempts(r)
    <3>1. heard[r] = {}
      BY <2>3 DEF GivesUp, RequestOK
    <3>2. \E n \in 0 .. MaxRetries, where \in {"fallback", "raised"} :
            /\ pc' = [pc EXCEPT ![r] = where] /\ attempt' = [attempt EXCEPT ![r] = n]
      BY <1>3, <2>3 DEF PrimaryFails, ToFallback, Goto, RequestOK
    <3>3. UNCHANGED <<streaming, heard>>
      BY <1>3 DEF PrimaryFails
    <3> QED
      BY <3>1, <3>2, <3>3 DEF RequestOK, CurrentAttempt, PC, Providers, Ended
  <2> QED
    BY <2>1, <2>2, <2>3
<1>4. ASSUME NEW r \in Requests, Succeed(r) \/ FallbackFails(r) \/ Cancel(r)
      PROVE  RequestOK'
  <2>1. /\ \E end \in Ended : pc' = [pc EXCEPT ![r] = end]
        /\ attempt' = [attempt EXCEPT ![r] = 0]
        /\ UNCHANGED <<streaming, heard>>
    BY <1>4 DEF Succeed, FallbackFails, Cancel, Goto, Ended, Returned
  <2> QED
    BY <2>1 DEF RequestOK, CurrentAttempt, PC, Providers, Ended, Returned
<1>5. ASSUME UNCHANGED <<pc, streaming, attempt, heard>>
      PROVE  RequestOK'
  BY <1>5 DEF RequestOK, CurrentAttempt
<1> QED
  BY <1>1, <1>2, <1>3, <1>4, <1>5 DEF Next, vars, RecoveryTimeout

\* So it always holds.
LEMMA RequestsOK == Spec => []RequestOK
<1>1. Init => RequestOK
  BY RouterAssumption DEF Init, RequestOK, PC, Providers
<1>2. RequestOK /\ [Next]_vars => RequestOK'
  BY RequestsKeepOK
<1> QED
  BY <1>1, <1>2, PTL DEF Spec

\* The router implements Failover: a reply comes from one provider call, at
\* most MaxRetries + 1 are made, none after a token went out.
THEOREM Implements == Spec => KeepsPromise
<1>1. Init => Promise!Init
  BY DEF Init, Promise!Init, PhaseOf, CallsMade, Providers, Returned
<1>2. RequestOK /\ [Next]_vars => [Promise!Next]_(Promise!vars)
  <2> SUFFICES ASSUME RequestOK, [Next]_vars
               PROVE  Promise!Next \/ UNCHANGED Promise!vars
    OBVIOUS
  <2> USE RouterAssumption DEF Providers, Ended, Returned, PhaseOf, CallsMade
  <2>1. ASSUME NEW r \in Requests, NEW streams \in BOOLEAN, Ask(r, streams)
        PROVE  Promise!Ask(r)
    <3>1. /\ pc[r] \in {"idle"} \cup Ended
          /\ heard' = [heard EXCEPT ![r] = {}]
      BY <2>1 DEF Ask
    <3>2. \/ /\ pc' = [pc EXCEPT ![r] = "primary"]
             /\ attempt' = [attempt EXCEPT ![r] = 1]
          \/ /\ pc' = [pc EXCEPT ![r] = "fallback"]
             /\ attempt' = [attempt EXCEPT ![r] = 0]
          \/ /\ pc' = [pc EXCEPT ![r] = "raised"]
             /\ attempt' = [attempt EXCEPT ![r] = 0]
      BY <2>1 DEF Ask, ToFallback, Goto
    <3>3. PICK where \in {"primary", "fallback", "raised"}, n \in {0, 1} :
            /\ pc' = [pc EXCEPT ![r] = where] /\ attempt' = [attempt EXCEPT ![r] = n]
            /\ where = "primary" => n = 1
            /\ where = "fallback" => n = 0
      BY <3>2
    <3>4. \A q \in Requests \ {r} : PhaseOf(q)' = PhaseOf(q) /\ CallsMade(q)' = CallsMade(q)
      BY <3>3 DEF RequestOK
    <3>5. \/ PhaseOf(r)' = "waiting" /\ CallsMade(r)' = 1
          \/ PhaseOf(r)' = "raised" /\ CallsMade(r)' = 0
      BY <3>3 DEF RequestOK
    <3>6. PhaseOf(r) \in {"idle"} \cup Promise!Ended
      BY <3>1 DEF Promise!Ended
    <3> HIDE DEF PhaseOf, CallsMade
    <3> QED
      BY <3>1, <3>4, <3>5, <3>6 DEF Promise!Ask
  <2>2. ASSUME NEW r \in Requests, Token(r)
        PROVE  Promise!Hear(r)
    <3>1. CurrentAttempt(r) \in Attempts
      BY <2>2 DEF Token, RequestOK, CurrentAttempt, Attempts
    <3> QED
      BY <2>2, <3>1 DEF Token, RequestOK, Promise!Hear
  <2>3. ASSUME NEW r \in Requests, PrimaryFails(r), ~GivesUp(r),
               MoreAttempts(r) \/ pc'[r] = "fallback"
        PROVE  Promise!CallAgain(r)
    <3>1. heard[r] = {} /\ pc[r] = "primary" /\ UNCHANGED heard
      BY <2>3 DEF GivesUp, RequestOK, PrimaryFails
    <3>2. \/ /\ attempt' = [attempt EXCEPT ![r] = attempt[r] + 1]
             /\ UNCHANGED pc
             /\ attempt[r] < MaxRetries
          \/ /\ attempt' = attempt
             /\ pc' = [pc EXCEPT ![r] = "fallback"]
      BY <2>3 DEF PrimaryFails, NextAttempt, MoreAttempts, ToFallback, Goto, RequestOK
    <3>3. PhaseOf(r) = "waiting" /\ CallsMade(r) < MaxRetries + 1
      BY <3>1, <3>2 DEF RequestOK
    <3>4. \A q \in Requests :
            /\ PhaseOf(q)' = PhaseOf(q)
            /\ CallsMade(q)' = IF q = r THEN CallsMade(r) + 1 ELSE CallsMade(q)
      BY <3>1, <3>2 DEF RequestOK
    <3> HIDE DEF PhaseOf, CallsMade
    <3> QED
      BY <3>1, <3>3, <3>4 DEF Promise!CallAgain
  <2>4. ASSUME NEW r \in Requests, NEW end \in Ended, pc[r] \in Providers,
               pc' = [pc EXCEPT ![r] = end], UNCHANGED heard,
               attempt' = [attempt EXCEPT ![r] = 0]
        PROVE  Promise!End(r)
    BY <2>4 DEF Promise!End, Promise!Ended, RequestOK
  <2>5. ASSUME NEW r \in Requests, PrimaryFails(r),
               GivesUp(r) \/ ~(MoreAttempts(r) \/ pc'[r] = "fallback")
        PROVE  \E end \in Ended : /\ pc[r] \in Providers
                                  /\ pc' = [pc EXCEPT ![r] = end]
                                  /\ UNCHANGED heard
                                  /\ attempt' = [attempt EXCEPT ![r] = 0]
    BY <2>5 DEF PrimaryFails, ToFallback, Goto, RequestOK
  <2>6. ASSUME NEW r \in Requests, Succeed(r) \/ FallbackFails(r) \/ Cancel(r)
        PROVE  \E end \in Ended : /\ pc[r] \in Providers
                                  /\ pc' = [pc EXCEPT ![r] = end]
                                  /\ UNCHANGED heard
                                  /\ attempt' = [attempt EXCEPT ![r] = 0]
    BY <2>6 DEF Succeed, FallbackFails, Cancel, Goto
  <2>7. ASSUME UNCHANGED <<pc, attempt, heard>>
        PROVE  UNCHANGED Promise!vars
    BY <2>7 DEF Promise!vars
  <2> QED
    BY <2>1, <2>2, <2>3, <2>4, <2>5, <2>6, <2>7
       DEF Next, vars, RecoveryTimeout, Promise!Next
<1> QED
  BY <1>1, <1>2, RequestsOK, PTL DEF Spec, KeepsPromise, Promise!Spec

-----------------------------------------------------------------------------
\* Every variable keeps its type for any number of requests and retries.
THEOREM TypeCorrect == Spec => []TypeOK
  BY BreakersType, RequestsOK, PTL DEF TypeOK, BreakersOK, RequestOK

=============================================================================
