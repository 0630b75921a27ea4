------------------------------ MODULE Failover ------------------------------
(***************************************************************************)
(* What LLMRouter promises the handler that calls it, whatever its         *)
(* breakers, retries and fallback do: at most MaxCalls provider calls, a   *)
(* reply put together from one of them only, and no call after the first   *)
(* token went out.                                                         *)
(***************************************************************************)
EXTENDS Naturals

CONSTANTS Requests, Attempts, MaxCalls

VARIABLES phase, calls, heard

vars == <<phase, calls, heard>>

Ended == {"returned", "raised", "cancelled"}

Init ==
  /\ phase = [r \in Requests |-> "idle"]
  /\ calls = [r \in Requests |-> 0]
  /\ heard = [r \in Requests |-> {}]

\* A request starts; its first provider call, if any, is made at once.
Ask(r) ==
  /\ phase[r] \in {"idle"} \cup Ended
  /\ heard' = [heard EXCEPT ![r] = {}]
  /\ \/ /\ phase' = [phase EXCEPT ![r] = "waiting"]
        /\ calls' = [calls EXCEPT ![r] = 1]
     \/ /\ phase' = [phase EXCEPT ![r] = "raised"]
        /\ calls' = [calls EXCEPT ![r] = 0]

\* Another provider call, while nothing has been heard yet.
CallAgain(r) ==
  /\ phase[r] = "waiting" /\ heard[r] = {} /\ calls[r] < MaxCalls
  /\ calls' = [calls EXCEPT ![r] = @ + 1]
  /\ UNCHANGED <<phase, heard>>

Hear(r) ==
  /\ phase[r] = "waiting"
  /\ \E a \in Attempts : heard[r] \subseteq {a} /\ heard' = [heard EXCEPT ![r] = {a}]
  /\ UNCHANGED <<phase, calls>>

End(r) ==
  /\ phase[r] = "waiting"
  /\ \E e \in Ended : phase' = [phase EXCEPT ![r] = e]
  /\ calls' = [calls EXCEPT ![r] = 0]
  /\ UNCHANGED heard

Next == \E r \in Requests : Ask(r) \/ CallAgain(r) \/ Hear(r) \/ End(r)

Spec == Init /\ [][Next]_vars

FairSpec == Spec /\ \A r \in Requests : WF_vars(End(r))

=============================================================================
