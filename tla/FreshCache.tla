----------------------------- MODULE FreshCache -----------------------------
(***************************************************************************)
(* What the exact layer of AnswerCache promises where one backend object   *)
(* serves and ingests: lookup, verification and serve are one step.  A     *)
(* question is answered from the cache exactly if its key has an answer    *)
(* whose sources are all current, and only an answer that is not is taken  *)
(* away by a lookup.                                                       *)
(***************************************************************************)
EXTENDS FiniteSets

CONSTANTS Requests, Keys, TemporalKeys, Verdicts, Sections, Hashes, Source, Version,
          Unborn, Retired, NoKey, MaxEntries

VARIABLES
  version,  \* the sections: a current section's hash
  store,    \* pairs of a key and the sources of its answer
  client    \* of each request: how far it is, its key, the gate's verdict on
            \* it, and the sources of what it was served
vars == <<version, store, client>>

Idle == [phase |-> "idle", key |-> NoKey, plain |-> TRUE, served |-> {}]

Init ==
  /\ version = [s \in Sections |-> Unborn]
  /\ store = {}
  /\ client = [r \in Requests |-> Idle]

Matches(src) == src[2] \in Hashes /\ version[src[1]] = src[2]
Entries(k) == {e \in store : e[1] = k}
\* Questions about a time are answered without verification.
Servable(e) == e[1] \in TemporalKeys \/ \A src \in e[2] : Matches(src)

To(r, phase, answer) ==
  client' = [client EXCEPT ![r] = [phase |-> phase, key |-> client[r].key,
                                   plain |-> client[r].plain, served |-> answer]]

Ask(r, k, qual) ==
  /\ client[r].phase \in {"idle", "served", "ended"}
  /\ client' = [client EXCEPT ![r] = [phase |-> "asked", key |-> k, plain |-> qual,
                                      served |-> {}]]
  /\ UNCHANGED <<version, store>>

Serve(r) ==
  /\ client[r].phase = "asked" /\ client[r].plain
  /\ \E e \in Entries(client[r].key) : Servable(e) /\ To(r, "served", e[2])
  /\ UNCHANGED <<version, store>>

\* The answer found is out of date, and goes.
Discard(r) ==
  /\ client[r].phase = "asked"
  /\ \E e \in Entries(client[r].key) : ~Servable(e) /\ store' = store \ {e}
  /\ To(r, "missed", {})
  /\ UNCHANGED version

\* There is no answer, or a good one that the gate sets aside.
Miss(r) ==
  /\ client[r].phase = "asked"
  /\ \A e \in Entries(client[r].key) : Servable(e) /\ ~client[r].plain
  /\ To(r, "missed", {})
  /\ UNCHANGED <<version, store>>

\* The new answer replaces the key's old one, and may make the cache drop
\* others if it is too large.
Put(r) ==
  /\ client[r].phase = "missed"
  /\ \E answer \in SUBSET Source :
       LET k == client[r].key
           all == (store \ Entries(k)) \cup {<<k, answer>>}
       IN \/ store' = all
          \/ store' \subseteq all /\ Cardinality(store') = MaxEntries
  /\ To(r, "ended", {})
  /\ UNCHANGED version

\* Answered by another layer, or not at all.
End(r) ==
  /\ client[r].phase = "missed"
  /\ To(r, "ended", {})
  /\ UNCHANGED <<version, store>>

\* Sections change; one that was removed is gone for good.
Change ==
  /\ version' \in [Sections -> Version]
  /\ \A s \in Sections : version[s] = Retired => version'[s] = Retired
  /\ UNCHANGED <<store, client>>

\* A cascade takes all answers that name one of some sections.
Forget ==
  /\ \E changed \in SUBSET Sections :
       store' = {e \in store : \A src \in e[2] : src[1] \notin changed}
  /\ UNCHANGED <<version, client>>

\* The requests of a service that was killed; the cache outlives it.
Die ==
  /\ \E dead \in SUBSET Requests :
       client' = [r \in Requests |-> IF r \in dead THEN Idle ELSE client[r]]
  /\ UNCHANGED <<version, store>>

Next ==
  \/ \E r \in Requests, k \in Keys, qual \in Verdicts : Ask(r, k, qual)
  \/ \E r \in Requests : Serve(r) \/ Discard(r) \/ Miss(r) \/ Put(r) \/ End(r)
  \/ Change \/ Forget \/ Die

Spec == Init /\ [][Next]_vars

=============================================================================
