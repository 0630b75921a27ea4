--------------------------- MODULE SessionTracker ---------------------------
(***************************************************************************)
(* The map of conversations the proxy keeps in memory: an OrderedDict from *)
(* session ids to states, in order of use, bounded by max_sessions.  The   *)
(* id hashes every message of the conversation, so a session is named by   *)
(* its messages; of a state only whether it holds an exchange matters.     *)
(* Pipelines run on threads and nothing locks the map: what one call of a  *)
(* method of OrderedDict does is one step, a method of the tracker is not. *)
(***************************************************************************)
EXTENDS Naturals, Sequences, FiniteSets

CONSTANT MaxSessions
ASSUME CapacityAssumption == MaxSessions \in Nat \ {0}

Known(order, s) == \E i \in 1 .. Len(order) : order[i] = s
Position(order, s) == CHOOSE i \in 1 .. Len(order) : order[i] = s

\* move_to_end of the entry at position i
MovedToEnd(order, i) ==
  [j \in 1 .. Len(order) |->
     IF j < i THEN order[j] ELSE IF j < Len(order) THEN order[j + 1] ELSE order[i]]
Used(order, s) == MovedToEnd(order, Position(order, s))

\* self._sessions[sid] = state: a new entry goes to the end; replacing the
\* state of an entry leaves it where it is.
Entered_Again(order, s) == Append(order, s)
Entered(order, s) == IF Known(order, s) THEN order ELSE Append(order, s)

\* The condition of the eviction loop, and popitem(last=False).
OverCapacity_OffByOne(order) == Len(order) > MaxSessions + 1
OverCapacity(order) == Len(order) > MaxSessions
OldestDropped(order) == Tail(order)

=============================================================================
