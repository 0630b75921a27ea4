---------------------------- MODULE RateLimiter ----------------------------
(***************************************************************************)
(* The rate limits of the gateway: the middleware of each worker asks one  *)
(* limiter, RedisRateLimiter when a URL is configured (buckets of a fixed  *)
(* window that all workers share, and a limiter in the worker's memory     *)
(* whenever Redis does not answer), InMemoryRateLimiter otherwise (a       *)
(* sliding window of its own).                                             *)
(*                                                                         *)
(* A worker runs its requests on one event loop: what happens between two  *)
(* awaits is one step.  The unit of time is longer than the timeout of a   *)
(* call to Redis.  A list of time stamps is the set of the requests that   *)
(* stamped it, each at the time of its decision.                           *)
(***************************************************************************)
EXTENDS Naturals, FiniteSets

CONSTANTS
  N, Workers, Clients,    \* bound: the number of requests
  Limits,                 \* the limits of the paths: one client's share them
  Window,                 \* every path has the same
  CleanupInterval, MaxClients,
  MaxTime,                \* bound
  Nobody
ASSUME LimiterAssumption ==
  /\ Limits \subseteq Nat \ {0} /\ Limits # {}
  /\ Window \in Nat \ {0, 1} /\ {N, CleanupInterval, MaxClients, MaxTime} \subseteq Nat
  /\ Nobody \notin Workers \cup Clients

\* Requests are numbered as they arrive.
Requests == 1 .. N
Times == 0 .. MaxTime
Buckets == 0 .. MaxTime \div Window
PC == {"idle", "local", "connect", "ping", "send", "counted", "allowed", "denied"}

VARIABLES
  now,
  configured, connected,  \* redis_url is set; a worker has a connection
  counter,                \* Redis: of each key, its count and when it expires
  stamps, lastCleanup,    \* of each worker's memory: _requests, _last_cleanup
  pc,                     \* where each request is
  client, worker, limit,  \* whose it is, who serves it, the limit of its path
  bucket, got,            \* its key's bucket, the count Redis returned
  since,                  \* when its last step began that Redis answers, and
                          \* in the end when it was counted
  decidedBy,              \* history: "redis", "memory", or "none" so far
  forgotten               \* history: clients dropped from a worker's memory

redis == <<configured, connected, counter>>
memory == <<stamps, lastCleanup, forgotten>>
request == <<client, worker, limit>>
vars == <<now, redis, memory, pc, request, bucket, got, since, decidedBy>>

Init ==
  /\ now = 0 /\ configured \in BOOLEAN
  /\ connected = [w \in Workers |-> FALSE]
  /\ counter = [k \in Clients \X Buckets |-> [count |-> 0, until |-> 0]]
  /\ stamps = [w \in Workers |-> [c \in Clients |-> {}]]
  /\ lastCleanup = [w \in Workers |-> 0]
  /\ pc = [r \in Requests |-> "idle"]
  /\ client = [r \in Requests |-> Nobody] /\ worker = [r \in Requests |-> Nobody]
  /\ limit = [r \in Requests |-> 0] /\ bucket = [r \in Requests |-> 0]
  /\ got = [r \in Requests |-> 0] /\ since = [r \in Requests |-> 0]
  /\ decidedBy = [r \in Requests |-> "none"] /\ forgotten = {}

-----------------------------------------------------------------------------
Recent(list, t) == {q \in list : since[q] + Window > t}

Pruned_KeepsAll(list, t) == list
Pruned(list, t) == Recent(list, t)

\* _maybe_cleanup: clients without a recent request go, and of those left the
\* ones whose last request is the oldest, if there are too many.  A client
\* with an empty list is as good as absent.
NoLater(list, other) == \A q \in list : \E p \in other : since[q] <= since[p]
Kept(w) ==
  LET live == {c \in Clients : Recent(stamps[w][c], now) # {}}
      excess == IF Cardinality(live) > MaxClients THEN Cardinality(live) - MaxClients ELSE 0
  IN {live \ out : out \in {S \in SUBSET live :
        /\ Cardinality(S) = excess
        /\ \A c \in S, d \in live \ S : NoLater(stamps[w][c], stamps[w][d])}}
CleanupDue(w) == now >= lastCleanup[w] + CleanupInterval

\* InMemoryRateLimiter.is_allowed, of the client's stamps left after pruning.
Within_OneMore(list, r) == Cardinality(list) <= limit[r]
Within(list, r) == Cardinality(list) < limit[r]
InMemory(r) ==
  LET w == worker[r]
      c == client[r]
  IN \E kept \in (IF CleanupDue(w) THEN Kept(w) ELSE {Clients}) :
       LET list == IF c \in kept THEN Pruned(stamps[w][c], now) ELSE {}
           allowed == Within(list, r)
       IN /\ stamps' = [stamps EXCEPT ![w] = [d \in Clients |->
               IF d = c THEN (IF allowed THEN list \cup {r} ELSE list)
               ELSE IF d \in kept THEN stamps[w][d] ELSE {}]]
          /\ lastCleanup' = [lastCleanup EXCEPT ![w] = IF CleanupDue(w) THEN now ELSE @]
          /\ forgotten' = forgotten \cup
               {<<w, d>> : d \in {e \in Clients \ kept : Recent(stamps[w][e], now) # {}}}
          /\ pc' = [pc EXCEPT ![r] = IF allowed THEN "allowed" ELSE "denied"]
          /\ decidedBy' = [decidedBy EXCEPT ![r] = "memory"]
          /\ since' = [since EXCEPT ![r] = now]
FallsBack(r) ==
  /\ InMemory(r) /\ connected' = [connected EXCEPT ![worker[r]] = FALSE]
  /\ UNCHANGED <<now, configured, counter, request, bucket, got>>

-----------------------------------------------------------------------------
\* The middleware: the client is an API key or an address, the limit depends
\* on the path or on the tier of the key.
Arrive(r, c, w, l) ==
  /\ pc[r] = "idle" /\ \A q \in 1 .. r - 1 : pc[q] # "idle"
  /\ pc' = [pc EXCEPT ![r] = IF configured THEN "connect" ELSE "local"]
  /\ client' = [client EXCEPT ![r] = c] /\ worker' = [worker EXCEPT ![r] = w]
  /\ limit' = [limit EXCEPT ![r] = l]
  /\ since' = [since EXCEPT ![r] = now]
  /\ UNCHANGED <<now, redis, memory, bucket, got, decidedBy>>

\* No URL is configured.
Local(r) ==
  /\ pc[r] = "local" /\ InMemory(r) /\ UNCHANGED <<now, redis, request, bucket, got>>

\* The key names the bucket the call begins in.
Sends(r) ==
  /\ pc' = [pc EXCEPT ![r] = "send"] /\ since' = [since EXCEPT ![r] = now]
  /\ bucket' = [bucket EXCEPT ![r] = now \div Window]
  /\ UNCHANGED <<now, memory, configured, counter, request, got, decidedBy>>

\* _get_redis: a connection is there as soon as it is made, before the ping
\* has been answered; a ping that fails takes it away from everyone.
Connect(r) ==
  /\ pc[r] = "connect"
  /\ IF connected[worker[r]]
       THEN Sends(r) /\ UNCHANGED connected
       ELSE /\ pc' = [pc EXCEPT ![r] = "ping"]
            /\ connected' = [connected EXCEPT ![worker[r]] = TRUE]
            /\ since' = [since EXCEPT ![r] = now]
            /\ UNCHANGED <<now, memory, configured, counter, request, bucket, got, decidedBy>>
Ping(r) ==
  /\ pc[r] = "ping" /\ connected[worker[r]]
  /\ Sends(r) /\ UNCHANGED connected
\* The ping fails, or another request has given the connection up meanwhile.
PingFails(r) == pc[r] = "ping" /\ FallsBack(r)

\* INCR and EXPIRE, in one transaction.
Count(r) ==
  LET key == <<client[r], bucket[r]>>
      count == IF now < counter[key].until THEN counter[key].count + 1 ELSE 1
  IN /\ pc[r] = "send" /\ pc' = [pc EXCEPT ![r] = "counted"]
     /\ counter' = [counter EXCEPT ![key] = [count |-> count, until |-> now + Window]]
     /\ got' = [got EXCEPT ![r] = count] /\ since' = [since EXCEPT ![r] = now]
     /\ UNCHANGED <<now, configured, connected, memory, request, bucket, decidedBy>>

Reply(r) ==
  /\ pc[r] = "counted"
  /\ pc' = [pc EXCEPT ![r] = IF got[r] <= limit[r] THEN "allowed" ELSE "denied"]
  /\ decidedBy' = [decidedBy EXCEPT ![r] = "redis"]
  /\ UNCHANGED <<now, redis, memory, request, bucket, got, since>>

\* The call fails or its answer is lost, counted or not.
CallFails(r) == pc[r] \in {"send", "counted"} /\ FallsBack(r)

InRedis(r) == pc[r] \in {"ping", "send", "counted"}

\* A step of a call times out before the second tick after it began.
Tick ==
  /\ now < MaxTime /\ now' = now + 1
  /\ \A r \in Requests : InRedis(r) => since[r] = now
  /\ UNCHANGED <<redis, memory, pc, request, bucket, got, since, decidedBy>>

Serve(r) ==
  \/ \E c \in Clients, w \in Workers, l \in Limits : Arrive(r, c, w, l)
  \/ Local(r) \/ Connect(r) \/ Ping(r) \/ PingFails(r) \/ Count(r) \/ Reply(r) \/ CallFails(r)
Next == Tick \/ \E r \in Requests : Serve(r)
Spec == Init /\ [][Next]_vars

-----------------------------------------------------------------------------
TypeOK ==
  /\ now \in Times /\ configured \in BOOLEAN /\ connected \in [Workers -> BOOLEAN]
  /\ counter \in [Clients \X Buckets -> [count : Nat, until : Nat]]
  /\ stamps \in [Workers -> [Clients -> SUBSET Requests]] /\ lastCleanup \in [Workers -> Times]
  /\ pc \in [Requests -> PC] /\ client \in [Requests -> Clients \cup {Nobody}]
  /\ worker \in [Requests -> Workers \cup {Nobody}]
  /\ limit \in [Requests -> Limits \cup {0}] /\ bucket \in [Requests -> Buckets]
  /\ got \in [Requests -> Nat] /\ since \in [Requests -> Times]
  /\ decidedBy \in [Requests -> {"none", "redis", "memory"}]
  /\ forgotten \subseteq Workers \X Clients

\* The requests of a client with a limit of at most l that were allowed, one
\* way, in the window that ends at t.
AllowedIn(c, l, t, by) ==
  {r \in Requests : /\ pc[r] = "allowed" /\ client[r] = c /\ limit[r] <= l
                    /\ decidedBy[r] = by /\ since[r] <= t /\ since[r] + Window > t}

\* In any window of its length a client is allowed at most twice a limit by
\* Redis (a window of time touches two buckets, also when a call takes into
\* the next) and at most the limit by the memory of each worker that has not
\* pruned it, however its requests interleave, whichever answers of Redis are
\* lost after they were counted, and however often a worker changes over.
\* Requests with higher limits use the limit up; they never extend it.
AllowedBounded ==
  \A c \in Clients, l \in Limits, t \in Times :
    /\ Cardinality(AllowedIn(c, l, t, "redis")) <= 2 * l
    /\ \A w \in Workers : <<w, c>> \notin forgotten =>
         Cardinality({r \in AllowedIn(c, l, t, "memory") : worker[r] = w}) <= l

\* A request is refused only if as many of the same client as its limit were
\* counted in its window: those of the bucket for Redis, which counts refused
\* ones too, those allowed by the same memory otherwise.  No cleanup, lost
\* answer or change of limiter refuses a client that kept to its limit.
RefusedOnlyBusy ==
  \A r \in Requests : pc[r] = "denied" =>
    \/ /\ decidedBy[r] = "redis"
       /\ limit[r] <= Cardinality({q \in Requests \ {r} :
            client[q] = client[r] /\ bucket[q] = bucket[r] /\ got[q] > 0})
    \/ /\ decidedBy[r] = "memory"
       /\ limit[r] <= Cardinality({q \in Requests \ {r} :
            /\ pc[q] = "allowed" /\ decidedBy[q] = "memory"
            /\ client[q] = client[r] /\ worker[q] = worker[r]
            /\ since[q] <= since[r] /\ since[q] + Window > since[r]})

=============================================================================
