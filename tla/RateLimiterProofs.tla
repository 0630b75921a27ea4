------------------------- MODULE RateLimiterProofs -------------------------
(***************************************************************************)
(* Proofs about RateLimiter, for any number of workers, clients and        *)
(* requests, any limits and any window: what Redis has counted bounds what *)
(* it allows in a window, and what a worker's memory holds bounds what the *)
(* worker allows.                                                          *)
(***************************************************************************)
EXTENDS RateLimiter, FiniteSetTheorems, TLAPS

LEMMA Numbers ==
  /\ Window \in Nat \ {0, 1} /\ MaxTime \in Nat /\ N \in Nat /\ Limits \subseteq Nat \ {0}
  /\ Nobody \notin Workers /\ Nobody \notin Clients
  BY LimiterAssumption

\* The bucket of a time, and the times of a bucket.
LEMMA Division ==
  ASSUME NEW n \in Nat, NEW w \in Nat \ {0}
  PROVE  /\ n \div w \in Nat
         /\ (n \div w) * w <= n /\ n < (n \div w) * w + w
  BY SMT

LEMMA MulLess ==
  ASSUME NEW a \in Int, NEW b \in Int, NEW w \in Nat \ {0}, a * w < b * w
  PROVE  a < b
  BY SMT

LEMMA DivisionMonotone ==
  ASSUME NEW n \in Nat, NEW m \in Nat, n <= m, NEW w \in Nat \ {0}
  PROVE  n \div w <= m \div w
<1> DEFINE a == n \div w
           b == m \div w
<1>1. /\ a \in Nat /\ a * w <= n
      /\ b \in Nat /\ m < b * w + w
  BY Division
<1> HIDE DEF a, b
<1>2. a * w < (b + 1) * w
  BY <1>1, SMT
<1>3. a < b + 1
  BY <1>1, <1>2, MulLess
<1> QED BY <1>1, <1>3 DEF a, b

\* The requests counted in a window of time belong to two buckets.
LEMMA TwoBuckets ==
  ASSUME NEW t \in Nat, NEW b \in Nat, NEW w \in Nat \ {0},
         b * w <= t, t < b * w + w + w
  PROVE  b = t \div w \/ b = t \div w - 1
<1> DEFINE k == t \div w
<1>1. k \in Nat /\ k * w <= t /\ t < k * w + w
  BY Division
<1> HIDE DEF k
<1>2. b * w < (k + 1) * w /\ k * w < (b + 2) * w
  BY <1>1, SMT
<1>3. b < k + 1 /\ k < b + 2
  BY <1>1, <1>2, MulLess
<1> QED BY <1>1, <1>3 DEF k

-----------------------------------------------------------------------------
(***************************************************************************)
(* The requests.                                                           *)
(***************************************************************************)
Decided == {"allowed", "denied"}

Typed ==
  /\ TypeOK
  /\ \A r \in Requests :
       /\ pc[r] # "idle" => client[r] \in Clients /\ worker[r] \in Workers /\ limit[r] \in Limits
       /\ pc[r] \in {"idle", "local", "connect", "ping", "send"} => got[r] = 0
       /\ pc[r] \in Decided <=> decidedBy[r] # "none"
       /\ since[r] <= now

\* What a decision in memory does: it looks at what is left of the client's
\* stamps, and a worker loses recent ones only of clients it has forgotten.
Remembers(r, list) ==
  /\ list \subseteq Recent(stamps[worker[r]][client[r]], now)
  /\ <<worker[r], client[r]>> \notin forgotten'
       => list = Recent(stamps[worker[r]][client[r]], now)
  /\ forgotten \subseteq forgotten'
  /\ \A w \in Workers, c \in Clients :
       /\ w = worker[r] /\ c = client[r]
            => stamps'[w][c] = IF Within(list, r) THEN list \cup {r} ELSE list
       /\ w # worker[r] \/ c # client[r] => stamps'[w][c] \subseteq stamps[w][c]
       /\ <<w, c>> \notin forgotten' => Recent(stamps[w][c], now) \subseteq stamps'[w][c]
  /\ pc' = [pc EXCEPT ![r] = IF Within(list, r) THEN "allowed" ELSE "denied"]

LEMMA InMemoryRemembers ==
  ASSUME Typed, NEW r \in Requests, pc[r] \notin {"idle"} \cup Decided, InMemory(r)
  PROVE  /\ \E list : Remembers(r, list)
         /\ stamps' \in [Workers -> [Clients -> SUBSET Requests]]
         /\ lastCleanup' \in [Workers -> Times] /\ forgotten' \subseteq Workers \X Clients
         /\ decidedBy' = [decidedBy EXCEPT ![r] = "memory"]
         /\ since' = [since EXCEPT ![r] = now]
<1> DEFINE w == worker[r]
           c == client[r]
<1>0. w \in Workers /\ c \in Clients /\ TypeOK
  BY DEF Typed, Decided
<1>1. PICK kept \in (IF CleanupDue(w) THEN Kept(w) ELSE {Clients}) :
        LET list == IF c \in kept THEN Pruned(stamps[w][c], now) ELSE {}
            allowed == Within(list, r)
        IN /\ stamps' = [stamps EXCEPT ![w] = [d \in Clients |->
                IF d = c THEN (IF allowed THEN list \cup {r} ELSE list)
                ELSE IF d \in kept THEN stamps[w][d] ELSE {}]]
           /\ lastCleanup' = [lastCleanup EXCEPT ![w] = IF CleanupDue(w) THEN now ELSE @]
           /\ forgotten' = forgotten \cup
                {<<w, d>> : d \in {e \in Clients \ kept : Recent(stamps[w][e], now) # {}}}
           /\ pc' = [pc EXCEPT ![r] = IF allowed THEN "allowed" ELSE "denied"]
           /\ decidedBy' = [decidedBy EXCEPT ![r] = "memory"]
           /\ since' = [since EXCEPT ![r] = now]
  BY DEF InMemory
<1> DEFINE list == IF c \in kept THEN Pruned(stamps[w][c], now) ELSE {}
<1>2. list \subseteq Recent(stamps[w][c], now) /\ list \subseteq Requests
  BY <1>0 DEF Pruned, Recent, TypeOK
<1>3. forgotten' = forgotten \cup
        {<<w, d>> : d \in {e \in Clients \ kept : Recent(stamps[w][e], now) # {}}}
  BY <1>1
<1>4. \A d \in Clients : <<w, d>> \notin forgotten' /\ d \notin kept => Recent(stamps[w][d], now) = {}
  BY <1>3
<1>5. stamps' = [stamps EXCEPT ![w] = [d \in Clients |->
                IF d = c THEN (IF Within(list, r) THEN list \cup {r} ELSE list)
                ELSE IF d \in kept THEN stamps[w][d] ELSE {}]]
  BY <1>1
<1>6. <<w, c>> \notin forgotten' => list = Recent(stamps[w][c], now)
  BY <1>0, <1>4 DEF Pruned
<1>7. pc' = [pc EXCEPT ![r] = IF Within(list, r) THEN "allowed" ELSE "denied"]
  BY <1>1
<1> HIDE DEF list
<1>8. stamps \in [Workers -> [Clients -> SUBSET Requests]]
  BY <1>0 DEF TypeOK
<1>9. \A v \in Workers, d \in Clients :
        stamps'[v][d] = IF v # w THEN stamps[v][d]
                        ELSE IF d = c THEN (IF Within(list, r) THEN list \cup {r} ELSE list)
                        ELSE IF d \in kept THEN stamps[w][d] ELSE {}
  <2> DEFINE mine == [d \in Clients |->
                IF d = c THEN (IF Within(list, r) THEN list \cup {r} ELSE list)
                ELSE IF d \in kept THEN stamps[w][d] ELSE {}]
  <2>1. \A d \in Clients :
          mine[d] = IF d = c THEN (IF Within(list, r) THEN list \cup {r} ELSE list)
                    ELSE IF d \in kept THEN stamps[w][d] ELSE {}
    OBVIOUS
  <2>2. stamps' = [stamps EXCEPT ![w] = mine]
    BY <1>5
  <2> HIDE DEF mine
  <2>3. \A v \in Workers : stamps'[v] = IF v = w THEN mine ELSE stamps[v]
    BY <1>0, <1>8, <2>2
  <2> QED BY <2>1, <2>3
<1>10. \A v \in Workers, d \in Clients : Recent(stamps[v][d], now) \subseteq stamps[v][d]
  BY DEF Recent
<1>11. \A v \in Workers, d \in Clients :
         <<v, d>> \notin forgotten' => Recent(stamps[v][d], now) \subseteq stamps'[v][d]
  <2> SUFFICES ASSUME NEW v \in Workers, NEW d \in Clients, <<v, d>> \notin forgotten'
               PROVE  Recent(stamps[v][d], now) \subseteq stamps'[v][d]
    OBVIOUS
  <2>1. CASE v # w
    BY <1>9, <1>10, <2>1
  <2>2. CASE v = w /\ d = c
    <3>1. stamps'[v][d] = IF Within(list, r) THEN list \cup {r} ELSE list
      BY <1>9, <2>2
    <3> QED BY <1>6, <2>2, <3>1
  <2>3. CASE v = w /\ d # c
    <3>1. stamps'[v][d] = IF d \in kept THEN stamps[w][d] ELSE {}
      BY <1>9, <2>3
    <3> QED BY <1>4, <1>10, <2>3, <3>1
  <2> QED BY <2>1, <2>2, <2>3
<1>12. Remembers(r, list)
  <2>1. forgotten \subseteq forgotten'
    BY <1>3
  <2>2. \A v \in Workers, d \in Clients : v = w /\ d = c =>
          stamps'[v][d] = IF Within(list, r) THEN list \cup {r} ELSE list
    BY <1>9
  <2>3. \A v \in Workers, d \in Clients : v # w \/ d # c => stamps'[v][d] \subseteq stamps[v][d]
    BY <1>9
  <2> QED BY <1>2, <1>6, <1>7, <1>11, <2>1, <2>2, <2>3 DEF Remembers
<1>13. stamps' \in [Workers -> [Clients -> SUBSET Requests]]
  BY <1>0, <1>2, <1>5, <1>8
<1>14. forgotten' \subseteq Workers \X Clients
  BY <1>0, <1>3 DEF TypeOK
<1>15. lastCleanup' \in [Workers -> Times]
  BY <1>0, <1>1 DEF TypeOK
<1> QED BY <1>1, <1>12, <1>13, <1>14, <1>15

\* The steps of a request, by what they change.
ByMemory(r) ==
  /\ pc[r] \in {"local", "ping", "send", "counted"} /\ InMemory(r)
  /\ connected' \in [Workers -> BOOLEAN]
  /\ UNCHANGED <<now, configured, counter, request, bucket, got>>
Arrives(r) == \E c \in Clients, w \in Workers, l \in Limits : Arrive(r, c, w, l)

LEMMA ServeCases ==
  ASSUME TypeOK, NEW r \in Requests, Serve(r)
  PROVE  ByMemory(r) \/ Arrives(r) \/ Connect(r) \/ Ping(r) \/ Count(r) \/ Reply(r)
<1>1. ASSUME FallsBack(r), pc[r] \in {"ping", "send", "counted"}
      PROVE  ByMemory(r)
  BY <1>1 DEF FallsBack, ByMemory, TypeOK
<1>2. Local(r) => ByMemory(r)
  BY DEF Local, ByMemory, TypeOK, redis
<1> QED BY <1>1, <1>2 DEF Serve, Arrives, PingFails, CallFails

\* A step changes nothing of another request.
Alone(r) ==
  \A q \in Requests \ {r} :
    /\ pc'[q] = pc[q] /\ client'[q] = client[q] /\ worker'[q] = worker[q]
    /\ limit'[q] = limit[q] /\ bucket'[q] = bucket[q] /\ got'[q] = got[q]
    /\ since'[q] = since[q] /\ decidedBy'[q] = decidedBy[q]

LEMMA StepsAlone ==
  ASSUME Typed, NEW r \in Requests, Serve(r)
  PROVE  Alone(r) /\ UNCHANGED now
<1>0. TypeOK
  BY DEF Typed
<1> USE DEF Alone
<1>1. CASE ByMemory(r)
  <2>1. InMemory(r) /\ pc[r] \notin {"idle"} \cup Decided
    BY <1>1 DEF ByMemory, Decided
  <2>2. /\ decidedBy' = [decidedBy EXCEPT ![r] = "memory"] /\ since' = [since EXCEPT ![r] = now]
        /\ \E next : pc' = [pc EXCEPT ![r] = next]
    BY <2>1, InMemoryRemembers DEF Remembers
  <2> QED BY <1>0, <1>1, <2>2 DEF ByMemory, request, TypeOK
<1>2. CASE Arrives(r)
  BY <1>0, <1>2 DEF Arrives, Arrive, TypeOK
<1>3. CASE Connect(r) \/ Ping(r)
  BY <1>0, <1>3 DEF Connect, Ping, Sends, request, TypeOK
<1>4. CASE Count(r)
  BY <1>0, <1>4 DEF Count, request, TypeOK
<1>5. CASE Reply(r)
  BY <1>0, <1>5 DEF Reply, request, TypeOK
<1> QED BY <1>0, <1>1, <1>2, <1>3, <1>4, <1>5, ServeCases

LEMMA TypedInit == Init => Typed
<1> SUFFICES ASSUME Init PROVE Typed
  OBVIOUS
<1>1. 0 \in Times /\ 0 \in Buckets
  BY Numbers, Division DEF Times, Buckets
<1> QED BY <1>1 DEF Init, Typed, TypeOK, PC, Decided

LEMMA TypedNext == Typed /\ [Next]_vars => Typed'
<1> SUFFICES ASSUME Typed, [Next]_vars PROVE Typed'
  OBVIOUS
<1>0. TypeOK /\ now \in Times /\ now \in Nat /\ now <= now
  BY Numbers DEF Typed, TypeOK, Times
<1>1. ASSUME NEW r \in Requests, Serve(r) PROVE Typed'
  <2> DEFINE Mine == /\ pc'[r] # "idle" => /\ client'[r] \in Clients /\ worker'[r] \in Workers
                                           /\ limit'[r] \in Limits
                     /\ pc'[r] \in {"idle", "local", "connect", "ping", "send"} => got'[r] = 0
                     /\ pc'[r] \in Decided <=> decidedBy'[r] # "none"
                     /\ since'[r] <= now'
  <2>1. CASE ByMemory(r)
    <3>1. InMemory(r) /\ pc[r] \notin {"idle"} \cup Decided
      BY <2>1 DEF ByMemory, Decided
    <3>2. PICK list : Remembers(r, list)
      BY <3>1, InMemoryRemembers
    <3>3. \E next \in Decided : pc' = [pc EXCEPT ![r] = next]
      BY <3>2 DEF Remembers, Decided
    <3>4. /\ stamps' \in [Workers -> [Clients -> SUBSET Requests]]
          /\ lastCleanup' \in [Workers -> Times] /\ forgotten' \subseteq Workers \X Clients
          /\ decidedBy' = [decidedBy EXCEPT ![r] = "memory"]
          /\ since' = [since EXCEPT ![r] = now]
      BY <3>1, InMemoryRemembers
    <3>5. /\ connected' \in [Workers -> BOOLEAN]
          /\ UNCHANGED <<now, configured, counter, client, worker, limit, bucket, got>>
      BY <2>1 DEF ByMemory, request
    <3>6. TypeOK'
      BY <1>0, <3>3, <3>4, <3>5 DEF TypeOK, Decided, PC
    <3>7. Mine
      BY <1>0, <3>1, <3>3, <3>4, <3>5 DEF Typed, TypeOK, Decided
    <3> QED BY <3>6, <3>7, <1>1, StepsAlone DEF Typed, Alone
  <2>2. CASE Arrives(r)
    <3>1. TypeOK'
      BY <1>0, <2>2 DEF Arrives, Arrive, TypeOK, redis, memory, PC
    <3>2. Mine
      BY <1>0, <2>2 DEF Arrives, Arrive, Typed, TypeOK, Decided
    <3> QED BY <3>1, <3>2, <1>1, StepsAlone DEF Typed, Alone
  <2>3. CASE Connect(r) \/ Ping(r)
    <3>1. now \div Window \in Buckets
      BY <1>0, Numbers, Division, DivisionMonotone DEF Times, Buckets
    <3>2. ASSUME Sends(r), pc[r] \in {"connect", "ping"}, UNCHANGED connected
          PROVE  TypeOK' /\ Mine
      <4>1. TypeOK'
        BY <1>0, <3>1, <3>2 DEF Sends, TypeOK, request, memory, PC
      <4>2. /\ pc'[r] = "send" /\ since'[r] = now
            /\ UNCHANGED <<now, client, worker, limit, decidedBy, got>>
        BY <1>0, <3>2 DEF Sends, TypeOK, request
      <4>3. Mine
        BY <1>0, <3>2, <4>2 DEF Typed, Decided
      <4> QED BY <4>1, <4>3
    <3>3. CASE Connect(r) /\ ~connected[worker[r]]
      <4>1. TypeOK'
        BY <1>0, <3>3 DEF Connect, TypeOK, request, memory, PC
      <4>2. Mine
        BY <1>0, <3>3 DEF Connect, Typed, TypeOK, request, Decided
      <4> QED BY <4>1, <4>2, <1>1, StepsAlone DEF Typed, Alone
    <3>4. CASE ~(Connect(r) /\ ~connected[worker[r]])
      <4>1. Sends(r) /\ pc[r] \in {"connect", "ping"} /\ UNCHANGED connected
        BY <2>3, <3>4 DEF Connect, Ping
      <4> QED BY <3>2, <4>1, <1>1, StepsAlone DEF Typed, Alone
    <3> QED BY <3>3, <3>4
  <2>4. CASE Count(r)
    <3> DEFINE key == <<client[r], bucket[r]>>
               count == IF now < counter[key].until THEN counter[key].count + 1 ELSE 1
    <3>1. key \in Clients \X Buckets
      BY <1>0, <2>4 DEF Count, Typed, TypeOK
    <3>2. count \in Nat /\ now + Window \in Nat
      BY <1>0, <3>1, Numbers DEF TypeOK, Times
    <3>3. /\ counter' = [counter EXCEPT ![key] = [count |-> count, until |-> now + Window]]
          /\ got' = [got EXCEPT ![r] = count]
      BY <2>4 DEF Count
    <3> HIDE DEF key, count
    <3>4. counter' \in [Clients \X Buckets -> [count : Nat, until : Nat]]
          /\ got' \in [Requests -> Nat]
      BY <1>0, <3>1, <3>2, <3>3 DEF TypeOK
    <3>5. TypeOK'
      BY <1>0, <2>4, <3>4 DEF Count, TypeOK, request, memory, PC
    <3>6. /\ pc[r] = "send" /\ pc'[r] = "counted" /\ since'[r] = now
          /\ UNCHANGED <<now, client, worker, limit, decidedBy>>
      BY <1>0, <2>4 DEF Count, TypeOK, request
    <3>7. Mine
      BY <1>0, <3>6 DEF Typed, Decided
    <3> QED BY <3>5, <3>7, <1>1, StepsAlone DEF Typed, Alone
  <2>5. CASE Reply(r)
    <3>1. TypeOK'
      BY <1>0, <2>5 DEF Reply, TypeOK, request, memory, redis, PC
    <3>2. Mine
      BY <1>0, <2>5 DEF Reply, Typed, TypeOK, request, Decided
    <3> QED BY <3>1, <3>2, <1>1, StepsAlone DEF Typed, Alone
  <2> QED BY <1>0, <1>1, <2>1, <2>2, <2>3, <2>4, <2>5, ServeCases
<1>2. CASE Tick
  BY <1>0, <1>2, Numbers DEF Tick, Typed, TypeOK, redis, memory, request, Times
<1>3. CASE UNCHANGED vars
  BY <1>3 DEF Typed, TypeOK, vars, redis, memory, request
<1> QED BY <1>1, <1>2, <1>3 DEF Next

\* Every variable of Redis, of the workers and of the requests keeps its type.
THEOREM TypeCorrect == Spec => []TypeOK
<1>1. Typed => TypeOK
  BY DEF Typed
<1> QED BY <1>1, TypedInit, TypedNext, PTL DEF Spec

-----------------------------------------------------------------------------
(***************************************************************************)
(* What Redis counts.                                                      *)
(***************************************************************************)
Key(r) == <<client[r], bucket[r]>>
Start(r) == bucket[r] * Window

\* Requests whose count is, or will be, decisive; and all that were counted.
Tallied(r) == pc[r] = "counted" \/ decidedBy[r] = "redis"
Counted(k) == {q \in Requests : Key(q) = k /\ got[q] > 0}

\* A request is counted in the bucket it names or at the first moment of the
\* next.  Within a window no two of a bucket get the same count: a counter
\* starts again only when all it has counted are a window old.
Timely ==
  \A r \in Requests :
    /\ InRedis(r) => now <= since[r] + 1
    /\ pc[r] = "send" => Start(r) <= since[r] /\ since[r] < Start(r) + Window
    /\ Tallied(r) => /\ Start(r) <= since[r] /\ since[r] <= Start(r) + Window
                     /\ got[r] >= 1
Numbered ==
  \A r \in Requests : Tallied(r) =>
    /\ since[r] + Window <= counter[Key(r)].until
    /\ since[r] + Window > now => got[r] <= counter[Key(r)].count
    /\ \A q \in Requests \ {r} : Tallied(q) /\ Key(q) = Key(r) /\ got[q] = got[r] =>
         since[q] + Window <= since[r] \/ since[r] + Window <= since[q]
\* No count exceeds the number of the requests counted.
Honest ==
  /\ \A k \in Clients \X Buckets : counter[k].count <= Cardinality(Counted(k))
  /\ \A r \in Requests : got[r] <= Cardinality(Counted(Key(r)))
Replied ==
  \A r \in Requests : decidedBy[r] = "redis" => (pc[r] = "allowed" <=> got[r] <= limit[r])
Tally == Timely /\ Numbered /\ Honest /\ Replied

LEMMA RequestSets ==
  ASSUME NEW S \in SUBSET Requests
  PROVE  IsFiniteSet(S) /\ Cardinality(S) \in Nat
<1>1. IsFiniteSet(Requests)
  BY Numbers, FS_Interval DEF Requests
<1> QED BY <1>1, FS_Subset, FS_CardinalityType

LEMMA Smaller ==
  ASSUME NEW S \in SUBSET Requests, NEW T \in SUBSET S
  PROVE  /\ IsFiniteSet(T) /\ Cardinality(T) <= Cardinality(S)
         /\ Cardinality(S) \in Nat /\ Cardinality(T) \in Nat
<1>1. IsFiniteSet(S) /\ Cardinality(S) \in Nat
  BY RequestSets
<1> QED BY <1>1, FS_Subset, FS_CardinalityType

LEMMA OneMore ==
  ASSUME NEW S \in SUBSET Requests, NEW r \in Requests \ S
  PROVE  Cardinality(S \cup {r}) = Cardinality(S) + 1
<1>1. IsFiniteSet(S)
  BY RequestSets
<1> QED BY <1>1, FS_AddElement

LEMMA TallyInit == Init => Tally
<1> SUFFICES ASSUME Init PROVE Tally
  OBVIOUS
<1>1. \A r \in Requests : ~Tallied(r) /\ ~InRedis(r) /\ pc[r] # "send" /\ decidedBy[r] = "none"
  BY DEF Init, Tallied, InRedis
<1>2. \A k : Counted(k) \in SUBSET Requests
  BY DEF Counted
<1>3. \A k : Cardinality(Counted(k)) \in Nat
  BY <1>2, RequestSets
<1>4. Honest
  BY <1>3 DEF Init, Honest
<1> QED BY <1>1, <1>4 DEF Tally, Timely, Numbered, Replied

\* A step that counts nothing, of a request without a decisive count.
LEMMA TallyAside ==
  ASSUME Tally, Typed, Typed', NEW r \in Requests, Alone(r), UNCHANGED <<now, counter>>,
         got'[r] = got[r], got[r] = 0 \/ Key(r)' = Key(r),
         ~Tallied(r)', 
         InRedis(r)' => since'[r] = now,
         pc'[r] = "send" => (Start(r) <= since[r] /\ since[r] < Start(r) + Window)'
  PROVE  Tally'
<1> USE DEF Alone
<1>1. \A q \in Requests \ {r} : /\ Key(q)' = Key(q) /\ Start(q)' = Start(q)
                                /\ Tallied(q)' <=> Tallied(q)
                                /\ InRedis(q)' <=> InRedis(q)
  BY DEF Key, Start, Tallied, InRedis
<1>2. now \in Nat /\ \A q \in Requests : got[q] \in Nat /\ got'[q] = got[q]
  BY Numbers DEF Typed, TypeOK, Times
<1>3. \A k : Counted(k)' = Counted(k)
  BY <1>1, <1>2 DEF Counted
<1>4. Timely'
  BY <1>1, <1>2 DEF Tally, Timely
<1>5. Numbered'
  BY <1>1, <1>2 DEF Tally, Numbered
<1>6. Honest'
  <2>1. \A q \in Requests : Cardinality(Counted(Key(q))') \in Nat
    <3>1. \A q \in Requests : Counted(Key(q))' \in SUBSET Requests
      BY DEF Counted
    <3> QED BY <3>1, RequestSets
  <2>2. Cardinality(Counted(Key(r))') \in Nat
    BY <2>1
  <2>3. got'[r] <= Cardinality(Counted(Key(r))')
    <3>1. CASE got[r] = 0
      BY <1>2, <2>2, <3>1
    <3>2. CASE Key(r)' = Key(r)
      BY <1>2, <1>3, <3>2 DEF Tally, Honest
    <3> QED BY <3>1, <3>2
  <2>4. \A q \in Requests \ {r} : got'[q] <= Cardinality(Counted(Key(q))')
    BY <1>1, <1>2, <1>3 DEF Tally, Honest
  <2> QED BY <1>3, <2>3, <2>4 DEF Tally, Honest
<1>7. Replied'
  BY DEF Tally, Replied, Tallied
<1> QED BY <1>4, <1>5, <1>6, <1>7 DEF Tally

LEMMA TallyCount ==
  ASSUME Tally, Typed, Typed', NEW r \in Requests, Alone(r), Count(r)
  PROVE  Tally'
<1> USE DEF Alone
<1>00. PICK key : key = Key(r)
  OBVIOUS
<1> DEFINE count == IF now < counter[key].until THEN counter[key].count + 1 ELSE 1
<1>0. /\ now \in Nat /\ Window \in Nat /\ r \in Requests
      /\ \A q \in Requests : got[q] \in Nat /\ since[q] \in Nat /\ since[q] <= now
  BY Numbers DEF Typed, TypeOK, Times
<1>1. key \in Clients \X Buckets
  BY <1>00 DEF Count, Typed, TypeOK, Key
<1>2. counter[key].count \in Nat /\ counter[key].until \in Nat
  BY <1>1 DEF Typed, TypeOK
<1>3. /\ pc[r] = "send" /\ pc'[r] = "counted" /\ got'[r] = count /\ since'[r] = now
      /\ counter' = [counter EXCEPT ![key] = [count |-> count, until |-> now + Window]]
      /\ UNCHANGED <<now, client, bucket, decidedBy>>
  BY <1>00 DEF Count, Key, Typed, TypeOK, request
<1>4. /\ counter'[key].count = count /\ counter'[key].until = now + Window
      /\ \A k \in Clients \X Buckets : k # key => counter'[k] = counter[k]
  BY <1>1, <1>3 DEF Typed, TypeOK
<1>5. got[r] = 0 /\ ~Tallied(r) /\ Tallied(r)'
  BY <1>3 DEF Typed, Tallied, Decided
<1>6. \A q \in Requests : Key(q)' = Key(q) /\ Start(q)' = Start(q)
  BY <1>3 DEF Key, Start
<1>7. \A q \in Requests \ {r} : Tallied(q)' <=> Tallied(q)
  BY DEF Tallied
<1>8. \A q \in Requests : Tallied(q) => Key(q) \in Clients \X Buckets
  BY DEF Tallied, Typed, TypeOK, Key, Decided
<1>9. count \in Nat /\ count >= 1
  BY <1>2
<1>10. Timely'
  <2>1. \A q \in Requests \ {r} : InRedis(q)' <=> InRedis(q)
    BY DEF InRedis
  <2>2. now <= since'[r] + 1 /\ pc'[r] # "send"
    BY <1>0, <1>3
  <2>3. Start(r) <= now /\ now <= Start(r) + Window
    <3>1. /\ now <= since[r] + 1 /\ Start(r) <= since[r] /\ since[r] < Start(r) + Window
      BY <1>3 DEF Tally, Timely, InRedis
    <3>2. Start(r) \in Nat /\ since[r] \in Nat /\ since[r] <= now
      BY <1>0 DEF Start, Typed, TypeOK, Buckets
    <3> QED BY <1>0, <3>1, <3>2
  <2> QED BY <1>3, <1>6, <1>7, <1>9, <2>1, <2>2, <2>3 DEF Tally, Timely
<1>11. \A q \in Requests : Tallied(q) /\ Key(q) = key =>
         /\ since[q] + Window <= now + Window
         /\ since[q] + Window > now => got[q] < count
  <2> SUFFICES ASSUME NEW q \in Requests, Tallied(q), Key(q) = key
               PROVE  /\ since[q] + Window <= now + Window
                      /\ since[q] + Window > now => got[q] < count
    OBVIOUS
  <2>1. /\ since[q] + Window <= counter[key].until
        /\ since[q] + Window > now => got[q] <= counter[key].count
    BY DEF Tally, Numbered
  <2> QED BY <1>0, <1>2, <2>1
<1> HIDE DEF count
<1>12. Numbered'
  <2>1. ASSUME NEW q \in Requests \ {r}, Tallied(q)'
        PROVE  /\ since'[q] + Window <= counter'[Key(q)].until
               /\ since'[q] + Window > now => got'[q] <= counter'[Key(q)].count
               /\ Key(q) = key /\ got'[q] = got'[r] => since[q] + Window <= now
    <3>1. Tallied(q) /\ since'[q] = since[q] /\ got'[q] = got[q] /\ Key(q) \in Clients \X Buckets
      BY <1>7, <1>8, <2>1
    <3>2. CASE Key(q) = key
      BY <1>0, <1>3, <1>4, <1>9, <1>11, <3>1, <3>2
    <3>3. CASE Key(q) # key
      BY <1>4, <3>1, <3>3 DEF Tally, Numbered
    <3> QED BY <3>2, <3>3
  <2>2. /\ since'[r] + Window <= counter'[key].until
        /\ since'[r] + Window > now => got'[r] <= counter'[key].count
    BY <1>0, <1>3, <1>4, <1>9
  <2>3. \A q \in Requests \ {r} : Tallied(q)' /\ Key(q) = key /\ got'[q] = got'[r] =>
          since'[q] + Window <= since'[r]
    BY <1>3, <2>1
  <2>4. \A p, q \in Requests \ {r} : p # q /\ Tallied(p)' /\ Tallied(q)' /\ Key(p) = Key(q)
                                     /\ got'[p] = got'[q] =>
          since'[p] + Window <= since'[q] \/ since'[q] + Window <= since'[p]
    BY <1>7 DEF Tally, Numbered
  <2> HIDE DEF Alone
  <2> QED BY <1>3, <1>6, <2>1, <2>2, <2>3, <2>4, <1>00 DEF Numbered
<1>13. Honest'
  <2>1. \A k : Counted(k) \in SUBSET Requests /\ Counted(k)' \in SUBSET Requests
    BY DEF Counted
  <2>2. \A k : k # key => Counted(k)' = Counted(k)
    BY <1>3, <1>6, <1>00 DEF Counted
  <2>3. r \notin Counted(key) /\ Counted(key)' = Counted(key) \cup {r}
    BY <1>0, <1>3, <1>5, <1>6, <1>9, <1>00 DEF Counted
  <2>4. Cardinality(Counted(key)') = Cardinality(Counted(key)) + 1
        /\ \A k : Cardinality(Counted(k)) \in Nat
    BY <2>1, <2>3, OneMore, RequestSets
  <2>5. count <= Cardinality(Counted(key)')
    BY <1>1, <1>2, <2>4 DEF Tally, Honest, count
  <2>6. \A q \in Requests \ {r} : got'[q] <= Cardinality(Counted(Key(q))')
    <3>1. \A q \in Requests \ {r} : got'[q] = got[q] /\ got[q] \in Nat
                                   /\ got[q] <= Cardinality(Counted(Key(q)))
      BY <1>0 DEF Tally, Honest
    <3> SUFFICES ASSUME NEW q \in Requests \ {r}
                 PROVE  got'[q] <= Cardinality(Counted(Key(q))')
      OBVIOUS
    <3>2. CASE Key(q) = key
      <4>1. Cardinality(Counted(Key(q))) \in Nat
        BY <2>4
      <4>2. Cardinality(Counted(Key(q))') = Cardinality(Counted(Key(q))) + 1
        BY <1>6, <2>4, <3>2
      <4> QED BY <3>1, <4>1, <4>2
    <3>3. CASE Key(q) # key
      <4>1. Counted(Key(q))' = Counted(Key(q))
        BY <1>6, <2>2, <3>3
      <4> QED BY <3>1, <4>1
    <3> QED BY <3>2, <3>3
  <2>7. got'[r] <= Cardinality(Counted(Key(r))')
    BY <1>00, <1>3, <1>6, <2>5
  <2>8. \A k \in Clients \X Buckets : counter'[k].count <= Cardinality(Counted(k)')
    <3> SUFFICES ASSUME NEW k \in Clients \X Buckets
                 PROVE  counter'[k].count <= Cardinality(Counted(k)')
      OBVIOUS
    <3>1. CASE k = key
      BY <1>4, <2>5, <3>1
    <3>2. CASE k # key
      <4>1. Counted(k)' = Counted(k) /\ counter'[k] = counter[k]
        BY <1>4, <2>2, <3>2
      <4> QED BY <4>1 DEF Tally, Honest
    <3> QED BY <3>1, <3>2
  <2> QED BY <1>6, <2>6, <2>7, <2>8 DEF Honest
<1>14. Replied'
  <2>1. decidedBy'[r] # "redis"
    BY <1>3, <1>5 DEF Tallied
  <2>2. \A q \in Requests \ {r} : limit'[q] = limit[q]
    OBVIOUS
  <2> QED BY <2>1, <2>2 DEF Tally, Replied
<1> QED BY <1>10, <1>12, <1>13, <1>14 DEF Tally

LEMMA TallyReply ==
  ASSUME Tally, Typed, Typed', NEW r \in Requests, Alone(r), Reply(r)
  PROVE  Tally'
<1>1. /\ pc[r] = "counted" /\ decidedBy'[r] = "redis"
      /\ pc'[r] = IF got[r] <= limit[r] THEN "allowed" ELSE "denied"
      /\ UNCHANGED <<now, counter, client, limit, bucket, got, since>>
  BY DEF Reply, redis, request, Typed, TypeOK
<1>2. \A q \in Requests : Key(q)' = Key(q) /\ Start(q)' = Start(q) /\ (Tallied(q)' => Tallied(q))
  BY <1>1 DEF Alone, Key, Start, Tallied
<1>3. \A k : Counted(k)' = Counted(k)
  BY <1>1, <1>2 DEF Counted
<1>4. Timely'
  BY <1>1, <1>2 DEF Alone, Tally, Timely, InRedis
<1>5. Numbered'
  BY <1>1, <1>2 DEF Tally, Numbered
<1>6. Honest'
  BY <1>1, <1>2, <1>3 DEF Tally, Honest
<1>7. Replied'
  BY <1>1 DEF Alone, Tally, Replied
<1> QED BY <1>4, <1>5, <1>6, <1>7 DEF Tally

LEMMA TallyNext == Typed /\ Tally /\ [Next]_vars => Tally'
<1> SUFFICES ASSUME Typed, Tally, [Next]_vars PROVE Tally'
  OBVIOUS
<1>0. Typed' /\ TypeOK
  BY TypedNext DEF Typed
<1>1. ASSUME NEW r \in Requests, Serve(r) PROVE Tally'
  <2>0. Alone(r) /\ UNCHANGED now
    BY <1>1, StepsAlone
  <2>1. CASE ByMemory(r)
    <3>1. pc'[r] \in Decided /\ decidedBy'[r] = "memory"
      <4>1. InMemory(r) /\ pc[r] \notin {"idle"} \cup Decided
        BY <2>1 DEF ByMemory, Decided
      <4>2. PICK list : Remembers(r, list)
        BY <4>1, InMemoryRemembers
      <4>3. decidedBy' = [decidedBy EXCEPT ![r] = "memory"]
        BY <4>1, InMemoryRemembers
      <4> QED BY <1>0, <4>2, <4>3 DEF Remembers, Decided, TypeOK
    <3>2. UNCHANGED <<counter, client, bucket, got>>
      BY <2>1 DEF ByMemory, request
    <3>3. Key(r)' = Key(r) /\ ~Tallied(r)' /\ ~InRedis(r)' /\ pc'[r] # "send"
      BY <3>1, <3>2 DEF Key, Tallied, InRedis, Decided
    <3> QED BY <1>0, <2>0, <3>2, <3>3, TallyAside
  <2>2. CASE Arrives(r)
    <3>1. /\ pc'[r] \in {"connect", "local"} /\ got[r] = 0 /\ decidedBy[r] = "none"
          /\ UNCHANGED <<counter, got, decidedBy>>
      BY <1>0, <2>2 DEF Arrives, Arrive, Typed, TypeOK, redis, Decided
    <3>2. ~Tallied(r)' /\ ~InRedis(r)' /\ pc'[r] # "send"
      BY <3>1 DEF Tallied, InRedis
    <3> QED BY <1>0, <2>0, <3>1, <3>2, TallyAside
  <2>3. CASE Connect(r) \/ Ping(r)
    <3>1. /\ pc'[r] \in {"ping", "send"} /\ got[r] = 0 /\ decidedBy[r] = "none"
          /\ since'[r] = now /\ UNCHANGED <<counter, got, decidedBy>>
          /\ pc'[r] = "send" => bucket'[r] = now \div Window
      <4>1. pc[r] \in {"connect", "ping"} /\ got[r] = 0 /\ decidedBy[r] = "none"
        BY <2>3 DEF Connect, Ping, Typed, Decided
      <4>2. CASE Sends(r)
        BY <1>0, <4>1, <4>2 DEF Sends, TypeOK
      <4>3. CASE ~Sends(r)
        <5>1. Connect(r) /\ ~connected[worker[r]]
          BY <2>3, <4>3 DEF Connect, Ping
        <5>2. /\ pc' = [pc EXCEPT ![r] = "ping"] /\ since' = [since EXCEPT ![r] = now]
              /\ UNCHANGED <<counter, got, decidedBy>>
          BY <5>1 DEF Connect
        <5> QED BY <1>0, <4>1, <5>2 DEF TypeOK
      <4> QED BY <4>2, <4>3
    <3>2. pc'[r] = "send" => (Start(r) <= since[r] /\ since[r] < Start(r) + Window)'
      <4>1. now \in Nat /\ Window \in Nat \ {0}
        BY <1>0, Numbers DEF TypeOK, Times
      <4>2. PICK b : b = now \div Window
        OBVIOUS
      <4>3. b * Window <= now /\ now < b * Window + Window
        BY <4>1, <4>2, Division
      <4>4. pc'[r] = "send" => bucket'[r] = b
        BY <3>1, <4>2
      <4>5. Start(r)' = bucket'[r] * Window
        BY DEF Start
      <4> QED BY <3>1, <4>3, <4>4, <4>5
    <3> QED BY <1>0, <2>0, <3>1, <3>2, TallyAside DEF Tallied, InRedis
  <2>4. CASE Count(r)
    BY <1>0, <2>0, <2>4, TallyCount
  <2>5. CASE Reply(r)
    BY <1>0, <2>0, <2>5, TallyReply
  <2> QED BY <1>0, <1>1, <2>1, <2>2, <2>3, <2>4, <2>5, ServeCases
<1>2. CASE Tick
  <2>1. /\ now' = now + 1 /\ now \in Nat
        /\ \A r \in Requests : /\ InRedis(r) => since[r] = now
                               /\ since[r] \in Nat
        /\ UNCHANGED <<counter, pc, client, limit, bucket, got, since, decidedBy>>
    BY <1>0, <1>2, Numbers DEF Tick, redis, request, TypeOK, Times
  <2>2. \A r \in Requests : /\ Key(r)' = Key(r) /\ Start(r)' = Start(r)
                            /\ Tallied(r)' = Tallied(r) /\ InRedis(r)' = InRedis(r)
    BY <2>1 DEF Key, Start, Tallied, InRedis
  <2>3. \A k : Counted(k)' = Counted(k)
    BY <2>1, <2>2 DEF Counted
  <2>4. Timely'
    BY <2>1, <2>2 DEF Tally, Timely
  <2>5. Numbered'
    BY <2>1, <2>2, Numbers DEF Tally, Numbered
  <2>6. Honest' /\ Replied'
    BY <2>1, <2>2, <2>3 DEF Tally, Honest, Replied
  <2> QED BY <2>4, <2>5, <2>6 DEF Tally
<1>3. CASE UNCHANGED vars
  BY <1>3 DEF vars, redis, request, Tally, Timely, Numbered, Honest, Replied, Key, Start,
              Tallied, Counted, InRedis
<1> QED BY <1>1, <1>2, <1>3 DEF Next

LEMMA NumberTypes ==
  ASSUME Typed, NEW r \in Requests
  PROVE  bucket[r] \in Nat /\ got[r] \in Nat /\ since[r] \in Nat /\ limit[r] \in Nat
<1>1. bucket[r] \in Buckets /\ got[r] \in Nat /\ since[r] \in Times /\ limit[r] \in Limits \cup {0}
  BY DEF Typed, TypeOK
<1>2. bucket[r] \in Nat /\ since[r] \in Nat
  BY <1>1 DEF Buckets, Times
<1>3. limit[r] \in Nat
  <2>1. limit[r] \in Limits \/ limit[r] = 0
    BY <1>1
  <2>2. limit[r] \in Limits => limit[r] \in Nat
    BY LimiterAssumption
  <2> QED BY <2>1, <2>2
<1> QED BY <1>1, <1>2, <1>3

\* In a window of time Redis allows a client at most the limit in each of the
\* two buckets: those allowed have different counts up to the limit.
LEMMA RedisBounded ==
  ASSUME Typed, Tally, NEW c \in Clients, NEW l \in Limits, NEW t \in Times
  PROVE  Cardinality(AllowedIn(c, l, t, "redis")) <= 2 * l
<1> DEFINE A == AllowedIn(c, l, t, "redis")
           k == t \div Window
           In(b) == {r \in A : bucket[r] = b}
<1>0. /\ Window \in Nat \ {0} /\ l \in Nat /\ t \in Nat /\ now \in Nat
      /\ Limits \subseteq Nat
  BY Numbers DEF Typed, TypeOK, Times
<1>1. \A r \in A : /\ r \in Requests /\ Tallied(r) /\ client[r] = c /\ bucket[r] \in Nat
                   /\ got[r] \in 1 .. l /\ since[r] \in Nat
                   /\ since[r] <= t /\ t < since[r] + Window
  <2> SUFFICES ASSUME NEW r \in A
               PROVE  /\ r \in Requests /\ Tallied(r) /\ client[r] = c /\ bucket[r] \in Nat
                      /\ got[r] \in 1 .. l /\ since[r] \in Nat
                      /\ since[r] <= t /\ t < since[r] + Window
    OBVIOUS
  <2>1. /\ r \in Requests /\ pc[r] = "allowed" /\ client[r] = c /\ limit[r] <= l
        /\ decidedBy[r] = "redis" /\ since[r] <= t /\ since[r] + Window > t
    BY DEF AllowedIn
  <2>2. bucket[r] \in Nat /\ got[r] \in Nat /\ since[r] \in Nat /\ limit[r] \in Nat
    BY <2>1, NumberTypes
  <2>3. Tallied(r) /\ got[r] >= 1 /\ got[r] <= limit[r]
    BY <2>1 DEF Tallied, Tally, Timely, Replied
  <2> QED BY <1>0, <2>1, <2>2, <2>3
<1>2. A \subseteq In(k) \cup In(k - 1)
  <2> SUFFICES ASSUME NEW r \in A PROVE bucket[r] = k \/ bucket[r] = k - 1
    OBVIOUS
  <2>1. Start(r) <= since[r] /\ since[r] <= Start(r) + Window
    BY <1>1 DEF Tally, Timely
  <2>2. bucket[r] * Window \in Nat
    BY <1>0, <1>1, SMT
  <2>3. bucket[r] * Window <= t /\ t < bucket[r] * Window + Window + Window
    BY <1>0, <1>1, <2>1, <2>2 DEF Start
  <2> QED BY <1>0, <1>1, <2>3, TwoBuckets
<1>3. ASSUME NEW b
      PROVE  IsFiniteSet(In(b)) /\ Cardinality(In(b)) <= l /\ Cardinality(In(b)) \in Nat
  <2> DEFINE f == [r \in In(b) |-> got[r]]
  <2>1. \A r \in In(b) : f[r] \in 1 .. l
    BY <1>1
  <2>2. \A q, r \in In(b) : f[q] = f[r] => q = r
    <3> SUFFICES ASSUME NEW q \in In(b), NEW r \in In(b), f[q] = f[r], q # r PROVE FALSE
      OBVIOUS
    <3>1. Key(q) = Key(r) /\ got[q] = got[r]
      BY <1>1 DEF Key
    <3>2. since[q] + Window <= since[r] \/ since[r] + Window <= since[q]
      BY <1>1, <3>1 DEF Tally, Numbered
    <3> QED BY <1>0, <1>1, <3>2
  <2>3. f \in Injection(In(b), 1 .. l)
    <3>1. f \in [In(b) -> 1 .. l]
      BY <2>1
    <3> HIDE DEF f, In
    <3> QED BY <2>2, <3>1 DEF Injection, IsInjective
  <2>4. IsFiniteSet(1 .. l) /\ Cardinality(1 .. l) = l
    BY <1>0, FS_Interval
  <2>5. IsFiniteSet(In(b)) /\ Cardinality(In(b)) <= l
    BY <2>3, <2>4, FS_Injection
  <2> QED BY <2>5, FS_CardinalityType
<1> HIDE DEF A, In, k
<1>4. /\ IsFiniteSet(In(k) \cup In(k - 1))
      /\ Cardinality(In(k) \cup In(k - 1))
           = Cardinality(In(k)) + Cardinality(In(k - 1)) - Cardinality(In(k) \cap In(k - 1))
  BY <1>3, FS_Union
<1>5. Cardinality(In(k) \cap In(k - 1)) \in Nat
  BY <1>3, FS_Intersection, FS_CardinalityType
<1>6. Cardinality(A) <= Cardinality(In(k) \cup In(k - 1)) /\ IsFiniteSet(A)
  BY <1>2, <1>4, FS_Subset
<1>7. Cardinality(A) \in Nat /\ Cardinality(In(k) \cup In(k - 1)) \in Nat
  BY <1>4, <1>6, FS_CardinalityType
<1> QED BY <1>0, <1>3, <1>4, <1>5, <1>6, <1>7 DEF A

\* A request that Redis refuses is one of more than its limit that it counted.
LEMMA RedisBusy ==
  ASSUME Typed, Tally, NEW r \in Requests, pc[r] = "denied", decidedBy[r] = "redis"
  PROVE  limit[r] <= Cardinality({q \in Requests \ {r} :
           client[q] = client[r] /\ bucket[q] = bucket[r] /\ got[q] > 0})
<1>1. got[r] \in Nat /\ limit[r] \in Nat /\ got[r] > limit[r]
  <2>1. got[r] \in Nat /\ limit[r] \in Nat
    BY NumberTypes
  <2>2. ~(got[r] <= limit[r])
    BY DEF Tally, Replied
  <2> QED BY <2>1, <2>2
<1>2. got[r] <= Cardinality(Counted(Key(r))) /\ r \in Counted(Key(r))
  BY <1>1 DEF Tally, Honest, Counted
<1>3. IsFiniteSet(Counted(Key(r))) /\ Cardinality(Counted(Key(r))) \in Nat
  <2>1. Counted(Key(r)) \in SUBSET Requests
    BY DEF Counted
  <2> QED BY <2>1, RequestSets
<1>4. Cardinality(Counted(Key(r)) \ {r}) = Cardinality(Counted(Key(r))) - 1
  BY <1>2, <1>3, FS_RemoveElement
<1>5. Counted(Key(r)) \ {r}
        = {q \in Requests \ {r} : client[q] = client[r] /\ bucket[q] = bucket[r] /\ got[q] > 0}
  BY DEF Counted, Key
<1>6. limit[r] <= Cardinality(Counted(Key(r)) \ {r})
  <2>1. limit[r] <= Cardinality(Counted(Key(r))) - 1
    BY <1>1, <1>2, <1>3
  <2> QED BY <1>4, <2>1
<1> QED BY <1>5, <1>6

-----------------------------------------------------------------------------
(***************************************************************************)
(* What the workers' memories hold.                                        *)
(***************************************************************************)
ByMem(q, w, c) ==
  pc[q] = "allowed" /\ decidedBy[q] = "memory" /\ worker[q] = w /\ client[q] = c
AllowedHere(c, l, t, w) == {r \in AllowedIn(c, l, t, "memory") : worker[r] = w}
Before(r) ==
  {q \in Requests \ {r} : /\ pc[q] = "allowed" /\ decidedBy[q] = "memory"
                          /\ client[q] = client[r] /\ worker[q] = worker[r]
                          /\ since[q] <= since[r] /\ since[q] + Window > since[r]}

\* A memory holds requests it allowed, and all of the last window of a client
\* it has not forgotten.
Stamped ==
  \A w \in Workers, c \in Clients :
    /\ \A q \in stamps[w][c] : ByMem(q, w, c)
    /\ <<w, c>> \notin forgotten =>
         \A q \in Requests : ByMem(q, w, c) /\ since[q] + Window > now => q \in stamps[w][c]
MemoryBounded ==
  \A c \in Clients, l \in Limits, t \in Times, w \in Workers :
    <<w, c>> \notin forgotten => Cardinality(AllowedHere(c, l, t, w)) <= l
MemoryBusy ==
  \A r \in Requests : pc[r] = "denied" /\ decidedBy[r] = "memory" =>
    limit[r] <= Cardinality(Before(r))
Recollection == Stamped /\ MemoryBounded /\ MemoryBusy

LEMMA RecollectionInit == Init => Recollection
<1> SUFFICES ASSUME Init PROVE Recollection
  OBVIOUS
<1>1. \A c, l, t, w : AllowedHere(c, l, t, w) = {}
  BY DEF Init, AllowedHere, AllowedIn
<1>2. Cardinality({}) = 0
  BY FS_EmptySet
<1>3. MemoryBounded
  BY <1>1, <1>2, Numbers DEF MemoryBounded
<1>4. Stamped /\ MemoryBusy
  BY DEF Init, Stamped, MemoryBusy, ByMem
<1> QED BY <1>3, <1>4 DEF Recollection

\* A step that decides nothing in memory.
LEMMA RecollectionAside ==
  ASSUME Recollection, Typed, Typed', NEW r \in Requests, Alone(r),
         UNCHANGED <<now, stamps, forgotten>>, pc[r] \notin Decided,
         decidedBy'[r] # "memory"
  PROVE  Recollection'
<1>1. decidedBy[r] # "memory"
  BY DEF Typed
<1>2. \A q \in Requests, w \in Workers, c \in Clients : ByMem(q, w, c)' <=> ByMem(q, w, c)
  BY <1>1 DEF Alone, ByMem
<1>3. Stamped'
  <2>1. \A w \in Workers, c \in Clients : stamps[w][c] \subseteq Requests
    BY DEF Typed, TypeOK
  <2>2. \A q \in Requests, w \in Workers, c \in Clients : ByMem(q, w, c) => since'[q] = since[q]
    BY <1>1 DEF Alone, ByMem
  <2> QED BY <1>2, <2>1, <2>2 DEF Recollection, Stamped
<1>4. \A c, l, t, w : AllowedHere(c, l, t, w)' = AllowedHere(c, l, t, w)
  BY <1>1 DEF AllowedHere, AllowedIn, Alone
<1>5. MemoryBounded'
  BY <1>4 DEF Recollection, MemoryBounded
<1>6. MemoryBusy'
  <2> SUFFICES ASSUME NEW q \in Requests, (pc[q] = "denied" /\ decidedBy[q] = "memory")'
               PROVE  (limit[q] <= Cardinality(Before(q)))'
    BY DEF MemoryBusy
  <2>1. q # r
    OBVIOUS
  <2>2. Before(q)' = Before(q)
    BY <1>1, <2>1 DEF Before, Alone
  <2> QED BY <2>1, <2>2 DEF Alone, Recollection, MemoryBusy
<1> QED BY <1>3, <1>5, <1>6 DEF Recollection

\* A decision in memory: what is left of the list is all the worker allowed the
\* client in its window, unless it has forgotten the client.
LEMMA RecollectionDecides ==
  ASSUME Recollection, Typed, Typed', NEW r \in Requests, Alone(r), ByMemory(r)
  PROVE  Recollection'
<1>00. PICK u, d : u = worker[r] /\ d = client[r]
  OBVIOUS
<1>0. InMemory(r) /\ pc[r] \notin {"idle"} \cup Decided /\ UNCHANGED <<now, request>>
  BY DEF ByMemory, Decided
<1>1. PICK list : Remembers(r, list)
  BY <1>0, InMemoryRemembers
<1>2. decidedBy'[r] = "memory" /\ since'[r] = now
      /\ pc'[r] = IF Within(list, r) THEN "allowed" ELSE "denied"
  <2>1. decidedBy' = [decidedBy EXCEPT ![r] = "memory"] /\ since' = [since EXCEPT ![r] = now]
    BY <1>0, InMemoryRemembers
  <2> QED BY <1>1, <2>1 DEF Remembers, Typed, TypeOK
<1>3. u \in Workers /\ d \in Clients /\ UNCHANGED <<client, worker, limit>>
  BY <1>00, <1>0 DEF Typed, request
<1>4. decidedBy[r] # "memory"
  BY <1>0 DEF Typed
<1>5. \A w \in Workers, c \in Clients : stamps[w][c] \subseteq Requests
  BY DEF Typed, TypeOK
<1>6. /\ list \subseteq stamps[u][d] /\ list \subseteq Requests \ {r}
      /\ \A q \in list : ByMem(q, u, d) /\ since[q] + Window > now
  <2>1. list \subseteq stamps[u][d] /\ \A q \in list : since[q] + Window > now
    BY <1>00, <1>1 DEF Remembers, Recent
  <2>2. \A q \in list : ByMem(q, u, d)
    BY <1>3, <2>1 DEF Recollection, Stamped
  <2> QED BY <1>3, <1>4, <1>5, <2>1, <2>2 DEF ByMem
<1>7. /\ now \in Nat /\ Window \in Nat
      /\ \A q \in Requests : since[q] \in Nat /\ since[q] <= now /\ limit[q] \in Nat
  BY Numbers, NumberTypes DEF Typed, TypeOK, Times
<1>8. IsFiniteSet(list) /\ Cardinality(list) \in Nat
  BY <1>6, RequestSets
<1>9. \A q \in Requests \ {r}, w \in Workers, c \in Clients : ByMem(q, w, c)' <=> ByMem(q, w, c)
  BY DEF Alone, ByMem
<1>10. Stamped'
  <2> SUFFICES ASSUME NEW w \in Workers, NEW c \in Clients
               PROVE  /\ \A q \in stamps'[w][c] : ByMem(q, w, c)'
                      /\ <<w, c>> \notin forgotten' =>
                           \A q \in Requests : ByMem(q, w, c)' /\ since'[q] + Window > now
                             => q \in stamps'[w][c]
    BY <1>0 DEF Stamped
  <2>1. \A q \in stamps'[w][c] : ByMem(q, w, c)'
    <3>1. CASE w = u /\ c = d
      <4>1. stamps'[w][c] = IF Within(list, r) THEN list \cup {r} ELSE list
        BY <1>00, <1>1, <3>1 DEF Remembers
      <4>2. \A q \in list : ByMem(q, w, c)'
        BY <1>6, <1>9, <3>1
      <4>3. Within(list, r) => ByMem(r, w, c)'
        BY <1>00, <1>2, <1>3, <3>1 DEF ByMem
      <4> QED BY <4>1, <4>2, <4>3
    <3>2. CASE w # u \/ c # d
      <4>1. stamps'[w][c] \subseteq stamps[w][c]
        BY <1>00, <1>1, <3>2 DEF Remembers
      <4>2. \A q \in stamps[w][c] : q \in Requests /\ ByMem(q, w, c)
        BY <1>5 DEF Recollection, Stamped
      <4>3. ~ByMem(r, w, c)
        BY <1>4 DEF ByMem
      <4> QED BY <1>9, <4>1, <4>2, <4>3
    <3> QED BY <3>1, <3>2
  <2>2. ASSUME <<w, c>> \notin forgotten', NEW q \in Requests, ByMem(q, w, c)',
               since'[q] + Window > now
        PROVE  q \in stamps'[w][c]
    <3>1. CASE q = r
      <4>1. w = u /\ c = d /\ Within(list, r)
        BY <1>00, <1>2, <1>3, <2>2, <3>1 DEF ByMem
      <4> QED BY <1>00, <1>1, <3>1, <4>1 DEF Remembers
    <3>2. CASE q # r
      <4>1. ByMem(q, w, c) /\ since[q] + Window > now
        BY <1>9, <2>2, <3>2 DEF Alone
      <4>2. <<w, c>> \notin forgotten
        BY <1>1, <2>2 DEF Remembers
      <4>3. q \in Recent(stamps[w][c], now)
        BY <4>1, <4>2 DEF Recollection, Stamped, Recent
      <4> QED BY <1>1, <2>2, <4>3 DEF Remembers
    <3> QED BY <3>1, <3>2
  <2> QED BY <2>1, <2>2
<1>11. MemoryBounded'
  <2> SUFFICES ASSUME NEW c \in Clients, NEW l \in Limits, NEW t \in Times, NEW w \in Workers,
                      <<w, c>> \notin forgotten'
               PROVE  Cardinality(AllowedHere(c, l, t, w)') <= l
    BY DEF MemoryBounded
  <2> DEFINE A == AllowedHere(c, l, t, w)
  <2>1. A' \ {r} \subseteq A /\ A \in SUBSET Requests /\ A' \in SUBSET Requests
    BY DEF AllowedHere, AllowedIn, Alone
  <2>2. l \in Nat /\ t \in Nat
    BY Numbers DEF Times
  <2>3. CASE r \notin A'
    <3>1. A' \subseteq A
      BY <2>1, <2>3
    <3>2. Cardinality(A) <= l
      BY <1>1 DEF Recollection, MemoryBounded, Remembers
    <3>3. Cardinality(A') <= Cardinality(A) /\ Cardinality(A) \in Nat /\ Cardinality(A') \in Nat
      BY <2>1, <3>1, Smaller
    <3> QED BY <2>2, <3>2, <3>3
  <2>4. CASE r \in A'
    <3>1. w = u /\ c = d /\ limit[r] <= l /\ now <= t /\ t < now + Window /\ Within(list, r)
      BY <1>00, <1>2, <1>3, <2>4 DEF AllowedHere, AllowedIn
    <3>2. A' \ {r} \subseteq list
      <4> SUFFICES ASSUME NEW q \in A' \ {r} PROVE q \in list
        OBVIOUS
      <4>1. q \in Requests \ {r} /\ ByMem(q, u, d)' /\ t < since'[q] + Window
        BY <3>1 DEF AllowedHere, AllowedIn, ByMem
      <4>2. ByMem(q, u, d) /\ t < since[q] + Window
        BY <1>3, <1>9, <4>1 DEF Alone
      <4>3. since[q] + Window > now
        BY <1>7, <2>2, <3>1, <4>1, <4>2
      <4>4. <<u, d>> \notin forgotten
        BY <1>1, <3>1 DEF Remembers
      <4>5. q \in stamps[u][d]
        BY <1>3, <4>1, <4>2, <4>3, <4>4 DEF Recollection, Stamped
      <4> QED BY <1>00, <1>1, <3>1, <4>3, <4>5 DEF Remembers, Recent
    <3>3. A' \subseteq list \cup {r}
      BY <3>2
    <3>4. Cardinality(list \cup {r}) = Cardinality(list) + 1
      BY <1>6, OneMore
    <3>5. Cardinality(A') <= Cardinality(list \cup {r}) /\ Cardinality(A') \in Nat
      BY <1>6, <3>3, Smaller
    <3>6. Cardinality(list) < limit[r] /\ limit[r] \in Nat
      BY <1>7, <3>1 DEF Within
    <3> QED BY <1>8, <2>2, <3>1, <3>4, <3>5, <3>6
  <2> QED BY <2>3, <2>4
<1>12. MemoryBusy'
  <2> SUFFICES ASSUME NEW q \in Requests, (pc[q] = "denied" /\ decidedBy[q] = "memory")'
               PROVE  (limit[q] <= Cardinality(Before(q)))'
    BY DEF MemoryBusy
  <2>0. Before(q) \in SUBSET Requests /\ Before(q)' \in SUBSET Requests
    BY DEF Before
  <2>1. CASE q = r
    <3>1. limit[r] <= Cardinality(list)
      BY <1>2, <1>7, <1>8, <2>1 DEF Within
    <3>2. list \subseteq Before(q)'
      BY <1>00, <1>2, <1>3, <1>6, <1>7, <2>1 DEF Before, ByMem, Alone
    <3>3. Cardinality(list) <= Cardinality(Before(q)') /\ Cardinality(Before(q)') \in Nat
      BY <2>0, <3>2, Smaller
    <3> QED BY <1>3, <1>7, <1>8, <2>1, <3>1, <3>3
  <2>2. CASE q # r
    <3>1. Before(q) \subseteq Before(q)'
      BY <1>4, <2>2 DEF Before, Alone
    <3>2. Cardinality(Before(q)) <= Cardinality(Before(q)') /\ Cardinality(Before(q)') \in Nat
          /\ Cardinality(Before(q)) \in Nat
      BY <2>0, <3>1, Smaller
    <3>3. limit[q] <= Cardinality(Before(q)) /\ limit'[q] = limit[q]
      BY <2>2 DEF Alone, Recollection, MemoryBusy
    <3> QED BY <1>7, <3>2, <3>3
  <2> QED BY <2>1, <2>2
<1> QED BY <1>10, <1>11, <1>12 DEF Recollection

LEMMA RecollectionNext == Typed /\ Recollection /\ [Next]_vars => Recollection'
<1> SUFFICES ASSUME Typed, Recollection, [Next]_vars PROVE Recollection'
  OBVIOUS
<1>0. Typed' /\ TypeOK
  BY TypedNext DEF Typed
<1>1. ASSUME NEW r \in Requests, Serve(r) PROVE Recollection'
  <2>0. Alone(r) /\ UNCHANGED now
    BY <1>1, StepsAlone
  <2>1. CASE ByMemory(r)
    BY <1>0, <2>0, <2>1, RecollectionDecides
  <2>2. CASE Arrives(r) \/ Connect(r) \/ Ping(r) \/ Count(r)
    <3>1. /\ pc[r] \notin Decided /\ UNCHANGED <<stamps, forgotten, decidedBy>>
      BY <2>2 DEF Arrives, Arrive, Connect, Ping, Sends, Count, memory, Decided
    <3>2. decidedBy[r] = "none"
      BY <3>1 DEF Typed
    <3> QED BY <1>0, <2>0, <3>1, <3>2, RecollectionAside
  <2>3. CASE Reply(r)
    <3>1. /\ pc[r] \notin Decided /\ UNCHANGED <<stamps, forgotten>> /\ decidedBy'[r] = "redis"
      BY <1>0, <2>3 DEF Reply, memory, Decided, TypeOK
    <3> QED BY <1>0, <2>0, <3>1, RecollectionAside
  <2> QED BY <1>0, <1>1, <2>1, <2>2, <2>3, ServeCases
<1>2. CASE Tick
  <2>1. /\ now' = now + 1 /\ now \in Nat /\ \A q \in Requests : since[q] \in Nat
        /\ UNCHANGED <<stamps, forgotten, pc, client, worker, limit, since, decidedBy>>
    BY <1>0, <1>2, Numbers DEF Tick, memory, request, TypeOK, Times
  <2>2. \A q \in Requests : since[q] + Window > now + 1 => since[q] + Window > now
    BY <2>1, Numbers
  <2>3. Stamped'
    <3>1. \A q \in Requests, w \in Workers, c \in Clients : (ByMem(q, w, c)' <=> ByMem(q, w, c)) /\ since'[q] = since[q]
      BY <2>1 DEF ByMem
    <3>2. \A w \in Workers, c \in Clients : stamps[w][c] \subseteq Requests
      BY <1>0 DEF TypeOK
    <3> QED BY <2>1, <2>2, <3>1, <3>2 DEF Recollection, Stamped
  <2>4. MemoryBounded' /\ MemoryBusy'
    BY <2>1 DEF Recollection, MemoryBounded, MemoryBusy, AllowedHere, AllowedIn, Before
  <2> QED BY <2>3, <2>4 DEF Recollection
<1>3. CASE UNCHANGED vars
  <2>1. UNCHANGED <<now, stamps, forgotten, pc, client, worker, limit, since, decidedBy>>
    BY <1>3 DEF vars, memory, request
  <2> QED BY <2>1 DEF Recollection, Stamped, ByMem, MemoryBounded, MemoryBusy, AllowedHere,
                      AllowedIn, Before
<1> QED BY <1>1, <1>2, <1>3 DEF Next

-----------------------------------------------------------------------------
\* In any window a client is allowed at most twice a limit by Redis, and at
\* most the limit by each memory that has not forgotten it (is_allowed_async,
\* is_allowed), for any number of requests, workers and clients.
THEOREM Bounded == Spec => []AllowedBounded
<1>1. Typed /\ Tally /\ Recollection => AllowedBounded
  BY RedisBounded DEF AllowedBounded, Recollection, MemoryBounded, AllowedHere
<1> QED BY <1>1, TypedInit, TypedNext, TallyInit, TallyNext, RecollectionInit, RecollectionNext,
           PTL DEF Spec

\* Nobody is refused who kept to the limit: as many requests of the client were
\* counted in the bucket, or allowed by the same memory within the window.
THEOREM RefusedBusy == Spec => []RefusedOnlyBusy
<1>1. Typed /\ Tally /\ Recollection => RefusedOnlyBusy
  <2> SUFFICES ASSUME Typed, Tally, Recollection, NEW r \in Requests, pc[r] = "denied"
               PROVE  \/ /\ decidedBy[r] = "redis"
                         /\ limit[r] <= Cardinality({q \in Requests \ {r} :
                              client[q] = client[r] /\ bucket[q] = bucket[r] /\ got[q] > 0})
                      \/ /\ decidedBy[r] = "memory"
                         /\ limit[r] <= Cardinality(Before(r))
    BY DEF RefusedOnlyBusy, Before
  <2>1. decidedBy[r] \in {"redis", "memory"}
    BY DEF Typed, TypeOK, Decided
  <2>2. CASE decidedBy[r] = "redis"
    BY <2>2, RedisBusy
  <2>3. CASE decidedBy[r] = "memory"
    BY <2>3 DEF Recollection, MemoryBusy
  <2> QED BY <2>1, <2>2, <2>3
<1> QED BY <1>1, TypedInit, TypedNext, TallyInit, TallyNext, RecollectionInit, RecollectionNext,
           PTL DEF Spec

=============================================================================
