--------------------------- MODULE ProxyPipeline ---------------------------
(***************************************************************************)
(* The caching proxy: every layer adds evidence, the accumulated           *)
(* confidence decides between the best cached answer and the LLM, and a    *)
(* generated answer leaves an answer row, facts and similarity links.      *)
(*                                                                         *)
(* The pipelines of concurrent requests run on threads of one process, the *)
(* handlers around them on its event loop.  A database session holds the   *)
(* backend's lock, so it is one step; between two sessions other requests  *)
(* run.  Confidences and similarities are in thousandths.                  *)
(***************************************************************************)
EXTENDS SessionTracker, FiniteSetsExt

CONSTANTS
  Questions, Similarity,  \* cosine of the embeddings of two questions
  Fuzzy,                  \* pairs (asked, cached) the token match accepts
  Parts,                  \* what decompose_query makes of a question
  Conversations,          \* message lists, given by their user messages
  Arrivals,               \* bound: <<messages, namespace, standalone>> asked
  Elsewhere,              \* bound: what the chat service is asked
  Namespaces, Fallback,   \* namespaces; those with public_fallback
  Public,                 \* namespace_id None
  Requests,
  Ids,                    \* ids of answer rows
  SemanticMax, FuzzyMax, FactMax,
  LongAnswers,            \* questions whose answers are split into facts
  FactQuality,            \* quality_score of a fact, in thousandths
  HasEmbedder, Promoting, MaxDaily,
  MaxEntries, EvictionInterval, MaxFacts, MaxLinks, ScanInterval,
  DbThreshold, EmbedThreshold,
  MaxFaults               \* bound: failures of backend or embedder in a run
CONSTANTS NoRow, NoId, NoLink, Lost, Nobody

Space == Namespaces \cup {Public}
Row == [messages : Seq(Questions) \ {<<>>}, space : Space, valid : BOOLEAN,
        embedded : BOOLEAN,
        sourced : BOOLEAN]  \* stored by the chat service, with its sources
Link == [sim : 0 .. 1000, strength : 0 .. 5]  \* at 5 its bonus is at its cap
Fact == [source : Ids, about : Questions, space : Space]
Layer == {"semantic", "composable", "fuzzy", "link", "fact", "session"}
Evidence == [layer : Layer, conf : 0 .. 1000, of : Ids \cup {NoId},
             sim : 0 .. 1000, via : (Ids \X Ids) \cup {NoLink}]

ASSUME PipelineAssumption ==
  /\ Similarity \in [Questions \X Questions -> 0 .. 1000]
  /\ Fuzzy \subseteq Questions \X Questions
  /\ Parts \in [Questions -> SUBSET Questions]
  /\ LongAnswers \subseteq Questions
  /\ Conversations \subseteq Seq(Questions) \ {<<>>}
  /\ Elsewhere \subseteq {m \in Conversations : Len(m) = 1}
  /\ Arrivals \subseteq Conversations \X Space \X BOOLEAN
  /\ Fallback \subseteq Namespaces /\ Public \notin Namespaces
  /\ IsFiniteSet(Requests) /\ Requests # {}
  /\ HasEmbedder \in BOOLEAN /\ Promoting \in BOOLEAN /\ FactQuality \in 0 .. 1000
  /\ {SemanticMax, FuzzyMax, FactMax, MaxDaily, MaxFaults} \subseteq Nat
  /\ {MaxEntries, MaxFacts, MaxLinks} \subseteq Nat
  /\ {EvictionInterval, ScanInterval, DbThreshold, EmbedThreshold} \subseteq Nat \ {0}
ASSUME PipelineNulls ==
  /\ NoId \notin Ids /\ NoLink \notin Ids \X Ids
  /\ Lost \notin Conversations /\ Nobody \notin Conversations /\ Lost # Nobody
  /\ NoRow \notin Row /\ NoLink \notin Link

Db == INSTANCE CircuitBreaker WITH FailureThreshold <- DbThreshold, HalfOpenMax <- 2
Embed == INSTANCE CircuitBreaker
           WITH FailureThreshold <- EmbedThreshold, HalfOpenMax <- 2

VARIABLES
  rows, links, facts,                \* the three tables
  writes, factWrites, linkWrites,    \* counters that trigger evictions
  dbBreaker, embedBreaker,
  order, exchanged,                  \* the session map; sessions with a turn
  counted, today, spent,             \* promotion checks: the counter, whether
                                     \* it is today's, history: made today
  faults,
  pc, asked, space, standalone, evidence, found, held, alive

tables == <<rows, links, facts, writes, factWrites, linkWrites>>
breakers == <<dbBreaker, embedBreaker>>
tracker == <<order, exchanged>>
promotion == <<counted, today, spent>>
input == <<asked, space, standalone>>
vars == <<tables, breakers, tracker, promotion, faults,
          pc, input, evidence, found, held, alive>>

Found(layer, conf, i) ==
  [layer |-> layer, conf |-> conf, of |-> i, sim |-> 0, via |-> NoLink]
PC == {"idle", "exact", "semantic", "composable", "fuzzy", "links", "facts",
       "session", "touch", "enter", "trim", "pop", "decide", "verify",
       "reinforce", "record", "generate", "store_facts", "store_links"}
Pending == {r \in Requests : pc[r] # "idle"}

Question(r) == asked[r][Len(asked[r])]
Stored == {i \in Ids : rows[i] # NoRow}
Valid == {i \in Stored : rows[i].valid}
About(i) == rows[i].messages[Len(rows[i].messages)]
Joined == {p \in Ids \X Ids : links[p] # NoLink}

\* An id nothing refers to: uuid4 never repeats one.
Fresh(i) ==
  /\ rows[i] = NoRow
  /\ \A p \in Joined : i \notin {p[1], p[2]}
  /\ \A f \in facts : f.source # i
  /\ \A r \in Requests : found[r] # i /\ \A e \in evidence[r] : e.of # i

\* The first n of a list sorted by score: ties in any order.
Best(S, score, n) ==
  {T \in SUBSET S : /\ Cardinality(T) = IF Cardinality(S) < n THEN Cardinality(S) ELSE n
                    /\ \A t \in T, u \in S \ T : score[t] >= score[u]}

\* The event loop runs one handler at a time; storing an answer is all a
\* handler does between two awaits.
LoopFree == \A r \in Requests : pc[r] \notin {"store_facts", "store_links"}

Goto(r, next) == pc' = [pc EXCEPT ![r] = next]
Adds(r, new) == evidence' = [evidence EXCEPT ![r] = @ \cup new]
\* The request ends: an answer or an error goes out, its state is garbage.
End(r) ==
  /\ Goto(r, "idle")
  /\ asked' = [asked EXCEPT ![r] = <<>>] /\ space' = [space EXCEPT ![r] = Public]
  /\ standalone' = [standalone EXCEPT ![r] = TRUE]
  /\ evidence' = [evidence EXCEPT ![r] = {}] /\ found' = [found EXCEPT ![r] = NoId]
  /\ held' = [held EXCEPT ![r] = Nobody] /\ alive' = [alive EXCEPT ![r] = {}]


Init ==
  /\ rows = [i \in Ids |-> NoRow]
  /\ links = [p \in Ids \X Ids |-> NoLink] /\ facts = {}
  /\ writes = 0 /\ factWrites = 0 /\ linkWrites = 0
  /\ dbBreaker = Db!NewBreaker /\ embedBreaker = Embed!NewBreaker
  /\ order = <<>> /\ exchanged = {}
  /\ counted = 0 /\ today = FALSE /\ spent = 0
  /\ faults = 0
  /\ pc = [r \in Requests |-> "idle"]
  /\ asked = [r \in Requests |-> <<>>]
  /\ space = [r \in Requests |-> Public]
  /\ standalone = [r \in Requests |-> TRUE]
  /\ evidence = [r \in Requests |-> {}]
  /\ found = [r \in Requests |-> NoId]
  /\ held = [r \in Requests |-> Nobody]
  /\ alive = [r \in Requests |-> {}]

-----------------------------------------------------------------------------
(***************************************************************************)
(* The layers.                                                             *)
(***************************************************************************)

\* A handler receives a conversation for a namespace.  qual is the verdict
\* qualify_cache_hit gives on it.  (Bounds: the arrivals considered, and an
\* unused id for every answer in the making.)
Receive(r, m, n, qual) ==
  /\ pc[r] = "idle" /\ LoopFree /\ <<m, n, qual>> \in Arrivals
  /\ Cardinality(Pending) < Cardinality({i \in Ids : Fresh(i)})
  /\ Goto(r, "exact")
  /\ asked' = [asked EXCEPT ![r] = m]
  /\ space' = [space EXCEPT ![r] = n]
  /\ standalone' = [standalone EXCEPT ![r] = qual]
  /\ alive' = [alive EXCEPT ![r] = Valid]
  /\ UNCHANGED <<tables, breakers, tracker, promotion, faults, evidence, found, held>>

\* try_cache for some messages: the valid row of the key, if there is one.
\* (Rows of the proxy have no sources, so double_verify has nothing to check.)
Exact(m, n) == {i \in Valid : rows[i].messages = m /\ rows[i].space = n}
ExactOrPublic(m, n) ==
  IF Exact(m, n) = {} /\ n \in Fallback THEN Exact(m, Public) ELSE Exact(m, n)

ExactLayer(r) ==
  /\ pc[r] = "exact"
  /\ LET hits == IF Db!CanExecute(dbBreaker) THEN ExactOrPublic(asked[r], space[r]) ELSE {}
     IN IF hits # {} /\ standalone[r]
          THEN /\ \E i \in hits : found' = [found EXCEPT ![r] = i]
               /\ Goto(r, "session")
          ELSE Goto(r, "semantic") /\ found' = found
  /\ dbBreaker' = IF Db!CanExecute(dbBreaker) THEN Db!Success(Db!Admit(dbBreaker))
                                              ELSE dbBreaker
  /\ UNCHANGED <<tables, embedBreaker, tracker, promotion, faults, input,
                 evidence, held, alive>>

ExactLayerFails(r) ==
  /\ pc[r] = "exact" /\ Db!CanExecute(dbBreaker) /\ faults < MaxFaults
  /\ faults' = faults + 1
  /\ dbBreaker' = Db!Failure(Db!Admit(dbBreaker))
  /\ Goto(r, "semantic")
  /\ UNCHANGED <<tables, embedBreaker, tracker, promotion, input, evidence,
                 found, held, alive>>

\* _similarity_to_confidence
SemanticConfidence(s) ==
  IF s >= 980 THEN 990
  ELSE IF s >= 920 THEN 850 + ((s - 920) * 3) \div 2
  ELSE IF s >= 850 THEN 550 + ((s - 850) * 43) \div 10
  ELSE IF s >= 750 THEN 250 + (s - 750) * 3
  ELSE 0

\* cache_get_embeddings and the ranking of semantic_cache_search; without a
\* namespace every row is searched.
SemanticMatches(q, n) ==
  LET score == [i \in Stored |-> Similarity[<<q, About(i)>>]]
      near == {i \in Valid : /\ rows[i].embedded
                             /\ n # Public => rows[i].space = n
                             /\ score[i] >= 750}
  IN Best(near, score, SemanticMax)
SemanticEvidence(q, S) ==
  LET s == [i \in S |-> Similarity[<<q, About(i)>>]]
  IN {[Found("semantic", SemanticConfidence(s[i]), i) EXCEPT !.sim = s[i]] : i \in S}

Searches == HasEmbedder /\ Embed!CanExecute(embedBreaker)

SemanticLayer(r) ==
  /\ pc[r] = "semantic" /\ Searches
  /\ LET q == Question(r)
         own == SemanticMatches(q, space[r])
     IN \E S \in IF own = {{}} /\ space[r] \in Fallback
                   THEN SemanticMatches(q, Public) ELSE own :
          Adds(r, SemanticEvidence(q, S))
  /\ embedBreaker' = Embed!Success(Embed!Admit(embedBreaker))
  /\ Goto(r, "composable")
  /\ UNCHANGED <<tables, dbBreaker, tracker, promotion, faults, input, found,
                 held, alive>>

SemanticLayerSkipped(r) ==
  /\ pc[r] = "semantic" /\ ~Searches
  /\ Goto(r, "composable")
  /\ UNCHANGED <<tables, breakers, tracker, promotion, faults, input, evidence,
                 found, held, alive>>

\* A failing database is tracked.  A failing embedder is not: the search
\* returns no match, which counts as a success.
SemanticLayerFails(r) ==
  /\ pc[r] = "semantic" /\ Searches /\ faults < MaxFaults
  /\ faults' = faults + 1
  /\ \/ embedBreaker' = Embed!Failure(Embed!Admit(embedBreaker))
     \/ embedBreaker' = Embed!Success(Embed!Admit(embedBreaker))
  /\ Goto(r, "composable")
  /\ UNCHANGED <<tables, dbBreaker, tracker, promotion, input, evidence, found,
                 held, alive>>

\* try_composable_cache: each part is looked up with the history, then alone.
History(r) == SubSeq(asked[r], 1, Len(asked[r]) - 1)
PartHit(r, p) ==
  LET scoped == Exact(Append(History(r), p), space[r])
  IN IF scoped = {} THEN Exact(<<p>>, space[r]) ELSE scoped
PartHits(r) == UNION {PartHit(r, p) : p \in Parts[Question(r)]}

ComposableLayer(r) ==
  /\ pc[r] = "composable"
  /\ IF /\ Parts[Question(r)] # {} /\ standalone[r]
        /\ \A p \in Parts[Question(r)] : PartHit(r, p) # {}
       THEN End(r)
       ELSE /\ Goto(r, "fuzzy")
            /\ Adds(r, {Found("composable", 850, i) : i \in PartHits(r)})
            /\ UNCHANGED <<input, found, held, alive>>
  /\ UNCHANGED <<tables, breakers, tracker, promotion, faults>>

\* fuzzy_match: the best of all rows, of which a namespace keeps its own.
FuzzyLayer_AllNamespaces(r) ==
  /\ pc[r] = "fuzzy"
  /\ LET near == {i \in Valid : <<Question(r), About(i)>> \in Fuzzy}
     IN \E S \in Best(near, [i \in near |-> 0], FuzzyMax) :
          Adds(r, {Found("fuzzy", 400, i) : i \in S})
  /\ Goto(r, "links")
  /\ UNCHANGED <<tables, breakers, tracker, promotion, faults, input, found,
                 held, alive>>
FuzzyLayer(r) ==
  /\ pc[r] = "fuzzy"
  /\ LET near == {i \in Valid : <<Question(r), About(i)>> \in Fuzzy}
     IN \E S \in Best(near, [i \in near |-> 0], FuzzyMax) :
          Adds(r, {Found("fuzzy", 400, i) : i \in
                     {i \in S : space[r] = Public \/ rows[i].space = space[r]}})
  /\ Goto(r, "links")
  /\ UNCHANGED <<tables, breakers, tracker, promotion, faults, input, found,
                 held, alive>>

\* Links are followed both ways from the semantic matches, then forward from
\* the answers reached.  A target counts once, by the first path to it: the
\* choice of paths over-approximates the order.  (The limits of 3 and 2 links
\* of an answer and 10 links in all are beyond the number of rows.)
Linked(r) == {e.of : e \in {e \in evidence[r] : e.layer = "semantic"}}
Near(S) == {j \in Valid : \E i \in S : <<i, j>> \in Joined \/ <<j, i>> \in Joined}
Paths(S, j) ==
  [hop : {1}, link : {p \in Joined : \E i \in S : p \in {<<i, j>>, <<j, i>>}}]
  \cup [hop : {2}, link : {p \in Joined : p[1] \in Near(S) /\ p[2] = j}]
Reached_AlsoInvalid(S) == {j \in Stored : Paths(S, j) # {}}
Reached(S) == {j \in Valid : Paths(S, j) # {}}
LinkConfidence(path) ==
  LET l == links[path.link]
  IN IF path.hop = 1 THEN l.sim \div 2 + 50 * l.strength ELSE (l.sim * 15) \div 100

LinkLayer(r) ==
  /\ pc[r] = "links"
  /\ LET S == Linked(r)
         paths == UNION {Paths(S, j) : j \in Reached(S)}
     IN \E via \in [Reached(S) -> paths] :
          /\ \A j \in Reached(S) : via[j] \in Paths(S, j)
          /\ Adds(r, {[Found("link", LinkConfidence(via[j]), j)
                          EXCEPT !.via = via[j].link] : j \in Reached(S)})
  /\ Goto(r, "facts")
  /\ UNCHANGED <<tables, breakers, tracker, promotion, faults, input, found,
                 held, alive>>

\* search_atomic_facts: the best of all facts, of which a namespace keeps its
\* own.  The breaker admits the search and is told nothing of its result.
FactConfidence(s) == (s * FactQuality * 4) \div 10000
FactLayer(r) ==
  /\ pc[r] = "facts" /\ Searches
  /\ LET score == [f \in facts |-> Similarity[<<Question(r), f.about>>]]
     IN \E S \in Best(facts, score, FactMax) :
          Adds(r, {Found("fact", FactConfidence(score[f]), f.source) :
                     f \in {f \in S : /\ score[f] >= 800
                                      /\ space[r] # Public => f.space = space[r]}})
  /\ embedBreaker' = Embed!Admit(embedBreaker)
  /\ Goto(r, "session")
  /\ UNCHANGED <<tables, dbBreaker, tracker, promotion, faults, input, found,
                 held, alive>>

FactLayerSkipped(r) ==
  /\ pc[r] = "facts"
  /\ \/ ~Searches /\ UNCHANGED <<faults, embedBreaker>>
     \/ /\ Searches /\ faults < MaxFaults /\ faults' = faults + 1
        /\ embedBreaker' = Embed!Admit(embedBreaker)
  /\ Goto(r, "session")
  /\ UNCHANGED <<tables, dbBreaker, tracker, promotion, input, evidence, found,
                 held, alive>>

\* A session that raises outside of a layer's try ends the request.
LayerRaises(r) ==
  /\ pc[r] \in {"composable", "fuzzy", "links", "generate", "store_facts",
               "store_links"}
  /\ faults < MaxFaults
  /\ faults' = faults + 1
  /\ End(r)
  /\ UNCHANGED <<tables, breakers, tracker, promotion>>

-----------------------------------------------------------------------------
(***************************************************************************)
(* get_or_create and record of the session tracker.  A request with an     *)
(* exact hit looks its session up to record the exchange, any other one to *)
(* use the exchange before.                                                *)
(***************************************************************************)
Untouched == UNCHANGED <<tables, breakers, promotion, faults>>
Keeps == UNCHANGED <<input, found, alive>>

FindSession(r) ==
  /\ pc[r] = "session"
  /\ Goto(r, IF Known(order, asked[r]) THEN "touch" ELSE "enter")
  /\ UNCHANGED <<tracker, evidence, held>> /\ Keeps /\ Untouched

\* What a request does with the session it holds.
GoesOn(r, told) ==
  IF found[r] # NoId
    THEN Goto(r, "record") /\ UNCHANGED evidence
    ELSE /\ Goto(r, "decide")
         /\ Adds(r, IF told THEN {Found("session", 250, NoId)} ELSE {})

\* When another thread has evicted the session since, move_to_end raises.
TouchSession(r) ==
  /\ pc[r] = "touch"
  /\ IF Known(order, asked[r])
       THEN /\ order' = Used(order, asked[r])
            /\ held' = [held EXCEPT ![r] = asked[r]]
            /\ GoesOn(r, asked[r] \in exchanged) /\ Keeps
       ELSE End(r) /\ UNCHANGED order
  /\ UNCHANGED exchanged /\ Untouched

\* Entering or evicting a session orphans the state others hold of it.
Orphaned(s) == [q \in Requests |-> IF held[q] = s THEN Lost ELSE held[q]]

EnterSession(r) ==
  /\ pc[r] = "enter"
  /\ order' = Entered(order, asked[r])
  /\ exchanged' = exchanged \ {asked[r]}
  /\ held' = [Orphaned(asked[r]) EXCEPT ![r] = asked[r]]
  /\ Goto(r, "trim")
  /\ UNCHANGED evidence /\ Keeps /\ Untouched

TrimSessions(r) ==
  /\ pc[r] = "trim"
  /\ IF OverCapacity(order)
       THEN Goto(r, "pop") /\ UNCHANGED evidence
       ELSE GoesOn(r, held[r] # Lost /\ asked[r] \in exchanged)
  /\ UNCHANGED <<tracker, held>> /\ Keeps /\ Untouched

\* popitem raises when other threads have emptied the map.
PopSession(r) ==
  /\ pc[r] = "pop"
  /\ IF order = <<>>
       THEN End(r) /\ UNCHANGED tracker
       ELSE /\ order' = OldestDropped(order)
            /\ exchanged' = exchanged \ {order[1]}
            /\ held' = Orphaned(order[1])
            /\ Goto(r, "trim") /\ UNCHANGED evidence /\ Keeps
  /\ Untouched

RecordExchange(r) ==
  /\ pc[r] = "record"
  /\ exchanged' = IF held[r] = Lost THEN exchanged ELSE exchanged \cup {held[r]}
  /\ End(r)
  /\ UNCHANGED order /\ Untouched

-----------------------------------------------------------------------------
(***************************************************************************)
(* The decision, the promotion check and what follows a hit.               *)
(***************************************************************************)

\* total_confidence: one minus the product of what the evidence leaves open.
Doubt(E) == MapThenFoldSet(LAMBDA c, d : (c * d) \div 1000, 1000,
                           LAMBDA e : 1000 - e.conf,
                           LAMBDA S : CHOOSE e \in S : TRUE, E)
Convinced(E) == Doubt(E) <= 50

\* best_single_answer: facts, parts and the session are partial.
Whole(E) == {e \in E : e.layer \in {"semantic", "fuzzy", "link"}}
BestSingle(E) == {e \in Whole(E) : \A d \in Whole(E) : e.conf >= d.conf}

\* _can_verify_today resets the counter on a new day.
CountedToday_Always == 0
CountedToday == IF today THEN counted ELSE 0
Checks(e) == Promoting /\ e.conf < 1000

Decide(r) ==
  /\ pc[r] = "decide"
  /\ IF Convinced(evidence[r]) /\ Whole(evidence[r]) # {}
       THEN \E e \in BestSingle(evidence[r]) :
              /\ found' = [found EXCEPT ![r] = e.of]
              /\ Goto(r, IF Checks(e) /\ CountedToday < MaxDaily
                           THEN "verify" ELSE "reinforce")
              /\ IF Checks(e) THEN counted' = CountedToday /\ today' = TRUE
                              ELSE UNCHANGED <<counted, today>>
       ELSE Goto(r, "generate") /\ UNCHANGED <<found, counted, today>>
  /\ UNCHANGED <<tables, breakers, tracker, spent, faults, input, evidence,
                 held, alive>>

\* _verify_cached_answer counts the check, then uses the coroutine generate
\* returns as if it were the answer; the error means "serve".
Verify(r) ==
  /\ pc[r] = "verify"
  /\ counted' = counted + 1 /\ spent' = spent + 1
  /\ Goto(r, "reinforce")
  /\ UNCHANGED <<tables, breakers, tracker, today, faults, input, evidence,
                 found, held, alive>>

\* _reinforce_links; an error of its session is ignored.
Reinforced(l) == [l EXCEPT !.strength = IF @ < 5 THEN @ + 1 ELSE @]
Reinforce(r) ==
  /\ pc[r] = "reinforce"
  /\ LET used == {e.via : e \in {e \in evidence[r] : e.layer = "link"}}
     IN links' = [p \in Ids \X Ids |->
                    IF p \in used \cap Joined THEN Reinforced(links[p]) ELSE links[p]]
  /\ Goto(r, "record")
  /\ UNCHANGED <<rows, facts, writes, factWrites, linkWrites, breakers, tracker,
                 promotion, faults, input, evidence, found, held, alive>>

NewDay ==
  /\ today' = FALSE /\ spent' = 0
  /\ UNCHANGED <<tables, breakers, tracker, counted, faults, pc, input, evidence,
                 found, held, alive>>

\* The recovery timeout of an open breaker passes.
RecoveryTimeout ==
  /\ \/ /\ dbBreaker.state = "open" /\ ~dbBreaker.due
        /\ dbBreaker' = [dbBreaker EXCEPT !.due = TRUE] /\ UNCHANGED embedBreaker
     \/ /\ embedBreaker.state = "open" /\ ~embedBreaker.due
        /\ embedBreaker' = [embedBreaker EXCEPT !.due = TRUE] /\ UNCHANGED dbBreaker
  /\ UNCHANGED <<tables, tracker, promotion, faults, pc, input, evidence, found,
                 held, alive>>

-----------------------------------------------------------------------------
(***************************************************************************)
(* _store_response, in three sessions.                                     *)
(***************************************************************************)

\* What may be left of a table that must fit a limit: which rows go (by
\* predicted value, serve count and age) is left open.
DownTo_OneMore(S, limit) ==
  IF Cardinality(S) <= limit + 1 THEN {S} ELSE kSubset(limit + 1, S)
DownTo(S, limit) ==
  IF Cardinality(S) <= limit THEN {S} ELSE kSubset(limit, S)

\* The count of writes that triggers evictions, modulo their interval.
CountWrite_NeverWraps(n, interval) == n + 1
CountWrite(n, interval) == (n + 1) % interval

\* store_answer: the row of the same key goes, the new one comes, and every
\* EvictionInterval-th write evicts rows and forgets old links never used.
\* The embedding follows; the row just evicted cannot have one.
Replaced(i, row) ==
  [j \in Ids |->
     IF j = i THEN row
     ELSE IF j \in Stored /\ rows[j].messages = row.messages /\ rows[j].space = row.space
            THEN NoRow ELSE rows[j]]
StoreRow(i, row) ==
  LET stored == Replaced(i, row)
      valid == {j \in Ids : stored[j] # NoRow /\ stored[j].valid}
      weak == {p \in Joined : links[p].strength = 0}
  IN /\ Fresh(i)
     /\ writes' = CountWrite(writes, EvictionInterval)
     /\ IF writes' = 0
          THEN /\ \E kept \in DownTo(valid, MaxEntries) :
                    rows' = [j \in Ids |-> IF j \in valid \ kept THEN NoRow ELSE stored[j]]
               /\ \E old \in {{}, weak} :
                    links' = [p \in Ids \X Ids |-> IF p \in old THEN NoLink ELSE links[p]]
          ELSE rows' = stored /\ links' = links

Answer(m, n, emb, src) ==
  [messages |-> m, space |-> n, valid |-> TRUE, embedded |-> emb, sourced |-> src]
Alive(i) ==
  [q \in Requests |-> IF q \in Pending /\ rows'[i] # NoRow THEN alive[q] \cup {i}
                                                           ELSE alive[q]]

\* A row has no embedding without an embedder, or when it raised.
Embeds(emb) ==
  IF HasEmbedder /\ ~emb THEN faults < MaxFaults /\ faults' = faults + 1
                         ELSE emb = HasEmbedder /\ UNCHANGED faults

\* The LLM answered, or an Anthropic stream broke off after some tokens.
StoreAnswer(r, i, emb) ==
  /\ pc[r] = "generate" /\ LoopFree /\ Embeds(emb)
  /\ StoreRow(i, Answer(asked[r], space[r], emb, FALSE))
  /\ found' = [found EXCEPT ![r] = i]
  /\ alive' = Alive(i)
  /\ Goto(r, "store_facts")
  /\ UNCHANGED <<facts, factWrites, linkWrites, breakers, tracker, promotion,
                 input, evidence, held>>

GenerateError(r) ==
  /\ pc[r] = "generate" /\ LoopFree
  /\ End(r)
  /\ UNCHANGED <<tables, breakers, tracker, promotion, faults>>

\* A short answer has no facts; a fact known already is not stored again.
StoreFacts(r) ==
  /\ pc[r] = "store_facts"
  /\ \/ Question(r) \notin LongAnswers /\ UNCHANGED <<facts, factWrites>>
     \/ /\ Question(r) \in LongAnswers
        /\ \E new \in SUBSET {[source |-> found[r], about |-> Question(r),
                            space |-> space[r]]} :
             /\ factWrites' = CountWrite(factWrites, ScanInterval)
             /\ facts' \in IF factWrites' = 0 THEN DownTo(facts \cup new, MaxFacts)
                                              ELSE {facts \cup new}
  /\ Goto(r, "store_links")
  /\ UNCHANGED <<rows, links, writes, linkWrites, breakers, tracker, promotion,
                 faults, input, evidence, found, held, alive>>

\* _learn_from_near_misses, and evict_similarity_links: weaker links first.
NearMisses(r) ==
  {e \in evidence[r] : e.layer = "semantic" /\ e.sim \in 750 .. 910}
Learned(r) ==
  [p \in Ids \X Ids |->
     LET miss == {e \in NearMisses(r) : p \in {<<found[r], e.of>>, <<e.of, found[r]>>}}
     IN IF miss = {} THEN links[p]
                     ELSE [sim |-> (CHOOSE e \in miss : TRUE).sim, strength |-> 0]]
LinkEvictions(table) ==
  LET joined == {p \in Ids \X Ids : table[p] # NoLink}
  IN {[p \in Ids \X Ids |-> IF p \in kept THEN table[p] ELSE NoLink] :
        kept \in {K \in DownTo(joined, MaxLinks) :
                    \A p \in K, q \in joined \ K : table[p].strength >= table[q].strength}}
StoreLinks(r) ==
  /\ pc[r] = "store_links"
  /\ IF NearMisses(r) = {}
       THEN UNCHANGED <<links, linkWrites>>
       ELSE /\ linkWrites' = CountWrite(linkWrites, ScanInterval)
            /\ links' \in IF linkWrites' = 0 THEN LinkEvictions(Learned(r))
                                             ELSE {Learned(r)}
  /\ End(r)
  /\ UNCHANGED <<rows, facts, writes, factWrites, breakers, tracker, promotion,
                 faults>>

\* The chat service stores an answer in the same table, the first message of
\* a conversation with the sections it cites; a changed section invalidates it.
StoreElsewhere(i, m, emb) ==
  /\ Embeds(emb)
  /\ Cardinality(Pending) < Cardinality({j \in Ids : Fresh(j)})
  /\ StoreRow(i, Answer(m, Public, emb, TRUE))
  /\ alive' = Alive(i)
  /\ UNCHANGED <<facts, factWrites, linkWrites, breakers, tracker, promotion,
                 pc, input, evidence, found, held>>
Invalidate(i) ==
  /\ i \in Valid /\ rows[i].sourced
  /\ rows' = [rows EXCEPT ![i].valid = FALSE]
  /\ UNCHANGED <<links, facts, writes, factWrites, linkWrites, breakers, tracker,
                 promotion, faults, pc, input, evidence, found, held, alive>>

PipelineStep(r) ==
  \/ ExactLayer(r) \/ ExactLayerFails(r)
  \/ SemanticLayer(r) \/ SemanticLayerSkipped(r) \/ SemanticLayerFails(r)
  \/ ComposableLayer(r) \/ FuzzyLayer(r) \/ LinkLayer(r)
  \/ FactLayer(r) \/ FactLayerSkipped(r) \/ LayerRaises(r)
  \/ FindSession(r) \/ TouchSession(r) \/ EnterSession(r) \/ TrimSessions(r)
  \/ PopSession(r) \/ RecordExchange(r)
  \/ Decide(r) \/ Verify(r) \/ Reinforce(r)
HandlerStep(r) ==
  \/ \E i \in Ids, emb \in BOOLEAN : StoreAnswer(r, i, emb)
  \/ GenerateError(r) \/ StoreFacts(r) \/ StoreLinks(r)

Next ==
  \/ \E r \in Requests : PipelineStep(r) \/ HandlerStep(r)
  \/ \E r \in Requests, m \in Conversations, n \in Space, qual \in BOOLEAN :
       Receive(r, m, n, qual)
  \/ \E i \in Ids, m \in Elsewhere, emb \in BOOLEAN : StoreElsewhere(i, m, emb)
  \/ \E i \in Ids : Invalidate(i)
  \/ NewDay \/ RecoveryTimeout

Spec == Init /\ [][Next]_vars

-----------------------------------------------------------------------------
TypeOK ==
  /\ rows \in [Ids -> Row \cup {NoRow}]
  /\ links \in [Ids \X Ids -> Link \cup {NoLink}]
  /\ facts \subseteq Fact
  /\ writes \in 0 .. EvictionInterval - 1
  /\ factWrites \in 0 .. ScanInterval - 1 /\ linkWrites \in 0 .. ScanInterval - 1
  /\ dbBreaker \in Db!Breaker /\ embedBreaker \in Embed!Breaker
  /\ order \in Seq(Conversations) /\ exchanged \subseteq Conversations
  /\ counted \in Nat /\ today \in BOOLEAN /\ spent \in Nat
  /\ faults \in 0 .. MaxFaults
  /\ pc \in [Requests -> PC]
  /\ asked \in [Requests -> Conversations \cup {<<>>}]
  /\ space \in [Requests -> Space] /\ standalone \in [Requests -> BOOLEAN]
  /\ evidence \in [Requests -> SUBSET Evidence]
  /\ found \in [Requests -> Ids \cup {NoId}]
  /\ held \in [Requests -> Conversations \cup {Lost, Nobody}]
  /\ alive \in [Requests -> SUBSET Ids]

\* Every answer a layer offers, and so the one that is served, was valid at
\* some moment of the request: layers add evidence at different times, while
\* answers are replaced, evicted and invalidated (_run_cache_pipeline).
OfferedWasValid ==
  \A r \in Requests :
    /\ \A e \in evidence[r] : e.layer \notin {"fact", "session"} => e.of \in alive[r]
    /\ found[r] # NoId /\ pc[r] \notin {"store_facts", "store_links"} => found[r] \in alive[r]

\* A namespace's request sees evidence of its own namespace only, in every
\* layer that takes a namespace (semantic_cache_search, try_composable_cache,
\* fuzzy_match, search_atomic_facts).  The one exception is the second semantic
\* search of a namespace with public_fallback: it has no namespace, and finds
\* the answers of every one.  Links have none either.
ScopedEvidence ==
  \A r \in Requests : \A e \in evidence[r] :
    /\ e.layer \in {"semantic", "composable", "fuzzy", "fact"}
    /\ e.of \in Stored /\ space[r] # Public
    => \/ rows[e.of].space = space[r]
       \/ e.layer = "semantic" /\ space[r] \in Fallback

\* The session map exceeds max_sessions only by the threads inside
\* get_or_create's eviction loop: SessionTracker.get_or_create.
Trimming == {r \in Requests : pc[r] \in {"trim", "pop"}}
TrackerBounded == Len(order) <= MaxSessions + Cardinality(Trimming)

\* A conversation is in the map at most once, and a request that still holds
\* the state of its session, or a session with a turn, has it in the map.
SessionsKept ==
  /\ \A i, j \in 1 .. Len(order) : order[i] = order[j] => i = j
  /\ \A s \in exchanged : Known(order, s)
  /\ \A r \in Requests : held[r] \notin {Lost, Nobody} => Known(order, held[r])

\* The daily cap of promotion checks is exceeded by less than two checks for
\* each concurrent pipeline: the cap is tested under one hold of
\* _promotion_lock, counted under another, and checks admitted the day before
\* count too (_can_verify_today, _verify_cached_answer).
PromotionsBounded == spent < MaxDaily + 2 * Cardinality(Requests)

\* The tables exceed their limits by no more than what was written since the
\* last eviction: _maybe_evict and the counters of _store_atomic_facts and
\* _learn_from_near_misses.  (Invalid rows are not counted, nor evicted.)
TablesBounded ==
  /\ Cardinality(Valid) <= MaxEntries + writes
  /\ Cardinality(facts) <= MaxFacts + factWrites
  /\ Cardinality(Joined) <= MaxLinks + 2 * SemanticMax * linkWrites

=============================================================================
