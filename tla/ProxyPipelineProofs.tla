------------------------ MODULE ProxyPipelineProofs ------------------------
(***************************************************************************)
(* Proofs about ProxyPipeline, for any questions, namespaces and limits,   *)
(* and any number of concurrent requests: what they share in the session   *)
(* map, in the daily cap of promotion checks, and in the three tables;     *)
(* then the types of all variables, whose answers a namespace is offered,  *)
(* and the size of the tables.                                             *)
(***************************************************************************)
EXTENDS ProxyPipeline, FiniteSetTheorems, TLAPS

\* Sets of requests are finite.
LEMMA RequestSets ==
  ASSUME NEW S \in SUBSET Requests
  PROVE  /\ IsFiniteSet(S) /\ Cardinality(S) \in Nat
         /\ Cardinality(S) <= Cardinality(Requests)
         /\ Cardinality(Requests) \in Nat \ {0}
<1>1. IsFiniteSet(Requests) /\ Requests # {}
  BY PipelineAssumption
<1>2. IsFiniteSet(S) /\ Cardinality(S) <= Cardinality(Requests)
  BY <1>1, FS_Subset
<1>3. Cardinality(S) \in Nat /\ Cardinality(Requests) \in Nat
  BY <1>1, <1>2, FS_CardinalityType
<1>4. Cardinality(Requests) # 0
  BY <1>1, FS_EmptySet
<1> QED BY <1>2, <1>3, <1>4

LEMMA OneMore ==
  ASSUME NEW S \in SUBSET Requests, NEW r \in Requests
  PROVE  /\ r \notin S => Cardinality(S \cup {r}) = Cardinality(S) + 1
         /\ r \in S => Cardinality(S \ {r}) = Cardinality(S) - 1
  BY RequestSets, FS_AddElement, FS_RemoveElement

-----------------------------------------------------------------------------
(***************************************************************************)
(* The locals of the requests.                                             *)
(***************************************************************************)
Shape ==
  /\ pc \in [Requests -> PC]
  /\ asked \in [Requests -> Conversations \cup {<<>>}]
  /\ held \in [Requests -> Conversations \cup {Lost, Nobody}]
  /\ found \in [Requests -> Ids \cup {NoId}]
  /\ alive \in [Requests -> SUBSET Ids]
  /\ evidence = [r \in Requests |-> evidence[r]]
  /\ \A r \in Requests : pc[r] # "idle" => asked[r] \in Conversations

\* The steps of a request that leave the rows, the session map and the daily
\* cap alone; those that use the session map; and the one that stores a row.
Layers(r) ==
  \/ ExactLayer(r) \/ ExactLayerFails(r)
  \/ SemanticLayer(r) \/ SemanticLayerSkipped(r) \/ SemanticLayerFails(r)
  \/ ComposableLayer(r) \/ FuzzyLayer(r) \/ LinkLayer(r)
  \/ FactLayer(r) \/ FactLayerSkipped(r) \/ LayerRaises(r)
  \/ FindSession(r) \/ Reinforce(r)
  \/ GenerateError(r) \/ StoreFacts(r) \/ StoreLinks(r)
Stores(r) == \E i \in Ids, emb \in BOOLEAN : StoreAnswer(r, i, emb)
Aside(r) == Layers(r) \/ Stores(r)
Tracks(r) ==
  \/ TouchSession(r) \/ EnterSession(r) \/ TrimSessions(r) \/ PopSession(r)
  \/ RecordExchange(r)
Environment ==
  \/ \E i \in Ids, m \in Elsewhere, emb \in BOOLEAN : StoreElsewhere(i, m, emb)
  \/ \E i \in Ids : Invalidate(i)
  \/ NewDay \/ RecoveryTimeout

\* The phases after a request has had a session.
Holding == {"trim", "pop", "decide", "verify", "reinforce", "record"}

\* Each of them moves the request from one phase to another.
Moves(r, next) == pc[r] # "idle" /\ next \in PC /\ pc' = [pc EXCEPT ![r] = next]

LEMMA AsideMoves ==
  ASSUME Shape, NEW r \in Requests, Aside(r)
  PROVE  /\ \E next \in PC \ {"trim", "pop", "verify"} :
              Moves(r, next) /\ (next \in Holding => pc[r] \in Holding)
         /\ pc[r] \notin {"trim", "pop", "verify"}
         /\ UNCHANGED <<tracker, promotion>>
         /\ \/ UNCHANGED <<asked, held>>
            \/ /\ pc'[r] = "idle"
               /\ asked' = [asked EXCEPT ![r] = <<>>]
               /\ held' = [held EXCEPT ![r] = Nobody]
<1> USE DEF Moves, Goto, PC, Shape, Holding, input
<1>1. CASE ExactLayer(r) \/ ExactLayerFails(r)
  BY <1>1 DEF ExactLayer, ExactLayerFails
<1>2. CASE SemanticLayer(r) \/ SemanticLayerSkipped(r) \/ SemanticLayerFails(r)
  BY <1>2 DEF SemanticLayer, SemanticLayerSkipped, SemanticLayerFails
<1>3. CASE ComposableLayer(r)
  BY <1>3 DEF ComposableLayer, End
<1>4. CASE FuzzyLayer(r) \/ LinkLayer(r)
  BY <1>4 DEF FuzzyLayer, LinkLayer
<1>5. CASE FactLayer(r) \/ FactLayerSkipped(r)
  BY <1>5 DEF FactLayer, FactLayerSkipped
<1>6. CASE LayerRaises(r) \/ GenerateError(r) \/ StoreLinks(r)
  <2>1. /\ pc[r] \notin {"idle", "trim", "pop", "verify"} /\ Goto(r, "idle")
        /\ UNCHANGED <<tracker, promotion>>
        /\ asked' = [asked EXCEPT ![r] = <<>>] /\ held' = [held EXCEPT ![r] = Nobody]
    BY <1>6 DEF LayerRaises, GenerateError, StoreLinks, End
  <2>2. Moves(r, "idle") /\ pc'[r] = "idle"
    BY <2>1
  <2>3. "idle" \in PC \ {"trim", "pop", "verify"} /\ "idle" \notin Holding
    OBVIOUS
  <2> HIDE DEF Moves, PC, Holding
  <2> QED BY <2>1, <2>2, <2>3
<1>7. CASE FindSession(r) \/ Reinforce(r)
  BY <1>7 DEF FindSession, Reinforce, Keeps, Untouched
<1>8. CASE Stores(r) \/ StoreFacts(r)
  BY <1>8 DEF Stores, StoreAnswer, StoreFacts
<1> QED
  BY <1>1, <1>2, <1>3, <1>4, <1>5, <1>6, <1>7, <1>8 DEF Aside, Layers

LEMMA TracksMoves ==
  ASSUME Shape, NEW r \in Requests, Tracks(r)
  PROVE  /\ \E next \in PC \ {"touch", "enter", "verify"} : Moves(r, next)
         /\ pc[r] \notin {"verify", "store_facts", "store_links"}
         /\ UNCHANGED <<rows, promotion>>
         /\ evidence' = [q \in Requests |-> evidence'[q]]
         /\ \A q \in Requests \ {r} : evidence'[q] = evidence[q]
         /\ \A e \in evidence'[r] \ evidence[r] : e.layer = "session"
         /\ \/ pc'[r] # "idle" /\ UNCHANGED <<asked, found, alive>>
            \/ /\ pc'[r] = "idle" /\ evidence'[r] = {}
               /\ asked' = [asked EXCEPT ![r] = <<>>]
               /\ found' = [found EXCEPT ![r] = NoId]
               /\ alive' = [alive EXCEPT ![r] = {}]
<1> USE DEF Moves, Goto, PC, Shape, Untouched, Keeps, input, tables, promotion
<1>1. ASSUME NEW told, GoesOn(r, told), UNCHANGED <<asked, found, alive>>, pc[r] \in PC \ {"idle"}
      PROVE  /\ \E next \in {"record", "decide"} : Moves(r, next)
             /\ evidence' = [q \in Requests |-> evidence'[q]]
             /\ \A q \in Requests \ {r} : evidence'[q] = evidence[q]
             /\ \A e \in evidence'[r] \ evidence[r] : e.layer = "session"
  BY <1>1 DEF GoesOn, Adds, Found
<1>2. CASE TouchSession(r)
  <2>1. CASE Known(order, asked[r])
    BY <1>1, <1>2, <2>1 DEF TouchSession
  <2>2. CASE ~Known(order, asked[r])
    BY <1>2, <2>2 DEF TouchSession, End
  <2> QED BY <2>1, <2>2
<1>3. CASE EnterSession(r)
  BY <1>3 DEF EnterSession
<1>4. CASE TrimSessions(r)
  <2>1. CASE OverCapacity(order)
    BY <1>4, <2>1 DEF TrimSessions
  <2>2. CASE ~OverCapacity(order)
    BY <1>1, <1>4, <2>2 DEF TrimSessions
  <2> QED BY <2>1, <2>2
<1>5. CASE PopSession(r)
  BY <1>5 DEF PopSession, End
<1>6. CASE RecordExchange(r)
  BY <1>6 DEF RecordExchange, End
<1> QED BY <1>2, <1>3, <1>4, <1>5, <1>6 DEF Tracks

\* The steps of a request, by what they touch.
LEMMA PipelineCases ==
  ASSUME NEW r \in Requests, PipelineStep(r) \/ HandlerStep(r)
  PROVE  Layers(r) \/ Stores(r) \/ Tracks(r) \/ Decide(r) \/ Verify(r)
  BY DEF PipelineStep, HandlerStep, Layers, Stores, Tracks

LEMMA ShapeTracks ==
  ASSUME Shape, NEW r \in Requests, Tracks(r)
  PROVE  Shape'
<1> USE DEF Shape
<1>1. held' \in [Requests -> Conversations \cup {Lost, Nobody}]
  <2>1. asked[r] \in Conversations
    BY TracksMoves DEF Moves
  <2>2. \A s : Orphaned(s) \in [Requests -> Conversations \cup {Lost, Nobody}]
    BY DEF Orphaned
  <2>3. CASE TouchSession(r) \/ RecordExchange(r)
    BY <2>1, <2>3 DEF TouchSession, RecordExchange, End
  <2>4. CASE EnterSession(r) \/ TrimSessions(r)
    BY <2>1, <2>2, <2>4 DEF EnterSession, TrimSessions
  <2>5. CASE PopSession(r)
    BY <2>2, <2>5 DEF PopSession, End
  <2> QED BY <2>3, <2>4, <2>5 DEF Tracks
<1>2. PICK next \in PC : Moves(r, next)
  BY TracksMoves
<1> QED BY <1>1, <1>2, TracksMoves DEF Moves

\* What a layer offers is a fact, or an answer that is valid at that moment.
Offer(e) == e.layer \in {"fact", "session"} \/ e.of \in Valid

LEMMA LayersOffer ==
  ASSUME Shape, NEW r \in Requests, Layers(r)
  PROVE  /\ UNCHANGED rows
         /\ evidence' = [q \in Requests |-> evidence'[q]]
         /\ \A q \in Requests \ {r} : evidence'[q] = evidence[q]
         /\ \A e \in evidence'[r] \ evidence[r] : Offer(e)
         /\ \E i \in Valid \cup {found[r], NoId} : found' = [found EXCEPT ![r] = i]
         /\ pc[r] \in {"store_facts", "store_links"}
            => pc'[r] = "store_links" \/ found'[r] = NoId
         /\ \/ pc'[r] # "idle" /\ UNCHANGED alive
            \/ /\ pc'[r] = "idle" /\ evidence'[r] = {} /\ found'[r] = NoId
               /\ alive' = [alive EXCEPT ![r] = {}]
<1> USE DEF Goto, PC, Shape, input, tables
<1>1. CASE ExactLayer(r)
  <2>1. ExactOrPublic(asked[r], space[r]) \subseteq Valid
    BY DEF ExactOrPublic, Exact
  <2> QED BY <1>1, <2>1 DEF ExactLayer
<1>2. CASE SemanticLayer(r)
  <2>1. \A q, n : \A S \in SemanticMatches(q, n) : S \subseteq Valid
    BY ZenonT(30) DEF SemanticMatches, Best
  <2>2. PICK S \in SUBSET Valid : Adds(r, SemanticEvidence(Question(r), S))
    BY <1>2, <2>1 DEF SemanticLayer
  <2>3. \A e \in SemanticEvidence(Question(r), S) : Offer(e)
    BY DEF SemanticEvidence, Found, Offer
  <2> QED BY <1>2, <2>2, <2>3 DEF SemanticLayer, Adds
<1>3. CASE ComposableLayer(r)
  <2>1. PartHits(r) \subseteq Valid
    BY DEF PartHits, PartHit, Exact
  <2>2. \A e \in {Found("composable", 850, i) : i \in PartHits(r)} : Offer(e)
    BY <2>1 DEF Found, Offer
  <2> QED BY <1>3, <2>2 DEF ComposableLayer, Adds, End
<1>4. CASE FuzzyLayer(r)
  <2> DEFINE near == {i \in Valid : <<Question(r), About(i)>> \in Fuzzy}
             offers(S) == {Found("fuzzy", 400, i) : i \in
                             {i \in S : space[r] = Public \/ rows[i].space = space[r]}}
  <2>1. PICK S \in Best(near, [i \in near |-> 0], FuzzyMax) : Adds(r, offers(S))
    BY <1>4 DEF FuzzyLayer
  <2>2. S \subseteq Valid
    BY <2>1 DEF Best
  <2>3. \A e \in offers(S) : Offer(e)
    BY <2>2 DEF Found, Offer
  <2>4. UNCHANGED <<rows, found, alive>> /\ pc[r] = "fuzzy" /\ Goto(r, "links")
    BY <1>4 DEF FuzzyLayer
  <2> HIDE DEF offers
  <2> QED BY <2>1, <2>3, <2>4 DEF Adds
<1>5. CASE LinkLayer(r)
  <2> DEFINE S == Linked(r)
             paths == UNION {Paths(S, j) : j \in Reached(S)}
             offers(via) == {[Found("link", LinkConfidence(via[j]), j)
                                EXCEPT !.via = via[j].link] : j \in Reached(S)}
  <2>1. PICK via \in [Reached(S) -> paths] : Adds(r, offers(via))
    BY <1>5 DEF LinkLayer
  <2>2. Reached(S) \subseteq Valid
    BY DEF Reached
  <2>3. \A e \in offers(via) : Offer(e)
    BY <2>2 DEF Found, Offer
  <2>4. UNCHANGED <<rows, found, alive>> /\ pc[r] = "links" /\ Goto(r, "facts")
    BY <1>5 DEF LinkLayer
  <2> HIDE DEF offers
  <2> QED BY <2>1, <2>3, <2>4 DEF Adds
<1>6. CASE FactLayer(r)
  <2> DEFINE score == [f \in facts |-> Similarity[<<Question(r), f.about>>]]
             offers(S) == {Found("fact", FactConfidence(score[f]), f.source) :
                             f \in {f \in S : /\ score[f] >= 800
                                              /\ space[r] # Public => f.space = space[r]}}
  <2>1. PICK S \in Best(facts, score, FactMax) : Adds(r, offers(S))
    BY <1>6 DEF FactLayer
  <2>2. ASSUME NEW e \in offers(S)
        PROVE  Offer(e)
    <3>1. PICK c, i : e = Found("fact", c, i)
      OBVIOUS
    <3> QED BY <3>1 DEF Found, Offer
  <2>3. UNCHANGED <<rows, found, alive>> /\ pc[r] = "facts" /\ Goto(r, "session")
    BY <1>6 DEF FactLayer
  <2> HIDE DEF offers
  <2> QED BY <2>1, <2>2, <2>3 DEF Adds
<1>7. CASE \/ ExactLayerFails(r) \/ SemanticLayerSkipped(r) \/ SemanticLayerFails(r)
           \/ FactLayerSkipped(r) \/ FindSession(r) \/ Reinforce(r) \/ StoreFacts(r)
  BY <1>7 DEF ExactLayerFails, SemanticLayerSkipped, SemanticLayerFails, FactLayerSkipped,
              FindSession, Reinforce, StoreFacts, Keeps, Untouched
<1>8. CASE LayerRaises(r) \/ GenerateError(r) \/ StoreLinks(r)
  BY <1>8 DEF LayerRaises, GenerateError, StoreLinks, End
<1> QED
  BY <1>1, <1>2, <1>3, <1>4, <1>5, <1>6, <1>7, <1>8 DEF Layers

\* A stored row may take the place of others; it adds no valid row but itself.
LEMMA RowStored ==
  ASSUME NEW i \in Ids, NEW row, StoreRow(i, row)
  PROVE  Valid' \subseteq Valid \cup {i}
<1>1. \A j \in Ids \ {i} : Replaced(i, row)[j] \in {NoRow, rows[j]}
  BY DEF Replaced
<1>2. \A j \in Ids \ {i} : rows'[j] \in {NoRow, rows[j]}
  BY <1>1 DEF StoreRow
<1> QED BY <1>2 DEF Valid, Stored

\* Requests under way know every answer that is valid, and all they have been
\* offered.
Knowing ==
  /\ Shape
  /\ \A r \in Requests : pc[r] = "idle" => evidence[r] = {} /\ found[r] = NoId
  /\ \A r \in Requests : pc[r] # "idle" => Valid \subseteq alive[r]
  /\ OfferedWasValid

LEMMA KnowingInit == Init => Knowing
  BY DEF Init, Knowing, Shape, OfferedWasValid, Valid, Stored, PC

LEMMA KnowingLayers ==
  ASSUME Knowing, NEW r \in Requests, Layers(r)
  PROVE  Knowing'
<1>1. PICK next \in PC : Moves(r, next) /\ (\/ UNCHANGED <<asked, held>>
                                            \/ /\ pc'[r] = "idle"
                                               /\ asked' = [asked EXCEPT ![r] = <<>>]
                                               /\ held' = [held EXCEPT ![r] = Nobody])
  BY AsideMoves DEF Knowing, Aside
<1>2. Shape
  BY DEF Knowing
<1>3. UNCHANGED Valid
  BY <1>2, LayersOffer DEF Valid, Stored
<1>4. Shape'
  BY <1>1, <1>2, LayersOffer DEF Shape, Moves, Valid, Stored
<1>5. \A q \in Requests : pc'[q] # "idle" => (Valid \subseteq alive[q])'
  BY <1>1, <1>2, <1>3, LayersOffer DEF Knowing, Shape, Moves
<1>6. \A q \in Requests : pc'[q] = "idle" => evidence'[q] = {} /\ found'[q] = NoId
  BY <1>1, <1>2, LayersOffer DEF Knowing, Shape, Moves
<1>7. OfferedWasValid'
  BY <1>1, <1>2, LayersOffer DEF Knowing, Shape, Moves, OfferedWasValid, Offer
<1> QED BY <1>4, <1>5, <1>6, <1>7 DEF Knowing

LEMMA KnowingTracks ==
  ASSUME Knowing, NEW r \in Requests, Tracks(r), Shape'
  PROVE  Knowing'
<1>1. PICK next \in PC : Moves(r, next)
  BY TracksMoves DEF Knowing
<1>2. UNCHANGED Valid
  BY TracksMoves DEF Knowing, Valid, Stored
<1>3. \A q \in Requests : pc'[q] # "idle" => (Valid \subseteq alive[q])'
  BY <1>1, <1>2, TracksMoves DEF Knowing, Shape, Moves
<1>4. \A q \in Requests : pc'[q] = "idle" => evidence'[q] = {} /\ found'[q] = NoId
  BY <1>1, TracksMoves DEF Knowing, Shape, Moves
<1>5. OfferedWasValid'
  BY <1>1, TracksMoves DEF Knowing, Shape, Moves, OfferedWasValid
<1> QED BY <1>3, <1>4, <1>5 DEF Knowing

LEMMA KnowingStores ==
  ASSUME Knowing, NEW i \in Ids, NEW row, StoreRow(i, row), alive' = Alive(i),
         UNCHANGED <<asked, held, evidence>>,
         \/ UNCHANGED <<pc, found>>
         \/ \E r \in Requests : /\ pc[r] = "generate"
                                /\ pc' = [pc EXCEPT ![r] = "store_facts"]
                                /\ found' = [found EXCEPT ![r] = i]
  PROVE  Knowing'
<1> USE DEF Knowing, Shape, PC
<1>1. /\ alive' \in [Requests -> SUBSET Ids]
      /\ \A q \in Requests : alive[q] \subseteq alive'[q]
  BY DEF Alive
<1>2. \A q \in Requests : pc[q] # "idle" /\ rows'[i] # NoRow => i \in alive'[q]
  BY DEF Alive, Pending
<1>3. \A q \in Requests : pc'[q] = "idle" <=> pc[q] = "idle"
  OBVIOUS
<1>4. \A q \in Requests : pc'[q] # "idle" => (Valid \subseteq alive[q])'
  BY <1>1, <1>2, <1>3, RowStored DEF Valid, Stored
<1>5. OfferedWasValid'
  BY <1>1 DEF OfferedWasValid
<1> QED BY <1>1, <1>3, <1>4, <1>5

LEMMA KnowingDecides ==
  ASSUME Knowing, NEW r \in Requests, Decide(r)
  PROVE  /\ Knowing'
         /\ \E next \in {"verify", "reinforce", "generate"} : Moves(r, next)
<1> USE DEF Knowing, Shape
<1>1. \A e \in BestSingle(evidence[r]) :
        e \in evidence[r] /\ e.layer \in {"semantic", "fuzzy", "link"}
  BY DEF BestSingle, Whole
<1>2. \A e \in BestSingle(evidence[r]) : e.of \in alive[r]
  BY <1>1 DEF OfferedWasValid
<1>3. /\ pc[r] = "decide" /\ UNCHANGED <<rows, asked, held, evidence, alive>>
      /\ \E next \in {"verify", "reinforce", "generate"} : Moves(r, next)
      /\ UNCHANGED found \/ \E i \in alive[r] : found' = [found EXCEPT ![r] = i]
  <2>1. CASE Convinced(evidence[r]) /\ Whole(evidence[r]) # {}
    BY <1>2, <2>1 DEF Decide, Goto, Moves, PC, input, tables
  <2>2. CASE ~(Convinced(evidence[r]) /\ Whole(evidence[r]) # {})
    BY <2>2 DEF Decide, Goto, Moves, PC, input, tables
  <2> QED BY <2>1, <2>2
<1>4. UNCHANGED Valid
  BY <1>3 DEF Valid, Stored
<1>5. OfferedWasValid'
  BY <1>3 DEF OfferedWasValid, Moves
<1> QED BY <1>3, <1>4, <1>5 DEF Moves

LEMMA KnowingNext == Knowing /\ [Next]_vars => Knowing'
<1> SUFFICES ASSUME Knowing, [Next]_vars PROVE Knowing'
  OBVIOUS
<1>1. ASSUME NEW r \in Requests, PipelineStep(r) \/ HandlerStep(r)
      PROVE  Knowing'
  <2>1. CASE Layers(r)
    BY <2>1, KnowingLayers
  <2>2. CASE Stores(r)
    <3>1. PICK i \in Ids, emb \in BOOLEAN : StoreAnswer(r, i, emb)
      BY <2>2 DEF Stores
    <3>2. StoreRow(i, Answer(asked[r], space[r], emb, FALSE)) /\ alive' = Alive(i)
      BY <3>1 DEF StoreAnswer
    <3> QED BY <3>1, <3>2, KnowingStores DEF StoreAnswer, Goto, input
  <2>3. CASE Tracks(r)
    <3>1. Shape'
      BY <2>3, ShapeTracks DEF Knowing
    <3> QED BY <2>3, <3>1, KnowingTracks
  <2>4. CASE Decide(r)
    BY <2>4, KnowingDecides
  <2>5. CASE Verify(r)
    BY <2>5 DEF Verify, Goto, Knowing, Shape, OfferedWasValid, Valid, Stored, PC,
                input, tables
  <2> QED BY <1>1, <2>1, <2>2, <2>3, <2>4, <2>5, PipelineCases
<1>2. ASSUME NEW r \in Requests, NEW m \in Conversations, NEW n \in Space,
             NEW qual \in BOOLEAN, Receive(r, m, n, qual)
      PROVE  Knowing'
  BY <1>2 DEF Receive, Goto, Knowing, Shape, OfferedWasValid, Valid, Stored, PC, tables
<1>3. ASSUME NEW i \in Ids, NEW m \in Elsewhere, NEW emb \in BOOLEAN,
             StoreElsewhere(i, m, emb)
      PROVE  Knowing'
  <2>1. StoreRow(i, Answer(m, Public, emb, TRUE)) /\ alive' = Alive(i)
    BY <1>3 DEF StoreElsewhere
  <2> QED BY <1>3, <2>1, KnowingStores DEF StoreElsewhere, input
<1>4. ASSUME NEW i \in Ids, Invalidate(i)
      PROVE  Knowing'
  <2>1. Valid' \subseteq Valid
    BY <1>4 DEF Invalidate, Valid, Stored
  <2>2. UNCHANGED <<pc, asked, held, found, alive, evidence>>
    BY <1>4 DEF Invalidate, input
  <2> QED BY <2>1, <2>2 DEF Knowing, Shape, OfferedWasValid
<1>5. CASE NewDay \/ RecoveryTimeout \/ UNCHANGED vars
  <2>1. UNCHANGED <<rows, pc, asked, held, found, alive, evidence>>
    BY <1>5 DEF NewDay, RecoveryTimeout, vars, tables, input
  <2> QED BY <2>1 DEF Knowing, Shape, OfferedWasValid, Valid, Stored
<1> QED BY <1>1, <1>2, <1>3, <1>4, <1>5 DEF Next

\* Every answer a layer offers, and the one that is served, was valid at some
\* moment of the request: _run_cache_pipeline.
THEOREM OfferedValid == Spec => []OfferedWasValid
<1>1. Knowing => OfferedWasValid
  BY DEF Knowing
<1> QED BY <1>1, KnowingInit, KnowingNext, PTL DEF Spec

-----------------------------------------------------------------------------
(***************************************************************************)
(* The session map.                                                        *)
(***************************************************************************)
Distinct(o) == \A i, j \in 1 .. Len(o) : o[i] = o[j] => i = j

\* Moving an entry to the end of the map leaves the same entries in it.
LEMMA MoveKeeps ==
  ASSUME NEW S, NEW o \in Seq(S), NEW i \in 1 .. Len(o), Distinct(o)
  PROVE  LET m == MovedToEnd(o, i)
         IN m \in Seq(S) /\ Len(m) = Len(o) /\ Distinct(m)
            /\ \A s : Known(o, s) <=> Known(m, s)
<1> DEFINE m == MovedToEnd(o, i)
<1>1. Len(o) \in Nat /\ \A j \in 1 .. Len(o) : o[j] \in S
  OBVIOUS
<1>2. m \in [1 .. Len(o) -> S]
  BY <1>1 DEF MovedToEnd
<1>3. m \in Seq(S) /\ Len(m) = Len(o)
  BY <1>1, <1>2
<1>4. \A j \in 1 .. Len(o) :
        m[j] = IF j < i THEN o[j] ELSE IF j < Len(o) THEN o[j + 1] ELSE o[i]
  BY DEF MovedToEnd
<1> HIDE DEF m
<1>5. \A j, k \in 1 .. Len(o) : m[j] = m[k] => j = k
  BY <1>1, <1>4 DEF Distinct
<1>6. ASSUME NEW j \in 1 .. Len(o)
      PROVE  \E k \in 1 .. Len(o) : m[k] = o[j]
  <2>1. CASE j < i
    BY <1>1, <1>4, <2>1
  <2>2. CASE j = i
    BY <1>1, <1>4, <2>2
  <2>3. CASE j > i
    <3>1. j - 1 \in 1 .. Len(o) /\ ~(j - 1 < i) /\ j - 1 < Len(o) /\ (j - 1) + 1 = j
      BY <1>1, <2>3
    <3> QED BY <1>4, <3>1
  <2> QED BY <1>1, <2>1, <2>2, <2>3
<1>7. \A j \in 1 .. Len(o) : \E k \in 1 .. Len(o) : m[j] = o[k]
  BY <1>1, <1>4
<1>8. \A s : Known(o, s) <=> Known(m, s)
  BY <1>3, <1>6, <1>7 DEF Known
<1> QED BY <1>3, <1>5, <1>8 DEF m, Distinct

\* Every session the map still holds is there once; sessions are evicted by
\* those that entered one.
Tracked ==
  /\ Shape
  /\ order \in Seq(Conversations)
  /\ \A r \in Requests : pc[r] \in Holding => held[r] # Nobody
  /\ TrackerBounded
  /\ SessionsKept

LEMMA TrackedInit == Init => Tracked
<1> SUFFICES ASSUME Init PROVE Tracked
  OBVIOUS
<1>1. Trimming = {} /\ Len(order) = 0
  BY DEF Init, Trimming
<1>2. Cardinality(Trimming) \in Nat
  BY RequestSets DEF Trimming
<1> QED
  BY <1>1, <1>2, CapacityAssumption DEF Init, Tracked, Shape, PC, Holding, TrackerBounded, SessionsKept

\* A step that leaves the map alone, of a request that is not evicting.
LEMMA TrackedAside ==
  ASSUME Tracked, Shape', UNCHANGED tracker,
         \/ UNCHANGED <<pc, held>>
         \/ \E r \in Requests, next \in PC \ {"trim", "pop"} :
              /\ pc' = [pc EXCEPT ![r] = next] /\ pc[r] \notin {"trim", "pop"}
              /\ next \in Holding => pc[r] \in Holding
              /\ \/ UNCHANGED held
                 \/ next = "idle" /\ held' = [held EXCEPT ![r] = Nobody]
  PROVE  Tracked'
<1> USE DEF Tracked, Shape, tracker
<1>1. UNCHANGED Trimming
  BY DEF Trimming
<1>2. TrackerBounded'
  BY <1>1 DEF TrackerBounded
<1>3. SessionsKept'
  BY DEF SessionsKept
<1>4. \A r \in Requests : pc'[r] \in Holding => held'[r] # Nobody
  BY DEF Holding
<1> QED BY <1>2, <1>3, <1>4

\* A request that stays or stops evicting, and a map that does not grow.
LEMMA BoundKept ==
  ASSUME TrackerBounded, Shape, order' \in Seq(Conversations), order \in Seq(Conversations),
         Trimming' = Trimming, Len(order') <= Len(order)
  PROVE  TrackerBounded'
<1>1. Cardinality(Trimming) \in Nat
  BY RequestSets DEF Trimming
<1> QED BY <1>1, CapacityAssumption DEF TrackerBounded

LEMMA TrackedTouch ==
  ASSUME Tracked, NEW r \in Requests, TouchSession(r), Shape'
  PROVE  Tracked'
<1> USE DEF Tracked
<1> DEFINE s == asked[r]
<1>1. CASE ~Known(order, s)
  BY <1>1, TrackedAside DEF TouchSession, End, Goto, PC, Holding, tracker
<1>2. CASE Known(order, s)
  <2>1. order' = Used(order, s) /\ held' = [held EXCEPT ![r] = s] /\ UNCHANGED exchanged
    BY <1>2 DEF TouchSession
  <2>2. /\ pc[r] = "touch" /\ s \in Conversations
        /\ \E next \in {"record", "decide"} : pc' = [pc EXCEPT ![r] = next]
    BY <1>2 DEF TouchSession, GoesOn, Goto, Shape
  <2>3. Distinct(order) /\ Position(order, s) \in 1 .. Len(order)
    BY <1>2 DEF SessionsKept, Distinct, Position, Known
  <2>4. /\ order' \in Seq(Conversations) /\ Len(order') = Len(order) /\ Distinct(order')
        /\ \A t : Known(order, t) <=> Known(order', t)
    BY <2>1, <2>3, MoveKeeps DEF Used
  <2>5. SessionsKept'
    BY <1>2, <2>1, <2>4 DEF SessionsKept, Distinct, Shape
  <2>6. UNCHANGED Trimming
    BY <2>2 DEF Trimming, Shape
  <2>7. TrackerBounded'
    BY <2>4, <2>6, BoundKept
  <2>8. s \notin {Nobody, Lost}
    BY <2>2, PipelineNulls
  <2>9. \A q \in Requests : pc'[q] \in Holding => held'[q] # Nobody
    BY <2>1, <2>2, <2>8 DEF Shape
  <2> QED BY <2>4, <2>5, <2>7, <2>9
<1> QED BY <1>1, <1>2

LEMMA TrackedEnter ==
  ASSUME Tracked, NEW r \in Requests, EnterSession(r), Shape'
  PROVE  Tracked'
<1> USE DEF Tracked
<1> DEFINE s == asked[r]
<1>1. /\ pc[r] = "enter" /\ s \in Conversations /\ pc' = [pc EXCEPT ![r] = "trim"]
      /\ order' = IF Known(order, s) THEN order ELSE Append(order, s)
      /\ exchanged' = exchanged \ {s}
      /\ \A q \in Requests : held'[q] = IF q = r THEN s ELSE IF held[q] = s THEN Lost ELSE held[q]
  BY DEF EnterSession, Entered, Orphaned, Goto, Shape
<1>2. /\ order' \in Seq(Conversations)
      /\ Len(order') <= Len(order) + 1
      /\ Known(order', s) /\ \A t : Known(order, t) => Known(order', t)
      /\ Distinct(order')
  <2>1. CASE Known(order, s)
    BY <1>1, <2>1 DEF SessionsKept, Distinct
  <2>2. CASE ~Known(order, s)
    BY <1>1, <2>2 DEF SessionsKept, Distinct, Known
  <2> QED BY <2>1, <2>2
<1>3. SessionsKept'
  BY <1>1, <1>2 DEF SessionsKept, Distinct
<1>4. Trimming' = Trimming \cup {r} /\ r \notin Trimming
  BY <1>1 DEF Trimming, Shape
<1>5. Cardinality(Trimming') = Cardinality(Trimming) + 1 /\ Cardinality(Trimming) \in Nat
  BY <1>4, OneMore, RequestSets DEF Trimming
<1>6. TrackerBounded'
  BY <1>2, <1>5, CapacityAssumption DEF TrackerBounded
<1>7. \A q \in Requests : pc'[q] \in Holding => held'[q] # Nobody
  BY <1>1, PipelineNulls DEF Shape
<1> QED BY <1>2, <1>3, <1>6, <1>7

LEMMA TrackedTrim ==
  ASSUME Tracked, NEW r \in Requests, TrimSessions(r), Shape'
  PROVE  Tracked'
<1> USE DEF Tracked
<1>1. UNCHANGED <<order, exchanged, held>> /\ pc[r] = "trim"
  BY DEF TrimSessions, tracker
<1>2. SessionsKept'
  BY <1>1 DEF SessionsKept
<1>3. CASE OverCapacity(order)
  <2>1. pc' = [pc EXCEPT ![r] = "pop"]
    BY <1>3 DEF TrimSessions, Goto
  <2>2. UNCHANGED Trimming
    BY <1>1, <2>1 DEF Trimming, Shape
  <2>3. TrackerBounded'
    BY <1>1, <2>2 DEF TrackerBounded
  <2> QED BY <1>1, <1>2, <2>1, <2>3 DEF Holding, Shape
<1>4. CASE ~OverCapacity(order)
  <2>1. \E next \in {"record", "decide"} : pc' = [pc EXCEPT ![r] = next]
    BY <1>4 DEF TrimSessions, GoesOn, Goto
  <2>2. Cardinality(Trimming') \in Nat
    <3>1. Trimming' \in SUBSET Requests
      BY DEF Trimming
    <3> QED BY <3>1, RequestSets
  <2>3. TrackerBounded'
    BY <1>1, <1>4, <2>2, CapacityAssumption DEF TrackerBounded, OverCapacity
  <2> QED BY <1>1, <1>2, <2>1, <2>3 DEF Holding, Shape
<1> QED BY <1>3, <1>4

LEMMA TrackedPop ==
  ASSUME Tracked, NEW r \in Requests, PopSession(r), Shape'
  PROVE  Tracked'
<1> USE DEF Tracked
<1>1. pc[r] = "pop"
  BY DEF PopSession
<1>2. CASE order = <<>>
  <2>1. /\ UNCHANGED <<order, exchanged>>
        /\ pc' = [pc EXCEPT ![r] = "idle"] /\ held' = [held EXCEPT ![r] = Nobody]
    BY <1>2 DEF PopSession, End, Goto, tracker
  <2>2. SessionsKept'
    BY <2>1 DEF SessionsKept, Shape
  <2>3. Cardinality(Trimming') \in Nat
    <3>1. Trimming' \in SUBSET Requests
      BY DEF Trimming
    <3> QED BY <3>1, RequestSets
  <2>4. TrackerBounded'
    BY <1>2, <2>1, <2>3, CapacityAssumption DEF TrackerBounded
  <2> QED BY <2>1, <2>2, <2>4 DEF Holding, Shape
<1>3. CASE order # <<>>
  <2> DEFINE s == order[1]
  <2>1. /\ order' = Tail(order) /\ exchanged' = exchanged \ {s}
        /\ \A q \in Requests : held'[q] = IF held[q] = s THEN Lost ELSE held[q]
        /\ pc' = [pc EXCEPT ![r] = "trim"]
    BY <1>3 DEF PopSession, OldestDropped, Orphaned, Goto
  <2>2. /\ order' \in Seq(Conversations) /\ Len(order') = Len(order) - 1
        /\ \A i \in 1 .. Len(order') : order'[i] = order[i + 1]
        /\ Len(order) \in Nat \ {0}
    BY <1>3, <2>1
  <2>3. \A t : Known(order, t) /\ t # s => Known(order', t)
    <3> SUFFICES ASSUME NEW i \in 1 .. Len(order), order[i] # s
                 PROVE  Known(order', order[i])
      BY DEF Known
    <3>1. i # 1 /\ i - 1 \in 1 .. Len(order') /\ (i - 1) + 1 = i
      BY <2>2
    <3> QED BY <2>2, <3>1 DEF Known
  <2>4. \A i, j \in 1 .. Len(order') : order'[i] = order'[j] => i = j
    BY <2>2 DEF SessionsKept
  <2>5. SessionsKept'
    BY <2>1, <2>3, <2>4 DEF SessionsKept
  <2>6. UNCHANGED Trimming
    BY <1>1, <2>1 DEF Trimming, Shape
  <2>7. Len(order') <= Len(order)
    BY <2>2
  <2>8. TrackerBounded'
    BY <2>2, <2>6, <2>7, BoundKept
  <2>9. \A q \in Requests : pc'[q] \in Holding => held'[q] # Nobody
    BY <1>1, <2>1, PipelineNulls DEF Holding, Shape
  <2> QED BY <2>2, <2>5, <2>8, <2>9
<1> QED BY <1>2, <1>3

LEMMA TrackedRecord ==
  ASSUME Tracked, NEW r \in Requests, RecordExchange(r), Shape'
  PROVE  Tracked'
<1> USE DEF Tracked
<1>1. /\ pc[r] = "record" /\ UNCHANGED order
      /\ exchanged' = IF held[r] = Lost THEN exchanged ELSE exchanged \cup {held[r]}
      /\ pc' = [pc EXCEPT ![r] = "idle"] /\ held' = [held EXCEPT ![r] = Nobody]
  BY DEF RecordExchange, End, Goto
<1>2. held[r] # Nobody
  BY <1>1 DEF Holding
<1>3. SessionsKept'
  BY <1>1, <1>2 DEF SessionsKept, Shape
<1>4. UNCHANGED Trimming
  BY <1>1 DEF Trimming, Shape
<1>5. TrackerBounded'
  BY <1>1, <1>4 DEF TrackerBounded
<1> QED BY <1>1, <1>3, <1>5 DEF Holding, Shape

LEMMA TrackedNext == Knowing /\ Tracked /\ [Next]_vars => Tracked'
<1> SUFFICES ASSUME Knowing, Tracked, [Next]_vars PROVE Tracked'
  OBVIOUS
<1>1. Shape'
  BY KnowingNext DEF Knowing
<1>2. ASSUME NEW r \in Requests, PipelineStep(r) \/ HandlerStep(r)
      PROVE  Tracked'
  <2>1. CASE Layers(r) \/ Stores(r)
    <3>1. PICK next \in PC \ {"trim", "pop", "verify"} :
            Moves(r, next) /\ (next \in Holding => pc[r] \in Holding)
      BY <2>1, AsideMoves DEF Aside, Tracked
    <3>2. /\ UNCHANGED tracker /\ pc[r] \notin {"trim", "pop"}
          /\ \/ UNCHANGED held
             \/ pc'[r] = "idle" /\ held' = [held EXCEPT ![r] = Nobody]
      BY <2>1, AsideMoves DEF Aside, Tracked, tracker, promotion
    <3>3. pc'[r] = next
      BY <3>1 DEF Moves, Tracked, Shape
    <3> QED BY <1>1, <3>1, <3>2, <3>3, TrackedAside DEF Moves
  <2>2. CASE Decide(r) \/ Verify(r)
    <3>1. /\ UNCHANGED <<tracker, held>> /\ pc[r] \in {"decide", "verify"}
          /\ \E next \in {"verify", "reinforce", "generate"} : pc' = [pc EXCEPT ![r] = next]
      <4>1. CASE Decide(r)
        <5>1. UNCHANGED <<tracker, held>> /\ pc[r] = "decide"
          BY <4>1 DEF Decide
        <5> QED BY <4>1, <5>1, KnowingDecides DEF Moves
      <4>2. CASE Verify(r)
        BY <4>2 DEF Verify, Goto
      <4> QED BY <2>2, <4>1, <4>2
    <3> QED BY <1>1, <3>1, TrackedAside DEF PC, Holding
  <2>3. CASE Tracks(r)
    BY <1>1, <2>3, TrackedTouch, TrackedEnter, TrackedTrim, TrackedPop, TrackedRecord
       DEF Tracks
  <2> QED BY <1>2, <2>1, <2>2, <2>3, PipelineCases
<1>3. ASSUME NEW r \in Requests, NEW m \in Conversations, NEW n \in Space,
             NEW qual \in BOOLEAN, Receive(r, m, n, qual)
      PROVE  Tracked'
  BY <1>1, <1>3, TrackedAside DEF Receive, Goto, PC, Holding
<1>4. CASE \/ \E i \in Ids, m \in Elsewhere, emb \in BOOLEAN : StoreElsewhere(i, m, emb)
           \/ \E i \in Ids : Invalidate(i)
           \/ NewDay \/ RecoveryTimeout \/ UNCHANGED vars
  <2>1. UNCHANGED <<tracker, pc, held>>
    BY <1>4 DEF StoreElsewhere, Invalidate, NewDay, RecoveryTimeout, vars
  <2> QED BY <1>1, <2>1, TrackedAside
<1> QED BY <1>2, <1>3, <1>4 DEF Next

\* The session map exceeds max_sessions by no more than the threads inside
\* the eviction loop of get_or_create.
THEOREM TrackerIsBounded == Spec => []TrackerBounded
<1>1. Tracked => TrackerBounded
  BY DEF Tracked
<1> QED BY <1>1, KnowingInit, KnowingNext, TrackedInit, TrackedNext, PTL DEF Spec

\* Whatever a request still holds, and every session with a turn, is in the
\* map, once.
THEOREM SessionsAreKept == Spec => []SessionsKept
<1>1. Tracked => SessionsKept
  BY DEF Tracked
<1> QED BY <1>1, KnowingInit, KnowingNext, TrackedInit, TrackedNext, PTL DEF Spec

-----------------------------------------------------------------------------
(***************************************************************************)
(* The daily cap of promotion checks.                                      *)
(***************************************************************************)
Checking == {r \in Requests : pc[r] = "verify"}

\* Checks admitted the day before are counted today too, and so may be counted
\* before the counter is reset and after it.
Capped ==
  /\ Shape
  /\ counted \in Nat /\ today \in BOOLEAN /\ spent \in Nat
  /\ MaxDaily = 0 => Checking = {} /\ spent = 0
  /\ ~today => spent + Cardinality(Checking) <= Cardinality(Requests)
  /\ today => /\ spent <= counted + Cardinality(Requests)
              /\ counted + Cardinality(Checking) < MaxDaily + Cardinality(Requests)

LEMMA CappedBound == Capped => PromotionsBounded
<1>1. Cardinality(Checking) \in Nat /\ Cardinality(Requests) \in Nat \ {0} /\ MaxDaily \in Nat
  BY RequestSets, PipelineAssumption DEF Checking
<1> QED BY <1>1 DEF Capped, PromotionsBounded

LEMMA CappedInit == Init => Capped
<1> SUFFICES ASSUME Init PROVE Capped
  OBVIOUS
<1>1. Checking = {}
  BY DEF Init, Checking
<1>2. Cardinality(Checking) = 0 /\ Cardinality(Requests) \in Nat
  BY <1>1, RequestSets, FS_EmptySet
<1>3. spent = 0 /\ counted = 0 /\ spent + Cardinality(Checking) <= Cardinality(Requests)
  BY <1>2 DEF Init
<1>4. today = FALSE
  BY DEF Init
<1>5. Shape
  BY DEF Init, Shape, PC
<1> QED BY <1>1, <1>3, <1>4, <1>5 DEF Capped

\* A step of requests that are not checking, and do not start to.
LEMMA CappedAside ==
  ASSUME Capped, Shape', UNCHANGED promotion,
         \/ UNCHANGED pc
         \/ \E r \in Requests, next \in PC \ {"verify"} :
              pc' = [pc EXCEPT ![r] = next] /\ pc[r] # "verify"
  PROVE  Capped'
<1>1. UNCHANGED Checking
  BY DEF Checking, Capped, Shape
<1> QED BY <1>1 DEF Capped, promotion

\* The counter as _can_verify_today leaves it, on a new day or not.
LEMMA CappedReset ==
  ASSUME Capped, Shape', UNCHANGED spent, counted' = CountedToday, today' = TRUE,
         \/ UNCHANGED Checking
         \/ /\ CountedToday < MaxDaily
            /\ Cardinality(Checking') = Cardinality(Checking) + 1
            /\ Cardinality(Checking') <= Cardinality(Requests)
  PROVE  Capped'
<1> DEFINE V == Cardinality(Checking)
           W == Cardinality(Checking')
           R == Cardinality(Requests)
<1>1. V \in Nat /\ V <= R /\ R \in Nat \ {0} /\ MaxDaily \in Nat /\ counted \in Nat /\ spent \in Nat
  BY RequestSets, PipelineAssumption DEF Checking, Capped
<1>2. W \in Nat /\ W <= R /\ (MaxDaily = 0 => Checking' = {} /\ spent' = 0 /\ W = 0)
  <2>1. CountedToday \in Nat
    BY <1>1 DEF CountedToday
  <2>2. UNCHANGED Checking => W = V
    OBVIOUS
  <2>3. MaxDaily = 0 => Checking = {} /\ spent = 0
    BY DEF Capped
  <2>4. Cardinality({}) = 0
    BY FS_EmptySet
  <2> QED BY <1>1, <2>1, <2>2, <2>3, <2>4
<1>3. /\ spent' <= counted' + R
      /\ counted' + W < MaxDaily + R
  <2>1. CASE ~today
    <3>1. CountedToday = 0 /\ spent + V <= R
      BY <2>1 DEF CountedToday, Capped
    <3> QED BY <1>1, <1>2, <3>1
  <2>2. CASE today
    <3>1. CountedToday = counted /\ spent <= counted + R /\ counted + V < MaxDaily + R
      BY <2>2 DEF CountedToday, Capped
    <3> QED BY <1>1, <1>2, <3>1
  <2> QED BY <2>1, <2>2
<1>4. counted' \in Nat /\ spent' \in Nat
  BY <1>1 DEF CountedToday
<1> QED BY <1>2, <1>3, <1>4 DEF Capped

LEMMA CappedDecide ==
  ASSUME Capped, Shape', NEW r \in Requests, Decide(r),
         \E next \in {"verify", "reinforce", "generate"} : Moves(r, next)
  PROVE  Capped'
<1> USE DEF Capped
<1> DEFINE V == Cardinality(Checking)
           R == Cardinality(Requests)
<1>1. pc[r] = "decide" /\ UNCHANGED spent
  BY DEF Decide
<1>2. \/ UNCHANGED promotion /\ pc'[r] # "verify"
      \/ counted' = CountedToday /\ today' = TRUE /\ pc'[r] # "verify"
      \/ counted' = CountedToday /\ today' = TRUE /\ CountedToday < MaxDaily /\ pc'[r] = "verify"
  <2>1. CASE Convinced(evidence[r]) /\ Whole(evidence[r]) # {}
    <3>1. PICK e \in BestSingle(evidence[r]) :
            /\ Goto(r, IF Checks(e) /\ CountedToday < MaxDaily THEN "verify" ELSE "reinforce")
            /\ IF Checks(e) THEN counted' = CountedToday /\ today' = TRUE
                            ELSE UNCHANGED <<counted, today>>
      BY <2>1 DEF Decide
    <3>2. pc'[r] = IF Checks(e) /\ CountedToday < MaxDaily THEN "verify" ELSE "reinforce"
      BY <3>1 DEF Goto, Shape
    <3> QED BY <1>1, <3>1, <3>2 DEF promotion
  <2>2. CASE ~(Convinced(evidence[r]) /\ Whole(evidence[r]) # {})
    <3>1. Goto(r, "generate") /\ UNCHANGED <<counted, today>>
      BY <2>2 DEF Decide
    <3> QED BY <1>1, <3>1 DEF Goto, Shape, promotion
  <2> QED BY <2>1, <2>2
<1>3. \A q \in Requests \ {r} : pc'[q] = pc[q]
  BY DEF Moves, Shape
<1>4. CASE pc'[r] # "verify"
  <2>1. UNCHANGED Checking
    BY <1>1, <1>3, <1>4 DEF Checking
  <2>2. CASE UNCHANGED promotion
    BY <1>1, <2>1, <2>2 DEF promotion
  <2>3. CASE counted' = CountedToday /\ today' = TRUE
    BY <1>1, <2>1, <2>3, CappedReset
  <2> QED BY <1>2, <1>4, <2>2, <2>3
<1>5. CASE pc'[r] = "verify"
  <2>1. Checking' = Checking \cup {r} /\ r \notin Checking
    BY <1>1, <1>3, <1>5 DEF Checking
  <2>2. Cardinality(Checking') = V + 1 /\ V + 1 <= R
    <3>1. Checking' \in SUBSET Requests
      BY DEF Checking
    <3> QED BY <2>1, <3>1, OneMore, RequestSets DEF Checking
  <2> QED BY <1>1, <1>2, <1>5, <2>2, CappedReset
<1> QED BY <1>4, <1>5

LEMMA CappedVerify ==
  ASSUME Capped, Shape', NEW r \in Requests, Verify(r)
  PROVE  Capped'
<1> USE DEF Capped
<1> DEFINE V == Cardinality(Checking)
           R == Cardinality(Requests)
<1>1. /\ pc[r] = "verify" /\ pc' = [pc EXCEPT ![r] = "reinforce"]
      /\ counted' = counted + 1 /\ spent' = spent + 1 /\ UNCHANGED today
  BY DEF Verify, Goto
<1>2. Checking' = Checking \ {r} /\ r \in Checking
  BY <1>1 DEF Checking, Shape
<1>3. /\ Cardinality(Checking') = Cardinality(Checking) - 1
      /\ Cardinality(Checking) \in Nat /\ Cardinality(Requests) \in Nat
  BY <1>2, OneMore, RequestSets DEF Checking
<1>4. counted' \in Nat /\ spent' \in Nat /\ MaxDaily # 0
  BY <1>1, <1>2
<1>5. spent + V <= R => spent' + Cardinality(Checking') <= R
  BY <1>1, <1>3
<1>6. spent <= counted + R => spent' <= counted' + R
  BY <1>1, <1>3
<1>7. counted + V < MaxDaily + R => counted' + Cardinality(Checking') < MaxDaily + R
  <2>1. MaxDaily \in Nat
    BY PipelineAssumption
  <2> QED BY <1>1, <1>3, <2>1
<1> QED BY <1>1, <1>4, <1>5, <1>6, <1>7

LEMMA CappedNewDay ==
  ASSUME Capped, Shape', NewDay
  PROVE  Capped'
<1>1. Checking' = Checking /\ today' = FALSE /\ spent' = 0 /\ UNCHANGED counted
  BY DEF NewDay, Checking
<1>2. /\ Cardinality(Checking) \in Nat /\ Cardinality(Checking) <= Cardinality(Requests)
      /\ Cardinality(Requests) \in Nat
  BY RequestSets DEF Checking
<1>3. spent' + Cardinality(Checking') <= Cardinality(Requests)
  BY <1>1, <1>2
<1> QED BY <1>1, <1>3 DEF Capped

LEMMA CappedNext == Knowing /\ Capped /\ [Next]_vars => Capped'
<1> SUFFICES ASSUME Knowing, Capped, [Next]_vars PROVE Capped'
  OBVIOUS
<1>1. Shape'
  BY KnowingNext DEF Knowing
<1>2. ASSUME NEW r \in Requests, PipelineStep(r) \/ HandlerStep(r)
      PROVE  Capped'
  <2>1. CASE Layers(r) \/ Stores(r)
    <3>1. /\ UNCHANGED promotion /\ pc[r] # "verify"
          /\ \E next \in PC \ {"verify"} : Moves(r, next)
      BY <2>1, AsideMoves DEF Aside, Capped
    <3> QED BY <1>1, <3>1, CappedAside DEF Moves
  <2>2. CASE Tracks(r)
    <3>1. /\ UNCHANGED promotion /\ pc[r] # "verify"
          /\ \E next \in PC \ {"verify"} : Moves(r, next)
      BY <2>2, TracksMoves DEF Capped
    <3> QED BY <1>1, <3>1, CappedAside DEF Moves
  <2>3. CASE Decide(r)
    BY <1>1, <2>3, KnowingDecides, CappedDecide
  <2>4. CASE Verify(r)
    BY <1>1, <2>4, CappedVerify
  <2> QED BY <1>2, <2>1, <2>2, <2>3, <2>4, PipelineCases
<1>3. ASSUME NEW r \in Requests, NEW m \in Conversations, NEW n \in Space,
             NEW qual \in BOOLEAN, Receive(r, m, n, qual)
      PROVE  Capped'
  BY <1>1, <1>3, CappedAside DEF Receive, Goto, PC
<1>4. CASE \/ \E i \in Ids, m \in Elsewhere, emb \in BOOLEAN : StoreElsewhere(i, m, emb)
           \/ \E i \in Ids : Invalidate(i)
           \/ RecoveryTimeout \/ UNCHANGED vars
  <2>1. UNCHANGED <<promotion, pc>>
    BY <1>4 DEF StoreElsewhere, Invalidate, RecoveryTimeout, vars
  <2> QED BY <1>1, <2>1, CappedAside
<1>5. CASE NewDay
  BY <1>1, <1>5, CappedNewDay
<1> QED BY <1>2, <1>3, <1>4, <1>5 DEF Next

\* The daily cap is exceeded by less than two checks for each pipeline:
\* _can_verify_today admits a check that _verify_cached_answer counts later.
THEOREM PromotionsAreBounded == Spec => []PromotionsBounded
  BY CappedBound, KnowingInit, KnowingNext, CappedInit, CappedNext, PTL DEF Spec

-----------------------------------------------------------------------------
(***************************************************************************)
(* The types of the tables and of what the layers offer.                   *)
(***************************************************************************)
LEMMA BreakerTypes ==
  /\ Db!NewBreaker \in Db!Breaker /\ Embed!NewBreaker \in Embed!Breaker
  /\ \A b \in Db!Breaker :
       /\ Db!Admit(b) \in Db!Breaker /\ Db!Success(b) \in Db!Breaker
       /\ Db!Failure(b) \in Db!Breaker /\ [b EXCEPT !.due = TRUE] \in Db!Breaker
  /\ \A b \in Embed!Breaker :
       /\ Embed!Admit(b) \in Embed!Breaker /\ Embed!Success(b) \in Embed!Breaker
       /\ Embed!Failure(b) \in Embed!Breaker /\ [b EXCEPT !.due = TRUE] \in Embed!Breaker
<1>0. /\ DbThreshold \in Nat \ {0} /\ EmbedThreshold \in Nat \ {0}
      /\ 0 \in 0 .. DbThreshold /\ 0 \in 0 .. EmbedThreshold /\ 0 \in 0 .. 2
  BY PipelineAssumption
<1>1. ASSUME NEW b \in Db!Breaker
      PROVE  /\ Db!Admit(b) \in Db!Breaker /\ Db!Success(b) \in Db!Breaker
             /\ Db!Failure(b) \in Db!Breaker /\ [b EXCEPT !.due = TRUE] \in Db!Breaker
  <2>1. ASSUME NEW c \in Db!Breaker
        PROVE  /\ Db!Opened(c) \in Db!Breaker /\ Db!HalfOpened(c) \in Db!Breaker
               /\ Db!Closed(c) \in Db!Breaker
               /\ [c EXCEPT !.failures = 0, !.calls = 0] \in Db!Breaker
    <3>1. Db!Opened(c) \in Db!Breaker /\ Db!HalfOpened(c) \in Db!Breaker
      BY <1>0 DEF Db!Opened, Db!HalfOpened, Db!Breaker
    <3>2. Db!Closed(c) \in Db!Breaker /\ [c EXCEPT !.failures = 0, !.calls = 0] \in Db!Breaker
      BY <1>0 DEF Db!Closed, Db!Breaker
    <3> QED BY <3>1, <3>2
  <2>2. Db!Counted(b) \in Db!Breaker
    BY <1>0 DEF Db!Counted, Db!Breaker
  <2>3. Db!Admit(b) \in Db!Breaker /\ Db!Success(b) \in Db!Breaker
    BY <2>1 DEF Db!Admit, Db!Success
  <2>4. Db!Failure(b) \in Db!Breaker
    BY <2>1, <2>2 DEF Db!Failure
  <2>5. [b EXCEPT !.due = TRUE] \in Db!Breaker
    BY DEF Db!Breaker
  <2> QED BY <2>3, <2>4, <2>5
<1>2. ASSUME NEW b \in Embed!Breaker
      PROVE  /\ Embed!Admit(b) \in Embed!Breaker /\ Embed!Success(b) \in Embed!Breaker
             /\ Embed!Failure(b) \in Embed!Breaker /\ [b EXCEPT !.due = TRUE] \in Embed!Breaker
  <2>1. ASSUME NEW c \in Embed!Breaker
        PROVE  /\ Embed!Opened(c) \in Embed!Breaker /\ Embed!HalfOpened(c) \in Embed!Breaker
               /\ Embed!Closed(c) \in Embed!Breaker
               /\ [c EXCEPT !.failures = 0, !.calls = 0] \in Embed!Breaker
    <3>1. Embed!Opened(c) \in Embed!Breaker /\ Embed!HalfOpened(c) \in Embed!Breaker
      BY <1>0 DEF Embed!Opened, Embed!HalfOpened, Embed!Breaker
    <3>2. Embed!Closed(c) \in Embed!Breaker /\ [c EXCEPT !.failures = 0, !.calls = 0] \in Embed!Breaker
      BY <1>0 DEF Embed!Closed, Embed!Breaker
    <3> QED BY <3>1, <3>2
  <2>2. Embed!Counted(b) \in Embed!Breaker
    BY <1>0 DEF Embed!Counted, Embed!Breaker
  <2>3. Embed!Admit(b) \in Embed!Breaker /\ Embed!Success(b) \in Embed!Breaker
    BY <2>1 DEF Embed!Admit, Embed!Success
  <2>4. Embed!Failure(b) \in Embed!Breaker
    BY <2>1, <2>2 DEF Embed!Failure
  <2>5. [b EXCEPT !.due = TRUE] \in Embed!Breaker
    BY DEF Embed!Breaker
  <2> QED BY <2>3, <2>4, <2>5
<1>3. Db!NewBreaker \in Db!Breaker /\ Embed!NewBreaker \in Embed!Breaker
  BY <1>0 DEF Db!NewBreaker, Db!Breaker, Embed!NewBreaker, Embed!Breaker
<1> QED BY <1>1, <1>2, <1>3

\* A counter of writes stays below its interval.
LEMMA CounterTypes ==
  ASSUME NEW interval \in Nat \ {0}, NEW n \in 0 .. interval - 1
  PROVE  CountWrite(n, interval) \in 0 .. interval - 1
  BY DEF CountWrite

LEMMA DownToKeeps ==
  ASSUME NEW S, NEW limit, NEW T \in DownTo(S, limit)
  PROVE  T \subseteq S
  BY DEF DownTo, kSubset

\* The types of what TypeOK says beyond Shape, Tracked and Capped.
Stock ==
  /\ rows \in [Ids -> Row \cup {NoRow}]
  /\ links \in [Ids \X Ids -> Link \cup {NoLink}]
  /\ facts \subseteq Fact
  /\ writes \in 0 .. EvictionInterval - 1
  /\ factWrites \in 0 .. ScanInterval - 1 /\ linkWrites \in 0 .. ScanInterval - 1
Counters ==
  /\ dbBreaker \in Db!Breaker /\ embedBreaker \in Embed!Breaker
  /\ faults \in 0 .. MaxFaults
Asked ==
  /\ exchanged \subseteq Conversations
  /\ space \in [Requests -> Space] /\ standalone \in [Requests -> BOOLEAN]
  /\ evidence \in [Requests -> SUBSET Evidence]
  /\ \A r \in Requests : pc[r] \in {"store_facts", "store_links"} => found[r] \in Ids

\* An answer in the table is about a question.
LEMMA AboutTypes ==
  ASSUME Stock, NEW i \in Stored
  PROVE  rows[i] \in Row /\ About(i) \in Questions
<1>1. rows[i] \in Row
  BY DEF Stock, Stored
<1>2. rows[i].messages \in Seq(Questions) /\ rows[i].messages # <<>>
  BY <1>1 DEF Row
<1>3. Len(rows[i].messages) \in 1 .. Len(rows[i].messages)
  BY <1>2
<1> QED BY <1>1, <1>2, <1>3 DEF About

LEMMA QuestionTypes ==
  ASSUME Shape, NEW r \in Requests, pc[r] # "idle"
  PROVE  asked[r] \in Seq(Questions) /\ asked[r] # <<>> /\ Question(r) \in Questions
<1>1. asked[r] \in Seq(Questions) /\ asked[r] # <<>>
  BY PipelineAssumption DEF Shape
<1>2. Len(asked[r]) \in 1 .. Len(asked[r])
  BY <1>1
<1> QED BY <1>1, <1>2 DEF Question

LEMMA CountersNext == Counters /\ [Next]_vars => Counters'
<1> SUFFICES ASSUME Counters, [Next]_vars PROVE Counters'
  OBVIOUS
<1>0. /\ MaxFaults \in Nat /\ faults \in 0 .. MaxFaults
      /\ faults < MaxFaults /\ faults' = faults + 1 => faults' \in 0 .. MaxFaults
  BY PipelineAssumption DEF Counters
<1>9. /\ dbBreaker \in Db!Breaker /\ Db!Admit(dbBreaker) \in Db!Breaker
      /\ Db!Success(Db!Admit(dbBreaker)) \in Db!Breaker
      /\ Db!Failure(Db!Admit(dbBreaker)) \in Db!Breaker
      /\ [dbBreaker EXCEPT !.due = TRUE] \in Db!Breaker
  BY BreakerTypes DEF Counters
<1>8. /\ embedBreaker \in Embed!Breaker /\ Embed!Admit(embedBreaker) \in Embed!Breaker
      /\ Embed!Success(Embed!Admit(embedBreaker)) \in Embed!Breaker
      /\ Embed!Failure(Embed!Admit(embedBreaker)) \in Embed!Breaker
      /\ [embedBreaker EXCEPT !.due = TRUE] \in Embed!Breaker
  BY BreakerTypes DEF Counters
<1> USE <1>0, <1>8, <1>9 DEF Counters
<1>1. ASSUME NEW r \in Requests, PipelineStep(r)
      PROVE  Counters'
  <2>1. CASE ExactLayer(r) \/ ExactLayerFails(r)
    BY <2>1 DEF ExactLayer, ExactLayerFails
  <2>2. CASE SemanticLayer(r) \/ SemanticLayerSkipped(r) \/ SemanticLayerFails(r)
    BY <2>2 DEF SemanticLayer, SemanticLayerSkipped, SemanticLayerFails, breakers
  <2>3. CASE FactLayer(r) \/ FactLayerSkipped(r)
    BY <2>3 DEF FactLayer, FactLayerSkipped, breakers
  <2>4. CASE LayerRaises(r)
    BY <2>4 DEF LayerRaises, breakers
  <2>5. CASE ComposableLayer(r) \/ FuzzyLayer(r) \/ LinkLayer(r)
    BY <2>5 DEF ComposableLayer, FuzzyLayer, LinkLayer, breakers
  <2>6. CASE Tracks(r) \/ FindSession(r)
    BY <2>6 DEF Tracks, TouchSession, EnterSession, TrimSessions, PopSession, RecordExchange,
                FindSession, Untouched, breakers
  <2>7. CASE Decide(r) \/ Verify(r) \/ Reinforce(r)
    BY <2>7 DEF Decide, Verify, Reinforce, breakers
  <2> QED BY <1>1, <2>1, <2>2, <2>3, <2>4, <2>5, <2>6, <2>7 DEF PipelineStep, Tracks
<1>2. ASSUME NEW r \in Requests, HandlerStep(r)
      PROVE  Counters'
  BY <1>2 DEF HandlerStep, StoreAnswer, Embeds, GenerateError, StoreFacts, StoreLinks, breakers
<1>3. CASE RecoveryTimeout
  BY <1>3 DEF RecoveryTimeout
<1>4. ASSUME NEW i \in Ids, NEW m \in Elsewhere, NEW emb \in BOOLEAN, StoreElsewhere(i, m, emb)
      PROVE  Counters'
  BY <1>4 DEF StoreElsewhere, Embeds, breakers
<1>5. CASE \/ \E r \in Requests, m \in Conversations, n \in Space, qual \in BOOLEAN :
                Receive(r, m, n, qual)
           \/ \E i \in Ids : Invalidate(i)
           \/ NewDay \/ UNCHANGED vars
  BY <1>5 DEF Receive, Invalidate, NewDay, vars, breakers
<1> QED BY <1>1, <1>2, <1>3, <1>4, <1>5 DEF Next

\* (The interval is a name here, so that the lemmas are cited without arithmetic.)
Thousandths == 0 .. 1000

LEMMA EvidenceTypes ==
  ASSUME NEW layer \in Layer, NEW conf \in Thousandths, NEW i \in Ids \cup {NoId}
  PROVE  Found(layer, conf, i) \in Evidence
  BY DEF Found, Evidence, Thousandths

LEMMA EvidenceExcept ==
  ASSUME NEW e \in Evidence
  PROVE  /\ \A s \in Thousandths : [e EXCEPT !.sim = s] \in Evidence
         /\ \A p \in Ids \X Ids : [e EXCEPT !.via = p] \in Evidence
<1>1. \A s \in Thousandths : [e EXCEPT !.sim = s] \in Evidence
  BY DEF Evidence, Thousandths
<1>2. \A p \in Ids \X Ids : [e EXCEPT !.via = p] \in Evidence
  BY DEF Evidence
<1> QED BY <1>1, <1>2

LEMMA ConfidenceTypes ==
  ASSUME NEW s \in Thousandths
  PROVE  SemanticConfidence(s) \in Thousandths /\ FactConfidence(s) \in Thousandths
<1> USE DEF Thousandths
<1>1. SemanticConfidence(s) \in Thousandths
  BY DEF SemanticConfidence
<1>2. FactConfidence(s) \in Thousandths
  <2>1. FactQuality \in 0 .. 1000
    BY PipelineAssumption
  <2>2. s * FactQuality \in Nat /\ s * FactQuality <= 1000 * 1000
    BY <2>1, SMT
  <2>3. ASSUME NEW x \in Nat, x <= 1000 * 1000
        PROVE  (x * 4) \div 10000 \in 0 .. 1000
    BY <2>3, SMT
  <2> HIDE <2>1
  <2> QED BY <2>2, <2>3, SMT DEF FactConfidence
<1> QED BY <1>1, <1>2

LEMMA SimilarityTypes ==
  ASSUME NEW p \in Questions, NEW q \in Questions
  PROVE  Similarity[<<p, q>>] \in Thousandths
<1>1. Similarity \in [Questions \X Questions -> Thousandths]
  BY PipelineAssumption DEF Thousandths
<1> QED BY <1>1

LEMMA SemanticTypes ==
  ASSUME Stock, Shape, NEW r \in Requests, pc[r] # "idle", NEW S \in SUBSET Stored
  PROVE  SemanticEvidence(Question(r), S) \subseteq Evidence
<1>1. Question(r) \in Questions
  BY QuestionTypes
<1> DEFINE s(i) == Similarity[<<Question(r), About(i)>>]
<1>2. ASSUME NEW i \in S
      PROVE  [Found("semantic", SemanticConfidence(s(i)), i) EXCEPT !.sim = s(i)] \in Evidence
  <2>1. s(i) \in Thousandths /\ i \in Ids
    BY <1>1, AboutTypes, SimilarityTypes DEF Stored
  <2>2. "semantic" \in Layer
    BY DEF Layer
  <2> HIDE DEF s
  <2>3. SemanticConfidence(s(i)) \in Thousandths
    BY <2>1, ConfidenceTypes
  <2>4. Found("semantic", SemanticConfidence(s(i)), i) \in Evidence
    BY <2>1, <2>2, <2>3, EvidenceTypes
  <2> QED BY <2>1, <2>4, EvidenceExcept
<1> QED BY <1>2 DEF SemanticEvidence

LEMMA LinkTypes ==
  ASSUME Stock, NEW S, NEW j \in Reached(S), NEW path \in Paths(S, j)
  PROVE  [Found("link", LinkConfidence(path), j) EXCEPT !.via = path.link] \in Evidence
<1>1. j \in Ids
  BY DEF Reached, Valid, Stored
<1>2. path.link \in Joined /\ path.hop \in {1, 2}
  BY DEF Paths
<1>3. path.link \in Ids \X Ids /\ links[path.link] \in Link
  BY <1>2 DEF Joined, Stock
<1>4. LinkConfidence(path) \in Thousandths
  <2> DEFINE x == links[path.link].sim
             y == links[path.link].strength
  <2>1. x \in 0 .. 1000 /\ y \in 0 .. 5
    BY <1>3 DEF Link
  <2>2. LinkConfidence(path) = IF path.hop = 1 THEN x \div 2 + 50 * y ELSE (x * 15) \div 100
    BY DEF LinkConfidence
  <2> HIDE DEF x, y
  <2>3. x \div 2 + 50 * y \in 0 .. 1000 /\ (x * 15) \div 100 \in 0 .. 1000
    BY <2>1
  <2> QED BY <2>2, <2>3 DEF Thousandths
<1>5. "link" \in Layer
  BY DEF Layer
<1>6. Found("link", LinkConfidence(path), j) \in Evidence
  BY <1>1, <1>4, <1>5, EvidenceTypes
<1> QED BY <1>3, <1>6, EvidenceExcept

LEMMA FactTypes ==
  ASSUME Stock, Shape, NEW r \in Requests, pc[r] # "idle", NEW f \in facts
  PROVE  Found("fact", FactConfidence(Similarity[<<Question(r), f.about>>]), f.source) \in Evidence
<1>1. Question(r) \in Questions
  BY QuestionTypes
<1>2. f.source \in Ids /\ f.about \in Questions
  BY DEF Stock, Fact
<1>3. "fact" \in Layer
  BY DEF Layer
<1> DEFINE s == Similarity[<<Question(r), f.about>>]
<1>4. s \in Thousandths
  BY <1>1, <1>2, SimilarityTypes
<1> HIDE DEF s
<1>5. FactConfidence(s) \in Thousandths
  BY <1>4, ConfidenceTypes
<1>6. Found("fact", FactConfidence(s), f.source) \in Evidence
  BY <1>2, <1>3, <1>5, EvidenceTypes
<1> QED BY <1>6 DEF s

\* What a request is offered has its type.
LEMMA OffersTyped ==
  ASSUME Stock, Shape, NEW r \in Requests, evidence \in [Requests -> SUBSET Evidence],
         Layers(r) \/ Tracks(r)
  PROVE  evidence' \in [Requests -> SUBSET Evidence]
<1> USE DEF Layer
<1>0. ASSUME NEW new \in SUBSET Evidence, Adds(r, new)
      PROVE  evidence' \in [Requests -> SUBSET Evidence]
  BY <1>0 DEF Adds
<1>1. CASE SemanticLayer(r)
  <2>1. \A q, n : \A S \in SemanticMatches(q, n) : S \subseteq Stored
    BY ZenonT(30) DEF SemanticMatches, Best, Valid
  <2>2. PICK S \in SUBSET Stored : Adds(r, SemanticEvidence(Question(r), S))
    BY <1>1, <2>1 DEF SemanticLayer
  <2>3. pc[r] # "idle"
    BY <1>1 DEF SemanticLayer
  <2> QED BY <1>0, <2>2, <2>3, SemanticTypes
<1>2. CASE ComposableLayer(r)
  <2>1. CASE End(r)
    BY <2>1 DEF End
  <2>2. CASE ~End(r)
    <3>1. Adds(r, {Found("composable", 850, i) : i \in PartHits(r)})
      BY <1>2, <2>2 DEF ComposableLayer
    <3>2. PartHits(r) \subseteq Ids
      BY DEF PartHits, PartHit, Exact, Valid, Stored
    <3>3. \A i \in Ids : Found("composable", 850, i) \in Evidence
      BY EvidenceTypes DEF Thousandths
    <3> QED BY <1>0, <3>1, <3>2, <3>3
  <2> QED BY <2>1, <2>2
<1>3. CASE FuzzyLayer(r)
  <2> DEFINE near == {i \in Valid : <<Question(r), About(i)>> \in Fuzzy}
             offers(S) == {Found("fuzzy", 400, i) : i \in
                             {i \in S : space[r] = Public \/ rows[i].space = space[r]}}
  <2>1. PICK S \in Best(near, [i \in near |-> 0], FuzzyMax) : Adds(r, offers(S))
    BY <1>3 DEF FuzzyLayer
  <2>2. S \subseteq Ids
    BY <2>1 DEF Best, Valid, Stored
  <2>3. \A i \in Ids : Found("fuzzy", 400, i) \in Evidence
    BY EvidenceTypes DEF Thousandths
  <2>4. offers(S) \subseteq Evidence
    BY <2>2, <2>3
  <2> HIDE DEF offers
  <2> QED BY <1>0, <2>1, <2>4
<1>4. CASE LinkLayer(r)
  <2> DEFINE S == Linked(r)
             paths == UNION {Paths(S, j) : j \in Reached(S)}
             offer(via, j) == [Found("link", LinkConfidence(via[j]), j)
                                 EXCEPT !.via = via[j].link]
  <2>1. PICK via \in [Reached(S) -> paths] :
          /\ \A j \in Reached(S) : via[j] \in Paths(S, j)
          /\ Adds(r, {offer(via, j) : j \in Reached(S)})
    BY <1>4 DEF LinkLayer
  <2>2. \A j \in Reached(S) : offer(via, j) \in Evidence
    BY <2>1, LinkTypes
  <2> HIDE DEF offer
  <2> QED BY <1>0, <2>1, <2>2
<1>5. CASE FactLayer(r)
  <2> DEFINE score == [f \in facts |-> Similarity[<<Question(r), f.about>>]]
             chosen(S) == {f \in S : /\ score[f] >= 800
                                     /\ space[r] # Public => f.space = space[r]}
             offer(f) == Found("fact", FactConfidence(score[f]), f.source)
  <2>1. PICK S \in Best(facts, score, FactMax) : Adds(r, {offer(f) : f \in chosen(S)})
    BY <1>5 DEF FactLayer
  <2>2. chosen(S) \subseteq facts
    BY <2>1 DEF Best
  <2>3. ASSUME NEW f \in facts
        PROVE  offer(f) \in Evidence
    <3>1. score[f] = Similarity[<<Question(r), f.about>>]
      OBVIOUS
    <3> HIDE DEF score
    <3> QED BY <1>5, <3>1, FactTypes DEF FactLayer
  <2> HIDE DEF offer, chosen
  <2> QED BY <1>0, <2>1, <2>2, <2>3
<1>6. CASE \/ ExactLayer(r) \/ ExactLayerFails(r)
           \/ SemanticLayerSkipped(r) \/ SemanticLayerFails(r)
           \/ FactLayerSkipped(r) \/ FindSession(r) \/ Reinforce(r) \/ StoreFacts(r)
  BY <1>6 DEF ExactLayer, ExactLayerFails, SemanticLayerSkipped, SemanticLayerFails, FactLayerSkipped,
              FindSession, Reinforce, StoreFacts
<1>7. CASE LayerRaises(r) \/ GenerateError(r) \/ StoreLinks(r)
  BY <1>7 DEF LayerRaises, GenerateError, StoreLinks, End
<1>8. CASE Tracks(r)
  <2>1. Found("session", 250, NoId) \in Evidence
    BY EvidenceTypes DEF Thousandths
  <2>2. \A told : GoesOn(r, told) => evidence' \in [Requests -> SUBSET Evidence]
    BY <1>0, <2>1 DEF GoesOn
  <2> QED BY <1>8, <2>2 DEF Tracks, TouchSession, EnterSession, TrimSessions, PopSession,
                            RecordExchange, End
<1> QED BY <1>1, <1>2, <1>3, <1>4, <1>5, <1>6, <1>7, <1>8 DEF Layers

LEMMA StoreTypes ==
  ASSUME Stock, NEW i \in Ids, NEW row \in Row, StoreRow(i, row)
  PROVE  /\ rows' \in [Ids -> Row \cup {NoRow}]
         /\ links' \in [Ids \X Ids -> Link \cup {NoLink}]
         /\ writes' \in 0 .. EvictionInterval - 1
<1>1. Replaced(i, row) \in [Ids -> Row \cup {NoRow}]
  BY DEF Replaced, Stock
<1>2. rows' \in [Ids -> Row \cup {NoRow}]
  BY <1>1 DEF StoreRow
<1>3. links' \in [Ids \X Ids -> Link \cup {NoLink}]
  BY DEF StoreRow, Stock
<1>4. EvictionInterval \in Nat \ {0}
  BY PipelineAssumption
<1>5. writes' \in 0 .. EvictionInterval - 1
  BY <1>4, CounterTypes DEF StoreRow, Stock
<1> QED BY <1>2, <1>3, <1>5

LEMMA LearnedTypes ==
  ASSUME Stock, NEW r \in Requests, evidence \in [Requests -> SUBSET Evidence]
  PROVE  /\ Learned(r) \in [Ids \X Ids -> Link \cup {NoLink}]
         /\ \A table \in LinkEvictions(Learned(r)) : table \in [Ids \X Ids -> Link \cup {NoLink}]
<1>1. ASSUME NEW p \in Ids \X Ids
      PROVE  Learned(r)[p] \in Link \cup {NoLink}
  <2> DEFINE miss == {e \in NearMisses(r) : p \in {<<found[r], e.of>>, <<e.of, found[r]>>}}
  <2>1. Learned(r)[p] = IF miss = {} THEN links[p]
                                     ELSE [sim |-> (CHOOSE e \in miss : TRUE).sim, strength |-> 0]
    BY DEF Learned
  <2>2. CASE miss = {}
    BY <2>1, <2>2 DEF Stock
  <2>3. CASE miss # {}
    <3>1. (CHOOSE e \in miss : TRUE) \in miss
      BY <2>3
    <3>2. \A e \in miss : e.sim \in 0 .. 1000
      BY DEF NearMisses, Evidence
    <3>3. (CHOOSE e \in miss : TRUE).sim \in 0 .. 1000
      BY <3>1, <3>2
    <3> HIDE DEF miss
    <3> QED BY <2>1, <2>3, <3>3 DEF Link
  <2> QED BY <2>2, <2>3
<1>2. Learned(r) \in [Ids \X Ids -> Link \cup {NoLink}]
  <2>1. Learned(r) = [p \in Ids \X Ids |-> Learned(r)[p]]
    BY DEF Learned
  <2> QED BY <1>1, <2>1
<1>3. \A table \in LinkEvictions(Learned(r)) : table \in [Ids \X Ids -> Link \cup {NoLink}]
  BY <1>1 DEF LinkEvictions
<1> QED BY <1>2, <1>3

LEMMA AnswerTypes ==
  ASSUME Shape, Asked, NEW emb \in BOOLEAN
  PROVE  /\ \A r \in Requests : pc[r] # "idle" => Answer(asked[r], space[r], emb, FALSE) \in Row
         /\ \A m \in Elsewhere : Answer(m, Public, emb, TRUE) \in Row
<1>1. ASSUME NEW m \in Seq(Questions) \ {<<>>}, NEW n \in Space, NEW src \in BOOLEAN
      PROVE  Answer(m, n, emb, src) \in Row
  BY DEF Answer, Row
<1>2. \A r \in Requests : pc[r] # "idle" => asked[r] \in Seq(Questions) \ {<<>>}
  BY QuestionTypes
<1>3. \A m \in Elsewhere : m \in Seq(Questions) \ {<<>>}
  BY PipelineAssumption
<1>4. Public \in Space /\ \A r \in Requests : space[r] \in Space
  BY DEF Space, Asked
<1> QED BY <1>1, <1>2, <1>3, <1>4

LEMMA StockNext == Stock /\ Asked /\ Shape /\ [Next]_vars => Stock'
<1> SUFFICES ASSUME Stock, Asked, Shape, [Next]_vars PROVE Stock'
  OBVIOUS
<1>0. EvictionInterval \in Nat \ {0} /\ ScanInterval \in Nat \ {0}
  BY PipelineAssumption
<1>1. ASSUME NEW r \in Requests, StoreFacts(r)
      PROVE  Stock'
  <2>1. CASE UNCHANGED <<facts, factWrites>>
    BY <1>1, <2>1 DEF StoreFacts, Stock
  <2>2. CASE ~UNCHANGED <<facts, factWrites>>
    <3> DEFINE fact == [source |-> found[r], about |-> Question(r), space |-> space[r]]
    <3>1. PICK new \in SUBSET {fact} :
            /\ factWrites' = CountWrite(factWrites, ScanInterval)
            /\ facts' \in IF factWrites' = 0 THEN DownTo(facts \cup new, MaxFacts)
                                             ELSE {facts \cup new}
      BY <1>1, <2>2 DEF StoreFacts
    <3>2. fact \in Fact
      <4>1. found[r] \in Ids /\ space[r] \in Space /\ Question(r) \in Questions
        BY <1>1, QuestionTypes DEF StoreFacts, Asked
      <4> QED BY <4>1 DEF Fact
    <3>3. facts' \subseteq facts \cup new
      BY <3>1, DownToKeeps
    <3>4. factWrites' \in 0 .. ScanInterval - 1
      BY <1>0, <3>1, CounterTypes DEF Stock
    <3> HIDE DEF fact
    <3> QED BY <1>1, <3>2, <3>3, <3>4 DEF StoreFacts, Stock
  <2> QED BY <2>1, <2>2
<1>2. ASSUME NEW r \in Requests, StoreLinks(r)
      PROVE  Stock'
  <2>1. CASE UNCHANGED <<links, linkWrites>>
    BY <1>2, <2>1 DEF StoreLinks, Stock
  <2>2. CASE ~UNCHANGED <<links, linkWrites>>
    <3>1. /\ linkWrites' = CountWrite(linkWrites, ScanInterval)
          /\ links' \in LinkEvictions(Learned(r)) \cup {Learned(r)}
      BY <1>2, <2>2 DEF StoreLinks
    <3>2. linkWrites' \in 0 .. ScanInterval - 1
      BY <1>0, <3>1, CounterTypes DEF Stock
    <3>3. links' \in [Ids \X Ids -> Link \cup {NoLink}]
      BY <3>1, LearnedTypes DEF Asked
    <3> QED BY <1>2, <3>2, <3>3 DEF StoreLinks, Stock
  <2> QED BY <2>1, <2>2
<1>3. ASSUME NEW r \in Requests, Reinforce(r)
      PROVE  Stock'
  <2>1. \A l \in Link : Reinforced(l) \in Link
    BY DEF Reinforced, Link
  <2>2. links' \in [Ids \X Ids -> Link \cup {NoLink}]
    BY <1>3, <2>1 DEF Reinforce, Stock, Joined
  <2> QED BY <1>3, <2>2 DEF Reinforce, Stock
<1>4. ASSUME NEW r \in Requests, Layers(r), ~StoreFacts(r), ~StoreLinks(r), ~Reinforce(r)
      PROVE  UNCHANGED tables
  BY <1>4 DEF Layers, ExactLayer, ExactLayerFails, SemanticLayer, SemanticLayerSkipped,
              SemanticLayerFails, ComposableLayer, FuzzyLayer, LinkLayer, FactLayer,
              FactLayerSkipped, LayerRaises, FindSession, GenerateError, Untouched
<1>5. ASSUME NEW r \in Requests, Tracks(r) \/ Decide(r) \/ Verify(r)
      PROVE  UNCHANGED tables
  BY <1>5 DEF Tracks, TouchSession, EnterSession, TrimSessions, PopSession, RecordExchange,
              Decide, Verify, Untouched
<1>6. ASSUME NEW r \in Requests, Stores(r)
      PROVE  Stock'
  <2>1. PICK i \in Ids, emb \in BOOLEAN : StoreAnswer(r, i, emb)
    BY <1>6 DEF Stores
  <2>2. /\ StoreRow(i, Answer(asked[r], space[r], emb, FALSE))
        /\ pc[r] # "idle" /\ UNCHANGED <<facts, factWrites, linkWrites>>
    BY <2>1 DEF StoreAnswer
  <2>3. Answer(asked[r], space[r], emb, FALSE) \in Row
    BY <2>2, AnswerTypes
  <2> QED BY <2>2, <2>3, StoreTypes DEF Stock
<1>7. ASSUME NEW i \in Ids, NEW m \in Elsewhere, NEW emb \in BOOLEAN, StoreElsewhere(i, m, emb)
      PROVE  Stock'
  <2>1. /\ StoreRow(i, Answer(m, Public, emb, TRUE)) /\ Answer(m, Public, emb, TRUE) \in Row
        /\ UNCHANGED <<facts, factWrites, linkWrites>>
    BY <1>7, AnswerTypes DEF StoreElsewhere
  <2> QED BY <2>1, StoreTypes DEF Stock
<1>8. ASSUME NEW i \in Ids, Invalidate(i)
      PROVE  Stock'
  <2>1. rows[i] \in Row
    BY <1>8 DEF Invalidate, Valid, Stored, Stock
  <2>2. [rows[i] EXCEPT !.valid = FALSE] \in Row
    BY <2>1 DEF Row
  <2>3. rows' = [rows EXCEPT ![i] = [rows[i] EXCEPT !.valid = FALSE]]
    BY <1>8 DEF Invalidate
  <2> QED BY <1>8, <2>2, <2>3 DEF Invalidate, Stock
<1>9. CASE \/ \E r \in Requests, m \in Conversations, n \in Space, qual \in BOOLEAN :
                Receive(r, m, n, qual)
           \/ NewDay \/ RecoveryTimeout \/ UNCHANGED vars
  <2>1. UNCHANGED tables
    BY <1>9 DEF Receive, NewDay, RecoveryTimeout, vars
  <2> QED BY <2>1 DEF Stock, tables
<1>10. UNCHANGED tables => Stock'
  BY DEF Stock, tables
<1> QED BY <1>1, <1>2, <1>3, <1>4, <1>5, <1>6, <1>7, <1>8, <1>9, <1>10, PipelineCases DEF Next

Storing == {"store_facts", "store_links"}

\* A step of a request ends it or leaves its input alone; only one that stores
\* an answer goes on to store its facts.
LEMMA StepsInput ==
  ASSUME Shape, NEW r \in Requests, PipelineStep(r) \/ HandlerStep(r)
  PROVE  /\ \/ UNCHANGED <<space, standalone>>
            \/ /\ space' = [space EXCEPT ![r] = Public]
               /\ standalone' = [standalone EXCEPT ![r] = TRUE]
         /\ \/ \E next \in PC \ Storing : Goto(r, next)
            \/ StoreFacts(r) \/ Stores(r)
<1> USE DEF PC, Storing, Goto, input
<1>1. CASE ExactLayer(r) \/ ExactLayerFails(r)
  BY <1>1 DEF ExactLayer, ExactLayerFails
<1>2. CASE SemanticLayer(r) \/ SemanticLayerSkipped(r) \/ SemanticLayerFails(r)
  BY <1>2 DEF SemanticLayer, SemanticLayerSkipped, SemanticLayerFails
<1>3. CASE ComposableLayer(r)
  BY <1>3 DEF ComposableLayer, End
<1>4. CASE FuzzyLayer(r) \/ LinkLayer(r) \/ FactLayer(r) \/ FactLayerSkipped(r)
  BY <1>4 DEF FuzzyLayer, LinkLayer, FactLayer, FactLayerSkipped
<1>5. CASE LayerRaises(r) \/ GenerateError(r) \/ StoreLinks(r) \/ RecordExchange(r)
  BY <1>5 DEF LayerRaises, GenerateError, StoreLinks, RecordExchange, End
<1>6. CASE FindSession(r) \/ EnterSession(r) \/ TrimSessions(r)
  BY <1>6 DEF FindSession, EnterSession, TrimSessions, GoesOn, Keeps
<1>7. CASE TouchSession(r) \/ PopSession(r)
  BY <1>7 DEF TouchSession, PopSession, GoesOn, Keeps, End
<1>8. CASE Decide(r) \/ Verify(r) \/ Reinforce(r)
  BY <1>8 DEF Decide, Verify, Reinforce
<1>9. CASE Stores(r) \/ StoreFacts(r)
  BY <1>9 DEF Stores, StoreAnswer, StoreFacts
<1> HIDE DEF PC, Storing, Goto, input
<1> QED
  BY <1>1, <1>2, <1>3, <1>4, <1>5, <1>6, <1>7, <1>8, <1>9 DEF PipelineStep, HandlerStep, Stores

LEMMA AskedNext == Stock /\ Asked /\ Knowing /\ Tracked /\ [Next]_vars => Asked'
<1> SUFFICES ASSUME Stock, Asked, Knowing, Tracked, [Next]_vars PROVE Asked'
  OBVIOUS
<1>0. Shape /\ Public \in Space
  BY DEF Knowing, Space
<1>1. ASSUME NEW r \in Requests, PipelineStep(r) \/ HandlerStep(r)
      PROVE  Asked'
  <2>1. space' \in [Requests -> Space] /\ standalone' \in [Requests -> BOOLEAN]
    BY <1>0, <1>1, StepsInput DEF Asked
  <2>2. evidence' \in [Requests -> SUBSET Evidence]
    <3>1. CASE Layers(r) \/ Tracks(r)
      BY <1>0, <3>1, OffersTyped DEF Asked
    <3>2. CASE Stores(r) \/ Decide(r) \/ Verify(r)
      BY <3>2 DEF Stores, StoreAnswer, Decide, Verify, Asked
    <3> QED BY <1>1, <3>1, <3>2, PipelineCases
  <2>3. exchanged' \subseteq Conversations
    <3>1. CASE Tracks(r)
      <4>1. pc[r] = "record" => held[r] \in Conversations \cup {Lost}
        BY DEF Tracked, Holding, Shape
      <4> QED BY <3>1, <4>1 DEF Tracks, TouchSession, EnterSession, TrimSessions, PopSession,
                                RecordExchange, tracker, Asked
    <3>2. CASE Layers(r) \/ Stores(r)
      BY <1>0, <3>2, AsideMoves DEF Aside, tracker, Asked
    <3>3. CASE Decide(r) \/ Verify(r)
      BY <3>3 DEF Decide, Verify, tracker, Asked
    <3> QED BY <1>1, <3>1, <3>2, <3>3, PipelineCases
  <2>4. \A q \in Requests : pc'[q] \in Storing => found'[q] \in Ids
    <3>1. \A q \in Requests \ {r} : pc'[q] = pc[q] /\ found'[q] = found[q]
      <4>1. CASE Layers(r)
        BY <1>0, <4>1, AsideMoves, LayersOffer DEF Aside, Moves, Shape
      <4>2. CASE Tracks(r)
        BY <1>0, <4>2, TracksMoves DEF Moves, Shape
      <4>3. CASE Stores(r) \/ Decide(r) \/ Verify(r)
        BY <1>0, <4>3 DEF Stores, StoreAnswer, Decide, Verify, Goto, Shape
      <4> QED BY <1>1, <4>1, <4>2, <4>3, PipelineCases
    <3>2. pc'[r] \in Storing => found'[r] \in Ids
      <4>1. CASE StoreFacts(r)
        BY <4>1 DEF StoreFacts, Asked
      <4>2. CASE Stores(r)
        BY <1>0, <4>2 DEF Stores, StoreAnswer, Shape
      <4>3. CASE \E next \in PC \ Storing : Goto(r, next)
        BY <1>0, <4>3 DEF Goto, Shape
      <4> QED BY <1>0, <1>1, <4>1, <4>2, <4>3, StepsInput
    <3> QED BY <3>1, <3>2 DEF Asked, Storing
  <2> QED BY <2>1, <2>2, <2>3, <2>4 DEF Asked, Storing
<1>2. ASSUME NEW r \in Requests, NEW m \in Conversations, NEW n \in Space,
             NEW qual \in BOOLEAN, Receive(r, m, n, qual)
      PROVE  Asked'
  BY <1>0, <1>2 DEF Receive, Goto, Asked, Shape, tracker
<1>3. CASE \/ \E i \in Ids, m \in Elsewhere, emb \in BOOLEAN : StoreElsewhere(i, m, emb)
           \/ \E i \in Ids : Invalidate(i)
           \/ NewDay \/ RecoveryTimeout \/ UNCHANGED vars
  <2>1. UNCHANGED <<tracker, pc, input, evidence, found>>
    BY <1>3 DEF StoreElsewhere, Invalidate, NewDay, RecoveryTimeout, vars
  <2> QED BY <2>1 DEF tracker, input, Asked
<1> QED BY <1>1, <1>2, <1>3 DEF Next

\* Every variable keeps its type.
Typed == Knowing /\ Tracked /\ Capped /\ Stock /\ Counters /\ Asked

LEMMA TypedInit == Init => Typed
<1> SUFFICES ASSUME Init PROVE Typed
  OBVIOUS
<1>1. EvictionInterval \in Nat \ {0} /\ ScanInterval \in Nat \ {0} /\ MaxFaults \in Nat
  BY PipelineAssumption
<1>2. Stock
  BY <1>1 DEF Init, Stock
<1>3. Counters
  BY <1>1, BreakerTypes DEF Init, Counters
<1>4. Asked
  BY DEF Init, Asked, Space
<1> QED BY <1>2, <1>3, <1>4, KnowingInit, TrackedInit, CappedInit DEF Typed

LEMMA TypedNext == Typed /\ [Next]_vars => Typed'
<1> SUFFICES ASSUME Typed, [Next]_vars PROVE Typed'
  OBVIOUS
<1>1. Shape
  BY DEF Typed, Knowing
<1> QED BY <1>1, KnowingNext, TrackedNext, CappedNext, StockNext, CountersNext, AskedNext DEF Typed

LEMMA TypedOK == Typed => TypeOK
  BY DEF Typed, Knowing, Shape, Tracked, Capped, Stock, Counters, Asked, TypeOK

\* The variables keep their types.
THEOREM TypeCorrect == Spec => []TypeOK
  BY TypedInit, TypedNext, TypedOK, PTL DEF Spec

-----------------------------------------------------------------------------
(***************************************************************************)
(* Namespaces.                                                             *)
(***************************************************************************)
InScope(r, e) ==
  /\ e.layer \in {"semantic", "composable", "fuzzy", "fact"}
  /\ e.of \in Stored /\ space[r] # Public
  => \/ rows[e.of].space = space[r]
     \/ e.layer = "semantic" /\ space[r] \in Fallback

\* A fact is of the namespace of its answer, as long as that is in the table;
\* the answer a request has just stored is of its namespace.
Owned ==
  /\ \A f \in facts : f.source \in Stored => rows[f.source].space = f.space
  /\ \A r \in Requests : pc[r] = "store_facts" /\ found[r] \in Stored =>
       rows[found[r]].space = space[r]
Scoping == ScopedEvidence /\ Owned

\* What a layer adds is in the scope of the request.
LEMMA LayersInScope ==
  ASSUME Typed, Scoping, NEW r \in Requests, Layers(r)
  PROVE  \A e \in evidence'[r] \ evidence[r] : InScope(r, e)
<1> USE DEF InScope
<1>0. evidence = [q \in Requests |-> evidence[q]]
  BY DEF Typed, Knowing, Shape
<1>1. ASSUME NEW new, Adds(r, new), \A e \in new : InScope(r, e)
      PROVE  \A e \in evidence'[r] \ evidence[r] : InScope(r, e)
  BY <1>0, <1>1 DEF Adds
<1> HIDE DEF InScope
<1>2. CASE SemanticLayer(r)
  <2> DEFINE q == Question(r)
             own == SemanticMatches(q, space[r])
  <2>1. PICK S \in IF own = {{}} /\ space[r] \in Fallback
                     THEN SemanticMatches(q, Public) ELSE own :
          Adds(r, SemanticEvidence(q, S))
    BY <1>2 DEF SemanticLayer
  <2>2. \A e \in SemanticEvidence(q, S) : e.layer = "semantic" /\ e.of \in S
    BY DEF SemanticEvidence, Found
  <2>3. \A T \in own : \A i \in T : space[r] # Public => rows[i].space = space[r]
    <3>1. ASSUME NEW T \in own, NEW i \in T, space[r] # Public
          PROVE  rows[i].space = space[r]
      BY <3>1, ZenonT(30) DEF SemanticMatches, Best
    <3> QED BY <3>1
  <2> HIDE DEF own
  <2>4. \A i \in S : space[r] # Public =>
          rows[i].space = space[r] \/ space[r] \in Fallback
    BY <2>1, <2>3
  <2>5. \A e \in SemanticEvidence(q, S) : InScope(r, e)
    BY <2>2, <2>4 DEF InScope
  <2> QED BY <1>1, <2>1, <2>5
<1>3. CASE ComposableLayer(r)
  <2>1. CASE End(r)
    BY <1>0, <2>1 DEF End
  <2>2. CASE ~End(r)
    <3>1. Adds(r, {Found("composable", 850, i) : i \in PartHits(r)})
      BY <1>3, <2>2 DEF ComposableLayer
    <3>2. \A i \in PartHits(r) : rows[i].space = space[r]
      BY DEF PartHits, PartHit, Exact
    <3>3. \A e \in {Found("composable", 850, i) : i \in PartHits(r)} : InScope(r, e)
      BY <3>2 DEF InScope, Found
    <3> QED BY <1>1, <3>1, <3>3
  <2> QED BY <2>1, <2>2
<1>4. CASE FuzzyLayer(r)
  <2> DEFINE near == {i \in Valid : <<Question(r), About(i)>> \in Fuzzy}
             offers(S) == {Found("fuzzy", 400, i) : i \in
                             {i \in S : space[r] = Public \/ rows[i].space = space[r]}}
  <2>1. PICK S \in Best(near, [i \in near |-> 0], FuzzyMax) : Adds(r, offers(S))
    BY <1>4 DEF FuzzyLayer
  <2>2. \A e \in offers(S) : InScope(r, e)
    BY DEF Found, InScope
  <2> HIDE DEF offers
  <2> QED BY <1>1, <2>1, <2>2
<1>5. CASE LinkLayer(r)
  <2> DEFINE S == Linked(r)
             paths == UNION {Paths(S, j) : j \in Reached(S)}
             offers(via) == {[Found("link", LinkConfidence(via[j]), j)
                                EXCEPT !.via = via[j].link] : j \in Reached(S)}
  <2>1. PICK via \in [Reached(S) -> paths] : Adds(r, offers(via))
    BY <1>5 DEF LinkLayer
  <2>2. \A e \in offers(via) : InScope(r, e)
    BY DEF Found, InScope
  <2> HIDE DEF offers
  <2> QED BY <1>1, <2>1, <2>2
<1>6. CASE FactLayer(r)
  <2> DEFINE score == [f \in facts |-> Similarity[<<Question(r), f.about>>]]
             chosen(S) == {f \in S : /\ score[f] >= 800
                                     /\ space[r] # Public => f.space = space[r]}
             offer(f) == Found("fact", FactConfidence(score[f]), f.source)
  <2>1. PICK S \in Best(facts, score, FactMax) : Adds(r, {offer(f) : f \in chosen(S)})
    BY <1>6 DEF FactLayer
  <2>2. chosen(S) \subseteq facts /\ \A f \in chosen(S) : space[r] # Public => f.space = space[r]
    BY <2>1 DEF Best
  <2>3. \A f \in facts : offer(f).of = f.source
    BY DEF Found
  <2>4. \A f \in facts : f.source \in Stored => rows[f.source].space = f.space
    BY DEF Scoping, Owned
  <2> HIDE DEF offer, chosen
  <2>5. \A e \in {offer(f) : f \in chosen(S)} : InScope(r, e)
    BY <2>2, <2>3, <2>4 DEF InScope
  <2> QED BY <1>1, <2>1, <2>5
<1>7. CASE \/ ExactLayer(r) \/ ExactLayerFails(r)
           \/ SemanticLayerSkipped(r) \/ SemanticLayerFails(r)
           \/ FactLayerSkipped(r) \/ FindSession(r) \/ Reinforce(r) \/ StoreFacts(r)
  BY <1>7 DEF ExactLayer, ExactLayerFails, SemanticLayerSkipped, SemanticLayerFails, FactLayerSkipped,
              FindSession, Reinforce, StoreFacts
<1>8. CASE LayerRaises(r) \/ GenerateError(r) \/ StoreLinks(r)
  BY <1>0, <1>8 DEF LayerRaises, GenerateError, StoreLinks, End
<1> QED BY <1>2, <1>3, <1>4, <1>5, <1>6, <1>7, <1>8 DEF Layers

LEMMA ScopingInit == Init => Scoping
  BY DEF Init, Scoping, ScopedEvidence, Owned

\* While no row comes under an id that was free, what was in scope stays so.
LEMMA ScopingKept ==
  ASSUME Scoping, \A i \in Stored' : i \in Stored /\ rows'[i].space = rows[i].space,
         facts' \subseteq facts, UNCHANGED <<space, evidence, found>>,
         \A r \in Requests : pc'[r] = "store_facts" => pc[r] = "store_facts"
  PROVE  Scoping'
<1>1. ScopedEvidence'
  BY DEF Scoping, ScopedEvidence
<1>2. Owned'
  BY DEF Scoping, Owned
<1> QED BY <1>1, <1>2 DEF Scoping

\* A new row comes under an id nothing refers to, so what was in scope stays so.
LEMMA ScopingStores ==
  ASSUME Scoping, Typed, NEW i \in Ids, NEW row, StoreRow(i, row),
         UNCHANGED <<facts, space, evidence>>,
         \/ UNCHANGED <<pc, found>>
         \/ \E r \in Requests : /\ pc' = [pc EXCEPT ![r] = "store_facts"]
                                /\ found' = [found EXCEPT ![r] = i] /\ row.space = space[r]
  PROVE  Scoping'
<1>1. /\ \A f \in facts : f.source # i
      /\ \A q \in Requests : found[q] # i /\ \A e \in evidence[q] : e.of # i
  BY DEF StoreRow, Fresh
<1>2. /\ \A j \in Ids \ {i} : rows'[j] \in {NoRow, rows[j]}
      /\ rows'[i] \in {NoRow, row}
  <2>1. \A j \in Ids \ {i} : Replaced(i, row)[j] \in {NoRow, rows[j]}
    BY DEF Replaced
  <2>2. Replaced(i, row)[i] = row
    BY DEF Replaced
  <2> QED BY <2>1, <2>2 DEF StoreRow
<1>3. \A j \in Stored' : j # i => j \in Stored /\ rows'[j].space = rows[j].space
  BY <1>2 DEF Stored
<1>4. ScopedEvidence'
  BY <1>1, <1>3 DEF Scoping, ScopedEvidence
<1>5. \A f \in facts : f.source \in Stored' => rows'[f.source].space = f.space
  BY <1>1, <1>3 DEF Scoping, Owned
<1>6. \A q \in Requests : pc'[q] = "store_facts" /\ found'[q] \in Stored' =>
        rows'[found'[q]].space = space[q]
  <2>1. Shape
    BY DEF Typed, Knowing
  <2>2. i \in Stored' => rows'[i] = row
    BY <1>2 DEF Stored
  <2> QED BY <1>1, <1>3, <2>1, <2>2 DEF Scoping, Owned, Shape
<1> QED BY <1>4, <1>5, <1>6 DEF Scoping, Owned

LEMMA ScopingLayers ==
  ASSUME Scoping, Typed, NEW r \in Requests, Layers(r)
  PROVE  Scoping'
<1>0. Shape
  BY DEF Typed, Knowing
<1>1. UNCHANGED <<rows, Stored>>
  BY <1>0, LayersOffer DEF Stored
<1>2. \A q \in Requests \ {r} : pc'[q] = pc[q] /\ found'[q] = found[q]
                                /\ evidence'[q] = evidence[q] /\ space'[q] = space[q]
  <2>1. PipelineStep(r) \/ HandlerStep(r)
    BY DEF Layers, PipelineStep, HandlerStep
  <2> QED BY <1>0, <2>1, AsideMoves, LayersOffer, StepsInput DEF Aside, Moves, Shape, Typed, Asked
<1>3. \/ space'[r] = space[r]
      \/ space'[r] = Public /\ pc'[r] = "idle" /\ evidence'[r] = {}
  <2>1. CASE End(r)
    BY <1>0, <2>1 DEF End, Goto, Shape, Typed, Asked
  <2>2. CASE ~End(r)
    BY <2>2 DEF Layers, ExactLayer, ExactLayerFails, SemanticLayer, SemanticLayerSkipped,
                SemanticLayerFails, ComposableLayer, FuzzyLayer, LinkLayer, FactLayer,
                FactLayerSkipped, LayerRaises, FindSession, Reinforce, GenerateError, StoreFacts,
                StoreLinks, Keeps, input
  <2> QED BY <2>1, <2>2
<1>4. ScopedEvidence'
  <2>1. \A e \in evidence'[r] : InScope(r, e)
    BY LayersInScope DEF InScope, Scoping, ScopedEvidence
  <2> QED BY <1>1, <1>2, <1>3, <2>1 DEF InScope, Scoping, ScopedEvidence
<1>5. pc'[r] # "store_facts"
  <2>1. \/ \E next \in PC \ Storing : Goto(r, next)
        \/ StoreFacts(r)
        \/ LayerRaises(r) \/ GenerateError(r)
    <3>1. CASE Stores(r)
      <4>1. pc[r] = "generate"
        BY <3>1 DEF Stores, StoreAnswer
      <4> QED BY <4>1 DEF Layers, ExactLayer, ExactLayerFails, SemanticLayer, SemanticLayerSkipped,
                SemanticLayerFails, ComposableLayer, FuzzyLayer, LinkLayer, FactLayer,
                FactLayerSkipped, FindSession, Reinforce, StoreFacts, StoreLinks
    <3>2. CASE ~Stores(r)
      <4>1. PipelineStep(r) \/ HandlerStep(r)
        BY DEF Layers, PipelineStep, HandlerStep
      <4> QED BY <1>0, <3>2, <4>1, StepsInput
    <3> QED BY <3>1, <3>2
  <2> QED BY <1>0, <2>1 DEF StoreFacts, LayerRaises, GenerateError, End, Goto, Shape, Storing
<1>6. \A f \in facts' : f.source \in Stored => rows[f.source].space = f.space
  <2>1. CASE StoreFacts(r)
    <3> DEFINE fact == [source |-> found[r], about |-> Question(r), space |-> space[r]]
    <3>1. facts' \subseteq facts \cup {fact}
      BY <2>1, DownToKeeps DEF StoreFacts
    <3>2. pc[r] = "store_facts"
      BY <2>1 DEF StoreFacts
    <3> QED BY <3>1, <3>2 DEF Scoping, Owned
  <2>2. CASE ~StoreFacts(r)
    <3>1. UNCHANGED facts
      BY <2>2 DEF Layers, ExactLayer, ExactLayerFails, SemanticLayer, SemanticLayerSkipped,
                SemanticLayerFails, ComposableLayer, FuzzyLayer, LinkLayer, FactLayer,
                FactLayerSkipped, LayerRaises, FindSession, Reinforce, GenerateError,
                StoreLinks, Untouched, tables
    <3> QED BY <3>1 DEF Scoping, Owned
  <2> QED BY <2>1, <2>2
<1> QED BY <1>1, <1>2, <1>4, <1>5, <1>6 DEF Scoping, Owned

LEMMA ScopingNext == Typed /\ Scoping /\ [Next]_vars => Scoping'
<1> SUFFICES ASSUME Typed, Scoping, [Next]_vars PROVE Scoping'
  OBVIOUS
<1>0. Shape
  BY DEF Typed, Knowing
<1>1. ASSUME NEW r \in Requests, PipelineStep(r) \/ HandlerStep(r)
      PROVE  Scoping'
  <2>1. CASE Layers(r)
    BY <2>1, ScopingLayers
  <2>2. CASE Stores(r)
    <3>1. PICK i \in Ids, emb \in BOOLEAN : StoreAnswer(r, i, emb)
      BY <2>2 DEF Stores
    <3>2. /\ StoreRow(i, Answer(asked[r], space[r], emb, FALSE))
          /\ UNCHANGED <<facts, space, evidence>>
          /\ pc' = [pc EXCEPT ![r] = "store_facts"] /\ found' = [found EXCEPT ![r] = i]
      BY <3>1 DEF StoreAnswer, Goto, input
    <3>3. Answer(asked[r], space[r], emb, FALSE).space = space[r]
      BY DEF Answer
    <3> QED BY <3>2, <3>3, ScopingStores
  <2>3. CASE Tracks(r)
    <3>1. UNCHANGED <<rows, facts>>
      BY <2>3 DEF Tracks, TouchSession, EnterSession, TrimSessions, PopSession, RecordExchange,
                  Untouched, tables
    <3>2. pc'[r] # "store_facts"
      <4>1. pc[r] # "generate" /\ ~StoreFacts(r)
        BY <2>3 DEF Tracks, TouchSession, EnterSession, TrimSessions, PopSession, RecordExchange,
                    StoreFacts
      <4>2. \E next \in PC \ Storing : Goto(r, next)
        BY <1>0, <1>1, <4>1, StepsInput DEF Stores, StoreAnswer
      <4> QED BY <1>0, <4>2 DEF Goto, Shape, Storing
    <3>3. \A q \in Requests \ {r} : space'[q] = space[q] /\ evidence'[q] = evidence[q]
                                    /\ pc'[q] = pc[q] /\ found'[q] = found[q]
      BY <1>0, <1>1, <2>3, TracksMoves, StepsInput DEF Moves, Shape, Typed, Asked
    <3>4. \A e \in evidence'[r] \ evidence[r] : e.layer = "session"
      BY <1>0, <2>3, TracksMoves
    <3>5. space'[r] = space[r] \/ evidence'[r] = {}
      BY <1>0, <2>3 DEF Tracks, TouchSession, EnterSession, TrimSessions, PopSession, RecordExchange,
                  Keeps, input, End, Shape
    <3>6. ScopedEvidence'
      BY <3>1, <3>3, <3>4, <3>5 DEF Stored, Scoping, ScopedEvidence
    <3>7. Owned'
      BY <3>1, <3>2, <3>3 DEF Stored, Scoping, Owned
    <3> QED BY <3>6, <3>7 DEF Scoping
  <2>4. CASE Decide(r) \/ Verify(r)
    <3>1. /\ UNCHANGED <<rows, facts, space, evidence>> /\ pc'[r] # "store_facts"
          /\ \A q \in Requests \ {r} : pc'[q] = pc[q] /\ found'[q] = found[q]
      BY <1>0, <2>4 DEF Decide, Verify, Goto, tables, input, Shape
    <3> QED BY <3>1 DEF Stored, Scoping, ScopedEvidence, Owned
  <2> QED BY <1>1, <2>1, <2>2, <2>3, <2>4, PipelineCases
<1>2. ASSUME NEW r \in Requests, NEW m \in Conversations, NEW n \in Space,
             NEW qual \in BOOLEAN, Receive(r, m, n, qual)
      PROVE  Scoping'
  <2>1. evidence[r] = {} /\ found[r] = NoId
    BY <1>2 DEF Receive, Typed, Knowing
  <2>2. /\ UNCHANGED <<rows, facts, evidence, found>> /\ pc'[r] # "store_facts"
        /\ \A q \in Requests \ {r} : pc'[q] = pc[q] /\ space'[q] = space[q]
    BY <1>0, <1>2 DEF Receive, Goto, tables, Shape, Typed, Asked
  <2> QED BY <2>1, <2>2 DEF Stored, Scoping, ScopedEvidence, Owned
<1>3. ASSUME NEW i \in Ids, NEW m \in Elsewhere, NEW emb \in BOOLEAN, StoreElsewhere(i, m, emb)
      PROVE  Scoping'
  <2>1. /\ StoreRow(i, Answer(m, Public, emb, TRUE))
        /\ UNCHANGED <<facts, space, evidence, pc, found>>
    BY <1>3 DEF StoreElsewhere, input
  <2> QED BY <2>1, ScopingStores
<1>4. ASSUME NEW i \in Ids, Invalidate(i)
      PROVE  Scoping'
  <2>1. rows[i] \in Row /\ rows' = [rows EXCEPT ![i] = [rows[i] EXCEPT !.valid = FALSE]]
    BY <1>4 DEF Invalidate, Valid, Stored, Typed, Stock
  <2>2. [rows[i] EXCEPT !.valid = FALSE].space = rows[i].space
    BY <2>1 DEF Row
  <2>3. \A j \in Stored' : j \in Stored /\ rows'[j].space = rows[j].space
    BY <1>4, <2>1, <2>2 DEF Invalidate, Valid, Stored, Typed, Stock
  <2> QED BY <1>4, <2>3, ScopingKept DEF Invalidate, input
<1>5. CASE NewDay \/ RecoveryTimeout \/ UNCHANGED vars
  <2>1. UNCHANGED <<rows, facts, space, evidence, pc, found>>
    BY <1>5 DEF NewDay, RecoveryTimeout, vars, tables, input
  <2> QED BY <2>1, ScopingKept DEF Stored
<1> QED BY <1>1, <1>2, <1>3, <1>4, <1>5 DEF Next

\* The layers that take a namespace offer a request what is of its namespace,
\* but for the second semantic search of one with public_fallback: no id is
\* used again while evidence or a fact refers to it.
THEOREM EvidenceIsScoped == Spec => []ScopedEvidence
<1>1. Scoping => ScopedEvidence
  BY DEF Scoping
<1> QED BY <1>1, TypedInit, TypedNext, ScopingInit, ScopingNext, PTL DEF Spec

-----------------------------------------------------------------------------
(***************************************************************************)
(* The size of the tables.                                                 *)
(***************************************************************************)
Matches(r) == {e \in evidence[r] : e.layer = "semantic"}

\* The tables are finite and bounded, and so are the semantic matches of a
\* request, of which it links the near misses.
Sized ==
  /\ IsFiniteSet(Valid) /\ IsFiniteSet(facts) /\ IsFiniteSet(Joined)
  /\ TablesBounded
  /\ \A r \in Requests : IsFiniteSet(Matches(r)) /\ Cardinality(Matches(r)) <= SemanticMax
  /\ \A r \in Requests : pc[r] \in {"exact", "semantic"} => Matches(r) = {}

Limits ==
  /\ SemanticMax \in Nat /\ MaxEntries \in Nat /\ MaxFacts \in Nat /\ MaxLinks \in Nat
  /\ EvictionInterval \in Nat \ {0} /\ ScanInterval \in Nat \ {0}
LEMMA LimitTypes == Limits
  BY PipelineAssumption DEF Limits

LEMMA CounterCases ==
  ASSUME NEW interval \in Nat \ {0}, NEW n \in 0 .. interval - 1
  PROVE  CountWrite(n, interval) = 0 \/ CountWrite(n, interval) = n + 1
  BY DEF CountWrite

LEMMA DownToFits ==
  ASSUME NEW S, IsFiniteSet(S), NEW limit \in Nat, NEW T \in DownTo(S, limit)
  PROVE  IsFiniteSet(T) /\ Cardinality(T) <= limit
<1>1. T \subseteq S
  BY DownToKeeps
<1>2. Cardinality(T) <= limit
  BY DEF DownTo, kSubset
<1> QED BY <1>1, <1>2, FS_Subset

\* A set that is part of another has no more elements than it.
LEMMA Smaller ==
  ASSUME NEW S, IsFiniteSet(S), NEW T, T \subseteq S
  PROVE  /\ IsFiniteSet(T) /\ Cardinality(T) <= Cardinality(S)
         /\ Cardinality(S) \in Nat /\ Cardinality(T) \in Nat
<1>1. IsFiniteSet(T) /\ Cardinality(T) <= Cardinality(S)
  BY FS_Subset
<1> QED BY <1>1, FS_CardinalityType

LEMMA AtMostOneMore ==
  ASSUME NEW S, IsFiniteSet(S), NEW x, NEW T, T \subseteq S \cup {x}
  PROVE  /\ IsFiniteSet(T) /\ Cardinality(T) <= Cardinality(S) + 1
         /\ Cardinality(S) \in Nat /\ Cardinality(T) \in Nat
<1>1. IsFiniteSet(S \cup {x}) /\ Cardinality(S \cup {x}) <= Cardinality(S) + 1
      /\ Cardinality(S) \in Nat
  BY FS_AddElement, FS_CardinalityType
<1>2. /\ IsFiniteSet(T) /\ Cardinality(T) <= Cardinality(S \cup {x})
      /\ Cardinality(T) \in Nat /\ Cardinality(S \cup {x}) \in Nat
  BY <1>1, Smaller
<1> QED BY <1>1, <1>2

\* What the best of a set may be.
LEMMA BestFits ==
  ASSUME NEW S, IsFiniteSet(S), NEW score, NEW n \in Nat, NEW T \in Best(S, score, n)
  PROVE  T \subseteq S /\ IsFiniteSet(T) /\ Cardinality(T) <= n
<1>1. T \subseteq S /\ Cardinality(T) = IF Cardinality(S) < n THEN Cardinality(S) ELSE n
  BY DEF Best
<1>2. IsFiniteSet(T) /\ Cardinality(S) \in Nat
  BY <1>1, Smaller
<1> QED BY <1>1, <1>2

LEMMA SizedRows ==
  ASSUME Sized, Stock, NEW i \in Ids, NEW row, StoreRow(i, row)
  PROVE  /\ IsFiniteSet(Valid') /\ Cardinality(Valid') <= MaxEntries + writes'
         /\ Joined' \subseteq Joined
<1> DEFINE stored == Replaced(i, row)
           valid == {j \in Ids : stored[j] # NoRow /\ stored[j].valid}
<1>1. valid \subseteq Valid \cup {i}
  BY DEF Replaced, Valid, Stored
<1>2. /\ IsFiniteSet(valid) /\ Cardinality(valid) <= Cardinality(Valid) + 1
      /\ Cardinality(Valid) \in Nat /\ Cardinality(valid) \in Nat
  BY <1>1, AtMostOneMore DEF Sized
<1>3. Joined' \subseteq Joined
  BY DEF StoreRow, Joined
<1>4. CASE writes' = 0
  <2>1. PICK kept \in DownTo(valid, MaxEntries) :
          rows' = [j \in Ids |-> IF j \in valid \ kept THEN NoRow ELSE stored[j]]
    BY <1>4 DEF StoreRow
  <2>2. IsFiniteSet(kept) /\ Cardinality(kept) <= MaxEntries
    BY <1>2, <2>1, DownToFits, LimitTypes DEF Limits
  <2>3. Valid' \subseteq kept
    BY <2>1 DEF Valid, Stored
  <2>4. /\ IsFiniteSet(Valid') /\ Cardinality(Valid') <= Cardinality(kept)
        /\ Cardinality(Valid') \in Nat /\ Cardinality(kept) \in Nat
    BY <2>2, <2>3, Smaller
  <2> QED BY <1>3, <1>4, <2>2, <2>4, LimitTypes DEF Limits
<1>5. CASE writes' # 0
  <2>1. rows' = stored
    BY <1>5 DEF StoreRow
  <2>2. Valid' = valid
    BY <2>1 DEF Valid, Stored
  <2>3. writes' = writes + 1 /\ writes \in Nat
    BY <1>5, CounterCases, LimitTypes DEF StoreRow, Stock, Limits
  <2> QED BY <1>2, <1>3, <2>2, <2>3, LimitTypes DEF Limits, Sized, TablesBounded
<1> QED BY <1>4, <1>5

LEMMA SizedFacts ==
  ASSUME Sized, Stock, NEW r \in Requests, StoreFacts(r)
  PROVE  IsFiniteSet(facts') /\ Cardinality(facts') <= MaxFacts + factWrites'
<1>1. CASE UNCHANGED <<facts, factWrites>>
  BY <1>1 DEF Sized, TablesBounded
<1>2. CASE ~UNCHANGED <<facts, factWrites>>
  <2> DEFINE fact == [source |-> found[r], about |-> Question(r), space |-> space[r]]
  <2>1. PICK new \in SUBSET {fact} :
          /\ factWrites' = CountWrite(factWrites, ScanInterval)
          /\ facts' \in IF factWrites' = 0 THEN DownTo(facts \cup new, MaxFacts)
                                           ELSE {facts \cup new}
    BY <1>2 DEF StoreFacts
  <2> HIDE DEF fact
  <2>2. /\ IsFiniteSet(facts \cup new) /\ Cardinality(facts \cup new) <= Cardinality(facts) + 1
        /\ Cardinality(facts) \in Nat /\ Cardinality(facts \cup new) \in Nat
    BY AtMostOneMore DEF Sized
  <2>3. CASE factWrites' = 0
    BY <2>1, <2>2, <2>3, DownToFits, LimitTypes DEF Limits
  <2>4. CASE factWrites' # 0
    <3>1. factWrites' = factWrites + 1 /\ factWrites \in Nat
      BY <2>1, <2>4, CounterCases, LimitTypes DEF Stock, Limits
    <3>2. facts' = facts \cup new
      BY <2>1, <2>4
    <3> QED BY <2>2, <3>1, <3>2, LimitTypes DEF Limits, Sized, TablesBounded
  <2> QED BY <2>3, <2>4
<1> QED BY <1>1, <1>2

LEMMA ImageFits ==
  ASSUME NEW S, IsFiniteSet(S), NEW f, f = [x \in S |-> f[x]]
  PROVE  LET T == {f[x] : x \in S}
         IN IsFiniteSet(T) /\ Cardinality(T) <= Cardinality(S)
            /\ Cardinality(T) \in Nat /\ Cardinality(S) \in Nat
<1> DEFINE T == {f[x] : x \in S}
<1>1. f \in Surjection(S, T)
  BY DEF Surjection
<1>2. IsFiniteSet(T) /\ Cardinality(T) <= Cardinality(S)
  BY <1>1, FS_Surjection
<1> QED BY <1>2, FS_CardinalityType

LEMMA UnionFits ==
  ASSUME NEW S, IsFiniteSet(S), NEW T, IsFiniteSet(T)
  PROVE  /\ IsFiniteSet(S \cup T) /\ Cardinality(S \cup T) <= Cardinality(S) + Cardinality(T)
         /\ Cardinality(S) \in Nat /\ Cardinality(T) \in Nat /\ Cardinality(S \cup T) \in Nat
<1>1. Cardinality(S \cup T) = Cardinality(S) + Cardinality(T) - Cardinality(S \cap T)
  BY FS_Union
<1>2. IsFiniteSet(S \cap T) /\ IsFiniteSet(S \cup T)
  BY FS_Intersection, FS_Union
<1>3. /\ Cardinality(S) \in Nat /\ Cardinality(T) \in Nat /\ Cardinality(S \cup T) \in Nat
      /\ Cardinality(S \cap T) \in Nat
  BY <1>2, FS_CardinalityType
<1> QED BY <1>1, <1>2, <1>3

\* Links go both ways: a near miss adds two.
LEMMA LearnedFits ==
  ASSUME Sized, NEW r \in Requests
  PROVE  LET joined == {p \in Ids \X Ids : Learned(r)[p] # NoLink}
         IN /\ IsFiniteSet(joined) /\ Cardinality(joined) \in Nat
            /\ Cardinality(joined) <= Cardinality(Joined) + 2 * SemanticMax
<1> DEFINE joined == {p \in Ids \X Ids : Learned(r)[p] # NoLink}
           M == NearMisses(r)
           there == [e \in M |-> <<found[r], e.of>>]
           back == [e \in M |-> <<e.of, found[r]>>]
           A == {there[e] : e \in M}
           B == {back[e] : e \in M}
<1>1. joined \subseteq Joined \cup (A \cup B)
  <2>1. ASSUME NEW p \in joined, p \notin Joined
        PROVE  p \in A \cup B
    <3> DEFINE miss == {e \in NearMisses(r) : p \in {<<found[r], e.of>>, <<e.of, found[r]>>}}
    <3>1. miss # {}
      BY <2>1 DEF Learned, Joined
    <3>2. PICK e \in M : p \in {<<found[r], e.of>>, <<e.of, found[r]>>}
      BY <3>1
    <3> QED BY <3>2
  <2> QED BY <2>1
<1>2. IsFiniteSet(M) /\ Cardinality(M) <= SemanticMax /\ Cardinality(M) \in Nat
  <2>1. M \subseteq Matches(r)
    BY DEF NearMisses, Matches
  <2>2. IsFiniteSet(Matches(r)) /\ Cardinality(Matches(r)) <= SemanticMax
    BY DEF Sized
  <2>3. /\ IsFiniteSet(M) /\ Cardinality(M) <= Cardinality(Matches(r))
        /\ Cardinality(M) \in Nat /\ Cardinality(Matches(r)) \in Nat
    BY <2>1, <2>2, Smaller
  <2> QED BY <2>2, <2>3, LimitTypes DEF Limits
<1> HIDE DEF M
<1>3. /\ IsFiniteSet(A) /\ Cardinality(A) <= Cardinality(M) /\ Cardinality(A) \in Nat
      /\ IsFiniteSet(B) /\ Cardinality(B) <= Cardinality(M) /\ Cardinality(B) \in Nat
  BY <1>2, ImageFits
<1> HIDE DEF A, B, joined
<1>4. /\ IsFiniteSet(A \cup B) /\ Cardinality(A \cup B) <= Cardinality(A) + Cardinality(B)
      /\ Cardinality(A \cup B) \in Nat
  BY <1>3, UnionFits
<1>5. /\ IsFiniteSet(Joined \cup (A \cup B)) /\ Cardinality(Joined) \in Nat
      /\ Cardinality(Joined \cup (A \cup B)) <= Cardinality(Joined) + Cardinality(A \cup B)
  BY <1>4, UnionFits DEF Sized
<1>6. /\ IsFiniteSet(joined) /\ Cardinality(joined) \in Nat
      /\ Cardinality(joined) <= Cardinality(Joined \cup (A \cup B))
      /\ Cardinality(Joined \cup (A \cup B)) \in Nat
  BY <1>1, <1>5, Smaller
<1>7. Cardinality(joined) <= Cardinality(Joined) + 2 * SemanticMax
  BY <1>2, <1>3, <1>4, <1>5, <1>6, LimitTypes DEF Limits
<1> QED BY <1>6, <1>7 DEF joined

LEMMA SizedLinks ==
  ASSUME Sized, Stock, NEW r \in Requests, StoreLinks(r)
  PROVE  IsFiniteSet(Joined') /\ Cardinality(Joined') <= MaxLinks + 2 * SemanticMax * linkWrites'
<1>1. CASE UNCHANGED <<links, linkWrites>>
  BY <1>1 DEF Sized, TablesBounded, Joined
<1>2. CASE ~UNCHANGED <<links, linkWrites>>
  <2> DEFINE joined == {p \in Ids \X Ids : Learned(r)[p] # NoLink}
  <2>1. /\ linkWrites' = CountWrite(linkWrites, ScanInterval)
        /\ links' \in IF linkWrites' = 0 THEN LinkEvictions(Learned(r)) ELSE {Learned(r)}
    BY <1>2 DEF StoreLinks
  <2>2. /\ IsFiniteSet(joined) /\ Cardinality(joined) \in Nat
        /\ Cardinality(joined) <= Cardinality(Joined) + 2 * SemanticMax
    BY LearnedFits
  <2>3. CASE linkWrites' = 0
    <3>1. PICK kept \in DownTo(joined, MaxLinks) :
            links' = [p \in Ids \X Ids |-> IF p \in kept THEN Learned(r)[p] ELSE NoLink]
      BY <2>1, <2>3 DEF LinkEvictions
    <3>2. IsFiniteSet(kept) /\ Cardinality(kept) <= MaxLinks
      BY <2>2, <3>1, DownToFits, LimitTypes DEF Limits
    <3>3. Joined' \subseteq kept
      BY <3>1 DEF Joined
    <3>4. /\ IsFiniteSet(Joined') /\ Cardinality(Joined') <= Cardinality(kept)
          /\ Cardinality(Joined') \in Nat /\ Cardinality(kept) \in Nat
      BY <3>2, <3>3, Smaller
    <3>5. MaxLinks + 2 * SemanticMax * linkWrites' = MaxLinks
      BY <2>3, LimitTypes DEF Limits
    <3> QED BY <3>2, <3>4, <3>5, LimitTypes DEF Limits
  <2>4. CASE linkWrites' # 0
    <3>1. linkWrites' = linkWrites + 1 /\ linkWrites \in Nat
      BY <2>1, <2>4, CounterCases, LimitTypes DEF Stock, Limits
    <3>2. Joined' = joined
      BY <2>1, <2>4 DEF Joined
    <3>3. 2 * SemanticMax * linkWrites' = 2 * SemanticMax * linkWrites + 2 * SemanticMax
      BY <3>1, LimitTypes DEF Limits
    <3>4. Cardinality(Joined) <= MaxLinks + 2 * SemanticMax * linkWrites
      BY DEF Sized, TablesBounded
    <3>5. 2 * SemanticMax * linkWrites \in Nat /\ Cardinality(Joined) \in Nat
      BY <3>1, LimitTypes, FS_CardinalityType DEF Limits, Sized
    <3> HIDE DEF joined
    <3> QED BY <2>2, <3>2, <3>3, <3>4, <3>5, LimitTypes DEF Limits
  <2> QED BY <2>3, <2>4
<1> QED BY <1>1, <1>2

\* Only the semantic search of a request adds semantic matches, once.
LEMMA SizedLayers ==
  ASSUME Sized, Shape, NEW r \in Requests, Layers(r)
  PROVE  /\ IsFiniteSet(Matches(r)') /\ Cardinality(Matches(r)') <= SemanticMax
         /\ pc'[r] \in {"exact", "semantic"} => Matches(r)' = {}
<1>0. evidence = [q \in Requests |-> evidence[q]]
  BY DEF Shape
<1>1. ASSUME NEW new, Adds(r, new), \A e \in new : e.layer # "semantic",
             pc'[r] \notin {"exact", "semantic"}
      PROVE  Matches(r)' = Matches(r)
  BY <1>0, <1>1 DEF Adds, Matches
<1>2. IsFiniteSet({}) /\ Cardinality({}) = 0
  BY FS_EmptySet
<1>3. IsFiniteSet(Matches(r)) /\ Cardinality(Matches(r)) <= SemanticMax /\ SemanticMax \in Nat
  BY LimitTypes DEF Sized, Limits
<1>4. CASE SemanticLayer(r)
  <2> DEFINE q == Question(r)
  <2>0. \E n : \E T \in SemanticMatches(q, n) : Adds(r, SemanticEvidence(q, T))
    BY <1>4 DEF SemanticLayer
  <2>00. PICK n : \E T \in SemanticMatches(q, n) : Adds(r, SemanticEvidence(q, T))
    BY <2>0
  <2>1. PICK S \in SemanticMatches(q, n) : Adds(r, SemanticEvidence(q, S))
    BY <2>00
  <2>2. S \subseteq Valid /\ IsFiniteSet(S) /\ Cardinality(S) <= SemanticMax
    <3> DEFINE score == [i \in Stored |-> Similarity[<<q, About(i)>>]]
               near == {i \in Valid : /\ rows[i].embedded
                                      /\ n # Public => rows[i].space = n
                                      /\ score[i] >= 750}
    <3>1. S \in Best(near, score, SemanticMax)
      BY <2>1 DEF SemanticMatches
    <3>2. near \subseteq Valid /\ IsFiniteSet(near)
      BY FS_Subset DEF Sized
    <3> HIDE DEF near, score
    <3> QED BY <1>3, <3>1, <3>2, BestFits
  <2> DEFINE s == [i \in S |-> Similarity[<<q, About(i)>>]]
             f == [i \in S |-> [Found("semantic", SemanticConfidence(s[i]), i) EXCEPT !.sim = s[i]]]
  <2>3. SemanticEvidence(q, S) = {f[i] : i \in S}
    BY DEF SemanticEvidence
  <2>4. /\ IsFiniteSet({f[i] : i \in S}) /\ Cardinality({f[i] : i \in S}) <= SemanticMax
    <3> HIDE DEF f
    <3>1. f = [i \in S |-> f[i]]
      BY DEF f
    <3>2. /\ IsFiniteSet({f[i] : i \in S}) /\ Cardinality({f[i] : i \in S}) <= Cardinality(S)
          /\ Cardinality({f[i] : i \in S}) \in Nat /\ Cardinality(S) \in Nat
      BY <2>2, <3>1, ImageFits
    <3> QED BY <1>3, <2>2, <3>2
  <2>5. pc[r] = "semantic" /\ pc'[r] = "composable"
    BY <1>4 DEF SemanticLayer, Goto, Shape
  <2>6. Matches(r) = {}
    BY <2>5 DEF Sized
  <2>7. Matches(r)' \subseteq SemanticEvidence(q, S)
    BY <1>0, <2>1, <2>6 DEF Adds, Matches
  <2> HIDE DEF f
  <2>8. /\ IsFiniteSet(Matches(r)') /\ Cardinality(Matches(r)') <= Cardinality({f[i] : i \in S})
        /\ Cardinality(Matches(r)') \in Nat /\ Cardinality({f[i] : i \in S}) \in Nat
    BY <2>3, <2>4, <2>7, Smaller
  <2> QED BY <1>3, <2>4, <2>5, <2>8
<1>5. CASE ComposableLayer(r)
  <2>1. CASE End(r)
    <3>1. Matches(r)' = {} /\ pc'[r] = "idle"
      BY <1>0, <2>1 DEF End, Matches, Goto, Shape
    <3> QED BY <1>2, <1>3, <3>1
  <2>2. CASE ~End(r)
    <3>1. Adds(r, {Found("composable", 850, i) : i \in PartHits(r)}) /\ pc'[r] = "fuzzy"
      BY <1>5, <2>2 DEF ComposableLayer, Goto, Shape
    <3>2. \A e \in {Found("composable", 850, i) : i \in PartHits(r)} : e.layer # "semantic"
      BY DEF Found
    <3> QED BY <1>1, <1>3, <3>1, <3>2
  <2> QED BY <2>1, <2>2
<1>6. CASE FuzzyLayer(r)
  <2>1. PICK T : Adds(r, {Found("fuzzy", 400, i) : i \in T})
    BY <1>6 DEF FuzzyLayer
  <2>2. \A e \in {Found("fuzzy", 400, i) : i \in T} : e.layer # "semantic"
    BY DEF Found
  <2>3. pc'[r] = "links"
    BY <1>6 DEF FuzzyLayer, Goto, Shape
  <2> QED BY <1>1, <1>3, <2>1, <2>2, <2>3
<1>7. CASE LinkLayer(r)
  <2> DEFINE S == Linked(r)
             paths == UNION {Paths(S, j) : j \in Reached(S)}
             offers(via) == {[Found("link", LinkConfidence(via[j]), j)
                                EXCEPT !.via = via[j].link] : j \in Reached(S)}
  <2>1. PICK via \in [Reached(S) -> paths] : Adds(r, offers(via))
    BY <1>7 DEF LinkLayer
  <2>2. \A e \in offers(via) : e.layer # "semantic"
    BY DEF Found
  <2>3. pc'[r] = "facts"
    BY <1>7 DEF LinkLayer, Goto, Shape
  <2> HIDE DEF offers
  <2> QED BY <1>1, <1>3, <2>1, <2>2, <2>3
<1>8. CASE FactLayer(r)
  <2>1. PICK new : Adds(r, new) /\ \A e \in new : e.layer # "semantic"
    <3> DEFINE score == [f \in facts |-> Similarity[<<Question(r), f.about>>]]
               chosen(S) == {f \in S : /\ score[f] >= 800
                                       /\ space[r] # Public => f.space = space[r]}
               offer(f) == Found("fact", FactConfidence(score[f]), f.source)
    <3>1. PICK S \in Best(facts, score, FactMax) : Adds(r, {offer(f) : f \in chosen(S)})
      BY <1>8 DEF FactLayer
    <3>2. \A f : offer(f).layer # "semantic"
      BY DEF Found
    <3> HIDE DEF offer, chosen
    <3> QED BY <3>1, <3>2
  <2>2. pc'[r] = "session"
    BY <1>8 DEF FactLayer, Goto, Shape
  <2> QED BY <1>1, <1>3, <2>1, <2>2
<1>9. CASE \/ ExactLayer(r) \/ ExactLayerFails(r)
           \/ SemanticLayerSkipped(r) \/ SemanticLayerFails(r)
           \/ FactLayerSkipped(r) \/ FindSession(r) \/ Reinforce(r) \/ StoreFacts(r)
  <2>1. Matches(r)' = Matches(r)
    BY <1>9 DEF ExactLayer, ExactLayerFails, SemanticLayerSkipped, SemanticLayerFails,
                FactLayerSkipped, FindSession, Reinforce, StoreFacts, Matches
  <2>2. pc'[r] \in {"exact", "semantic"} => pc[r] \in {"exact", "semantic"}
    BY <1>9 DEF ExactLayer, ExactLayerFails, SemanticLayerSkipped, SemanticLayerFails,
                FactLayerSkipped, FindSession, Reinforce, StoreFacts, Goto, Shape
  <2> QED BY <1>3, <2>1, <2>2 DEF Sized
<1>10. CASE LayerRaises(r) \/ GenerateError(r) \/ StoreLinks(r)
  <2>1. Matches(r)' = {} /\ pc'[r] = "idle"
    BY <1>0, <1>10 DEF LayerRaises, GenerateError, StoreLinks, End, Matches, Goto, Shape
  <2> QED BY <1>2, <1>3, <2>1
<1> QED BY <1>4, <1>5, <1>6, <1>7, <1>8, <1>9, <1>10 DEF Layers

LEMMA SizedInit == Init => Sized
<1> SUFFICES ASSUME Init PROVE Sized
  OBVIOUS
<1>1. Valid = {} /\ facts = {} /\ Joined = {} /\ \A r \in Requests : Matches(r) = {}
  BY DEF Init, Valid, Stored, Joined, Matches
<1>2. IsFiniteSet({}) /\ Cardinality({}) = 0
  BY FS_EmptySet
<1>3. TablesBounded
  <2>1. writes = 0 /\ factWrites = 0 /\ linkWrites = 0
    BY DEF Init
  <2>2. 2 * SemanticMax * 0 = 0
    BY LimitTypes DEF Limits
  <2> QED BY <1>1, <1>2, <2>1, <2>2, LimitTypes DEF TablesBounded, Limits
<1> QED BY <1>1, <1>2, <1>3, LimitTypes DEF Sized, Limits

\* Rows and links only go, and the requests keep what they were offered.
LEMMA SizedKept ==
  ASSUME Sized, Stock, IsFiniteSet(Valid'), Cardinality(Valid') <= MaxEntries + writes',
         Joined' \subseteq Joined, UNCHANGED <<facts, factWrites, linkWrites>>,
         \A q \in Requests : /\ Matches(q)' = Matches(q)
                             /\ pc'[q] \in {"exact", "semantic"} => Matches(q) = {}
  PROVE  Sized'
<1>1. /\ IsFiniteSet(Joined') /\ Cardinality(Joined') <= Cardinality(Joined)
      /\ Cardinality(Joined) \in Nat /\ Cardinality(Joined') \in Nat
  BY Smaller DEF Sized
<1>2. 2 * SemanticMax * linkWrites \in Nat
  BY LimitTypes DEF Limits, Stock
<1>3. Cardinality(Joined') <= MaxLinks + 2 * SemanticMax * linkWrites'
  BY <1>1, <1>2, LimitTypes DEF Sized, TablesBounded, Limits
<1>4. TablesBounded'
  BY <1>3 DEF Sized, TablesBounded
<1> QED BY <1>1, <1>4 DEF Sized

LEMMA SizedNext == Typed /\ Sized /\ [Next]_vars => Sized'
<1> SUFFICES ASSUME Typed, Sized, [Next]_vars PROVE Sized'
  OBVIOUS
<1>0. Shape /\ Stock
  BY DEF Typed, Knowing
<1>00. IsFiniteSet(Valid) /\ Cardinality(Valid) <= MaxEntries + writes
  BY DEF Sized, TablesBounded
<1>1. ASSUME NEW r \in Requests, PipelineStep(r) \/ HandlerStep(r)
      PROVE  Sized'
  <2>1. CASE Layers(r)
    <3>1. UNCHANGED <<rows, Valid>>
      BY <1>0, <2>1, LayersOffer DEF Valid, Stored
    <3>2. UNCHANGED writes
      BY <2>1 DEF Layers, ExactLayer, ExactLayerFails, SemanticLayer, SemanticLayerSkipped,
                SemanticLayerFails, ComposableLayer, FuzzyLayer, LinkLayer, FactLayer,
                FactLayerSkipped, LayerRaises, FindSession, Reinforce, GenerateError, StoreFacts,
                StoreLinks, Untouched, tables
    <3>3. /\ \A q \in Requests \ {r} : Matches(q)' = Matches(q) /\ pc'[q] = pc[q]
      BY <1>0, <2>1, AsideMoves, LayersOffer DEF Aside, Moves, Shape, Matches
    <3>4. /\ IsFiniteSet(Matches(r)') /\ Cardinality(Matches(r)') <= SemanticMax
          /\ pc'[r] \in {"exact", "semantic"} => Matches(r)' = {}
      BY <1>0, <2>1, SizedLayers
    <3>5. IsFiniteSet(facts') /\ Cardinality(facts') <= MaxFacts + factWrites'
      <4>1. CASE StoreFacts(r)
        BY <1>0, <4>1, SizedFacts
      <4>2. CASE ~StoreFacts(r)
        <5>1. UNCHANGED <<facts, factWrites>>
          BY <2>1, <4>2 DEF Layers, ExactLayer, ExactLayerFails, SemanticLayer,
                SemanticLayerSkipped, SemanticLayerFails, ComposableLayer, FuzzyLayer, LinkLayer,
                FactLayer, FactLayerSkipped, LayerRaises, FindSession, Reinforce, GenerateError,
                StoreLinks, Untouched, tables
        <5> QED BY <5>1 DEF Sized, TablesBounded
      <4> QED BY <4>1, <4>2
    <3>6. /\ IsFiniteSet(Joined')
          /\ Cardinality(Joined') <= MaxLinks + 2 * SemanticMax * linkWrites'
      <4>1. CASE StoreLinks(r)
        BY <1>0, <4>1, SizedLinks
      <4>2. CASE Reinforce(r)
        <5>1. Joined' \subseteq Joined /\ UNCHANGED linkWrites
          BY <4>2 DEF Reinforce, Joined
        <5>2. /\ IsFiniteSet(Joined') /\ Cardinality(Joined') <= Cardinality(Joined)
              /\ Cardinality(Joined) \in Nat /\ Cardinality(Joined') \in Nat
          BY <5>1, Smaller DEF Sized
        <5>3. 2 * SemanticMax * linkWrites \in Nat
          BY <1>0, LimitTypes DEF Limits, Stock
        <5> QED BY <5>1, <5>2, <5>3, LimitTypes DEF Sized, TablesBounded, Limits
      <4>3. CASE ~StoreLinks(r) /\ ~Reinforce(r)
        <5>1. UNCHANGED <<links, linkWrites>>
          BY <2>1, <4>3 DEF Layers, ExactLayer, ExactLayerFails, SemanticLayer,
                SemanticLayerSkipped, SemanticLayerFails, ComposableLayer, FuzzyLayer, LinkLayer,
                FactLayer, FactLayerSkipped, LayerRaises, FindSession, GenerateError, StoreFacts,
                Untouched, tables
        <5> QED BY <5>1 DEF Sized, TablesBounded, Joined
      <4> QED BY <4>1, <4>2, <4>3
    <3>7. TablesBounded'
      BY <1>00, <3>1, <3>2, <3>5, <3>6 DEF TablesBounded
    <3>8. \A q \in Requests : /\ IsFiniteSet(Matches(q)') /\ Cardinality(Matches(q)') <= SemanticMax
                              /\ pc'[q] \in {"exact", "semantic"} => Matches(q)' = {}
      BY <3>3, <3>4 DEF Sized
    <3> QED BY <1>00, <3>1, <3>5, <3>6, <3>7, <3>8 DEF Sized
  <2>2. CASE Stores(r)
    <3>1. PICK i \in Ids, emb \in BOOLEAN : StoreAnswer(r, i, emb)
      BY <2>2 DEF Stores
    <3>2. /\ StoreRow(i, Answer(asked[r], space[r], emb, FALSE))
          /\ UNCHANGED <<facts, factWrites, linkWrites, evidence>>
          /\ pc' = [pc EXCEPT ![r] = "store_facts"]
      BY <3>1 DEF StoreAnswer, Goto
    <3>3. /\ IsFiniteSet(Valid') /\ Cardinality(Valid') <= MaxEntries + writes'
          /\ Joined' \subseteq Joined
      BY <1>0, <3>2, SizedRows
    <3>4. \A q \in Requests : /\ Matches(q)' = Matches(q)
                              /\ pc'[q] \in {"exact", "semantic"} => Matches(q) = {}
      BY <1>0, <3>2 DEF Matches, Sized, Shape
    <3> QED BY <1>0, <3>2, <3>3, <3>4, SizedKept
  <2>3. CASE Tracks(r)
    <3>1. UNCHANGED <<rows, links, facts, writes, factWrites, linkWrites>>
      BY <2>3 DEF Tracks, TouchSession, EnterSession, TrimSessions, PopSession, RecordExchange,
                  Untouched, tables
    <3>2. pc'[r] \notin {"exact", "semantic"} /\ \A q \in Requests \ {r} : pc'[q] = pc[q]
      BY <1>0, <2>3 DEF Tracks, TouchSession, EnterSession, TrimSessions, PopSession,
                  RecordExchange, GoesOn, End, Goto, Shape
    <3>3. /\ \A q \in Requests \ {r} : evidence'[q] = evidence[q]
          /\ \A e \in evidence'[r] \ evidence[r] : e.layer = "session"
          /\ evidence[r] \subseteq evidence'[r] \/ evidence'[r] = {}
      <4>1. evidence[r] \subseteq evidence'[r] \/ evidence'[r] = {}
        BY <1>0, <2>3 DEF Tracks, TouchSession, EnterSession, TrimSessions, PopSession,
                  RecordExchange, GoesOn, End, Adds, Shape
      <4> QED BY <1>0, <2>3, <4>1, TracksMoves
    <3>4. \A q \in Requests : Matches(q)' = Matches(q) \/ Matches(q)' = {}
      BY <3>3 DEF Matches
    <3>5. IsFiniteSet({}) /\ Cardinality({}) = 0 /\ SemanticMax \in Nat
      BY FS_EmptySet, LimitTypes DEF Limits
    <3>6. UNCHANGED <<Valid, Joined>>
      BY <3>1 DEF Valid, Stored, Joined
    <3> QED BY <3>1, <3>2, <3>4, <3>5, <3>6 DEF Sized, TablesBounded
  <2>4. CASE Decide(r) \/ Verify(r)
    <3>1. /\ UNCHANGED <<rows, links, facts, writes, factWrites, linkWrites, evidence>>
          /\ pc'[r] \notin {"exact", "semantic"} /\ \A q \in Requests \ {r} : pc'[q] = pc[q]
      BY <1>0, <2>4 DEF Decide, Verify, Goto, tables, Shape
    <3> QED BY <3>1 DEF Sized, TablesBounded, Valid, Stored, Joined, Matches
  <2> QED BY <1>1, <2>1, <2>2, <2>3, <2>4, PipelineCases
<1>2. ASSUME NEW r \in Requests, NEW m \in Conversations, NEW n \in Space,
             NEW qual \in BOOLEAN, Receive(r, m, n, qual)
      PROVE  Sized'
  <2>1. evidence[r] = {}
    BY <1>2 DEF Receive, Typed, Knowing
  <2>2. /\ UNCHANGED <<rows, links, facts, writes, factWrites, linkWrites, evidence>>
        /\ \A q \in Requests \ {r} : pc'[q] = pc[q]
    BY <1>0, <1>2 DEF Receive, Goto, tables, Shape
  <2> QED BY <2>1, <2>2 DEF Sized, TablesBounded, Valid, Stored, Joined, Matches
<1>3. ASSUME NEW i \in Ids, NEW m \in Elsewhere, NEW emb \in BOOLEAN, StoreElsewhere(i, m, emb)
      PROVE  Sized'
  <2>1. /\ StoreRow(i, Answer(m, Public, emb, TRUE))
        /\ UNCHANGED <<facts, factWrites, linkWrites, evidence, pc>>
    BY <1>3 DEF StoreElsewhere
  <2>2. /\ IsFiniteSet(Valid') /\ Cardinality(Valid') <= MaxEntries + writes'
        /\ Joined' \subseteq Joined
    BY <1>0, <2>1, SizedRows
  <2>3. \A q \in Requests : /\ Matches(q)' = Matches(q)
                            /\ pc'[q] \in {"exact", "semantic"} => Matches(q) = {}
    BY <2>1 DEF Matches, Sized
  <2> QED BY <1>0, <2>1, <2>2, <2>3, SizedKept
<1>4. ASSUME NEW i \in Ids, Invalidate(i)
      PROVE  Sized'
  <2>1. /\ rows[i] \in Row /\ rows' = [rows EXCEPT ![i] = [rows[i] EXCEPT !.valid = FALSE]]
        /\ UNCHANGED <<links, facts, writes, factWrites, linkWrites, pc, evidence>>
    BY <1>4 DEF Invalidate, Valid, Stored, Typed, Stock
  <2>2. [rows[i] EXCEPT !.valid = FALSE].valid = FALSE
    BY <2>1 DEF Row
  <2>3. Valid' \subseteq Valid
    BY <2>1, <2>2 DEF Valid, Stored, Typed, Stock
  <2>4. /\ IsFiniteSet(Valid') /\ Cardinality(Valid') <= Cardinality(Valid)
        /\ Cardinality(Valid) \in Nat /\ Cardinality(Valid') \in Nat
    BY <1>00, <2>3, Smaller
  <2>5. Cardinality(Valid') <= MaxEntries + writes'
    BY <1>0, <1>00, <2>1, <2>4, LimitTypes DEF Limits, Stock
  <2> QED BY <1>0, <2>1, <2>4, <2>5, SizedKept DEF Sized, Matches, Joined
<1>5. CASE NewDay \/ RecoveryTimeout \/ UNCHANGED vars
  <2>1. UNCHANGED <<rows, links, facts, writes, factWrites, linkWrites, evidence, pc>>
    BY <1>5 DEF NewDay, RecoveryTimeout, vars, tables
  <2> QED BY <2>1 DEF Sized, TablesBounded, Valid, Stored, Joined, Matches
<1> QED BY <1>1, <1>2, <1>3, <1>4, <1>5 DEF Next

\* Evictions run every so many writes, so a table exceeds its limit by no more
\* than the writes since.  The links of an answer are as many as its semantic
\* matches, twice.
THEOREM TablesAreBounded == Spec => []TablesBounded
<1>1. Sized => TablesBounded
  BY DEF Sized
<1> QED BY <1>1, TypedInit, TypedNext, SizedInit, SizedNext, PTL DEF Spec

=============================================================================
