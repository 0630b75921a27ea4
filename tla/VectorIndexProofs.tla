------------------------- MODULE VectorIndexProofs --------------------------
(***************************************************************************)
(* Proofs about VectorIndex, for any ids, vectors, capacity and cluster    *)
(* counts, with and without numpy.                                         *)
(***************************************************************************)
EXTENDS VectorIndex, TLAPS

(***************************************************************************)
(* The invariant, of an index and the latest vectors.                      *)
(***************************************************************************)
Fields(ix) ==
  ix = [size |-> ix.size, ids |-> ix.ids, matrix |-> ix.matrix,
        pos |-> ix.pos, assigned |-> ix.assigned]

Typed(ix) ==
  /\ Fields(ix)
  /\ ix.size \in 0 .. MaxSize
  /\ ix.ids \in [1 .. ix.size -> Ids]
  /\ ix.matrix \in [1 .. ix.size -> Vectors]
  /\ ix.pos \in [Ids -> 0 .. MaxSize]
  /\ ix.assigned \in 0 .. ix.size

Agree(ix) ==
  /\ \A id \in Ids : ix.pos[id] # 0 =>
       ix.pos[id] \in 1 .. ix.size /\ ix.ids[ix.pos[id]] = id
  /\ \A n \in 1 .. ix.size : ix.pos[ix.ids[n]] = n

Current(ix, lat) == \A n \in 1 .. ix.size : ix.matrix[n] = lat[ix.ids[n]]

Good(ix, lat) == Typed(ix) /\ Agree(ix) /\ Current(ix, lat)

\* What two indexes with the same entries share.
LEMMA SameEntries ==
  ASSUME NEW ix, NEW other, NEW lat,
         other.size = ix.size, other.ids = ix.ids, other.matrix = ix.matrix, other.pos = ix.pos
  PROVE  /\ Agree(ix) => Agree(other)
         /\ Current(ix, lat) => Current(other, lat)
<1>1. Agree(ix) => Agree(other)
  BY DEF Agree
<1>2. Current(ix, lat) => Current(other, lat)
  BY DEF Current
<1> QED BY <1>1, <1>2

\* remove keeps the three structures in agreement and the id is gone.
LEMMA RemovedGood ==
  ASSUME NEW ix, NEW lat, Good(ix, lat), NEW id \in Ids
  PROVE  /\ Good(Removed(ix, id), lat)
         /\ Removed(ix, id).pos[id] = 0
         /\ ix.pos[id] # 0 => Removed(ix, id).size = ix.size - 1
<1> USE IndexAssumption
<1>1. CASE ix.pos[id] = 0
  BY <1>1 DEF Removed
<1>2. CASE ix.pos[id] # 0
  <2> DEFINE hole == ix.pos[id]
             last == ix.size
             out == Removed(ix, id)
  <2>1. hole \in 1 .. last /\ ix.ids[hole] = id /\ last \in 1 .. MaxSize
    BY <1>2 DEF Good, Typed, Agree
  <2>2. out = [size |-> last - 1, ids |-> Filled(ix.ids, hole, last),
               matrix |-> Filled(ix.matrix, hole, last), pos |-> MovedTo(ix, id),
               assigned |-> 0]
    BY <1>2 DEF Removed, FilledMatrix, Reassigned
  <2>3. /\ out.size = last - 1 /\ out.assigned = 0
        /\ out.ids = [i \in 1 .. last - 1 |-> IF i = hole THEN ix.ids[last] ELSE ix.ids[i]]
        /\ out.matrix = [i \in 1 .. last - 1 |->
                           IF i = hole THEN ix.matrix[last] ELSE ix.matrix[i]]
        /\ out.pos = [i \in Ids |-> CASE i = id -> 0
                                      [] i # id /\ i = ix.ids[last] -> hole
                                      [] OTHER -> ix.pos[i]]
        /\ Fields(out)
    BY <2>2 DEF Filled, MovedTo, Fields
  <2> HIDE DEF out
  <2>4. Typed(out)
    <3>1. Fields(out) /\ out.size \in 0 .. MaxSize /\ out.assigned \in 0 .. out.size
      BY <2>1, <2>3
    <3>2. out.ids \in [1 .. out.size -> Ids] /\ out.matrix \in [1 .. out.size -> Vectors]
      BY <2>1, <2>3 DEF Good, Typed
    <3>3. out.pos \in [Ids -> 0 .. MaxSize]
      BY <2>1, <2>3 DEF Good, Typed
    <3> QED BY <3>1, <3>2, <3>3 DEF Typed
  <2>5. ASSUME NEW n \in 1 .. out.size
        PROVE  out.pos[out.ids[n]] = n
    <3>1. CASE n = hole
      <4>1. out.ids[n] = ix.ids[last] /\ ix.ids[last] \in Ids /\ ix.pos[ix.ids[last]] = last
        BY <2>1, <2>3, <3>1 DEF Good, Typed, Agree
      <4>2. ix.ids[last] # id
        BY <4>1, <3>1, <2>1, <2>3
      <4> QED
        BY <4>1, <4>2, <3>1, <2>3
    <3>2. CASE n # hole
      <4>1. out.ids[n] = ix.ids[n] /\ ix.ids[n] \in Ids /\ ix.pos[ix.ids[n]] = n
        BY <2>1, <2>3, <3>2 DEF Good, Typed, Agree
      <4>2. ix.ids[n] # id /\ ix.ids[n] # ix.ids[last]
        BY <4>1, <3>2, <2>1, <2>3 DEF Good, Agree
      <4> QED
        BY <4>1, <4>2, <2>3
    <3> QED
      BY <3>1, <3>2
  <2>6. ASSUME NEW i \in Ids, out.pos[i] # 0
        PROVE  out.pos[i] \in 1 .. out.size /\ out.ids[out.pos[i]] = i
    <3>1. i # id
      BY <2>3, <2>6
    <3>2. CASE i = ix.ids[last]
      <4>1. ix.pos[i] = last
        BY <2>1, <3>2 DEF Good, Agree
      <4>2. hole # last
        BY <2>1, <3>1, <3>2
      <4>3. out.pos[i] = hole
        BY <2>3, <3>1, <3>2
      <4>4. hole \in 1 .. out.size
        BY <2>1, <2>3, <4>2
      <4>5. out.ids[hole] = ix.ids[last]
        BY <2>3, <4>4
      <4> QED
        BY <3>2, <4>3, <4>4, <4>5
    <3>3. CASE i # ix.ids[last]
      <4>1. out.pos[i] = ix.pos[i]
        BY <2>3, <3>1, <3>3
      <4>2. ix.pos[i] \in 1 .. last /\ ix.ids[ix.pos[i]] = i
        BY <4>1, <2>6 DEF Good, Agree
      <4>3. ix.pos[i] # last /\ ix.pos[i] # hole
        BY <4>2, <2>1, <3>1, <3>3
      <4> QED
        BY <2>1, <2>3, <4>1, <4>2, <4>3
    <3> QED
      BY <3>2, <3>3
  <2>7. Current(out, lat)
    BY SMTT(30), <2>1, <2>3 DEF Good, Current
  <2>8. out.pos[id] = 0
    BY <2>3
  <2> QED
    BY <2>3, <2>4, <2>5, <2>6, <2>7, <2>8 DEF Good, Agree, out
<1> QED
  BY <1>1, <1>2

\* At capacity the first entry makes room; nothing else changes.
LEMMA MakeRoomGood ==
  ASSUME NEW ix, NEW lat, Good(ix, lat)
  PROVE  /\ Good(MakeRoom(ix), lat)
         /\ MakeRoom(ix).size < MaxSize
         /\ \A id \in Ids : ix.pos[id] = 0 => MakeRoom(ix).pos[id] = 0
<1> USE IndexAssumption
<1>1. CASE Full(ix)
  <2>1. ix.ids[1] \in Ids /\ ix.pos[ix.ids[1]] # 0 /\ ix.size = MaxSize
    BY <1>1 DEF Full, Good, Typed, Agree
  <2>2. MakeRoom(ix) = Removed(ix, ix.ids[1])
    BY <1>1 DEF MakeRoom
  <2>3. \A id \in Ids : ix.pos[id] = 0 => Removed(ix, ix.ids[1]).pos[id] = 0
    <3>1. ix.ids[ix.size] \in Ids /\ ix.pos[ix.ids[ix.size]] = ix.size
      BY <2>1 DEF Good, Typed, Agree
    <3> QED
      BY <2>1, <3>1 DEF Removed, MovedTo
  <2> QED
    BY <2>1, <2>2, <2>3, RemovedGood
<1>2. CASE ~Full(ix)
  BY <1>2 DEF MakeRoom, Full, Good, Typed
<1> QED
  BY <1>1, <1>2

\* Appending an absent id with room for it keeps the agreement.
LEMMA AppendedGood ==
  ASSUME NEW ix, NEW lat, Good(ix, lat), ix.size < MaxSize,
         NEW id \in Ids, ix.pos[id] = 0, NEW v \in Vectors, lat[id] = v
  PROVE  Good(Appended(ix, id, v), lat)
<1> USE IndexAssumption
<1> DEFINE n == ix.size + 1
           long == [size |-> n,
                    ids |-> [i \in 1 .. n |-> IF i = n THEN id ELSE ix.ids[i]],
                    matrix |-> [i \in 1 .. n |-> IF i = n THEN v ELSE ix.matrix[i]],
                    pos |-> [ix.pos EXCEPT ![id] = n],
                    assigned |-> ix.assigned]
<1>1. \/ Appended(ix, id, v) = long
      \/ Appended(ix, id, v) = Clustered(long)
  BY DEF Appended
<1>2. /\ long.size = n /\ long.assigned = ix.assigned
      /\ long.ids = [i \in 1 .. n |-> IF i = n THEN id ELSE ix.ids[i]]
      /\ long.matrix = [i \in 1 .. n |-> IF i = n THEN v ELSE ix.matrix[i]]
      /\ long.pos = [ix.pos EXCEPT ![id] = n]
      /\ Fields(long)
  BY DEF Fields
<1> HIDE DEF long
<1>3. Typed(long)
  BY <1>2 DEF Good, Typed
<1>4. \A i \in 1 .. ix.size : ix.ids[i] \in Ids /\ ix.ids[i] # id
  BY DEF Good, Typed, Agree
<1>5. Agree(long)
  BY <1>2, <1>4 DEF Good, Typed, Agree
<1>6. Current(long, lat)
  BY <1>2, <1>4 DEF Good, Typed, Current
<1>7. Good(Clustered(long), lat)
  <2>1. /\ Clustered(long).size = n /\ Clustered(long).assigned = n
        /\ Clustered(long).ids = long.ids /\ Clustered(long).matrix = long.matrix
        /\ Clustered(long).pos = long.pos /\ Fields(Clustered(long))
    BY <1>2 DEF Clustered, Fields
  <2>2. Typed(Clustered(long))
    BY <2>1, <1>2, <1>3 DEF Typed
  <2>3. Agree(Clustered(long)) /\ Current(Clustered(long), lat)
    BY <2>1, <1>2, <1>5, <1>6, SameEntries
  <2> QED
    BY <2>2, <2>3 DEF Good
<1> QED
  BY <1>1, <1>3, <1>5, <1>6, <1>7 DEF Good

\* add keeps the agreement, whether or not the vector has the right dimension,
\* and no index but the id's own row changes meaning.
LEMMA AddedGood ==
  ASSUME NEW ix, NEW lat \in [Ids -> Vectors \cup {NoVector}], Good(ix, lat),
         NEW id \in Ids, NEW v \in Vectors
  PROVE  Good(Added(ix, id, v), [lat EXCEPT ![id] = v])
<1> DEFINE now == [lat EXCEPT ![id] = v]
           clear == Cleared(ix, id)
<1>1. /\ Good(Removed(ix, id), lat)
      /\ Removed(ix, id).pos[id] = 0
  BY RemovedGood
<1>2. Good(clear, lat) /\ clear.size < MaxSize /\ clear.pos[id] = 0
  BY <1>1, MakeRoomGood DEF Cleared
<1> HIDE DEF clear
<1>3. \A n \in 1 .. clear.size : clear.ids[n] \in Ids /\ clear.ids[n] # id
  <2> SUFFICES ASSUME NEW n \in 1 .. clear.size
               PROVE  clear.ids[n] \in Ids /\ clear.ids[n] # id
    OBVIOUS
  <2>1. clear.ids[n] \in Ids
    BY <1>2 DEF Good, Typed
  <2>2. clear.pos[clear.ids[n]] = n
    BY <1>2 DEF Good, Agree
  <2>3. clear.size \in Nat
    BY <1>2, IndexAssumption DEF Good, Typed
  <2> QED
    BY <1>2, <2>1, <2>2, <2>3
<1>4. Good(clear, now)
  <2>1. \A n \in 1 .. clear.size : now[clear.ids[n]] = lat[clear.ids[n]]
    BY <1>3
  <2> QED
    BY <1>2, <2>1 DEF Good, Current
<1>5. now[id] = v
  OBVIOUS
<1>6. Good(Appended(clear, id, v), now)
  BY <1>2, <1>4, <1>5, AppendedGood
<1> QED
  BY <1>4, <1>6 DEF Added, clear

-----------------------------------------------------------------------------
IInv == Good(index, latest) /\ latest \in [Ids -> Vectors \cup {NoVector}]

\* The invariant holds at first and every operation keeps it.
LEMMA Inductive == Spec => []IInv
<1>1. Init => IInv
  <2> SUFFICES ASSUME Init
               PROVE  IInv
    OBVIOUS
  <2>1. /\ index.size = 0 /\ index.ids = <<>> /\ index.matrix = <<>>
        /\ index.pos = [i \in Ids |-> 0] /\ index.assigned = 0 /\ Fields(index)
    BY DEF Init, EmptyIndex, Fields
  <2>2. <<>> \in [1 .. 0 -> Ids] /\ <<>> \in [1 .. 0 -> Vectors]
    OBVIOUS
  <2> QED
    BY <2>1, <2>2, IndexAssumption DEF Init, IInv, Good, Typed, Agree, Current
<1>2. IInv /\ [Next]_vars => IInv'
  <2> SUFFICES ASSUME IInv, [Next]_vars
               PROVE  IInv'
    OBVIOUS
  <2>1. ASSUME NEW id \in Ids, NEW v \in Vectors, Add(id, v)
        PROVE  IInv'
    BY <2>1, AddedGood DEF Add, IInv
  <2>2. ASSUME NEW id \in Ids, Remove(id)
        PROVE  IInv'
    BY <2>2, RemovedGood DEF Remove, IInv
  <2>3. ASSUME NEW k \in ClusterCounts, BuildClusters(k)
        PROVE  IInv'
    <3>1. /\ index'.size = index.size /\ index'.assigned = index.size
          /\ index'.ids = index.ids /\ index'.matrix = index.matrix
          /\ index'.pos = index.pos /\ Fields(index') /\ latest' = latest
      BY <2>3 DEF BuildClusters, Clustered, IInv, Good, Typed, Fields
    <3>2. Typed(index')
      BY <3>1 DEF IInv, Good, Typed
    <3> QED
      BY <3>1, <3>2 DEF IInv, Good, Agree, Current
  <2>4. CASE UNCHANGED vars
    BY <2>4 DEF vars, IInv
  <2> QED
    BY <2>1, <2>2, <2>3, <2>4 DEF Next
<1> QED
  BY <1>1, <1>2, PTL DEF Spec

\* Every variable keeps its type and the index its capacity.
THEOREM TypeCorrect == Spec => []TypeOK
<1>1. IInv => TypeOK
  BY IndexAssumption DEF IInv, Good, Typed, TypeOK
<1> QED
  BY <1>1, Inductive, PTL

\* The dictionary and the list of ids stay inverse to each other.
THEOREM Positions == Spec => []PositionsAgree
<1>1. IInv => PositionsAgree
  BY DEF IInv, Good, Agree, PositionsAgree, Present
<1> QED
  BY <1>1, Inductive, PTL

\* A hit is scored with the vector its id was last added with.
THEOREM Hits == Spec => []HitsAreCurrent
<1>1. IInv => HitsAreCurrent
  BY DEF IInv, Good, Current, HitsAreCurrent
<1> QED
  BY <1>1, Inductive, PTL

\* No clustered search reaches past the end of the list of ids.
THEOREM Clusters == Spec => []ClustersInRange
<1>1. IInv => ClustersInRange
  BY IndexAssumption DEF IInv, Good, Typed, ClustersInRange
<1> QED
  BY <1>1, Inductive, PTL

=============================================================================
