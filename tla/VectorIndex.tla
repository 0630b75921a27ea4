---------------------------- MODULE VectorIndex -----------------------------
(***************************************************************************)
(* VectorIndex: the in-memory index of embeddings.  Three structures have  *)
(* to agree at every position - the list of ids, the rows of the matrix    *)
(* and the dictionary from id to position - through additions, removals    *)
(* that move the last entry into the hole, evictions and re-clusterings.   *)
(* Positions count from 1; position 0 stands for an id not in the          *)
(* dictionary.                                                             *)
(***************************************************************************)
EXTENDS Naturals, Sequences

CONSTANTS
  Ids, Vectors, NoVector,
  Dimension,   \* the dimension of each vector
  MaxSize,
  ClusterCounts, \* the cluster counts asked for
  HasNumpy     \* FALSE: the fallback without numpy

ASSUME IndexAssumption ==
  /\ MaxSize \in Nat \ {0} /\ HasNumpy \in BOOLEAN
  /\ Dimension \in [Vectors -> Nat] /\ ClusterCounts \subseteq Nat

VARIABLES
  index,     \* size, ids, matrix, pos and the clusters
  latest     \* history: the vector of each id's last add

vars == <<index, latest>>

\* assigned is the length of _cluster_assignments, 0 when there are no
\* clusters.  It is _vectors_at_last_build as long as there are clusters.
EmptyIndex ==
  [size |-> 0, ids |-> <<>>, matrix |-> <<>>, pos |-> [i \in Ids |-> 0],
   assigned |-> 0]

Present(ix) == {i \in Ids : ix.pos[i] # 0}

\* Operators with an underscore in their name are faulty variants of the one
\* they precede.
MovedTo_Nowhere(ix, id) == [ix.pos EXCEPT ![id] = 0]
MovedTo(ix, id) ==
  [i \in Ids |-> CASE i = id -> 0
                   [] i # id /\ i = ix.ids[ix.size] -> ix.pos[id]
                   [] OTHER -> ix.pos[i]]

Filled(f, hole, n) == [i \in 1 .. n - 1 |-> IF i = hole THEN f[n] ELSE f[i]]

FilledMatrix_KeepsRow(ix, id) == [i \in 1 .. ix.size - 1 |-> ix.matrix[i]]
FilledMatrix(ix, id) == Filled(ix.matrix, ix.pos[id], ix.size)

Reassigned_Never(ix) == ix.assigned
Reassigned(ix) == 0

\* remove
Removed(ix, id) ==
  IF ix.pos[id] = 0 THEN ix
  ELSE [size |-> ix.size - 1,
        ids |-> Filled(ix.ids, ix.pos[id], ix.size),
        matrix |-> FilledMatrix(ix, id),
        pos |-> MovedTo(ix, id),
        assigned |-> Reassigned(ix)]

\* _evict_oldest, at capacity
Full(ix) == ix.size >= MaxSize
MakeRoom_OneLate(ix) == IF ix.size > MaxSize THEN Removed(ix, ix.ids[1]) ELSE ix
MakeRoom(ix) == IF Full(ix) THEN Removed(ix, ix.ids[1]) ELSE ix

\* The matrix has rows of another dimension: the vector is not added.
Mismatch(ix, v) ==
  HasNumpy /\ ix.size > 0 /\ Dimension[v] # Dimension[ix.matrix[1]]

\* build_clusters clusters every vector there is.
Clustered(ix) == [ix EXCEPT !.assigned = ix.size]

Appended(ix, id, v) ==
  LET n == ix.size + 1
      longer == [size |-> n,
                 ids |-> [i \in 1 .. n |-> IF i = n THEN id ELSE ix.ids[i]],
                 matrix |-> [i \in 1 .. n |-> IF i = n THEN v ELSE ix.matrix[i]],
                 pos |-> [ix.pos EXCEPT ![id] = n],
                 assigned |-> ix.assigned]
  IN IF ix.assigned > 0 /\ n >= 2 * ix.assigned THEN Clustered(longer) ELSE longer

\* add: an entry of the same id goes first, then the oldest if there is no
\* room, and only then is the dimension looked at.
Cleared(ix, id) == MakeRoom(Removed(ix, id))
Added(ix, id, v) ==
  IF Mismatch(Cleared(ix, id), v) THEN Cleared(ix, id)
  ELSE Appended(Cleared(ix, id), id, v)

Init ==
  /\ index = EmptyIndex
  /\ latest = [i \in Ids |-> NoVector]

Add(id, v) ==
  /\ index' = Added(index, id, v)
  /\ latest' = [latest EXCEPT ![id] = v]

Remove(id) ==
  /\ id \in Present(index)
  /\ index' = Removed(index, id)
  /\ UNCHANGED latest

BuildClusters(k) ==
  /\ HasNumpy /\ index.size > 0 /\ index.size >= k
  /\ index' = Clustered(index)
  /\ UNCHANGED latest

Next ==
  \/ \E id \in Ids, v \in Vectors : Add(id, v)
  \/ \E id \in Ids : Remove(id)
  \/ \E k \in ClusterCounts : BuildClusters(k)

Spec == Init /\ [][Next]_vars

-----------------------------------------------------------------------------
(***************************************************************************)
(* Properties.                                                             *)
(***************************************************************************)
TypeOK ==
  /\ index.size \in 0 .. MaxSize
  /\ index.ids \in [1 .. index.size -> Ids]
  /\ index.matrix \in [1 .. index.size -> Vectors]
  /\ index.pos \in [Ids -> 0 .. MaxSize]
  /\ index.assigned \in 0 .. MaxSize
  /\ latest \in [Ids -> Vectors \cup {NoVector}]

\* The dictionary and the list of ids are inverse to each other, whatever
\* removals have moved around: no position is shared, none is left over.
PositionsAgree ==
  /\ \A id \in Present(index) :
       index.pos[id] \in 1 .. index.size /\ index.ids[index.pos[id]] = id
  /\ \A n \in 1 .. index.size : index.pos[index.ids[n]] = n

\* The row scored for an id is the vector it was last added with, never one
\* of another entry or one that was replaced.
HitsAreCurrent ==
  \A n \in 1 .. index.size : index.matrix[n] = latest[index.ids[n]]

\* A clustered search indexes the list of ids by positions taken from the
\* clusters: none of them lies past its end.
ClustersInRange == index.assigned <= index.size

=============================================================================
