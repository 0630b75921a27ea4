------------------------- MODULE AnswerCacheProofs --------------------------
(***************************************************************************)
(* Proofs about AnswerCache, for any documents, sections, services,        *)
(* requests, keys and bounds, with and without cascades and crashes.       *)
(***************************************************************************)
EXTENDS AnswerCache, FiniteSetTheorems, TLAPS

(***************************************************************************)
(* Types.  A request past its arrival has a key, which the row it stores   *)
(* takes.                                                                  *)
(***************************************************************************)
HasKey == \A r \in Requests : pc[r] # "idle" => key[r] \in Keys
\* What a service's requests keep in memory, and what the tables hold.
RequestTypes ==
  /\ pc \in [Requests -> PC]
  /\ key \in [Requests -> Keys \cup {NoKey}]
  /\ standalone \in [Requests -> BOOLEAN]
  /\ ref \in [Requests -> Ids \cup {NoId}]
  /\ sources \in [Requests -> SUBSET Source]
  /\ basis \in [Requests -> SUBSET Read]
  /\ unchecked \in [Requests -> SUBSET Source]
  /\ reads \in [Requests -> 0 .. MaxReads]
  /\ since \in [Requests -> SUBSET Read]
  /\ HasKey

TableTypes ==
  /\ version \in [Sections -> Version]
  /\ rows \in [Ids -> Row \cup {NoRow}]
  /\ writes \in [Services -> 0 .. EvictionInterval - 1]
  /\ cascading \in Docs \cup {NoDoc}
  /\ lost \subseteq Docs

\* An id that is stored has a row.
LEMMA StoredRows ==
  ASSUME TableTypes, NEW i \in Stored
  PROVE  /\ i \in Ids /\ rows[i] \in Row
         /\ rows[i].key \in Keys
         /\ rows[i].sources \in SUBSET Source
         /\ rows[i].basis \in SUBSET Read
<1>1. i \in Ids /\ rows[i] \in Row
  BY DEF TableTypes, Stored
<1> QED
  BY <1>1 DEF Row

\* Invalidation changes nothing of a row but its validity.
LEMMA InvalidateKeeps ==
  ASSUME TableTypes, NEW i \in Ids
  PROVE  /\ Invalidate(i) \in Row \cup {NoRow}
         /\ rows[i] = NoRow => Invalidate(i) = NoRow
         /\ rows[i] # NoRow => /\ Invalidate(i).key = rows[i].key
                               /\ Invalidate(i).sources = rows[i].sources
                               /\ Invalidate(i).late = rows[i].late
                               /\ ~Invalidate(i).valid
<1>1. CASE rows[i] = NoRow
  BY <1>1 DEF Invalidate
<1>2. CASE rows[i] # NoRow
  <2>1. rows[i] \in Row /\ Invalidate(i) = [rows[i] EXCEPT !.valid = FALSE]
    BY <1>2 DEF TableTypes, Invalidate
  <2> QED
    BY <1>2, <2>1 DEF Row
<1> QED
  BY <1>1, <1>2

\* A step of a request keeps the types of what the requests hold.
LEMMA RequestsTyped ==
  ASSUME TableTypes, RequestTypes, NEW r \in Requests, RequestStep(r)
  PROVE  RequestTypes'
<1> USE NullAssumption, BoundAssumption
<1>1. ASSUME NEW i \in Ids, LookupHit(r, i)
      PROVE  RequestTypes'
  <2>1. i \in Stored
    BY <1>1 DEF LookupHit, ValidIds
  <2>2. /\ rows[i].sources \in SUBSET Source /\ rows[i].basis \in SUBSET Read
        /\ CurrentReads \in SUBSET Read
    BY <2>1, StoredRows DEF CurrentReads
  <2> QED
    BY <1>1, <2>2 DEF LookupHit, Goto, Hold, RequestTypes, HasKey, PC, Looking
<1>2. CASE LookupMiss(r)
  BY <1>2 DEF LookupMiss, Goto, RequestTypes, HasKey, PC, Looking
<1>3. CASE VerifySource(r)
  BY <1>3 DEF VerifySource, RequestTypes, HasKey
<1>4. CASE DoubleVerifyFails(r)
  BY <1>4 DEF DoubleVerifyFails, Goto, Hold, RequestTypes, HasKey, PC, Looking
<1>5. CASE FinishExact(r)
  BY <1>5 DEF FinishExact, Goto, RequestTypes, HasKey, PC, Looking, Answered
<1>6. CASE SemanticHit(r)
  <2>1. PICK i \in Candidates(key[r], Near) :
          IF standalone[r]
            THEN /\ Goto(r, "semantic_served")
                 /\ Hold(r, NoId, rows[i].sources, rows[i].basis)
                 /\ UNCHANGED since
            ELSE /\ Goto(r, "fuzzy")
                 /\ since' = [since EXCEPT ![r] = {}]
                 /\ UNCHANGED <<ref, sources, basis>>
    BY <1>6 DEF SemanticHit
  <2>2. rows[i].sources \in SUBSET Source /\ rows[i].basis \in SUBSET Read
    BY StoredRows DEF Candidates, ValidIds
  <2>3. UNCHANGED <<key, standalone, unchecked, reads>> /\ pc[r] = "semantic"
    BY <1>6 DEF SemanticHit
  <2> QED
    BY <2>1, <2>2, <2>3 DEF Goto, Hold, RequestTypes, HasKey, PC, Answered
<1>7. CASE SemanticContext(r)
  <2>1. PICK i \in Candidates(key[r], Related) :
          basis' = [basis EXCEPT ![r] = rows[i].basis]
    BY <1>7 DEF SemanticContext
  <2>2. rows[i].basis \in SUBSET Read
    BY StoredRows DEF Candidates, ValidIds
  <2> QED
    BY <1>7, <2>1, <2>2 DEF SemanticContext, Goto, RequestTypes, HasKey, PC
<1>8. CASE SemanticMiss(r)
  BY <1>8 DEF SemanticMiss, Goto, RequestTypes, HasKey, PC
<1>9. CASE FuzzyMatch(r)
  <2>1. \E b \in SUBSET Read : basis' = [basis EXCEPT ![r] = b]
    <3>1. CASE UNCHANGED basis
      BY <3>1 DEF RequestTypes
    <3>2. ASSUME NEW i \in ValidIds, basis' = [basis EXCEPT ![r] = @ \cup rows[i].basis]
          PROVE  \E b \in SUBSET Read : basis' = [basis EXCEPT ![r] = b]
      <4>1. rows[i].basis \in SUBSET Read
        BY StoredRows DEF ValidIds
      <4> QED
        BY <3>2, <4>1 DEF RequestTypes
    <3> QED
      BY <1>9, <3>1, <3>2 DEF FuzzyMatch
  <2> QED
    BY <1>9, <2>1 DEF FuzzyMatch, Goto, RequestTypes, HasKey, PC
<1>10. ASSUME NEW s \in Sections, NEW hashed \in BOOLEAN, ReadSection(r, s, hashed)
       PROVE  RequestTypes'
  <2>1. <<s, version[s]>> \in Read
        /\ <<s, IF hashed THEN version[s] ELSE NoHash>> \in Source
    BY <1>10 DEF ReadSection, Read, Source
  <2> QED
    BY <1>10, <2>1 DEF ReadSection, RequestTypes, HasKey
<1>11. CASE GenerateDone(r)
  BY <1>11 DEF GenerateDone, Goto, RequestTypes, HasKey, PC
<1>12. CASE GenerateError(r)
  BY <1>12 DEF GenerateError, Goto, Hold, RequestTypes, HasKey, PC
<1>13. CASE GenerateTimeout(r)
  BY <1>13 DEF GenerateTimeout, Goto, Hold, RequestTypes, HasKey, PC, Answered
<1>14. CASE StoreLookup(r)
  BY <1>14 DEF StoreLookup, Goto, RequestTypes, HasKey, PC, RowsOf, Stored
<1>15. CASE StoreConflict(r)
  BY <1>15 DEF StoreConflict, Goto, Hold, RequestTypes, HasKey, PC, Answered
<1>16. ASSUME NEW i \in Ids, NEW emb \in BOOLEAN, StoreCommit(r, i, emb)
       PROVE  RequestTypes'
  BY <1>16 DEF StoreCommit, Goto, Hold, RequestTypes, HasKey, PC, Answered
<1> QED
  BY <1>1, <1>2, <1>3, <1>4, <1>5, <1>6, <1>7, <1>8, <1>9, <1>10, <1>11, <1>12,
     <1>13, <1>14, <1>15, <1>16 DEF RequestStep

\* A row that is made of what a request holds is a row.
LEMMA NewRowTyped ==
  ASSUME RequestTypes, NEW r \in Requests, pc[r] # "idle", NEW emb \in BOOLEAN
  PROVE  /\ NewRow(r, emb) \in Row
         /\ NewRow(r, emb).key = key[r]
         /\ NewRow(r, emb).sources = sources[r]
         /\ NewRow(r, emb).valid
<1>1. key[r] \in Keys /\ sources[r] \in SUBSET Source /\ basis[r] \in SUBSET Read
  BY DEF RequestTypes, HasKey
<1>2. (\E src \in sources[r] : src[2] \in Hashes /\ ~Matches(src)) \in BOOLEAN
  OBVIOUS
<1> QED
  BY <1>1, <1>2 DEF NewRow, Row

\* What a commit leaves of the table: the new row, and of the others those
\* that are neither replaced nor evicted, unchanged.
LEMMA CommitRows ==
  ASSUME NEW r \in Requests, NEW i \in Ids, NEW emb \in BOOLEAN, StoreCommit(r, i, emb)
  PROVE  /\ DOMAIN rows' = Ids
         /\ rows'[i] \in {NewRow(r, emb), NoRow}
         /\ \A j \in Ids \ {i} : rows'[j] \in {rows[j], NoRow}
         /\ ref[r] \in Ids \ {i} => rows'[ref[r]] = NoRow
<1> DEFINE stored == Replace(r, i, NewRow(r, emb))
<1>1. \/ rows' = stored
      \/ \E E : rows' = [j \in Ids |-> IF j \in E THEN NoRow ELSE stored[j]]
  BY DEF StoreCommit
<1>2. /\ DOMAIN stored = Ids /\ stored[i] = NewRow(r, emb)
      /\ \A j \in Ids \ {i} : stored[j] = IF j = ref[r] THEN NoRow ELSE rows[j]
  BY DEF Replace
<1> HIDE DEF stored
<1> QED
  BY <1>1, <1>2

\* Every step keeps the types of the tables.
LEMMA TablesTyped ==
  ASSUME TableTypes, RequestTypes, [Next]_vars
  PROVE  TableTypes'
<1> USE NullAssumption, BoundAssumption, DomainAssumption
<1>1. ASSUME NEW r \in Requests, DoubleVerifyFails(r)
      PROVE  TableTypes'
  <2>1. \A i \in Ids : Invalidate(i) \in Row \cup {NoRow}
    BY InvalidateKeeps
  <2>2. rows' = [rows EXCEPT ![ref[r]] = Invalidate(ref[r])]
    BY <1>1 DEF DoubleVerifyFails, InvalidateHeld
  <2>3. rows' \in [Ids -> Row \cup {NoRow}]
    BY <2>1, <2>2 DEF TableTypes
  <2>4. UNCHANGED <<version, writes, cascading, lost>>
    BY <1>1 DEF DoubleVerifyFails, ingestion
  <2> QED
    BY <2>3, <2>4 DEF TableTypes
<1>2. ASSUME NEW r \in Requests, NEW i \in Ids, NEW emb \in BOOLEAN, StoreCommit(r, i, emb)
      PROVE  TableTypes'
  <2>1. NewRow(r, emb) \in Row
    BY <1>2, NewRowTyped DEF StoreCommit
  <2>2. rows' \in [Ids -> Row \cup {NoRow}]
    <3>1. \E f : rows' = [j \in Ids |-> f[j]]
      BY <1>2 DEF StoreCommit, Replace
    <3> QED
      BY <1>2, <2>1, <3>1, CommitRows DEF TableTypes
  <2>3. CountWrite(writes[ServiceOf[r]]) \in 0 .. EvictionInterval - 1
    BY DEF CountWrite, TableTypes
  <2>4. writes' = [writes EXCEPT ![ServiceOf[r]] = CountWrite(writes[ServiceOf[r]])]
    BY <1>2 DEF StoreCommit
  <2>5. UNCHANGED <<version, cascading, lost>>
    BY <1>2 DEF StoreCommit, ingestion
  <2> QED
    BY <2>2, <2>3, <2>4, <2>5 DEF TableTypes
<1>3. ASSUME NEW r \in Requests, RequestStep(r), UNCHANGED tables, UNCHANGED ingestion
      PROVE  TableTypes'
  BY <1>3 DEF tables, ingestion, TableTypes
<1>4. ASSUME NEW d \in Docs, Ingest(d)
      PROVE  TableTypes'
  <2>1. cascading' \in Docs \cup {NoDoc}
    BY <1>4 DEF Ingest
  <2> QED
    BY <1>4, <2>1 DEF Ingest, TableTypes
<1>5. CASE Cascade
  <2>1. \A i \in Ids : Invalidate(i) \in Row \cup {NoRow}
    BY InvalidateKeeps
  <2>2. rows' \in [Ids -> Row \cup {NoRow}]
    BY <1>5, <2>1 DEF Cascade, TableTypes
  <2>3. /\ UNCHANGED <<version, writes>> /\ cascading' = NoDoc
        /\ lost' = lost \ {cascading}
    BY <1>5 DEF Cascade
  <2> QED
    BY <2>2, <2>3 DEF TableTypes
<1>6. CASE CascadeFails
  BY <1>6 DEF CascadeFails, tables, TableTypes
<1>7. ASSUME NEW s \in Services, Crash(s)
      PROVE  TableTypes'
  BY <1>7 DEF Crash, ingestion, TableTypes
<1>8. ASSUME NEW r \in Requests, NEW k \in Keys, NEW qual \in Verdicts, Receive(r, k, qual)
      PROVE  TableTypes'
  BY <1>8 DEF Receive, tables, ingestion, TableTypes
<1>9. CASE UNCHANGED vars
  BY <1>9 DEF vars, TableTypes
<1>10. ASSUME NEW r \in Requests, RequestStep(r)
       PROVE  TableTypes'
  BY <1>1, <1>2, <1>3, <1>10
     DEF RequestStep, LookupHit, LookupMiss, VerifySource, FinishExact, SemanticHit,
         SemanticContext, SemanticMiss, FuzzyMatch, ReadSection, GenerateDone,
         GenerateError, GenerateTimeout, StoreLookup, StoreConflict
<1> QED
  BY <1>4, <1>5, <1>6, <1>7, <1>8, <1>9, <1>10 DEF Next

\* The steps that are no request's keep what the requests hold typed.
LEMMA OthersTyped ==
  ASSUME TableTypes, RequestTypes, [Next]_vars,
         ~ \E r \in Requests : RequestStep(r)
  PROVE  RequestTypes'
<1> USE NullAssumption, BoundAssumption, DomainAssumption
<1>1. ASSUME NEW r \in Requests, NEW k \in Keys, NEW qual \in Verdicts, Receive(r, k, qual)
      PROVE  RequestTypes'
  <2>1. CurrentReads \in SUBSET Read
    BY DEF CurrentReads
  <2> QED
    BY <1>1, <2>1 DEF Receive, Goto, Hold, RequestTypes, HasKey, PC, Looking
<1>2. ASSUME NEW d \in Docs, Ingest(d)
      PROVE  RequestTypes'
  <2>1. since' \in [Requests -> SUBSET Read]
    BY <1>2 DEF Ingest, RequestTypes
  <2> QED
    BY <1>2, <2>1 DEF Ingest, RequestTypes, HasKey
<1>3. CASE Cascade \/ CascadeFails \/ UNCHANGED vars
  BY <1>3 DEF Cascade, CascadeFails, request, vars, RequestTypes, HasKey
<1>4. ASSUME NEW s \in Services, Crash(s)
      PROVE  RequestTypes'
  <2> DEFINE Reset(f, v) == [q \in Requests |-> IF ServiceOf[q] = s THEN v ELSE f[q]]
  <2>1. /\ pc' = Reset(pc, "idle") /\ key' = Reset(key, NoKey)
        /\ standalone' = Reset(standalone, TRUE) /\ ref' = Reset(ref, NoId)
        /\ sources' = Reset(sources, {}) /\ basis' = Reset(basis, {})
        /\ unchecked' = Reset(unchecked, {}) /\ reads' = Reset(reads, 0)
        /\ since' = Reset(since, {})
    BY <1>4 DEF Crash
  <2>2. /\ pc' \in [Requests -> PC] /\ key' \in [Requests -> Keys \cup {NoKey}]
        /\ ref' \in [Requests -> Ids \cup {NoId}]
        /\ sources' \in [Requests -> SUBSET Source]
        /\ basis' \in [Requests -> SUBSET Read]
    BY <2>1 DEF RequestTypes, PC
  <2>3. /\ unchecked' \in [Requests -> SUBSET Source]
        /\ reads' \in [Requests -> 0 .. MaxReads]
        /\ since' \in [Requests -> SUBSET Read]
    BY <2>1 DEF RequestTypes
  <2>4. standalone' \in [Requests -> BOOLEAN]
    BY <2>1 DEF RequestTypes
  <2>5. HasKey'
    BY <2>1 DEF RequestTypes, HasKey
  <2> QED
    BY <2>2, <2>3, <2>4, <2>5 DEF RequestTypes
<1> QED
  BY <1>1, <1>2, <1>3, <1>4 DEF Next

\* Every variable keeps its type, for all constants.
THEOREM TypeCorrect == Spec => []TypeOK
<1>1. Init => TableTypes /\ RequestTypes
  BY NullAssumption, BoundAssumption
     DEF Init, TableTypes, RequestTypes, HasKey, PC, Version
<1>2. TableTypes /\ RequestTypes /\ [Next]_vars => (TableTypes /\ RequestTypes)'
  BY TablesTyped, RequestsTyped, OthersTyped
<1>3. TableTypes /\ RequestTypes => TypeOK
  BY DEF TableTypes, RequestTypes, TypeOK
<1> QED
  BY <1>1, <1>2, <1>3, PTL DEF Spec

Typed == TableTypes /\ RequestTypes

\* Both kinds of types together, for the theorems below.
LEMMA AlwaysTyped == Spec => []Typed
<1>1. Init => Typed
  BY NullAssumption, BoundAssumption
     DEF Init, Typed, TableTypes, RequestTypes, HasKey, PC, Version
<1>2. Typed /\ [Next]_vars => Typed'
  BY TablesTyped, RequestsTyped, OthersTyped DEF Typed
<1> QED
  BY <1>1, <1>2, PTL DEF Spec

\* How a step changes the table: a commit, or some rows invalidated where
\* they are, by a cascade or a verification.
LEMMA RowsSteps ==
  ASSUME Typed, [Next]_vars
  PROVE  /\ \/ \E r \in Requests, i \in Ids, emb \in BOOLEAN : StoreCommit(r, i, emb)
            \/ \E r \in Requests : DoubleVerifyFails(r)
            \/ Cascade
            \/ UNCHANGED rows
         /\ \/ \E r \in Requests, i \in Ids, emb \in BOOLEAN : StoreCommit(r, i, emb)
            \/ /\ DOMAIN rows' = Ids
               /\ \A i \in Ids : rows'[i] \in {rows[i], Invalidate(i)}
<1>1. ASSUME UNCHANGED rows
      PROVE  DOMAIN rows' = Ids /\ \A i \in Ids : rows'[i] \in {rows[i], Invalidate(i)}
  BY <1>1 DEF Typed, TableTypes
<1>2. ASSUME NEW r \in Requests, DoubleVerifyFails(r)
      PROVE  DOMAIN rows' = Ids /\ \A i \in Ids : rows'[i] \in {rows[i], Invalidate(i)}
  BY <1>2 DEF DoubleVerifyFails, InvalidateHeld, Typed, TableTypes
<1>3. ASSUME Cascade
      PROVE  DOMAIN rows' = Ids /\ \A i \in Ids : rows'[i] \in {rows[i], Invalidate(i)}
  BY <1>3 DEF Cascade
<1>4. ASSUME NEW r \in Requests, RequestStep(r)
      PROVE  \/ UNCHANGED rows
             \/ DoubleVerifyFails(r)
             \/ \E i \in Ids, emb \in BOOLEAN : StoreCommit(r, i, emb)
  BY <1>4 DEF RequestStep, LookupHit, LookupMiss, VerifySource, FinishExact, SemanticHit,
         SemanticContext, SemanticMiss, FuzzyMatch, ReadSection, GenerateDone,
         GenerateError, GenerateTimeout, StoreLookup, StoreConflict, tables
<1>5. ASSUME NEW d \in Docs, Ingest(d)
      PROVE  UNCHANGED rows
  BY <1>5 DEF Ingest
<1>6. ASSUME NEW s \in Services, Crash(s)
      PROVE  UNCHANGED rows
  BY <1>6 DEF Crash
<1>7. ASSUME NEW r \in Requests, NEW k \in Keys, NEW qual \in Verdicts, Receive(r, k, qual)
      PROVE  UNCHANGED rows
  BY <1>7 DEF Receive, tables
<1>8. ASSUME CascadeFails \/ UNCHANGED vars
      PROVE  UNCHANGED rows
  BY <1>8 DEF CascadeFails, tables, vars
<1> QED
  BY <1>1, <1>2, <1>3, <1>4, <1>5, <1>6, <1>7, <1>8 DEF Next

-----------------------------------------------------------------------------
\* A key has one row at most, whichever services store it at once.
THEOREM KeysUnique == Spec => []UniqueKey
<1>1. Init => UniqueKey
  BY DEF Init, UniqueKey, Stored
<1>2. Typed /\ UniqueKey /\ [Next]_vars => UniqueKey'
  <2> SUFFICES ASSUME Typed, UniqueKey, [Next]_vars, NEW i \in Ids, NEW j \in Ids,
                      rows'[i] # NoRow, rows'[j] # NoRow, rows'[i].key = rows'[j].key
               PROVE  i = j
    BY DEF UniqueKey, Stored
  <2>1. ASSUME NEW r \in Requests, NEW n \in Ids, NEW emb \in BOOLEAN,
               StoreCommit(r, n, emb)
        PROVE  i = j
    <3>1. /\ rows'[n] \in {NewRow(r, emb), NoRow}
          /\ \A m \in Ids \ {n} : rows'[m] \in {rows[m], NoRow}
          /\ ref[r] \in Ids \ {n} => rows'[ref[r]] = NoRow
      BY <2>1, CommitRows
    <3>2. NewRow(r, emb).key = key[r]
      BY <2>1, NewRowTyped DEF StoreCommit, Typed
    <3>3. RowsOf(key[r]) \subseteq {ref[r]}
      BY <2>1 DEF StoreCommit
    <3>4. \A m \in Ids \ {n} : rows'[m] # NoRow => rows'[m].key # key[r]
      BY <3>1, <3>3 DEF RowsOf, Stored
    <3>5. \A m \in Ids \ {n} : rows'[m] # NoRow => rows'[m] = rows[m] /\ m \in Stored
      BY <3>1 DEF Stored
    <3> QED
      BY <3>1, <3>2, <3>4, <3>5 DEF UniqueKey
  <2>2. CASE \A m \in Ids : rows'[m] \in {rows[m], Invalidate(m)}
    <3>1. \A m \in Ids : rows'[m] # NoRow => m \in Stored /\ rows'[m].key = rows[m].key
      BY <2>2, InvalidateKeeps DEF Typed, Stored
    <3> QED
      BY <3>1 DEF UniqueKey
  <2> QED
    BY <2>1, <2>2, RowsSteps
<1> QED
  BY <1>1, <1>2, AlwaysTyped, PTL DEF Spec

-----------------------------------------------------------------------------
(***************************************************************************)
(* Verification.  Between lookup and serve a request knows every version   *)
(* that was current meanwhile (since); what it has checked was current.    *)
(***************************************************************************)
Verified(r) ==
  /\ pc[r] = "verify" =>
       /\ CurrentReads \subseteq since[r]
       /\ unchecked[r] \subseteq sources[r]
       /\ key[r] \notin TemporalKeys => sources[r] \ unchecked[r] \subseteq since[r]
  /\ pc[r] = "exact_served" /\ key[r] \notin TemporalKeys => sources[r] \subseteq since[r]

\* A request changes nothing another one holds, and no section.
Elsewhere(r) ==
  /\ version' = version
  /\ \A q \in Requests \ {r} :
       /\ pc'[q] = pc[q] /\ key'[q] = key[q] /\ ref'[q] = ref[q]
       /\ sources'[q] = sources[q] /\ unchecked'[q] = unchecked[q]
       /\ since'[q] = since[q]

\* Every step of a request is of that kind.
LEMMA RequestLocal ==
  ASSUME Typed, NEW r \in Requests,
         RequestStep(r) \/ \E k \in Keys, qual \in Verdicts : Receive(r, k, qual)
  PROVE  Elsewhere(r)
<1> USE DEF Typed, RequestTypes, Elsewhere
<1>1. CASE \E k \in Keys, qual \in Verdicts : Receive(r, k, qual)
  BY <1>1 DEF Receive, Goto, Hold, tables
<1>2. CASE \/ \E i \in Ids : LookupHit(r, i)
           \/ LookupMiss(r) \/ VerifySource(r) \/ DoubleVerifyFails(r) \/ FinishExact(r)
  BY <1>2 DEF LookupHit, LookupMiss, VerifySource, DoubleVerifyFails, FinishExact,
              Goto, Hold, tables
<1>3. CASE SemanticHit(r) \/ SemanticContext(r) \/ SemanticMiss(r) \/ FuzzyMatch(r)
  BY <1>3 DEF SemanticHit, SemanticContext, SemanticMiss, FuzzyMatch, Goto, Hold, tables
<1>4. CASE \/ \E s \in Sections, hashed \in BOOLEAN : ReadSection(r, s, hashed)
           \/ GenerateDone(r) \/ GenerateError(r) \/ GenerateTimeout(r)
  BY <1>4 DEF ReadSection, GenerateDone, GenerateError, GenerateTimeout, Goto, Hold, tables
<1>5. CASE \/ StoreLookup(r) \/ StoreConflict(r)
           \/ \E i \in Ids, emb \in BOOLEAN : StoreCommit(r, i, emb)
  BY <1>5 DEF StoreLookup, StoreConflict, StoreCommit, Goto, Hold, tables
<1> QED
  BY <1>1, <1>2, <1>3, <1>4, <1>5 DEF RequestStep

\* What the request itself does keeps what it has checked.
LEMMA VerifiedStep ==
  ASSUME Typed, NEW r \in Requests, Verified(r),
         RequestStep(r) \/ \E k \in Keys, qual \in Verdicts : Receive(r, k, qual)
  PROVE  Verified(r)'
<1> USE DEF Typed, RequestTypes
<1>1. ASSUME NEW i \in Ids, LookupHit(r, i)
      PROVE  Verified(r)'
  BY <1>1 DEF LookupHit, Goto, Hold, tables, Verified, CurrentReads
<1>2. CASE VerifySource(r)
  <2>1. PICK src \in unchecked[r] : Matches(src) /\ unchecked' = [unchecked EXCEPT ![r] = @ \ {src}]
    BY <1>2 DEF VerifySource
  <2>2. src \in CurrentReads
    <3>1. src \in Source
      BY <2>1
    <3> QED
      BY <2>1, <3>1 DEF Matches, CurrentReads, Source, Read
  <2> QED
    BY <1>2, <2>1, <2>2 DEF VerifySource, tables, Verified, CurrentReads
<1>3. CASE FinishExact(r)
  BY <1>3 DEF FinishExact, Goto, Verified
<1>4. CASE pc'[r] \notin {"verify", "exact_served"}
  BY <1>4 DEF Verified
<1>5. CASE \E k \in Keys, qual \in Verdicts : Receive(r, k, qual)
  BY <1>4, <1>5 DEF Receive, Goto
<1>6. CASE LookupMiss(r) \/ DoubleVerifyFails(r)
  BY <1>4, <1>6 DEF LookupMiss, DoubleVerifyFails, Goto
<1>7. CASE SemanticHit(r) \/ SemanticContext(r) \/ SemanticMiss(r) \/ FuzzyMatch(r)
  BY <1>4, <1>7 DEF SemanticHit, SemanticContext, SemanticMiss, FuzzyMatch, Goto
<1>8. CASE \/ \E s \in Sections, hashed \in BOOLEAN : ReadSection(r, s, hashed)
           \/ GenerateDone(r) \/ GenerateError(r) \/ GenerateTimeout(r)
  BY <1>4, <1>8 DEF ReadSection, GenerateDone, GenerateError, GenerateTimeout, Goto
<1>9. CASE \/ StoreLookup(r) \/ StoreConflict(r)
           \/ \E i \in Ids, emb \in BOOLEAN : StoreCommit(r, i, emb)
  BY <1>4, <1>9 DEF StoreLookup, StoreConflict, StoreCommit, Goto
<1> QED
  BY <1>1, <1>2, <1>3, <1>5, <1>6, <1>7, <1>8, <1>9 DEF RequestStep

\* Nor does anybody else's step or an ingestion take it away.
LEMMA VerifiedAlways == Spec => [](\A r \in Requests : Verified(r))
<1>1. Init => \A r \in Requests : Verified(r)
  BY DEF Init, Verified
<1>2. Typed /\ (\A r \in Requests : Verified(r)) /\ [Next]_vars
        => (\A r \in Requests : Verified(r))'
  <2> SUFFICES ASSUME Typed, \A q \in Requests : Verified(q), [Next]_vars,
                      NEW r \in Requests
               PROVE  Verified(r)'
    OBVIOUS
  <2>0. Verified(r)
    OBVIOUS
  <2>1. ASSUME NEW q \in Requests,
               RequestStep(q) \/ \E k \in Keys, qual \in Verdicts : Receive(q, k, qual)
        PROVE  Verified(r)'
    <3>1. CASE q = r
      BY <2>0, <2>1, <3>1, VerifiedStep
    <3>2. CASE q # r
      BY <2>0, <2>1, <3>2, RequestLocal DEF Elsewhere, Verified, CurrentReads
    <3> QED
      BY <3>1, <3>2
  <2>2. ASSUME NEW d \in Docs, Ingest(d)
        PROVE  Verified(r)'
    <3>1. UNCHANGED <<pc, key, sources, unchecked>>
      BY <2>2 DEF Ingest
    <3>2. /\ since[r] \subseteq since'[r]
          /\ pc[r] = "verify" => CurrentReads' \subseteq since'[r]
      BY <2>2 DEF Ingest, Looking, CurrentReads
    <3> QED
      BY <2>0, <3>1, <3>2 DEF Verified
  <2>3. ASSUME NEW s \in Services, Crash(s)
        PROVE  Verified(r)'
    <3>1. /\ pc'[r] = IF ServiceOf[r] = s THEN "idle" ELSE pc[r]
          /\ key'[r] = IF ServiceOf[r] = s THEN NoKey ELSE key[r]
          /\ sources'[r] = IF ServiceOf[r] = s THEN {} ELSE sources[r]
          /\ unchecked'[r] = IF ServiceOf[r] = s THEN {} ELSE unchecked[r]
          /\ since'[r] = IF ServiceOf[r] = s THEN {} ELSE since[r]
          /\ version' = version
      BY <2>3 DEF Crash
    <3> QED
      BY <2>0, <3>1 DEF Verified, CurrentReads
  <2>4. CASE Cascade \/ CascadeFails \/ UNCHANGED vars
    BY <2>0, <2>4 DEF Cascade, CascadeFails, request, tables, vars, Verified, CurrentReads
  <2> QED
    BY <2>1, <2>2, <2>3, <2>4 DEF Next
<1> QED
  BY <1>1, <1>2, AlwaysTyped, PTL DEF Spec

\* What an exact hit serves was current, source by source, after the lookup.
THEOREM ExactServed == Spec => []ExactServedWasCurrent
<1>1. (\A r \in Requests : Verified(r)) => ExactServedWasCurrent
  BY DEF Verified, ExactServedWasCurrent
<1> QED
  BY <1>1, VerifiedAlways, PTL

-----------------------------------------------------------------------------
(***************************************************************************)
(* Invalidation by id.  The row a verification looked up keeps its sources *)
(* or goes; no other row gets its id.                                      *)
(***************************************************************************)
Held(r) ==
  pc[r] = "verify" => /\ ref[r] \in Ids
                      /\ rows[ref[r]] # NoRow => rows[ref[r]].sources = sources[r]

\* It does so in every reachable state.
LEMMA HeldAlways == Spec => [](\A r \in Requests : Held(r))
<1>1. Init => \A r \in Requests : Held(r)
  BY DEF Init, Held
<1>2. Typed /\ (\A r \in Requests : Held(r)) /\ [Next]_vars
        => (\A r \in Requests : Held(r))'
  <2> SUFFICES ASSUME Typed, \A q \in Requests : Held(q), [Next]_vars,
                      NEW r \in Requests, pc'[r] = "verify"
               PROVE  /\ ref'[r] \in Ids
                      /\ rows'[ref'[r]] # NoRow => rows'[ref'[r]].sources = sources'[r]
    BY DEF Held
  <2>1. ASSUME NEW i \in Ids, LookupHit(r, i)
        PROVE  ref'[r] = i /\ sources'[r] = rows[i].sources /\ rows' = rows
    BY <2>1 DEF LookupHit, Hold, tables, Typed, RequestTypes
  <2>2. CASE \E i \in Ids : LookupHit(r, i)
    BY <2>1, <2>2
  <2>3. ASSUME ~ \E i \in Ids : LookupHit(r, i)
        PROVE  pc[r] = "verify" /\ ref'[r] = ref[r] /\ sources'[r] = sources[r]
    <3> USE DEF Typed, RequestTypes
    <3>1. CASE RequestStep(r)
      BY <2>3, <3>1
         DEF RequestStep, LookupMiss, VerifySource, DoubleVerifyFails, FinishExact,
             SemanticHit, SemanticContext, SemanticMiss, FuzzyMatch, ReadSection,
             GenerateDone, GenerateError, GenerateTimeout, StoreLookup, StoreConflict,
             StoreCommit, Goto
    <3>2. CASE \E k \in Keys, qual \in Verdicts : Receive(r, k, qual)
      BY <3>2 DEF Receive, Goto
    <3>3. ASSUME NEW q \in Requests \ {r},
                 RequestStep(q) \/ \E k \in Keys, qual \in Verdicts : Receive(q, k, qual)
          PROVE  pc[r] = "verify" /\ ref'[r] = ref[r] /\ sources'[r] = sources[r]
      BY <3>3, RequestLocal DEF Elsewhere
    <3>4. ASSUME NEW s \in Services, Crash(s)
          PROVE  pc[r] = "verify" /\ ref'[r] = ref[r] /\ sources'[r] = sources[r]
      <4>1. /\ pc'[r] = IF ServiceOf[r] = s THEN "idle" ELSE pc[r]
            /\ ref'[r] = IF ServiceOf[r] = s THEN NoId ELSE ref[r]
            /\ sources'[r] = IF ServiceOf[r] = s THEN {} ELSE sources[r]
        BY <3>4 DEF Crash
      <4> QED
        BY <4>1
    <3>5. CASE Cascade \/ CascadeFails \/ UNCHANGED vars \/ \E d \in Docs : Ingest(d)
      BY <3>5 DEF Cascade, CascadeFails, Ingest, request, vars
    <3> QED
      BY <3>1, <3>2, <3>3, <3>4, <3>5 DEF Next
  <2>4. CASE ~ \E i \in Ids : LookupHit(r, i)
    <3>1. /\ ref'[r] = ref[r] /\ sources'[r] = sources[r] /\ ref[r] \in Ids
          /\ rows[ref[r]] # NoRow => rows[ref[r]].sources = sources[r]
      BY <2>3, <2>4 DEF Held
    <3>2. ASSUME NEW q \in Requests, NEW i \in Ids, NEW emb \in BOOLEAN,
                 StoreCommit(q, i, emb)
          PROVE  rows'[ref[r]] \in {rows[ref[r]], NoRow}
      <4>1. i # ref[r]
        BY <3>2 DEF StoreCommit, Fresh
      <4> QED
        BY <3>1, <3>2, <4>1, CommitRows
    <3>3. ASSUME \A i \in Ids : rows'[i] \in {rows[i], Invalidate(i)}
          PROVE  \/ rows'[ref[r]] = NoRow
                 \/ rows[ref[r]] # NoRow /\ rows'[ref[r]].sources = rows[ref[r]].sources
      BY <3>1, <3>3, InvalidateKeeps DEF Typed
    <3> QED
      BY <3>1, <3>2, <3>3, RowsSteps
  <2> QED
    BY <2>2, <2>4, <2>1
<1> QED
  BY <1>1, <1>2, AlwaysTyped, PTL DEF Spec

\* Only a cascade, or a verification of that very row, takes an answer down.
THEOREM InvalidatesOnlyStale == Spec => OnlyStaleRowsInvalidated
<1> DEFINE Stale(i) == \/ cascading # NoDoc /\ cascading' = NoDoc
                       \/ \E src \in rows[i].sources : ~Matches(src)
           AllHeld == \A r \in Requests : Held(r)
           AllVerified == \A r \in Requests : Verified(r)
<1>1. Typed /\ AllHeld /\ AllVerified /\ [Next]_vars
        => \A i \in ValidIds : rows'[i] # NoRow /\ ~rows'[i].valid => Stale(i)
  <2> SUFFICES ASSUME Typed, AllHeld, AllVerified, [Next]_vars, NEW i \in ValidIds,
                      rows'[i] # NoRow, ~rows'[i].valid
               PROVE  Stale(i)
    OBVIOUS
  <2>0. i \in Ids /\ rows[i] # NoRow /\ rows[i].valid
    BY DEF ValidIds, Stored
  <2>1. ASSUME NEW r \in Requests, NEW n \in Ids, NEW emb \in BOOLEAN,
               StoreCommit(r, n, emb)
        PROVE  FALSE
    <3>1. NewRow(r, emb).valid
      BY <2>1, NewRowTyped DEF StoreCommit, Typed
    <3> QED
      BY <2>0, <2>1, <3>1, CommitRows
  <2>2. ASSUME NEW r \in Requests, DoubleVerifyFails(r)
        PROVE  Stale(i)
    <3>1. pc[r] = "verify" /\ rows' = [rows EXCEPT ![ref[r]] = Invalidate(ref[r])]
      BY <2>2 DEF DoubleVerifyFails, InvalidateHeld
    <3>2. i = ref[r]
      BY <2>0, <3>1 DEF Typed, TableTypes
    <3>3. PICK src \in unchecked[r] : ~Matches(src)
      BY <2>2 DEF DoubleVerifyFails, Fails
    <3>4. src \in rows[i].sources
      BY <2>0, <3>1, <3>2, <3>3 DEF Held, Verified
    <3> QED
      BY <3>3, <3>4
  <2>3. CASE Cascade
    BY <2>3 DEF Cascade
  <2>4. CASE UNCHANGED rows
    BY <2>0, <2>4
  <2> QED
    BY <2>1, <2>2, <2>3, <2>4, RowsSteps
<1> QED
  BY <1>1, AlwaysTyped, HeldAlways, VerifiedAlways, PTL DEF Spec, OnlyStaleRowsInvalidated

-----------------------------------------------------------------------------
(***************************************************************************)
(* Provenance.  A section that a source names with a hash has existed.     *)
(***************************************************************************)
Born(src) == src[2] \in Hashes => version[src[1]] # Unborn

RowsBorn == \A i \in Stored : \A src \in rows[i].sources : Born(src)
RequestsBorn == \A r \in Requests : \A src \in sources[r] : Born(src)

\* Where the sources a request holds come from.
LEMMA SourcesFrom ==
  ASSUME Typed, [Next]_vars, NEW r \in Requests, NEW src \in sources'[r]
  PROVE  \/ src \in sources[r]
         \/ \E i \in Stored : src \in rows[i].sources
         \/ version[src[1]] \in Hashes
<1> USE DEF Typed, RequestTypes
<1>1. ASSUME NEW i \in Ids, LookupHit(r, i)
      PROVE  \E j \in Stored : src \in rows[j].sources
  BY <1>1 DEF LookupHit, Hold, ValidIds
<1>2. CASE SemanticHit(r)
  BY <1>2 DEF SemanticHit, Hold, Candidates, ValidIds
<1>3. ASSUME NEW s \in Sections, NEW hashed \in BOOLEAN, ReadSection(r, s, hashed)
      PROVE  src \in sources[r] \/ version[src[1]] \in Hashes
  BY <1>3 DEF ReadSection
<1>4. CASE \/ LookupMiss(r) \/ VerifySource(r) \/ DoubleVerifyFails(r) \/ FinishExact(r)
           \/ SemanticContext(r) \/ SemanticMiss(r) \/ FuzzyMatch(r)
  BY <1>4 DEF LookupMiss, VerifySource, DoubleVerifyFails, FinishExact, Hold,
              SemanticContext, SemanticMiss, FuzzyMatch
<1>5. CASE \/ GenerateDone(r) \/ GenerateError(r) \/ GenerateTimeout(r)
           \/ StoreLookup(r) \/ StoreConflict(r)
           \/ \E i \in Ids, emb \in BOOLEAN : StoreCommit(r, i, emb)
  BY <1>5 DEF GenerateDone, GenerateError, GenerateTimeout, StoreLookup, StoreConflict,
              StoreCommit, Hold
<1>6. CASE \E k \in Keys, qual \in Verdicts : Receive(r, k, qual)
  BY <1>6 DEF Receive, Hold
<1>7. ASSUME NEW q \in Requests \ {r},
             RequestStep(q) \/ \E k \in Keys, qual \in Verdicts : Receive(q, k, qual)
      PROVE  src \in sources[r]
  BY <1>7, RequestLocal DEF Elsewhere
<1>8. ASSUME NEW s \in Services, Crash(s)
      PROVE  src \in sources[r]
  <2>1. sources'[r] = IF ServiceOf[r] = s THEN {} ELSE sources[r]
    BY <1>8 DEF Crash
  <2> QED
    BY <2>1
<1>9. CASE Cascade \/ CascadeFails \/ UNCHANGED vars \/ \E d \in Docs : Ingest(d)
  BY <1>9 DEF Cascade, CascadeFails, Ingest, request, vars
<1> QED
  BY <1>1, <1>2, <1>3, <1>4, <1>5, <1>6, <1>7, <1>8, <1>9 DEF Next, RequestStep

\* Where the sources of a row come from: a row there was, with the same
\* lateness, or a commit that marks the row if a source is out of date.
LEMMA RowsFrom ==
  ASSUME Typed, [Next]_vars, NEW i \in Ids, rows'[i] # NoRow
  PROVE  \/ /\ i \in Stored
            /\ rows'[i].sources = rows[i].sources
            /\ rows'[i].late = rows[i].late
            /\ rows'[i].valid => rows[i].valid
         \/ /\ version' = version /\ cascading' = cascading /\ lost' = lost
            /\ \E r \in Requests : rows'[i].sources = sources[r]
            /\ (\E src \in rows'[i].sources : src[2] \in Hashes /\ ~Matches(src))
                 => rows'[i].late
<1>1. ASSUME NEW r \in Requests, NEW n \in Ids, NEW emb \in BOOLEAN, StoreCommit(r, n, emb)
      PROVE  \/ i \in Stored /\ rows'[i] = rows[i]
             \/ /\ version' = version /\ cascading' = cascading /\ lost' = lost
                /\ rows'[i].sources = sources[r]
                /\ (\E src \in rows'[i].sources : src[2] \in Hashes /\ ~Matches(src))
                     => rows'[i].late
  <2>1. UNCHANGED <<version, cascading, lost>>
    BY <1>1 DEF StoreCommit, ingestion
  <2>2. /\ NewRow(r, emb).sources = sources[r]
        /\ (\E src \in sources[r] : src[2] \in Hashes /\ ~Matches(src))
             => NewRow(r, emb).late
    BY DEF NewRow
  <2>3. CASE i = n
    BY <1>1, <2>1, <2>2, <2>3, CommitRows
  <2>4. CASE i # n
    BY <1>1, <2>4, CommitRows DEF Stored
  <2> QED
    BY <2>3, <2>4
<1>2. ASSUME rows'[i] \in {rows[i], Invalidate(i)}
      PROVE  /\ i \in Stored
             /\ rows'[i].sources = rows[i].sources
             /\ rows'[i].late = rows[i].late
             /\ rows'[i].valid => rows[i].valid
  BY <1>2, InvalidateKeeps DEF Typed, Stored
<1> QED
  BY <1>1, <1>2, RowsSteps

\* Versions change in ingestions only, and never back to Unborn.
LEMMA VersionSteps ==
  ASSUME Typed, [Next]_vars
  PROVE  /\ version' = version \/ \E d \in Docs : Ingest(d)
         /\ \A s \in Sections : version[s] # Unborn => version'[s] # Unborn
<1> USE NullAssumption DEF Typed, TableTypes
<1>1. ASSUME NEW d \in Docs, Ingest(d)
      PROVE  \A s \in Sections : version[s] # Unborn => version'[s] # Unborn
  BY <1>1 DEF Ingest, NextVersions, Version
<1>2. ASSUME NEW s \in Services, Crash(s)
      PROVE  version' = version
  BY <1>2 DEF Crash
<1>3. ASSUME Cascade \/ CascadeFails \/ UNCHANGED vars
      PROVE  version' = version
  BY <1>3 DEF Cascade, CascadeFails, tables, vars
<1>4. ASSUME NEW r \in Requests,
             RequestStep(r) \/ \E k \in Keys, qual \in Verdicts : Receive(r, k, qual)
      PROVE  version' = version
  BY <1>4, RequestLocal DEF Elsewhere
<1> QED
  BY <1>1, <1>2, <1>3, <1>4 DEF Next

\* Sources are born in reads of current sections, and sections stay born.
LEMMA AlwaysBorn == Spec => [](RowsBorn /\ RequestsBorn)
<1>1. Init => RowsBorn /\ RequestsBorn
  BY DEF Init, RowsBorn, RequestsBorn, Stored
<1>2. Typed /\ RowsBorn /\ RequestsBorn /\ [Next]_vars => (RowsBorn /\ RequestsBorn)'
  <2> SUFFICES ASSUME Typed, RowsBorn, RequestsBorn, [Next]_vars
               PROVE  RowsBorn' /\ RequestsBorn'
    OBVIOUS
  <2> USE NullAssumption
  <2>0. ASSUME NEW src \in Source, Born(src)
        PROVE  Born(src)'
    <3>1. src[1] \in Sections
      BY DEF Source
    <3> QED
      BY <2>0, <3>1, VersionSteps DEF Born
  <2>1. RowsBorn'
    <3> SUFFICES ASSUME NEW i \in Ids, rows'[i] # NoRow, NEW src \in rows'[i].sources
                 PROVE  Born(src)'
      BY DEF RowsBorn, Stored
    <3>1. Born(src) /\ src \in Source
      BY RowsFrom, StoredRows DEF RowsBorn, RequestsBorn, Typed, RequestTypes
    <3> QED
      BY <3>1, <2>0
  <2>2. RequestsBorn'
    <3> SUFFICES ASSUME NEW r \in Requests, NEW src \in sources'[r]
                 PROVE  Born(src)'
      BY DEF RequestsBorn
    <3>1. src \in Source
      <4>1. RequestTypes'
        BY RequestsTyped, OthersTyped DEF Typed
      <4> QED
        BY <4>1 DEF RequestTypes
    <3>2. Born(src)
      BY SourcesFrom DEF RowsBorn, RequestsBorn, Born
    <3> QED
      BY <3>1, <3>2, <2>0
  <2> QED
    BY <2>1, <2>2
<1> QED
  BY <1>1, <1>2, AlwaysTyped, PTL DEF Spec

-----------------------------------------------------------------------------
\* Where ingestion is followed by a cascade, every valid answer that names an
\* outdated version of a current section is late, or awaits that cascade, or
\* is one the cascade was lost for.
THEOREM StaleExplained == CascadeAfterIngest => (Spec => []StaleRowsExplained)
<1> SUFFICES ASSUME CascadeAfterIngest
             PROVE  Spec => []StaleRowsExplained
  OBVIOUS
<1>1. Init => StaleRowsExplained
  BY DEF Init, StaleRowsExplained, ValidIds, Stored
<1>2. Typed /\ RowsBorn /\ RequestsBorn /\ StaleRowsExplained /\ [Next]_vars
        => StaleRowsExplained'
  <2> SUFFICES ASSUME Typed, RowsBorn, RequestsBorn, StaleRowsExplained, [Next]_vars,
                      NEW i \in Ids, rows'[i] # NoRow, rows'[i].valid,
                      NEW src \in rows'[i].sources, src[2] \in Hashes,
                      version'[src[1]] \in Hashes \ {src[2]}, ~rows'[i].late
               PROVE  DocOf[src[1]] \in lost' \cup {cascading'}
    BY DEF StaleRowsExplained, ValidIds, Stored
  <2> DEFINE Explained == DocOf[src[1]] \in lost \cup {cascading}
             Before == i \in ValidIds /\ src \in rows[i].sources /\ ~rows[i].late
  <2>1. \/ Before
        \/ /\ version' = version
           /\ (\E q \in rows'[i].sources : q[2] \in Hashes /\ ~Matches(q)) => rows'[i].late
    BY RowsFrom DEF ValidIds
  <2>2. Before
    <3> SUFFICES ASSUME version' = version,
                        (\E q \in rows'[i].sources : q[2] \in Hashes /\ ~Matches(q))
                          => rows'[i].late
                 PROVE  FALSE
      BY <2>1
    <3>1. ~Matches(src)
      BY DEF Matches
    <3> QED
      BY <3>1
  <2>3. src \in Source /\ src[1] \in Sections /\ DocOf[src[1]] \in Docs
    BY <2>2, StoredRows, DomainAssumption DEF Typed, ValidIds, Source
  <2>4. version[src[1]] \in Hashes \ {src[2]} => Explained
    BY <2>2 DEF StaleRowsExplained
  <2>5. CASE version' = version /\ lost \cup {cascading} \subseteq lost' \cup {cascading'}
    BY <2>4, <2>5
  <2>6. ASSUME NEW d \in Docs, Ingest(d)
        PROVE  DocOf[src[1]] \in lost' \cup {cascading'}
    <3>1. cascading = NoDoc /\ lost' = lost
      BY <2>6 DEF Ingest
    <3>2. CASE version[src[1]] \in Hashes \ {src[2]}
      BY <2>3, <2>4, <3>1, <3>2, NullAssumption
    <3>3. CASE version[src[1]] = src[2]
      <4>1. DocOf[src[1]] = d
        BY <2>3, <2>6, <3>3 DEF Ingest
      <4>2. src[1] \in {s \in Sections : /\ version[s] \in Hashes
                                         /\ version'[s] \in Hashes \ {version[s]}}
        BY <2>3, <3>3
      <4>3. cascading' = d
        BY <2>6, <4>2 DEF Ingest
      <4> QED
        BY <4>1, <4>3
    <3>4. version[src[1]] # Unborn
      BY <2>2 DEF RowsBorn, Born, ValidIds
    <3>5. CASE version[src[1]] = Retired
      <4>1. version'[src[1]] = Retired
        BY <2>3, <2>6, <3>5, NullAssumption DEF Ingest, NextVersions
      <4> QED
        BY <4>1, NullAssumption
    <3>6. version[src[1]] \in Version
      BY <2>3 DEF Typed, TableTypes
    <3> QED
      BY <3>2, <3>3, <3>4, <3>5, <3>6 DEF Version
  <2>7. CASE Cascade
    <3>1. /\ version' = version /\ lost' = lost \ {cascading} /\ cascading # NoDoc
          /\ rows' = [n \in Ids |->
                        IF n \in ValidIds /\ Depends(rows[n], CurrentSections(cascading))
                          THEN Invalidate(n) ELSE rows[n]]
      BY <2>7 DEF Cascade
    <3>2. DocOf[src[1]] # cascading
      <4> SUFFICES ASSUME DocOf[src[1]] = cascading
                   PROVE  FALSE
        OBVIOUS
      <4>1. src[1] \in CurrentSections(cascading)
        BY <2>3, <3>1 DEF CurrentSections
      <4>2. Depends(rows[i], CurrentSections(cascading))
        BY <2>2, <4>1 DEF Depends
      <4>3. rows'[i] = Invalidate(i) /\ rows[i] # NoRow
        BY <2>2, <3>1, <4>2 DEF ValidIds, Stored
      <4> QED
        BY <4>3, InvalidateKeeps DEF Typed
    <3>3. Explained
      BY <2>4, <3>1
    <3> QED
      BY <3>1, <3>2, <3>3
  <2>8. CASE CascadeFails
    BY <2>5, <2>8 DEF CascadeFails, tables
  <2>9. ASSUME NEW s \in Services, Crash(s)
        PROVE  DocOf[src[1]] \in lost' \cup {cascading'}
    BY <2>3, <2>4, <2>9, NullAssumption DEF Crash, ingestion
  <2>10. ASSUME NEW r \in Requests,
                RequestStep(r) \/ \E k \in Keys, qual \in Verdicts : Receive(r, k, qual)
         PROVE  DocOf[src[1]] \in lost' \cup {cascading'}
    <3>1. version' = version
      BY <2>10, RequestLocal DEF Elsewhere
    <3>2. UNCHANGED <<cascading, lost>>
      BY <2>10
         DEF RequestStep, LookupHit, LookupMiss, VerifySource, DoubleVerifyFails,
             FinishExact, SemanticHit, SemanticContext, SemanticMiss, FuzzyMatch,
             ReadSection, GenerateDone, GenerateError, GenerateTimeout, StoreLookup,
             StoreConflict, StoreCommit, Receive, ingestion
    <3> QED
      BY <2>5, <3>1, <3>2
  <2>11. CASE UNCHANGED vars
    BY <2>5, <2>11 DEF vars
  <2> QED
    BY <2>6, <2>7, <2>8, <2>9, <2>10, <2>11 DEF Next
<1> QED
  BY <1>1, <1>2, AlwaysTyped, AlwaysBorn, PTL DEF Spec

-----------------------------------------------------------------------------
(***************************************************************************)
(* Sessions.  A request that has read and not yet written keeps its        *)
(* backend's lock: two requests of a service are never both in a session,  *)
(* however many services share the database.                               *)
(***************************************************************************)
InSession(r) == pc[r] \in {"verify", "commit"}
Alone == \A r, q \in Requests :
           InSession(r) /\ InSession(q) /\ ServiceOf[r] = ServiceOf[q] => r = q

\* How a request comes to be in a session: it opens one, with the lock free,
\* checks a source, or was in it and the step is another's.
LEMMA SessionSteps ==
  ASSUME Typed, [Next]_vars, NEW r \in Requests, InSession(r)'
  PROVE  \/ \E i \in Ids : LookupHit(r, i)
         \/ StoreLookup(r)
         \/ VerifySource(r)
         \/ /\ pc'[r] = pc[r] /\ key'[r] = key[r] /\ ref'[r] = ref[r]
            /\ sources'[r] = sources[r] /\ unchecked'[r] = unchecked[r]
<1> DEFINE Kept == /\ pc'[r] = pc[r] /\ key'[r] = key[r] /\ ref'[r] = ref[r]
                   /\ sources'[r] = sources[r] /\ unchecked'[r] = unchecked[r]
<1> USE DEF Typed, RequestTypes, InSession
<1>1. CASE RequestStep(r)
  BY <1>1 DEF RequestStep, LookupMiss, DoubleVerifyFails, FinishExact,
              SemanticHit, SemanticContext, SemanticMiss, FuzzyMatch, ReadSection,
              GenerateDone, GenerateError, GenerateTimeout, StoreConflict, StoreCommit, Goto
<1>2. CASE \E k \in Keys, qual \in Verdicts : Receive(r, k, qual)
  BY <1>2 DEF Receive, Goto
<1>3. ASSUME NEW q \in Requests \ {r},
             RequestStep(q) \/ \E k \in Keys, qual \in Verdicts : Receive(q, k, qual)
      PROVE  Kept
  BY <1>3, RequestLocal DEF Elsewhere
<1>4. ASSUME NEW s \in Services, Crash(s)
      PROVE  Kept
  <2>1. /\ pc'[r] = IF ServiceOf[r] = s THEN "idle" ELSE pc[r]
        /\ key'[r] = IF ServiceOf[r] = s THEN NoKey ELSE key[r]
        /\ ref'[r] = IF ServiceOf[r] = s THEN NoId ELSE ref[r]
        /\ sources'[r] = IF ServiceOf[r] = s THEN {} ELSE sources[r]
        /\ unchecked'[r] = IF ServiceOf[r] = s THEN {} ELSE unchecked[r]
    BY <1>4 DEF Crash
  <2> QED
    BY <2>1
<1>5. CASE Cascade \/ CascadeFails \/ UNCHANGED vars \/ \E d \in Docs : Ingest(d)
  BY <1>5 DEF Cascade, CascadeFails, Ingest, request, vars
<1> QED
  BY <1>1, <1>2, <1>3, <1>4, <1>5 DEF Next

\* The lock excludes.
LEMMA AlwaysAlone == Spec => []Alone
<1>1. Init => Alone
  BY DEF Init, Alone, InSession
<1>2. Typed /\ Alone /\ [Next]_vars => Alone'
  <2> SUFFICES ASSUME Typed, Alone, [Next]_vars, NEW r \in Requests, NEW q \in Requests,
                      InSession(r)', InSession(q)', ServiceOf[r] = ServiceOf[q], r # q
               PROVE  FALSE
    BY DEF Alone
  <2>1. ASSUME NEW a \in Requests, NEW b \in Requests, a # b, ServiceOf[a] = ServiceOf[b],
               InSession(b)', (\E i \in Ids : LookupHit(a, i)) \/ StoreLookup(a)
        PROVE  FALSE
    <3>1. ~InSession(b)
      BY <2>1 DEF LookupHit, StoreLookup, SessionFree, InSession
    <3>2. pc'[b] = pc[b]
      BY <2>1, RequestLocal DEF Elsewhere, RequestStep
    <3> QED
      BY <2>1, <3>1, <3>2 DEF InSession
  <2>2. InSession(r) \/ (\E i \in Ids : LookupHit(r, i)) \/ StoreLookup(r)
    BY SessionSteps DEF InSession, VerifySource
  <2>3. InSession(q) \/ (\E i \in Ids : LookupHit(q, i)) \/ StoreLookup(q)
    BY SessionSteps DEF InSession, VerifySource
  <2> QED
    BY <2>1, <2>2, <2>3 DEF Alone
<1> QED
  BY <1>1, <1>2, AlwaysTyped, PTL DEF Spec

(***************************************************************************)
(* One backend object for requests and ingestion.  Its lock then covers    *)
(* the rows a request has read as well as the sections it has compared.    *)
(***************************************************************************)
OneBackend == \A r \in Requests : ServiceOf[r] = IngestService
Owns(r) == pc[r] = "commit" => RowsOf(key[r]) \subseteq {ref[r]}
Checked(r) ==
  pc[r] = "verify" /\ key[r] \notin TemporalKeys
    => \A src \in sources[r] \ unchecked[r] : Matches(src)

\* The row a store has found stays the only one of its key until it commits.
LEMMA OwnsAlways == OneBackend => (Spec => [](\A r \in Requests : Owns(r)))
<1> SUFFICES ASSUME OneBackend
             PROVE  Spec => [](\A r \in Requests : Owns(r))
  OBVIOUS
<1>1. Init => \A r \in Requests : Owns(r)
  BY DEF Init, Owns
<1>2. Typed /\ UniqueKey /\ Alone /\ (\A r \in Requests : Owns(r)) /\ [Next]_vars
        => (\A r \in Requests : Owns(r))'
  <2> SUFFICES ASSUME Typed, UniqueKey, Alone, \A q \in Requests : Owns(q), [Next]_vars,
                      NEW r \in Requests, pc'[r] = "commit",
                      NEW i \in Ids, rows'[i] # NoRow, rows'[i].key = key'[r]
               PROVE  i = ref'[r]
    BY DEF Owns, RowsOf, Stored
  <2>1. CASE StoreLookup(r)
    <3>1. rows' = rows /\ key' = key /\ i \in RowsOf(key[r])
      BY <2>1 DEF StoreLookup, RowsOf, Stored, tables
    <3>2. PICK n \in RowsOf(key[r]) : ref' = [ref EXCEPT ![r] = n]
      BY <2>1, <3>1 DEF StoreLookup
    <3>3. i = n
      BY <3>1, <3>2 DEF UniqueKey, RowsOf
    <3> QED
      BY <3>2, <3>3 DEF Typed, RequestTypes
  <2>2. ~VerifySource(r) /\ \A n \in Ids : ~LookupHit(r, n)
    BY DEF VerifySource, LookupHit, Goto, Typed, RequestTypes
  <2>3. CASE pc[r] = "commit" /\ key'[r] = key[r] /\ ref'[r] = ref[r]
    <3>1. ASSUME NEW q \in Requests, NEW n \in Ids, NEW emb \in BOOLEAN,
                 StoreCommit(q, n, emb)
          PROVE  FALSE
      <4>1. q = r
        BY <2>3, <3>1 DEF StoreCommit, Alone, InSession, OneBackend
      <4> QED
        BY <3>1, <4>1 DEF StoreCommit, Goto, Typed, RequestTypes
    <3>2. rows'[i] \in {rows[i], Invalidate(i)}
      BY <3>1, RowsSteps
    <3>3. rows[i] # NoRow /\ rows[i].key = rows'[i].key
      BY <3>2, InvalidateKeeps DEF Typed
    <3> QED
      BY <2>3, <3>3 DEF Owns, RowsOf, Stored
  <2> QED
    BY <2>1, <2>2, <2>3, SessionSteps DEF InSession
<1> QED
  BY <1>1, <1>2, AlwaysTyped, AlwaysAlone, KeysUnique, PTL DEF Spec

\* With one backend object no store runs into the UNIQUE constraint, though
\* its lookup and its insertion are two steps and others store the same key.
THEOREM StoresNeverConflict == OneBackend => (Spec => []NoStoreConflict)
<1> SUFFICES ASSUME OneBackend
             PROVE  Spec => []NoStoreConflict
  OBVIOUS
<1>1. Init => NoStoreConflict
  BY DEF Init, NoStoreConflict
<1>2. Typed /\ (\A r \in Requests : Owns(r)) /\ NoStoreConflict /\ [Next]_vars
        => NoStoreConflict'
  <2> SUFFICES ASSUME Typed, \A q \in Requests : Owns(q), NoStoreConflict, [Next]_vars,
                      NEW r \in Requests, pc'[r] = "conflict"
               PROVE  FALSE
    BY DEF NoStoreConflict
  <2>0. pc[r] # "conflict"
    BY DEF NoStoreConflict
  <2> USE DEF Typed, RequestTypes
  <2>1. CASE StoreConflict(r)
    BY <2>1 DEF StoreConflict, Owns
  <2>2. CASE RequestStep(r) /\ ~StoreConflict(r)
    BY <2>0, <2>2
       DEF RequestStep, LookupHit, LookupMiss, VerifySource, DoubleVerifyFails,
           FinishExact, SemanticHit, SemanticContext, SemanticMiss, FuzzyMatch,
           ReadSection, GenerateDone, GenerateError, GenerateTimeout, StoreLookup,
           StoreCommit, Goto
  <2>3. CASE \E k \in Keys, qual \in Verdicts : Receive(r, k, qual)
    BY <2>3 DEF Receive, Goto
  <2>4. ASSUME NEW q \in Requests \ {r},
               RequestStep(q) \/ \E k \in Keys, qual \in Verdicts : Receive(q, k, qual)
        PROVE  FALSE
    BY <2>0, <2>4, RequestLocal DEF Elsewhere
  <2>5. ASSUME NEW s \in Services, Crash(s)
        PROVE  FALSE
    <3>1. pc'[r] = IF ServiceOf[r] = s THEN "idle" ELSE pc[r]
      BY <2>5 DEF Crash
    <3> QED
      BY <2>0, <3>1
  <2>6. CASE Cascade \/ CascadeFails \/ UNCHANGED vars \/ \E d \in Docs : Ingest(d)
    BY <2>0, <2>6 DEF Cascade, CascadeFails, Ingest, request, vars
  <2> QED
    BY <2>1, <2>2, <2>3, <2>4, <2>5, <2>6 DEF Next
<1> QED
  BY <1>1, <1>2, AlwaysTyped, OwnsAlways, PTL DEF Spec

\* What a verification has compared stays as it was until the answer is
\* served or refused: nobody ingests during the session.
LEMMA CheckedAlways == OneBackend => (Spec => [](\A r \in Requests : Checked(r)))
<1> SUFFICES ASSUME OneBackend
             PROVE  Spec => [](\A r \in Requests : Checked(r))
  OBVIOUS
<1>1. Init => \A r \in Requests : Checked(r)
  BY DEF Init, Checked
<1>2. Typed /\ (\A r \in Requests : Checked(r)) /\ [Next]_vars
        => (\A r \in Requests : Checked(r))'
  <2> SUFFICES ASSUME Typed, \A q \in Requests : Checked(q), [Next]_vars,
                      NEW r \in Requests, pc'[r] = "verify", key'[r] \notin TemporalKeys,
                      NEW src \in sources'[r], src \notin unchecked'[r]
               PROVE  src[2] \in Hashes /\ version'[src[1]] = src[2]
    BY DEF Checked, Matches
  <2> USE DEF Typed, RequestTypes
  <2>1. ASSUME NEW i \in Ids, LookupHit(r, i)
        PROVE  FALSE
    BY <2>1 DEF LookupHit, Hold
  <2>2. CASE VerifySource(r)
    <3>1. version' = version /\ key' = key /\ sources' = sources /\ pc[r] = "verify"
      BY <2>2 DEF VerifySource, tables
    <3>2. PICK q \in unchecked[r] :
            Matches(q) /\ unchecked' = [unchecked EXCEPT ![r] = @ \ {q}]
      BY <2>2 DEF VerifySource
    <3>3. src = q \/ src \notin unchecked[r]
      BY <3>2
    <3>4. Matches(src)
      BY <3>1, <3>2, <3>3 DEF Checked
    <3> QED
      BY <3>1, <3>4 DEF Matches
  <2>3. ~StoreLookup(r)
    BY DEF StoreLookup, Goto
  <2>4. CASE /\ pc[r] = "verify" /\ key'[r] = key[r]
             /\ sources'[r] = sources[r] /\ unchecked'[r] = unchecked[r]
    <3>1. Matches(src)
      BY <2>4 DEF Checked
    <3>2. ASSUME NEW d \in Docs, Ingest(d)
          PROVE  FALSE
      BY <2>4, <3>2 DEF Ingest, SessionFree, OneBackend
    <3>3. version' = version
      BY <3>2, RequestLocal
         DEF Next, Elsewhere, Cascade, CascadeFails, Crash, vars, tables
    <3> QED
      BY <3>1, <3>3 DEF Matches
  <2> QED
    BY <2>1, <2>2, <2>3, <2>4, SessionSteps DEF InSession
<1> QED
  BY <1>1, <1>2, AlwaysTyped, PTL DEF Spec

\* Where one backend object serves and ingests, every source of an answer
\* served on an exact key matches its section when the answer is served.
THEOREM ServesCurrent == OneBackend => (Spec => ExactServesAreCurrent)
<1> SUFFICES ASSUME OneBackend
             PROVE  Spec => ExactServesAreCurrent
  OBVIOUS
<1>1. Typed /\ (\A r \in Requests : Checked(r)) /\ [Next]_vars
        => \A r \in Requests :
             /\ pc[r] = "verify" /\ pc'[r] = "exact_served"
             /\ key[r] \notin TemporalKeys
             => \A src \in sources[r] : Matches(src)
  <2> SUFFICES ASSUME Typed, [Next]_vars, NEW r \in Requests, Checked(r),
                      pc[r] = "verify", pc'[r] = "exact_served", key[r] \notin TemporalKeys
               PROVE  \A src \in sources[r] : Matches(src)
    OBVIOUS
  <2> USE DEF Typed, RequestTypes
  <2>1. CASE FinishExact(r)
    BY <2>1 DEF FinishExact, Checked
  <2>2. CASE RequestStep(r) /\ ~FinishExact(r)
    BY <2>2
       DEF RequestStep, LookupHit, LookupMiss, VerifySource, DoubleVerifyFails,
           SemanticHit, SemanticContext, SemanticMiss, FuzzyMatch, ReadSection,
           GenerateDone, GenerateError, GenerateTimeout, StoreLookup, StoreConflict,
           StoreCommit, Goto
  <2>3. CASE \E k \in Keys, qual \in Verdicts : Receive(r, k, qual)
    BY <2>3 DEF Receive, Goto
  <2>4. ASSUME NEW q \in Requests \ {r},
               RequestStep(q) \/ \E k \in Keys, qual \in Verdicts : Receive(q, k, qual)
        PROVE  FALSE
    BY <2>4, RequestLocal DEF Elsewhere
  <2>5. ASSUME NEW s \in Services, Crash(s)
        PROVE  FALSE
    <3>1. pc'[r] = IF ServiceOf[r] = s THEN "idle" ELSE pc[r]
      BY <2>5 DEF Crash
    <3> QED
      BY <3>1
  <2>6. CASE Cascade \/ CascadeFails \/ UNCHANGED vars \/ \E d \in Docs : Ingest(d)
    BY <2>6 DEF Cascade, CascadeFails, Ingest, request, vars
  <2> QED
    BY <2>1, <2>2, <2>3, <2>4, <2>5, <2>6 DEF Next
<1> QED
  BY <1>1, AlwaysTyped, CheckedAlways, PTL DEF Spec, ExactServesAreCurrent

-----------------------------------------------------------------------------
(***************************************************************************)
(* Eviction.  Each service counts its own writes and evicts down to        *)
(* max_entries, of all valid rows, when its counter wraps around.          *)
(***************************************************************************)

LEMMA SinceFinite ==
  ASSUME IsFiniteSet(Services)
  PROVE  IsFiniteSet(SinceEviction) /\ Cardinality(SinceEviction) \in Nat
<1>1. IsFiniteSet(1 .. EvictionInterval)
  BY BoundAssumption, FS_Interval
<1>2. IsFiniteSet(Services \X (1 .. EvictionInterval))
  BY <1>1, FS_Product
<1>3. SinceEviction \in SUBSET (Services \X (1 .. EvictionInterval))
  BY DEF SinceEviction
<1> QED BY <1>2, <1>3, FS_Subset, FS_CardinalityType

\* A write that does not evict is one more since the last eviction.
LEMMA SinceGrows ==
  ASSUME IsFiniteSet(Services), TableTypes, NEW s \in Services,
         writes' = [writes EXCEPT ![s] = CountWrite(@)], writes'[s] # 0
  PROVE  Cardinality(SinceEviction') = Cardinality(SinceEviction) + 1
<1>1. PICK n : n = writes[s]
  OBVIOUS
<1>2. n \in Nat /\ n < EvictionInterval /\ EvictionInterval \in Nat \ {0}
  BY <1>1, BoundAssumption DEF TableTypes
<1>3. writes'[s] = (n + 1) % EvictionInterval
  BY <1>1 DEF CountWrite, TableTypes
<1>4. n + 1 < EvictionInterval
  <2>1. n + 1 = EvictionInterval => (n + 1) % EvictionInterval = 0
    BY <1>2
  <2> QED BY <1>2, <1>3, <2>1
<1>5. writes'[s] = n + 1
  BY <1>2, <1>3, <1>4
<1>6. PICK w : w = <<s, n + 1>>
  OBVIOUS
<1>7. \A x \in Services \X (1 .. EvictionInterval) :
        /\ x = <<x[1], x[2]>> /\ x[1] \in Services /\ x[2] \in Nat
        /\ x[1] # s => writes'[x[1]] = writes[x[1]]
  BY DEF TableTypes
<1>8. w \notin SinceEviction /\ w \in SinceEviction'
  BY <1>1, <1>2, <1>4, <1>5, <1>6 DEF SinceEviction
<1>9. ASSUME NEW x \in SinceEviction' PROVE x \in SinceEviction \cup {w}
  <2>1. x \in Services \X (1 .. EvictionInterval) /\ x[2] <= writes'[x[1]]
    BY <1>9 DEF SinceEviction
  <2>2. CASE x[1] = s
    BY <1>1, <1>2, <1>5, <1>6, <1>7, <2>1, <2>2 DEF SinceEviction
  <2>3. CASE x[1] # s
    BY <1>7, <2>1, <2>3 DEF SinceEviction
  <2> QED BY <2>2, <2>3
<1>10. ASSUME NEW x \in SinceEviction PROVE x \in SinceEviction'
  <2>1. x \in Services \X (1 .. EvictionInterval) /\ x[2] <= writes[x[1]]
    BY DEF SinceEviction
  <2>2. x[2] <= writes'[x[1]]
    BY <1>1, <1>2, <1>5, <1>7, <2>1
  <2> QED BY <2>1, <2>2 DEF SinceEviction
<1>11. SinceEviction' = SinceEviction \cup {w}
  BY <1>8, <1>9, <1>10
<1>12. Cardinality(SinceEviction \cup {w}) = Cardinality(SinceEviction) + 1
  BY <1>8, SinceFinite, FS_AddElement
<1> QED BY <1>11, <1>12

\* An eviction leaves at most max_entries valid rows.
LEMMA EvictedDown ==
  ASSUME NEW V, IsFiniteSet(V), NEW E \in SUBSET V, Cardinality(E) = Excess(Cardinality(V))
  PROVE  IsFiniteSet(V \ E) /\ Cardinality(V \ E) <= MaxEntries
<1>1. Cardinality(V) \in Nat
  BY FS_CardinalityType
<1>2. V \cap E = E
  OBVIOUS
<1>3. IsFiniteSet(V \ E) /\ Cardinality(V \ E) = Cardinality(V) - Cardinality(E)
  BY <1>2, FS_Difference
<1> QED BY <1>1, <1>3, BoundAssumption DEF Excess

\* What a commit leaves valid: at most one row more, and after an eviction at
\* most max_entries.
LEMMA CommitValid ==
  ASSUME NEW r \in Requests, NEW i \in Ids, NEW emb \in BOOLEAN, StoreCommit(r, i, emb),
         IsFiniteSet(ValidIds)
  PROVE  /\ IsFiniteSet(ValidIds')
         /\ Cardinality(ValidIds') <= Cardinality(ValidIds) + 1
         /\ writes'[ServiceOf[r]] = 0 => Cardinality(ValidIds') <= MaxEntries
<1>1. PICK stored : stored = Replace(r, i, NewRow(r, emb))
  OBVIOUS
<1>2. IF writes'[ServiceOf[r]] = 0
        THEN \E E \in Evictions(stored) :
               rows' = [j \in Ids |-> IF j \in E THEN NoRow ELSE stored[j]]
        ELSE rows' = stored
  BY <1>1 DEF StoreCommit
<1>3. ValidIn(stored) \subseteq ValidIds \cup {i}
  BY <1>1 DEF Replace, ValidIn, ValidIds, Stored
<1>4. /\ IsFiniteSet(ValidIds \cup {i}) /\ Cardinality(ValidIds \cup {i}) \in Nat
      /\ Cardinality(ValidIds \cup {i}) <= Cardinality(ValidIds) + 1
  BY FS_AddElement, FS_CardinalityType
<1>5. IsFiniteSet(ValidIn(stored))
  BY <1>3, <1>4, FS_Subset
<1>6. ValidIds' = ValidIn(rows')
  BY DEF ValidIds, Stored, ValidIn
<1>7. ASSUME writes'[ServiceOf[r]] = 0
      PROVE  Cardinality(ValidIds') <= MaxEntries /\ ValidIds' \subseteq ValidIn(stored)
  <2>1. PICK E \in Evictions(stored) :
          rows' = [j \in Ids |-> IF j \in E THEN NoRow ELSE stored[j]]
    BY <1>2, <1>7
  <2>2. E \in SUBSET ValidIn(stored) /\ Cardinality(E) = Excess(Cardinality(ValidIn(stored)))
    BY <2>1 DEF Evictions
  <2>3. ValidIds' = ValidIn(stored) \ E
    BY <1>6, <2>1 DEF ValidIn
  <2> QED BY <1>5, <2>2, <2>3, EvictedDown
<1>8. ValidIds' \subseteq ValidIn(stored)
  BY <1>2, <1>6, <1>7
<1>9. ValidIds' \in SUBSET (ValidIds \cup {i})
  BY <1>3, <1>8
<1>10. IsFiniteSet(ValidIds') /\ Cardinality(ValidIds') <= Cardinality(ValidIds \cup {i})
  BY <1>4, <1>9, FS_Subset
<1>11. Cardinality(ValidIds') \in Nat /\ Cardinality(ValidIds) \in Nat
  BY <1>10, FS_CardinalityType
<1> QED BY <1>4, <1>7, <1>10, <1>11

\* No other step makes a row valid, and none but a crash resets a counter.
LEMMA OthersValid ==
  ASSUME Typed, MayCrash = {}, [Next]_vars,
         ~ \E r \in Requests, i \in Ids, emb \in BOOLEAN : StoreCommit(r, i, emb)
  PROVE  ValidIds' \subseteq ValidIds /\ writes' = writes
<1>1. \A i \in Ids : rows'[i] \in {rows[i], Invalidate(i)}
  BY RowsSteps
<1>2. \A i \in Ids : Invalidate(i) = NoRow \/ ~Invalidate(i).valid
  BY InvalidateKeeps DEF Typed, Invalidate
<1>3. ValidIds' \subseteq ValidIds
  BY <1>1, <1>2 DEF ValidIds, Stored
<1>4. writes' = writes
  <2>1. ASSUME NEW r \in Requests, RequestStep(r)
        PROVE  writes' = writes
    BY <2>1
       DEF RequestStep, LookupHit, LookupMiss, VerifySource, DoubleVerifyFails, FinishExact,
           SemanticHit, SemanticContext, SemanticMiss, FuzzyMatch, ReadSection, GenerateDone,
           GenerateError, GenerateTimeout, StoreLookup, StoreConflict, tables
  <2> QED BY <2>1 DEF Next, Receive, Ingest, Cascade, CascadeFails, Crash, tables, vars
<1> QED BY <1>3, <1>4

\* While no service is killed, valid entries exceed max_entries by at most the
\* writes since each service's last eviction (_maybe_evict), for any number
\* of services that share the table.
THEOREM EvictionKeepsBound ==
  IsFiniteSet(Services) /\ MayCrash = {} => (Spec => []EvictionBound)
<1> SUFFICES ASSUME IsFiniteSet(Services), MayCrash = {}
             PROVE  Spec => []EvictionBound
  OBVIOUS
<1> DEFINE Kept == IsFiniteSet(ValidIds) /\ EvictionBound
<1>1. Init => Kept
  <2> SUFFICES ASSUME Init PROVE Kept
    OBVIOUS
  <2>1. ValidIds = {}
    BY DEF Init, ValidIds, Stored
  <2> QED BY <2>1, SinceFinite, FS_EmptySet, BoundAssumption DEF EvictionBound
<1>2. Typed /\ Kept /\ [Next]_vars => Kept'
  <2> SUFFICES ASSUME Typed, Kept, [Next]_vars PROVE Kept'
    OBVIOUS
  <2>1. Cardinality(ValidIds) \in Nat /\ Cardinality(SinceEviction) \in Nat /\ MaxEntries \in Nat
    BY SinceFinite, FS_CardinalityType, BoundAssumption
  <2>2. IsFiniteSet(SinceEviction') /\ Cardinality(SinceEviction') \in Nat
    <3>1. IsFiniteSet(1 .. EvictionInterval)
      BY BoundAssumption, FS_Interval
    <3>2. IsFiniteSet(Services \X (1 .. EvictionInterval))
      BY <3>1, FS_Product
    <3>3. SinceEviction' \in SUBSET (Services \X (1 .. EvictionInterval))
      BY DEF SinceEviction
    <3> QED BY <3>2, <3>3, FS_Subset, FS_CardinalityType
  <2>3. ASSUME NEW r \in Requests, NEW i \in Ids, NEW emb \in BOOLEAN, StoreCommit(r, i, emb)
        PROVE  Kept'
    <3>1. /\ IsFiniteSet(ValidIds')
          /\ Cardinality(ValidIds') <= Cardinality(ValidIds) + 1
          /\ writes'[ServiceOf[r]] = 0 => Cardinality(ValidIds') <= MaxEntries
      BY <2>3, CommitValid
    <3>2. Cardinality(ValidIds') \in Nat
      BY <3>1, FS_CardinalityType
    <3>3. ASSUME writes'[ServiceOf[r]] # 0
          PROVE  Cardinality(SinceEviction') = Cardinality(SinceEviction) + 1
      <4>1. ServiceOf[r] \in Services
        BY DomainAssumption
      <4>2. writes' = [writes EXCEPT ![ServiceOf[r]] = CountWrite(@)]
        BY <2>3 DEF StoreCommit
      <4> QED BY <3>3, <4>1, <4>2, SinceGrows DEF Typed
    <3> QED BY <2>1, <2>2, <3>1, <3>2, <3>3 DEF EvictionBound
  <2>4. CASE ~ \E r \in Requests, i \in Ids, emb \in BOOLEAN : StoreCommit(r, i, emb)
    <3>1. ValidIds' \in SUBSET ValidIds /\ writes' = writes
      BY <2>4, OthersValid
    <3>2. SinceEviction' = SinceEviction
      BY <3>1 DEF SinceEviction
    <3>3. IsFiniteSet(ValidIds') /\ Cardinality(ValidIds') <= Cardinality(ValidIds)
      BY <3>1, FS_Subset
    <3>4. Cardinality(ValidIds') \in Nat
      BY <3>3, FS_CardinalityType
    <3> QED BY <2>1, <3>2, <3>3, <3>4 DEF EvictionBound
  <2> QED BY <2>3, <2>4
<1> QED BY <1>1, <1>2, AlwaysTyped, PTL DEF Spec

-----------------------------------------------------------------------------
(***************************************************************************)
(* The cache as FreshCache describes it.  A lookup takes effect when its   *)
(* session ends: the row it found is in the table, and valid, until then.  *)
(***************************************************************************)
LookedUp(r) ==
  /\ pc[r] = "verify" =>
       /\ ref[r] \in ValidIds
       /\ Entry(ref[r]) = <<key[r], sources[r]>>
       /\ unchecked[r] \subseteq sources[r]
       /\ key[r] \in TemporalKeys => unchecked[r] = {}
  /\ pc[r] = "commit" => ref[r] \in RowsOf(key[r]) \cup {NoId}

\* Nobody writes the table while a session verifies.
LEMMA LookedUpAlways == OneBackend => (Spec => [](\A r \in Requests : LookedUp(r)))
<1> SUFFICES ASSUME OneBackend
             PROVE  Spec => [](\A r \in Requests : LookedUp(r))
  OBVIOUS
<1>1. Init => \A r \in Requests : LookedUp(r)
  BY DEF Init, LookedUp
<1>2. Typed /\ Alone /\ (\A r \in Requests : LookedUp(r)) /\ [Next]_vars
        => (\A r \in Requests : LookedUp(r))'
  <2> SUFFICES ASSUME Typed, Alone, \A q \in Requests : LookedUp(q), [Next]_vars,
                      NEW r \in Requests, InSession(r)'
               PROVE  LookedUp(r)'
    BY DEF LookedUp, InSession
  <2> USE DEF Typed, RequestTypes
  <2>1. ASSUME NEW i \in Ids, LookupHit(r, i)
        PROVE  LookedUp(r)'
    <3>1. /\ pc'[r] = "verify" /\ rows' = rows /\ key' = key /\ i \in ValidIds /\ rows[i].key = key[r]
          /\ ref'[r] = i /\ sources'[r] = rows[i].sources
          /\ unchecked'[r] = IF key[r] \in TemporalKeys THEN {} ELSE rows[i].sources
      BY <2>1 DEF LookupHit, Hold, Goto, tables
    <3>2. ValidIds' = ValidIds
      BY <3>1 DEF ValidIds, Stored
    <3> QED BY <3>1, <3>2 DEF LookedUp, Entry
  <2>2. CASE VerifySource(r)
    <3>1. /\ UNCHANGED <<rows, pc, key, ref, sources>> /\ pc[r] = "verify"
          /\ unchecked'[r] \subseteq unchecked[r]
      BY <2>2 DEF VerifySource, tables
    <3>2. ValidIds' = ValidIds
      BY <3>1 DEF ValidIds, Stored
    <3> QED BY <3>1, <3>2 DEF LookedUp, Entry
  <2>3. CASE StoreLookup(r)
    <3>1. pc'[r] = "commit" /\ UNCHANGED <<rows, key>> /\ ref'[r] \in RowsOf(key[r]) \cup {NoId}
      BY <2>3 DEF StoreLookup, RowsOf, Stored, Goto, tables
    <3> QED BY <3>1 DEF LookedUp, RowsOf, Stored
  <2>4. CASE /\ pc'[r] = pc[r] /\ key'[r] = key[r] /\ ref'[r] = ref[r]
             /\ sources'[r] = sources[r] /\ unchecked'[r] = unchecked[r]
    <3>0. InSession(r)
      BY <2>4 DEF InSession
    <3>1. ASSUME NEW q \in Requests, DoubleVerifyFails(q)
                 \/ \E i \in Ids, emb \in BOOLEAN : StoreCommit(q, i, emb)
          PROVE  FALSE
      <4>1. InSession(q) /\ pc'[q] # pc[q]
        BY <3>1 DEF DoubleVerifyFails, StoreCommit, Goto, InSession
      <4> QED BY <2>4, <3>0, <4>1 DEF Alone, OneBackend
    <3>2. ~Cascade
      BY <3>0 DEF InSession, Cascade, SessionFree, OneBackend
    <3>3. rows' = rows
      BY <3>1, <3>2, RowsSteps
    <3>4. ValidIds' = ValidIds
      BY <3>3 DEF ValidIds, Stored
    <3> QED BY <2>4, <3>3, <3>4 DEF LookedUp, Entry, RowsOf, Stored
  <2> QED
    BY <2>1, <2>2, <2>3, <2>4, SessionSteps DEF InSession
<1> QED
  BY <1>1, <1>2, AlwaysTyped, AlwaysAlone, PTL DEF Spec

\* The table never has infinitely many valid rows.
FiniteTable == IsFiniteSet(ValidIds)
LEMMA AlwaysFinite == Spec => []FiniteTable
<1>1. Init => FiniteTable
  <2>1. Init => ValidIds = {}
    BY DEF Init, ValidIds, Stored
  <2> QED BY <2>1, FS_EmptySet DEF FiniteTable
<1>2. Typed /\ FiniteTable /\ [Next]_vars => FiniteTable'
  <2> SUFFICES ASSUME Typed, IsFiniteSet(ValidIds), [Next]_vars
               PROVE  IsFiniteSet(ValidIds')
    BY DEF FiniteTable
  <2>1. CASE \E r \in Requests, i \in Ids, emb \in BOOLEAN : StoreCommit(r, i, emb)
    BY <2>1, CommitValid
  <2>2. CASE \A i \in Ids : rows'[i] \in {rows[i], Invalidate(i)}
    <3>1. \A i \in Ids : Invalidate(i) = NoRow \/ ~Invalidate(i).valid
      BY InvalidateKeeps DEF Typed, Invalidate
    <3>2. ValidIds' \in SUBSET ValidIds
      BY <2>2, <3>1 DEF ValidIds, Stored
    <3> QED BY <3>2, FS_Subset
  <2> QED BY <2>1, <2>2, RowsSteps
<1> QED BY <1>1, <1>2, AlwaysTyped, PTL DEF Spec

\* What the proof of the refinement needs to know of a state.
Ready ==
  /\ Typed /\ UniqueKey /\ Alone /\ FiniteTable
  /\ \A r \in Requests : LookedUp(r) /\ Checked(r)
Answers == {Entry(i) : i \in ValidIds}
Clients == [r \in Requests |-> Seen(r)]

\* Who asks is not disturbed by the steps of others.
LEMMA SeenAlone ==
  ASSUME Typed, NEW r \in Requests,
         RequestStep(r) \/ \E k \in Keys, qual \in Verdicts : Receive(r, k, qual)
  PROVE  Clients' = [Clients EXCEPT ![r] = Seen(r)']
<1>1. \A q \in Requests \ {r} : standalone'[q] = standalone[q]
  BY DEF RequestStep, LookupHit, LookupMiss, VerifySource, DoubleVerifyFails, FinishExact,
         SemanticHit, SemanticContext, SemanticMiss, FuzzyMatch, ReadSection, GenerateDone,
         GenerateError, GenerateTimeout, StoreLookup, StoreConflict, StoreCommit, Receive,
         Typed, RequestTypes
<1>2. \A q \in Requests \ {r} : Seen(q)' = Seen(q)
  BY <1>1, RequestLocal DEF Elsewhere, Seen
<1> QED BY <1>2 DEF Clients

\* What a step of a request shows of it.
LEMMA SeenStep ==
  ASSUME Typed, NEW r \in Requests, RequestStep(r)
  PROVE  /\ version' = version
         /\ Seen(r)' = [phase |-> PhaseOf(pc'[r]), key |-> key[r], plain |-> standalone[r],
                        served |-> IF pc'[r] = "exact_served" THEN sources'[r] ELSE {}]
<1>1. key'[r] = key[r] /\ standalone'[r] = standalone[r]
  BY DEF RequestStep, LookupHit, LookupMiss, VerifySource, DoubleVerifyFails, FinishExact,
         SemanticHit, SemanticContext, SemanticMiss, FuzzyMatch, ReadSection, GenerateDone,
         GenerateError, GenerateTimeout, StoreLookup, StoreConflict, StoreCommit
<1>2. version' = version
  BY RequestLocal DEF Elsewhere
<1> QED BY <1>1, <1>2 DEF Seen, PhaseOf

LEMMA ToPhase ==
  ASSUME Typed, NEW r \in Requests, RequestStep(r),
         NEW phase, PhaseOf(pc'[r]) = phase,
         NEW answer, answer = IF pc'[r] = "exact_served" THEN sources'[r] ELSE {}
  PROVE  Cache!To(r, phase, answer)
<1>1. Seen(r)' = [phase |-> phase, key |-> key[r], plain |-> standalone[r], served |-> answer]
  BY SeenStep
<1>2. Clients[r].key = key[r] /\ Clients[r].plain = standalone[r]
  BY DEF Clients, Seen
<1>3. Clients' = [Clients EXCEPT ![r] = [phase |-> phase, key |-> Clients[r].key,
                                         plain |-> Clients[r].plain, served |-> answer]]
  BY <1>1, <1>2, SeenAlone
<1> QED BY <1>3 DEF Cache!To, Clients

\* Steps inside a phase.
LEMMA SamePhase ==
  ASSUME Typed, NEW r \in Requests, RequestStep(r), UNCHANGED rows,
         PhaseOf(pc'[r]) = PhaseOf(pc[r]),
         pc[r] # "exact_served", pc'[r] # "exact_served"
  PROVE  UNCHANGED Cache!vars
<1>1. Seen(r)' = Seen(r)
  BY SeenStep DEF Seen
<1>2. Clients' = Clients
  BY <1>1, SeenAlone DEF Clients
<1>3. Answers' = Answers
  BY DEF Answers, Entry, ValidIds, Stored
<1> QED BY <1>2, <1>3, SeenStep DEF Cache!vars, Answers, Clients

\* The entries of a key: at most one.
LEMMA KeyEntries ==
  ASSUME NEW k
  PROVE  Cache!Entries(k) = {Entry(i) : i \in RowsOf(k) \cap ValidIds}
BY DEF Cache!Entries, Entry, RowsOf, ValidIds

LEMMA FoundEntry ==
  ASSUME Ready, NEW r \in Requests, pc[r] = "verify"
  PROVE  Cache!Entries(key[r]) = {<<key[r], sources[r]>>}
<1>1. ref[r] \in RowsOf(key[r]) \cap ValidIds /\ Entry(ref[r]) = <<key[r], sources[r]>>
  BY DEF Ready, LookedUp, Entry, RowsOf, ValidIds
<1>2. \A i \in RowsOf(key[r]) : i = ref[r]
  BY <1>1 DEF Ready, UniqueKey, RowsOf
<1> QED BY <1>1, <1>2, KeyEntries

\* A lookup.
LEMMA LookupImplements ==
  ASSUME Ready, NEW r \in Requests,
         LookupMiss(r) \/ DoubleVerifyFails(r) \/ FinishExact(r)
  PROVE  Cache!Serve(r) \/ Cache!Discard(r) \/ Cache!Miss(r)
<1> DEFINE e == <<key[r], sources[r]>>
<1>0. Typed /\ RequestStep(r) /\ pc \in [Requests -> PC] /\ version' = version
  BY SeenStep DEF Ready, RequestStep, Typed, RequestTypes
<1>1. /\ Clients[r].key = key[r] /\ Clients[r].plain = standalone[r]
      /\ Clients[r].phase = "asked"
  <2>1. pc[r] = "exact" \/ pc[r] = "verify"
    BY DEF LookupMiss, DoubleVerifyFails, FinishExact
  <2>2. PhaseOf(pc[r]) = "asked"
    BY <2>1 DEF PhaseOf, Answered
  <2> QED BY <2>2 DEF Clients, Seen
<1>2. UNCHANGED rows => Answers' = Answers
  BY DEF Answers, Entry, ValidIds, Stored
<1>3. pc'[r] = "semantic" => Cache!To(r, "missed", {})
  <2>1. PhaseOf("semantic") = "missed"
    BY DEF PhaseOf, Answered
  <2> QED BY <1>0, <2>1, ToPhase
<1>4. pc'[r] = "exact_served" => Cache!To(r, "served", sources'[r])
  <2>1. PhaseOf("exact_served") = "served"
    BY DEF PhaseOf
  <2> QED BY <1>0, <2>1, ToPhase
<1>5. CASE LookupMiss(r)
  <2>1. Cache!Entries(key[r]) = {}
    BY <1>5, KeyEntries DEF LookupMiss
  <2>2. pc'[r] = "semantic" /\ UNCHANGED rows
    BY <1>0, <1>5 DEF LookupMiss, Goto, tables
  <2> QED BY <1>0, <1>1, <1>2, <1>3, <2>1, <2>2 DEF Cache!Miss, Clients, Answers
<1>6. CASE DoubleVerifyFails(r)
  <2>1. /\ pc[r] = "verify" /\ pc'[r] = "semantic"
        /\ rows' = [rows EXCEPT ![ref[r]] = Invalidate(ref[r])]
    BY <1>0, <1>6 DEF DoubleVerifyFails, InvalidateHeld, Goto
  <2>2. Cache!Entries(key[r]) = {e}
    BY <2>1, FoundEntry
  <2>3. ~Cache!Servable(e)
    <3>1. PICK src \in unchecked[r] : ~Matches(src)
      BY <1>6 DEF DoubleVerifyFails, Fails
    <3>2. src \in sources[r] /\ key[r] \notin TemporalKeys
      BY <2>1, <3>1 DEF Ready, LookedUp
    <3> QED BY <3>1, <3>2 DEF Cache!Servable, Cache!Matches, Matches
  <2>4. Answers' = Answers \ {e}
    <3>1. ref[r] \in ValidIds /\ Entry(ref[r]) = e
      BY <2>1 DEF Ready, LookedUp
    <3>2. \A i \in Ids : rows'[i] = IF i = ref[r] THEN Invalidate(i) ELSE rows[i]
      BY <2>1 DEF Ready, Typed, TableTypes
    <3>3. Invalidate(ref[r]) = NoRow \/ ~Invalidate(ref[r]).valid
      BY <3>1, InvalidateKeeps DEF Ready, Typed, ValidIds, Stored
    <3>4. ValidIds' = ValidIds \ {ref[r]}
      BY <3>2, <3>3 DEF ValidIds, Stored
    <3>5. \A i \in ValidIds' : Entry(i)' = Entry(i)
      BY <3>2, <3>4 DEF Entry, ValidIds, Stored
    <3>6. \A i \in ValidIds' : Entry(i) # e
      <4>1. \A i \in ValidIds : rows[i].key = rows[ref[r]].key => i = ref[r]
        BY <3>1 DEF Ready, UniqueKey, ValidIds
      <4>2. \A i \in ValidIds : Entry(i) = e => rows[i].key = rows[ref[r]].key
        BY <3>1 DEF Entry
      <4> QED BY <3>4, <4>1, <4>2
    <3> QED BY <3>1, <3>4, <3>5, <3>6 DEF Answers
  <2>5. e \in Cache!Entries(Clients[r].key) /\ ~Cache!Servable(e) /\ Answers' = Answers \ {e}
    BY <1>1, <2>2, <2>3, <2>4
  <2> HIDE DEF e
  <2> QED BY <1>0, <1>1, <1>3, <2>1, <2>5 DEF Cache!Discard, Clients, Answers
<1>7. CASE FinishExact(r)
  <2>1. pc[r] = "verify" /\ unchecked[r] = {} /\ UNCHANGED rows
    BY <1>7 DEF FinishExact, tables
  <2>2. Cache!Entries(key[r]) = {e}
    BY <2>1, FoundEntry
  <2>3. Cache!Servable(e)
    BY <2>1 DEF Ready, Checked, Cache!Servable, Cache!Matches, Matches
  <2>4. CASE standalone[r]
    <3>1. pc'[r] = "exact_served" /\ sources'[r] = sources[r]
      BY <1>0, <1>7, <2>4 DEF FinishExact, Goto
    <3>2. e \in Cache!Entries(Clients[r].key) /\ Cache!Servable(e) /\ Cache!To(r, "served", e[2])
      BY <1>1, <1>4, <2>2, <2>3, <3>1
    <3> HIDE DEF e
    <3> QED BY <1>0, <1>1, <1>2, <2>1, <2>4, <3>2 DEF Cache!Serve, Clients, Answers
  <2>5. CASE ~standalone[r]
    <3>1. pc'[r] = "semantic"
      BY <1>0, <1>7, <2>5 DEF FinishExact, Goto
    <3>2. \A x \in Cache!Entries(Clients[r].key) : Cache!Servable(x)
      BY <1>1, <2>2, <2>3
    <3> QED BY <1>0, <1>1, <1>2, <1>3, <2>1, <2>5, <3>1, <3>2
            DEF Cache!Miss, Clients, Answers
  <2> QED BY <2>4, <2>5
<1> QED BY <1>5, <1>6, <1>7

\* A function that tells the members of a finite set apart has as many values.
LEMMA ImageSize ==
  ASSUME NEW S, IsFiniteSet(S), NEW T, NEW f \in [S -> T],
         \A x \in T : \E i \in S : f[i] = x,
         \A i, j \in S : f[i] = f[j] => i = j
  PROVE  Cardinality(T) = Cardinality(S)
<1>1. f \in Surjection(S, T)
  BY DEF Surjection
<1>2. f \in Injection(S, T)
  BY DEF Injection, IsInjective
<1> QED BY <1>1, <1>2, FS_Surjection

LEMMA SameSize == \A S : Cache!Cardinality(S) = Cardinality(S)
BY DEF Cache!Cardinality, Cardinality

\* A commit.
LEMMA CommitImplements ==
  ASSUME Ready, UniqueKey', FiniteTable', NEW r \in Requests,
         NEW i \in Ids, NEW emb \in BOOLEAN, StoreCommit(r, i, emb)
  PROVE  Cache!Put(r)
<1> DEFINE e == <<key[r], sources[r]>>
           all == (Answers \ Cache!Entries(key[r])) \cup {e}
<1>0. Typed /\ RequestStep(r) /\ version' = version /\ sources[r] \in SUBSET Source
  BY SeenStep DEF Ready, RequestStep, Typed, RequestTypes
<1>1. Clients[r].key = key[r] /\ Clients[r].phase = "missed"
  <2>1. PhaseOf(pc[r]) = "missed"
    BY DEF StoreCommit, PhaseOf, Answered
  <2> QED BY <2>1 DEF Clients, Seen
<1>2. Cache!To(r, "ended", {})
  <2>1. pc'[r] = "generated" /\ PhaseOf("generated") = "ended"
    BY <1>0 DEF StoreCommit, Goto, Typed, RequestTypes, PhaseOf, Answered
  <2> QED BY <1>0, <2>1, ToPhase
<1>3. PICK stored : stored = Replace(r, i, NewRow(r, emb))
  OBVIOUS
<1>4. IF writes'[ServiceOf[r]] = 0
        THEN \E E \in Evictions(stored) :
               rows' = [j \in Ids |-> IF j \in E THEN NoRow ELSE stored[j]]
        ELSE rows' = stored
  BY <1>3 DEF StoreCommit
<1>5. /\ NewRow(r, emb) # NoRow /\ NewRow(r, emb).valid
      /\ NewRow(r, emb).key = key[r] /\ NewRow(r, emb).sources = sources[r]
  <2>1. RequestTypes /\ pc[r] # "idle"
    BY <1>0 DEF StoreCommit, Typed
  <2> QED BY <2>1, NewRowTyped, RowAssumption
<1>6. /\ stored = [j \in Ids |-> stored[j]] /\ stored[i] = NewRow(r, emb)
      /\ \A j \in Ids \ {i} : stored[j] = IF j = ref[r] THEN NoRow ELSE rows[j]
      /\ rows[i] = NoRow /\ ref[r] # i
  BY <1>3 DEF Replace, StoreCommit, Fresh
<1> DEFINE V == ValidIn(stored)
           At(j) == <<stored[j].key, stored[j].sources>>
<1>7. V = (ValidIds \ {ref[r]}) \cup {i}
  BY <1>5, <1>6 DEF ValidIn, ValidIds, Stored
<1>8. At(i) = e /\ \A j \in V \ {i} : At(j) = Entry(j)
  BY <1>5, <1>6, <1>7 DEF Entry, ValidIds, Stored
<1>9. {At(j) : j \in V} = all
  <2>1. \A j \in ValidIds : rows[j].key = key[r] <=> j = ref[r]
    <3>1. ref[r] \in RowsOf(key[r]) \cup {NoId} /\ RowsOf(key[r]) \subseteq {ref[r]}
      BY DEF StoreCommit, Ready, LookedUp
    <3> QED BY <3>1, NullAssumption DEF RowsOf, ValidIds, Stored
  <2>2. \A j \in ValidIds \ {ref[r]} : Entry(j) \in Answers \ Cache!Entries(key[r])
    BY <2>1 DEF Answers, Entry, Cache!Entries, RowsOf, ValidIds
  <2>3. \A x \in Answers \ Cache!Entries(key[r]) : \E j \in ValidIds \ {ref[r]} : x = Entry(j)
    <3> SUFFICES ASSUME NEW j \in ValidIds, Entry(j) \notin Cache!Entries(key[r])
                 PROVE  \E n \in ValidIds \ {ref[r]} : Entry(j) = Entry(n)
      BY DEF Answers
    <3>1. CASE j # ref[r]
      BY <3>1
    <3>2. CASE j = ref[r]
      <4>1. rows[j].key # key[r]
        BY KeyEntries DEF RowsOf, ValidIds
      <4> QED BY <2>1, <3>2, <4>1
    <3> QED BY <3>1, <3>2
  <2>4. ASSUME NEW j \in V PROVE At(j) \in all
    <3>1. CASE j = i
      BY <1>8, <3>1
    <3>2. CASE j # i
      <4>1. j \in ValidIds \ {ref[r]} /\ At(j) = Entry(j)
        BY <1>7, <1>8, <3>2
      <4> QED BY <2>2, <4>1
    <3> QED BY <3>1, <3>2
  <2>5. ASSUME NEW x \in all PROVE \E j \in V : x = At(j)
    <3>1. CASE x = e
      BY <1>7, <1>8, <3>1
    <3>2. CASE x \in Answers \ Cache!Entries(key[r])
      <4>1. PICK j \in ValidIds \ {ref[r]} : x = Entry(j)
        BY <2>3, <3>2
      <4>2. j \in V \ {i}
        BY <1>6, <1>7 DEF ValidIds, Stored
      <4> QED BY <1>8, <4>1, <4>2
    <3> QED BY <3>1, <3>2
  <2> HIDE DEF V, At, all
  <2> QED BY <2>4, <2>5
<1>10. ASSUME rows' = stored
       PROVE  Answers' = all
  <2>1. ValidIds' = V
    BY <1>10 DEF ValidIds, Stored, ValidIn
  <2>2. \A j \in V : Entry(j)' = At(j)
    BY <1>10 DEF Entry
  <2> QED BY <1>9, <2>1, <2>2 DEF Answers
<1>11. ASSUME NEW E \in Evictions(stored),
              rows' = [j \in Ids |-> IF j \in E THEN NoRow ELSE stored[j]]
       PROVE  Answers' = all \/ (Answers' \subseteq all /\ Cardinality(Answers') = MaxEntries)
  <2>1. E \in SUBSET V /\ Cardinality(E) = Excess(Cardinality(V))
    BY DEF Evictions
  <2>2. IsFiniteSet(V) /\ Cardinality(V) \in Nat
    <3>1. IsFiniteSet(ValidIds \cup {i})
      BY FS_AddElement DEF Ready, FiniteTable
    <3>2. V \in SUBSET (ValidIds \cup {i})
      BY <1>7
    <3> QED BY <3>1, <3>2, FS_Subset, FS_CardinalityType
  <2>3. ValidIds' = V \ E
    BY <1>11 DEF ValidIds, Stored, ValidIn
  <2>4. \A j \in V \ E : Entry(j)' = At(j)
    BY <1>11 DEF Entry, ValidIn
  <2>5. Answers' = {At(j) : j \in V \ E}
    BY <2>3, <2>4 DEF Answers
  <2>6. Answers' \subseteq all
    BY <1>9, <2>5
  <2>7. CASE Cardinality(V) > MaxEntries
    <3>1. V \cap E = E
      BY <2>1
    <3>2. Cardinality(V \ E) = Cardinality(V) - Cardinality(E)
      BY <2>2, <3>1, FS_Difference
    <3>3. Cardinality(V \ E) = MaxEntries
      BY <2>1, <2>2, <2>7, <3>2, BoundAssumption DEF Excess
    <3>4. Cardinality(Answers') = Cardinality(ValidIds')
      <4> DEFINE f == [j \in ValidIds' |-> Entry(j)']
      <4>1. f \in [ValidIds' -> Answers'] /\ \A x \in Answers' : \E j \in ValidIds' : f[j] = x
        BY DEF Answers
      <4>2. \A j, n \in ValidIds' : f[j] = f[n] => j = n
        BY DEF Entry, UniqueKey, ValidIds
      <4>3. IsFiniteSet(ValidIds')
        BY DEF FiniteTable
      <4> HIDE DEF f
      <4> QED BY <4>1, <4>2, <4>3, ImageSize
    <3> QED BY <2>3, <2>6, <3>3, <3>4
  <2>8. CASE ~(Cardinality(V) > MaxEntries)
    <3>1. Cardinality(E) = 0
      BY <2>1, <2>8 DEF Excess
    <3>2. IsFiniteSet(E)
      BY <2>1, <2>2, FS_Subset
    <3>3. E = {}
      BY <3>1, <3>2, FS_EmptySet
    <3>4. V \ E = V
      BY <3>3
    <3> QED BY <1>9, <2>5, <3>4
  <2> QED BY <2>7, <2>8
<1>12. Answers' = all \/ (Answers' \subseteq all /\ Cardinality(Answers') = MaxEntries)
  BY <1>4, <1>10, <1>11
<1> HIDE DEF V, At
<1>13. /\ Clients[r].phase = "missed" /\ sources[r] \in SUBSET Source
       /\ LET k == Clients[r].key
              total == (Answers \ Cache!Entries(k)) \cup {<<k, sources[r]>>}
          IN Answers' = total \/ (Answers' \subseteq total /\ Cardinality(Answers') = MaxEntries)
  BY <1>0, <1>1, <1>12
<1> QED BY <1>0, <1>2, <1>13, SameSize DEF Cache!Put, Clients, Answers

\* What is not a request's own step.
LEMMA OthersImplement ==
  ASSUME Ready, \/ \E d \in Docs : Ingest(d)
                \/ Cascade \/ CascadeFails \/ \E s \in Services : Crash(s)
  PROVE  Cache!Change \/ Cache!Forget \/ Cache!Die \/ UNCHANGED Cache!vars
<1>1. UNCHANGED rows => Answers' = Answers
  BY DEF Answers, Entry, ValidIds, Stored
<1>2. UNCHANGED <<pc, key, standalone, sources>> => Clients' = Clients
  BY DEF Clients, Seen, PhaseOf
<1>3. ASSUME NEW d \in Docs, Ingest(d)
      PROVE  Cache!Change
  <2>1. version' \in [Sections -> Version] /\ UNCHANGED <<rows, pc, key, standalone, sources>>
    BY <1>3 DEF Ingest
  <2>2. \A s \in Sections : version[s] = Retired => version'[s] = Retired
    BY <1>3, NullAssumption DEF Ingest, NextVersions
  <2> QED BY <1>1, <1>2, <2>1, <2>2 DEF Cache!Change, Answers, Clients
<1>4. CASE Cascade
  <2> DEFINE changed == CurrentSections(cascading)
  <2>1. /\ \A i \in Ids : rows'[i] = IF i \in ValidIds /\ Depends(rows[i], changed)
                                       THEN Invalidate(i) ELSE rows[i]
        /\ UNCHANGED <<version, pc, key, standalone, sources>>
    BY <1>4 DEF Cascade, request
  <2>2. \A i \in Ids : Invalidate(i) = NoRow \/ ~Invalidate(i).valid
    BY InvalidateKeeps DEF Ready, Typed, Invalidate
  <2>3. ValidIds' = {i \in ValidIds : ~Depends(rows[i], changed)}
    BY <2>1, <2>2 DEF ValidIds, Stored
  <2>4. \A i \in ValidIds' : Entry(i)' = Entry(i)
    BY <2>1, <2>3 DEF Entry, ValidIds, Stored
  <2>5. \A i \in ValidIds : ~Depends(rows[i], changed)
                              <=> \A src \in Entry(i)[2] : src[1] \notin changed
    BY DEF Depends, Entry
  <2>6. changed \in SUBSET Sections
    BY DEF CurrentSections
  <2> HIDE DEF changed
  <2>7. Answers' = {e \in Answers : \A src \in e[2] : src[1] \notin changed}
    BY <2>3, <2>4, <2>5 DEF Answers
  <2> QED BY <1>2, <2>1, <2>6, <2>7 DEF Cache!Forget, Answers, Clients
<1>5. CASE CascadeFails
  BY <1>1, <1>2, <1>5 DEF CascadeFails, tables, request, Cache!vars, Answers, Clients
<1>6. ASSUME NEW s \in Services, Crash(s)
      PROVE  Cache!Die
  <2> DEFINE dead == {r \in Requests : ServiceOf[r] = s}
  <2>1. \A r \in Requests :
          /\ pc'[r] = IF r \in dead THEN "idle" ELSE pc[r]
          /\ key'[r] = IF r \in dead THEN NoKey ELSE key[r]
          /\ standalone'[r] = IF r \in dead THEN TRUE ELSE standalone[r]
          /\ sources'[r] = IF r \in dead THEN {} ELSE sources[r]
    BY <1>6 DEF Crash
  <2>2. UNCHANGED <<version, rows>>
    BY <1>6 DEF Crash
  <2>3. PhaseOf("idle") = "idle"
    BY DEF PhaseOf, Answered
  <2>4. \A r \in Requests : Seen(r)' = IF r \in dead THEN Cache!Idle ELSE Seen(r)
    BY <2>1, <2>3 DEF Seen, Cache!Idle, PhaseOf
  <2>5. dead \in SUBSET Requests
    OBVIOUS
  <2> HIDE DEF dead
  <2>6. Clients' = [r \in Requests |-> IF r \in dead THEN Cache!Idle ELSE Clients[r]]
    BY <2>4 DEF Clients
  <2> QED BY <1>1, <2>2, <2>5, <2>6 DEF Cache!Die, Answers, Clients
<1> QED BY <1>3, <1>4, <1>5, <1>6

\* The other steps of a request.
LEMMA StepImplements ==
  ASSUME Ready, UniqueKey', FiniteTable', NEW r \in Requests, RequestStep(r)
  PROVE  \/ Cache!Serve(r) \/ Cache!Discard(r) \/ Cache!Miss(r) \/ Cache!Put(r) \/ Cache!End(r)
         \/ UNCHANGED Cache!vars
<1>0. Typed /\ pc \in [Requests -> PC] /\ version' = version
  BY SeenStep DEF Ready, Typed, RequestTypes
<1>1. CASE LookupMiss(r) \/ DoubleVerifyFails(r) \/ FinishExact(r)
  BY <1>1, LookupImplements
<1>2. ASSUME NEW i \in Ids, NEW emb \in BOOLEAN, StoreCommit(r, i, emb)
      PROVE  Cache!Put(r)
  BY <1>2, CommitImplements
<1>3. ASSUME UNCHANGED rows,
             pc[r] \in {"semantic", "fuzzy", "generate", "store", "commit"},
             pc'[r] \in {"semantic_served", "failed", "conflict"}
      PROVE  Cache!End(r)
  <2>1. PhaseOf(pc[r]) = "missed" /\ PhaseOf(pc'[r]) = "ended"
    BY <1>3 DEF PhaseOf, Answered
  <2>2. Cache!To(r, "ended", {})
    BY <1>0, <1>3, <2>1, ToPhase
  <2>3. Clients[r].phase = "missed"
    BY <2>1 DEF Clients, Seen
  <2>4. Answers' = Answers
    BY <1>3 DEF Answers, Entry, ValidIds, Stored
  <2> QED BY <1>0, <2>2, <2>3, <2>4 DEF Cache!End, Clients, Answers
<1>4. ASSUME UNCHANGED rows,
             \/ /\ pc[r] \in {"exact", "verify"} /\ pc'[r] = "verify"
             \/ /\ pc[r] \in {"semantic", "fuzzy", "generate", "store"}
                /\ pc'[r] \in {"fuzzy", "generate", "store", "commit"}
      PROVE  UNCHANGED Cache!vars
  <2>1. PhaseOf(pc'[r]) = PhaseOf(pc[r]) /\ pc[r] # "exact_served" /\ pc'[r] # "exact_served"
    BY <1>4 DEF PhaseOf, Answered
  <2> QED BY <1>0, <1>4, <2>1, SamePhase
<1>5. CASE (\E i \in Ids : LookupHit(r, i)) \/ VerifySource(r)
  <2>1. UNCHANGED rows /\ pc[r] \in {"exact", "verify"} /\ pc'[r] = "verify"
    BY <1>0, <1>5 DEF LookupHit, VerifySource, Goto, tables
  <2> QED BY <1>4, <2>1
<1>6. CASE SemanticHit(r) \/ SemanticContext(r) \/ SemanticMiss(r) \/ FuzzyMatch(r)
  <2>1. /\ UNCHANGED rows /\ pc[r] \in {"semantic", "fuzzy"}
        /\ pc'[r] \in {"semantic_served", "fuzzy", "generate"}
    BY <1>0, <1>6
       DEF SemanticHit, SemanticContext, SemanticMiss, FuzzyMatch, Goto, tables
  <2> QED BY <1>3, <1>4, <2>1
<1>7. CASE \/ \E s \in Sections, hashed \in BOOLEAN : ReadSection(r, s, hashed)
           \/ GenerateDone(r) \/ GenerateError(r) \/ GenerateTimeout(r)
  <2>1. /\ UNCHANGED rows /\ pc[r] = "generate"
        /\ pc'[r] \in {"generate", "store", "failed"}
    BY <1>0, <1>7
       DEF ReadSection, GenerateDone, GenerateError, GenerateTimeout, Goto, tables
  <2> QED BY <1>3, <1>4, <2>1
<1>8. CASE StoreLookup(r) \/ StoreConflict(r)
  <2>1. /\ UNCHANGED rows
        /\ \/ pc[r] = "store" /\ pc'[r] = "commit"
           \/ pc[r] = "commit" /\ pc'[r] = "conflict"
    BY <1>0, <1>8 DEF StoreLookup, StoreConflict, Goto, tables
  <2> QED BY <1>3, <1>4, <2>1
<1> QED
  BY <1>1, <1>2, <1>5, <1>6, <1>7, <1>8 DEF RequestStep

\* A question arrives.
LEMMA AskImplements ==
  ASSUME Ready, NEW r \in Requests, NEW k \in Keys, NEW qual \in Verdicts, Receive(r, k, qual)
  PROVE  Cache!Ask(r, k, qual)
<1>1. UNCHANGED <<rows, version>> /\ pc[r] \in {"idle"} \cup Answered
  BY DEF Receive, tables
<1>2. PhaseOf(pc[r]) \in {"idle", "served", "ended"} /\ PhaseOf("exact") = "asked"
  BY <1>1 DEF PhaseOf, Answered
<1>3. Clients[r].phase \in {"idle", "served", "ended"}
  BY <1>2 DEF Clients, Seen
<1>4. pc'[r] = "exact" /\ key'[r] = k /\ standalone'[r] = qual
  BY DEF Receive, Goto, Ready, Typed, RequestTypes
<1>5. Seen(r)' = [phase |-> "asked", key |-> k, plain |-> qual, served |-> {}]
  BY <1>2, <1>4 DEF Seen, PhaseOf
<1>6. Clients' = [Clients EXCEPT ![r] = [phase |-> "asked", key |-> k, plain |-> qual,
                                         served |-> {}]]
  BY <1>5, SeenAlone DEF Ready
<1>7. Answers' = Answers
  BY <1>1 DEF Answers, Entry, ValidIds, Stored
<1> QED BY <1>1, <1>3, <1>6, <1>7 DEF Cache!Ask, Clients, Answers

\* Where one backend object serves and ingests, the exact layer with its store,
\* eviction and cascade implements FreshCache: a lookup, which reads, verifies
\* and serves in many steps, takes effect in one.
THEOREM Implements == OneBackend => (Spec => KeepsCache)
<1> SUFFICES ASSUME OneBackend
             PROVE  Spec => KeepsCache
  OBVIOUS
<1>1. Init => Cache!Init
  <2> SUFFICES ASSUME Init PROVE Cache!Init
    OBVIOUS
  <2>1. Answers = {}
    BY DEF Init, Answers, ValidIds, Stored
  <2>2. PhaseOf("idle") = "idle"
    BY DEF PhaseOf, Answered
  <2>3. Clients = [r \in Requests |-> Cache!Idle]
    BY <2>2 DEF Init, Clients, Seen, Cache!Idle
  <2> QED BY <2>1, <2>3 DEF Init, Cache!Init, Answers, Clients
<1>2. Ready /\ (UniqueKey /\ FiniteTable)' /\ [Next]_vars => [Cache!Next]_(Cache!vars)
  <2> SUFFICES ASSUME Ready, UniqueKey', FiniteTable', [Next]_vars
               PROVE  Cache!Next \/ UNCHANGED Cache!vars
    OBVIOUS
  <2>1. ASSUME NEW r \in Requests, NEW k \in Keys, NEW qual \in Verdicts, Receive(r, k, qual)
        PROVE  Cache!Next
    BY <2>1, AskImplements DEF Cache!Next
  <2>2. ASSUME NEW r \in Requests, RequestStep(r)
        PROVE  Cache!Next \/ UNCHANGED Cache!vars
    BY <2>2, StepImplements DEF Cache!Next
  <2>3. CASE \/ \E d \in Docs : Ingest(d)
             \/ Cascade \/ CascadeFails \/ \E s \in Services : Crash(s)
    BY <2>3, OthersImplement DEF Cache!Next
  <2>4. CASE UNCHANGED vars
    BY <2>4 DEF vars, Cache!vars, Entry, Seen, ValidIds, Stored
  <2> QED BY <2>1, <2>2, <2>3, <2>4 DEF Next
<1>3. /\ Typed /\ UniqueKey /\ Alone /\ FiniteTable
      /\ (\A r \in Requests : LookedUp(r)) /\ (\A r \in Requests : Checked(r))
      => Ready
  BY DEF Ready
<1> QED
  BY <1>1, <1>2, <1>3, AlwaysTyped, KeysUnique, AlwaysAlone, AlwaysFinite, LookedUpAlways,
     CheckedAlways, PTL DEF Spec, KeepsCache, Cache!Spec

=============================================================================
