---------------------------- MODULE AnswerCache ----------------------------
(***************************************************************************)
(* The answer cache: the table answer_cache, the source sections its       *)
(* answers were generated from, the request pipeline of the chat service   *)
(* that looks answers up, verifies, serves, generates and stores them, and *)
(* the ingestion that changes the sections and cascades invalidation.      *)
(*                                                                         *)
(* A service is one process with one SQLiteBackend: one connection, one    *)
(* re-entrant lock held for the length of a session.  Services share the   *)
(* database file.  Outside a transaction a SELECT sees the last commit, so *)
(* the reads of a session are steps of their own; the first write starts   *)
(* the transaction, so everything from it to the commit is one step.       *)
(***************************************************************************)
EXTENDS Naturals, FiniteSets

CONSTANTS
  Docs, Sections, DocOf,   \* documents, their sections
  Hashes,                  \* version hashes a section's text may have
  Keys, TemporalKeys,      \* answer keys; those with a temporal_scope filter
  Near, Related,           \* pairs of keys at cosine >= 0.92, in [0.75, 0.92)
  Services, IngestService, \* processes; the one that ingests (the gateway)
  MayCrash,                \* services that may be killed
  CascadeAfterIngest,      \* TRUE: gateway endpoints; FALSE: Bitmod.ingest
  Requests, ServiceOf,     \* request handlers and the service each runs in
  Ids,                     \* row ids (uuid4)
  MaxEntries, EvictionInterval,
  MaxReads,                \* bound of the tool-calling loop
  HasEmbedder,             \* FALSE: no embedding provider is configured
  Verdicts                 \* verdicts of the qualification gate considered
CONSTANTS NoHash, Unborn, Retired, NoRow, NoId, NoKey, NoDoc

ASSUME DomainAssumption ==
  /\ DocOf \in [Sections -> Docs] /\ ServiceOf \in [Requests -> Services]
  /\ TemporalKeys \subseteq Keys /\ IngestService \in Services
  /\ Near \subseteq Keys \X Keys /\ Related \subseteq Keys \X Keys
  /\ CascadeAfterIngest \in BOOLEAN /\ MayCrash \subseteq Services
  /\ HasEmbedder \in BOOLEAN /\ Verdicts \subseteq BOOLEAN
ASSUME NullAssumption ==
  /\ NoHash \notin Hashes /\ Unborn \notin Hashes /\ Retired \notin Hashes
  /\ Unborn # Retired /\ NoId \notin Ids /\ NoKey \notin Keys
  /\ NoDoc \notin Docs
ASSUME BoundAssumption ==
  /\ MaxEntries \in Nat /\ EvictionInterval \in Nat \ {0} /\ MaxReads \in Nat

VARIABLES
  version,    \* the sections table: a current section's hash
  rows,       \* the answer_cache table by id
  writes,     \* each service's _write_counter, modulo the interval
  cascading,  \* the document whose cascade the ingest handler still owes
  lost,       \* history: documents whose last cascade never ran
  pc, key, standalone, ref, sources, basis, unchecked, reads, since

tables == <<version, rows, writes>>
ingestion == <<cascading, lost>>
request == <<pc, key, standalone, ref, sources, basis, unchecked, reads, since>>
vars == <<version, rows, writes, cascading, lost,
          pc, key, standalone, ref, sources, basis, unchecked, reads, since>>

(***************************************************************************)
(* A source of an answer is a section with the hash recorded for it, or    *)
(* NoHash when the tool that supplied it does not report one.              *)
(***************************************************************************)
Read == Sections \X Hashes
Source == Sections \X (Hashes \cup {NoHash})
Row == [key : Keys, sources : SUBSET Source, basis : SUBSET Read,
        valid : BOOLEAN, embedded : BOOLEAN, late : BOOLEAN]
ASSUME RowAssumption == NoRow \notin Row
Version == Hashes \cup {Unborn, Retired}

Answered == {"exact_served", "semantic_served", "generated", "failed", "conflict"}
Looking == {"exact", "verify", "semantic"}
PC == {"idle", "fuzzy", "generate", "store", "commit"} \cup Looking \cup Answered

\* Operators with an underscore in their name are faulty variants of the one
\* they precede, kept to show which property each fault breaks.
Matches_TrustsMissingHash(src) == src[2] = NoHash \/ version[src[1]] = src[2]
Matches(src) == src[2] \in Hashes /\ version[src[1]] = src[2]
CurrentReads == {p \in Read : version[p[1]] = p[2]}
Stored == {i \in Ids : rows[i] # NoRow}
ValidIds == {i \in Stored : rows[i].valid}
RowsOf(k) == {i \in Stored : rows[i].key = k}

\* A session that has read and not yet written holds its backend's lock.
SessionFree_NotInVerify(s) ==
  \A r \in Requests : ServiceOf[r] = s => pc[r] # "commit"
SessionFree_NotInStore(s) ==
  \A r \in Requests : ServiceOf[r] = s => pc[r] # "verify"
SessionFree_KeptAfterFailure(s) ==
  \A r \in Requests :
    ServiceOf[r] = s => pc[r] \notin {"verify", "commit", "failed", "conflict"}
SessionFree(s) ==
  \A r \in Requests : ServiceOf[r] = s => pc[r] \notin {"verify", "commit"}

\* An id no row has and no request still holds: uuid4 never repeats one.
Fresh(i) == rows[i] = NoRow /\ \A r \in Requests : ref[r] # i

Init ==
  /\ version = [s \in Sections |-> Unborn]
  /\ rows = [i \in Ids |-> NoRow]
  /\ writes = [s \in Services |-> 0]
  /\ cascading = NoDoc
  /\ lost = {}
  /\ pc = [r \in Requests |-> "idle"]
  /\ key = [r \in Requests |-> NoKey]
  /\ standalone = [r \in Requests |-> TRUE]
  /\ ref = [r \in Requests |-> NoId]
  /\ sources = [r \in Requests |-> {}]
  /\ basis = [r \in Requests |-> {}]
  /\ unchecked = [r \in Requests |-> {}]
  /\ reads = [r \in Requests |-> 0]
  /\ since = [r \in Requests |-> {}]

Goto(r, next) == pc' = [pc EXCEPT ![r] = next]

\* What the request holds of an answer: its row, manifest and provenance.
Hold(r, i, src, bas) ==
  /\ ref' = [ref EXCEPT ![r] = i]
  /\ sources' = [sources EXCEPT ![r] = src]
  /\ basis' = [basis EXCEPT ![r] = bas]

-----------------------------------------------------------------------------
(***************************************************************************)
(* Requests.                                                               *)
(***************************************************************************)

\* A chat request arrives.  qual is the verdict qualify_cache_hit gives on
\* its query and history: FALSE sends every hit on to the LLM.
Receive(r, k, qual) ==
  /\ pc[r] \in {"idle"} \cup Answered
  /\ Goto(r, "exact")
  /\ key' = [key EXCEPT ![r] = k]
  /\ standalone' = [standalone EXCEPT ![r] = qual]
  /\ Hold(r, NoId, {}, {})
  /\ unchecked' = [unchecked EXCEPT ![r] = {}]
  /\ reads' = [reads EXCEPT ![r] = 0]
  /\ since' = [since EXCEPT ![r] = CurrentReads]
  /\ UNCHANGED <<tables, ingestion>>

\* try_cache finds a valid row: the record is copied, the session stays open.
LookupHit(r, i) ==
  /\ pc[r] = "exact" /\ SessionFree(ServiceOf[r])
  /\ i \in ValidIds /\ rows[i].key = key[r]
  /\ Goto(r, "verify")
  /\ Hold(r, i, rows[i].sources, rows[i].basis)
  /\ unchecked' = [unchecked EXCEPT ![r] =
                     IF key[r] \in TemporalKeys THEN {} ELSE rows[i].sources]
  /\ since' = [since EXCEPT ![r] = CurrentReads]
  /\ UNCHANGED <<tables, ingestion, key, standalone, reads>>

LookupMiss(r) ==
  /\ pc[r] = "exact" /\ SessionFree(ServiceOf[r])
  /\ RowsOf(key[r]) \cap ValidIds = {}
  /\ Goto(r, "semantic")
  /\ UNCHANGED <<tables, ingestion, key, standalone, ref, sources, basis,
                 unchecked, reads, since>>

\* double_verify compares one more source with its section.
VerifySource(r) ==
  /\ pc[r] = "verify"
  /\ \E src \in unchecked[r] :
       /\ Matches(src)
       /\ unchecked' = [unchecked EXCEPT ![r] = @ \ {src}]
  /\ UNCHANGED <<tables, ingestion, pc, key, standalone, ref, sources, basis,
                 reads, since>>

Invalidate(i) == IF rows[i] = NoRow THEN NoRow ELSE [rows[i] EXCEPT !.valid = FALSE]

InvalidateHeld_NotAtAll(r) == rows
InvalidateHeld_ByKey(r) ==
  [i \in Ids |-> IF i \in RowsOf(key[r]) THEN Invalidate(i) ELSE rows[i]]
InvalidateHeld(r) == [rows EXCEPT ![ref[r]] = Invalidate(ref[r])]

Fails(src) == ~Matches(src)

\* A source has no hash, changed or is gone: the record looked up is
\* invalidated by its id and the request goes on as a miss.
DoubleVerifyFails(r) ==
  /\ pc[r] = "verify"
  /\ \E src \in unchecked[r] : Fails(src)
  /\ rows' = InvalidateHeld(r)
  /\ Goto(r, "semantic")
  /\ Hold(r, NoId, {}, {})
  /\ unchecked' = [unchecked EXCEPT ![r] = {}]
  /\ UNCHANGED <<version, writes, ingestion, key, standalone, reads, since>>

\* Every source matched (or the query is temporal): count the serve, close
\* the session, ask the qualification gate.
FinishExact(r) ==
  /\ pc[r] = "verify" /\ unchecked[r] = {}
  /\ IF standalone[r]
       THEN /\ Goto(r, "exact_served")
            /\ UNCHANGED <<sources, basis>>
       ELSE /\ Goto(r, "semantic")
            /\ sources' = [sources EXCEPT ![r] = {}]
            /\ basis' = [basis EXCEPT ![r] = {}]
  /\ ref' = [ref EXCEPT ![r] = NoId]
  /\ UNCHANGED <<tables, ingestion, key, standalone, unchecked, reads, since>>

Candidates(k, relation) ==
  {i \in ValidIds : rows[i].embedded /\ <<k, rows[i].key>> \in relation}

\* semantic_cache_match at 0.92: the best valid embedding is served as is.
SemanticHit(r) ==
  /\ pc[r] = "semantic" /\ SessionFree(ServiceOf[r])
  /\ \E i \in Candidates(key[r], Near) :
       IF standalone[r]
         THEN /\ Goto(r, "semantic_served")
              /\ Hold(r, NoId, rows[i].sources, rows[i].basis)
              /\ UNCHANGED since
         ELSE /\ Goto(r, "fuzzy")
              /\ since' = [since EXCEPT ![r] = {}]
              /\ UNCHANGED <<ref, sources, basis>>
  /\ UNCHANGED <<tables, ingestion, key, standalone, unchecked, reads>>

\* At 0.75 the answer becomes context of the prompt: what the new answer
\* will say then derives from it, and its manifest does not record that.
SemanticContext(r) ==
  /\ pc[r] = "semantic" /\ SessionFree(ServiceOf[r])
  /\ Candidates(key[r], Near) = {}
  /\ \E i \in Candidates(key[r], Related) :
       basis' = [basis EXCEPT ![r] = rows[i].basis]
  /\ Goto(r, "fuzzy")
  /\ since' = [since EXCEPT ![r] = {}]
  /\ UNCHANGED <<tables, ingestion, key, standalone, ref, sources, unchecked, reads>>

\* No candidate, no embedder, or embedding the query failed.
SemanticMiss(r) ==
  /\ pc[r] = "semantic" /\ SessionFree(ServiceOf[r])
  /\ Goto(r, "fuzzy")
  /\ since' = [since EXCEPT ![r] = {}]
  /\ UNCHANGED <<tables, ingestion, key, standalone, ref, sources, basis,
                 unchecked, reads>>

\* The best fuzzy match, if any, joins the prompt's context.
FuzzyMatch(r) ==
  /\ pc[r] = "fuzzy" /\ SessionFree(ServiceOf[r])
  /\ Goto(r, "generate")
  /\ \/ UNCHANGED basis
     \/ \E i \in ValidIds :
          /\ <<key[r], rows[i].key>> \in Near \cup Related
          /\ basis' = [basis EXCEPT ![r] = @ \cup rows[i].basis]
  /\ UNCHANGED <<tables, ingestion, key, standalone, ref, sources, unchecked,
                 reads, since>>

\* A tool call of the LLM reads a current section.  get_section reports the
\* version hash (hashed); search_data and the stream's pre-search do not.
ReadSection(r, s, hashed) ==
  /\ pc[r] = "generate" /\ SessionFree(ServiceOf[r])
  /\ reads[r] < MaxReads /\ version[s] \in Hashes
  /\ sources' = [sources EXCEPT ![r] =
                   @ \cup {<<s, IF hashed THEN version[s] ELSE NoHash>>}]
  /\ basis' = [basis EXCEPT ![r] = @ \cup {<<s, version[s]>>}]
  /\ reads' = [reads EXCEPT ![r] = @ + 1]
  /\ UNCHANGED <<tables, ingestion, pc, key, standalone, ref, unchecked, since>>

GenerateDone(r) ==
  /\ pc[r] = "generate"
  /\ Goto(r, "store")
  /\ UNCHANGED <<tables, ingestion, key, standalone, ref, sources, basis,
                 unchecked, reads, since>>

\* The LLM raised: the apology is the answer, without sources, and it is
\* stored like any other.
GenerateError(r) ==
  /\ pc[r] = "generate"
  /\ Goto(r, "store")
  /\ Hold(r, NoId, {}, {})
  /\ UNCHANGED <<tables, ingestion, key, standalone, unchecked, reads, since>>

\* 504 after BITMOD_REQUEST_TIMEOUT, or the client of a stream left.
GenerateTimeout(r) ==
  /\ pc[r] = "generate"
  /\ Goto(r, "failed")
  /\ Hold(r, NoId, {}, {})
  /\ UNCHANGED <<tables, ingestion, key, standalone, unchecked, reads, since>>

\* cache_store first reads the id of the row that has the key.
StoreLookup(r) ==
  /\ pc[r] = "store" /\ SessionFree(ServiceOf[r])
  /\ \/ RowsOf(key[r]) = {} /\ ref' = [ref EXCEPT ![r] = NoId]
     \/ \E i \in RowsOf(key[r]) : ref' = [ref EXCEPT ![r] = i]
  /\ Goto(r, "commit")
  /\ UNCHANGED <<tables, ingestion, key, standalone, sources, basis, unchecked,
                 reads, since>>

\* Another connection inserted the key meanwhile: the INSERT breaks UNIQUE,
\* the session rolls back and the request fails.
StoreConflict(r) ==
  /\ pc[r] = "commit" /\ RowsOf(key[r]) \ {ref[r]} # {}
  /\ Goto(r, "conflict")
  /\ Hold(r, NoId, {}, {})
  /\ UNCHANGED <<tables, ingestion, key, standalone, unchecked, reads, since>>

NewRow(r, emb) ==
  [key |-> key[r], sources |-> sources[r], basis |-> basis[r], valid |-> TRUE,
   embedded |-> emb,
   late |-> \E src \in sources[r] : src[2] \in Hashes /\ ~Matches(src)]

Replace_KeepsOld(r, i, row) == [rows EXCEPT ![i] = row]
Replace(r, i, row) ==
  [j \in Ids |-> IF j = i THEN row ELSE IF j = ref[r] THEN NoRow ELSE rows[j]]

ValidIn(table) == {i \in Ids : table[i] # NoRow /\ table[i].valid}

\* cache_evict_lru deletes as many valid rows as exceed max_entries.  The
\* scores (recency, serves, cost) rank any choice of them last.
Excess_KeepsOneMore(n) == IF n > MaxEntries + 1 THEN n - MaxEntries ELSE 0
Excess(n) == IF n > MaxEntries THEN n - MaxEntries ELSE 0

Evictions(table) ==
  {E \in SUBSET ValidIn(table) :
     Cardinality(E) = Excess(Cardinality(ValidIn(table)))}

CountWrite_NeverWraps(n) == n + 1
CountWrite(n) == (n + 1) % EvictionInterval

\* store_answer commits: the old row goes, the new one comes with a new id,
\* every EvictionInterval-th write of the process evicts, and the embedding
\* follows unless the row was just evicted (foreign key).
StoreCommit(r, i, emb) ==
  /\ pc[r] = "commit" /\ RowsOf(key[r]) \subseteq {ref[r]} /\ Fresh(i)
  /\ emb => HasEmbedder
  /\ LET s == ServiceOf[r]
         stored == Replace(r, i, NewRow(r, emb))
     IN /\ writes' = [writes EXCEPT ![s] = CountWrite(@)]
        /\ IF writes'[s] = 0
             THEN \E E \in Evictions(stored) :
                    rows' = [j \in Ids |-> IF j \in E THEN NoRow ELSE stored[j]]
             ELSE rows' = stored
  /\ Goto(r, "generated")
  /\ Hold(r, NoId, {}, {})
  /\ UNCHANGED <<version, ingestion, key, standalone, unchecked, reads, since>>

-----------------------------------------------------------------------------
(***************************************************************************)
(* Ingestion and failures.                                                 *)
(***************************************************************************)

\* What a re-ingestion may leave of a section: a removed section is marked
\* not current for good, a new one gets an id of its own.
NextVersions(v) ==
  CASE v = Unborn -> Hashes \cup {Unborn}
    [] v = Retired -> {Retired}
    [] OTHER -> Hashes \cup {Retired}

\* _ingest_parsed for document d, one transaction.  The endpoint then owes a
\* cascade only when it was a re-ingestion that updated a section in place.
Ingest(d) ==
  /\ cascading = NoDoc /\ SessionFree(IngestService)
  /\ version' \in [Sections -> Version]
  /\ version' # version
  /\ \A s \in Sections :
       IF DocOf[s] = d THEN version'[s] \in NextVersions(version[s])
                       ELSE version'[s] = version[s]
  /\ LET updated == {s \in Sections : /\ version[s] \in Hashes
                                      /\ version'[s] \in Hashes \ {version[s]}}
     IN cascading' = IF CascadeAfterIngest /\ updated # {} THEN d ELSE NoDoc
  /\ since' = [r \in Requests |->
                 IF pc[r] \in Looking
                   THEN since[r] \cup {p \in Read : version'[p[1]] = p[2]}
                   ELSE since[r]]
  /\ UNCHANGED <<rows, writes, lost, pc, key, standalone, ref, sources, basis,
                 unchecked, reads>>

CurrentSections(d) == {s \in Sections : DocOf[s] = d /\ version[s] \in Hashes}
Depends_OnNewVersion(row, secs) ==
  \E src \in row.sources : src[1] \in secs /\ Matches(src)
Depends(row, secs) == \E src \in row.sources : src[1] \in secs

\* _cascade_invalidate_for_document: a second session invalidates the valid
\* rows that name a section still current in the document.
Cascade ==
  /\ cascading # NoDoc /\ SessionFree(IngestService)
  /\ rows' = [i \in Ids |->
                IF i \in ValidIds /\ Depends(rows[i], CurrentSections(cascading))
                  THEN Invalidate(i) ELSE rows[i]]
  /\ lost' = lost \ {cascading}
  /\ cascading' = NoDoc
  /\ UNCHANGED <<version, writes, request>>

\* The cascade raised; the endpoint logs it at debug level and goes on.
CascadeFails ==
  /\ cascading # NoDoc
  /\ lost' = lost \cup {cascading}
  /\ cascading' = NoDoc
  /\ UNCHANGED <<tables, request>>

\* A process dies: open sessions roll back, its requests and counter go, and
\* a cascade it owed is never made up for.
Crash(s) ==
  /\ s \in MayCrash
  /\ LET Reset(f, v) == [r \in Requests |-> IF ServiceOf[r] = s THEN v ELSE f[r]]
     IN /\ pc' = Reset(pc, "idle") /\ key' = Reset(key, NoKey)
        /\ standalone' = Reset(standalone, TRUE) /\ ref' = Reset(ref, NoId)
        /\ sources' = Reset(sources, {}) /\ basis' = Reset(basis, {})
        /\ unchecked' = Reset(unchecked, {}) /\ reads' = Reset(reads, 0)
        /\ since' = Reset(since, {})
  /\ writes' = [writes EXCEPT ![s] = 0]
  /\ IF s = IngestService /\ cascading # NoDoc
       THEN lost' = lost \cup {cascading} /\ cascading' = NoDoc
       ELSE UNCHANGED ingestion
  /\ UNCHANGED <<version, rows>>

-----------------------------------------------------------------------------
RequestStep(r) ==
  \/ \E i \in Ids : LookupHit(r, i)
  \/ LookupMiss(r)
  \/ VerifySource(r)
  \/ DoubleVerifyFails(r)
  \/ FinishExact(r)
  \/ SemanticHit(r)
  \/ SemanticContext(r)
  \/ SemanticMiss(r)
  \/ FuzzyMatch(r)
  \/ \E s \in Sections, hashed \in BOOLEAN : ReadSection(r, s, hashed)
  \/ GenerateDone(r)
  \/ GenerateError(r)
  \/ GenerateTimeout(r)
  \/ StoreLookup(r)
  \/ StoreConflict(r)
  \/ \E i \in Ids, emb \in BOOLEAN : StoreCommit(r, i, emb)

Next ==
  \/ \E r \in Requests, k \in Keys, qual \in Verdicts : Receive(r, k, qual)
  \/ \E r \in Requests : RequestStep(r)
  \/ \E d \in Docs : Ingest(d)
  \/ Cascade
  \/ CascadeFails
  \/ \E s \in Services : Crash(s)

Spec == Init /\ [][Next]_vars

(***************************************************************************)
(* A handler that waits for its backend's lock gets it.  The chat service  *)
(* runs its handlers on one event loop, first in first out, and a session  *)
(* contains no await; the library runs sessions on threads, whose lock     *)
(* nobody holds for long, and is assumed to starve no waiter.              *)
(***************************************************************************)
FairSpec == Spec /\ \A r \in Requests : SF_vars(RequestStep(r))

-----------------------------------------------------------------------------
(***************************************************************************)
(* Properties.                                                             *)
(***************************************************************************)

TypeOK ==
  /\ version \in [Sections -> Version]
  /\ rows \in [Ids -> Row \cup {NoRow}]
  /\ writes \in [Services -> 0 .. EvictionInterval - 1]
  /\ cascading \in Docs \cup {NoDoc}
  /\ lost \subseteq Docs
  /\ pc \in [Requests -> PC]
  /\ key \in [Requests -> Keys \cup {NoKey}]
  /\ standalone \in [Requests -> BOOLEAN]
  /\ ref \in [Requests -> Ids \cup {NoId}]
  /\ sources \in [Requests -> SUBSET Source]
  /\ basis \in [Requests -> SUBSET Read]
  /\ unchecked \in [Requests -> SUBSET Source]
  /\ reads \in [Requests -> 0 .. MaxReads]
  /\ since \in [Requests -> SUBSET Read]

\* An answer served on an exact key, unless temporal, has a hash for each
\* source, and each was its section's hash at some moment after the lookup:
\* what double_verify and the invalidate-then-miss path are for, whatever
\* ingestions, evictions and other services do between the checks.
ExactServedWasCurrent ==
  \A r \in Requests :
    pc[r] = "exact_served" /\ key[r] \notin TemporalKeys
      => sources[r] \subseteq since[r]

\* A key never has two rows, valid or not, whichever services store it at
\* once: cache_store's delete-then-insert and the UNIQUE constraint.
UniqueKey ==
  \A i, j \in Stored : rows[i].key = rows[j].key => i = j

\* A valid answer that names an outdated version of a section still current
\* is one the cascade of that document has yet to reach or was lost for, or
\* one stored by a generation the update overtook.
StaleRowsExplained ==
  \A i \in ValidIds : \A src \in rows[i].sources :
    /\ src[2] \in Hashes /\ version[src[1]] \in Hashes \ {src[2]}
    => rows[i].late \/ DocOf[src[1]] \in lost \cup {cascading}

\* A step that invalidates an answer either is a cascade or finds that very
\* answer out of date: a verification that fails on an old answer never
\* takes down the answer another request has stored in its place.
OnlyStaleRowsInvalidated ==
  [][\A i \in ValidIds :
       rows'[i] # NoRow /\ ~rows'[i].valid
         => \/ cascading # NoDoc /\ cascading' = NoDoc
            \/ \E src \in rows[i].sources : ~Matches(src)]_vars

\* Where one backend object serves and ingests, its lock makes lookup, check
\* and serve one session: every source matches when the answer is served.
ExactServesAreCurrent ==
  [][\A r \in Requests :
       /\ pc[r] = "verify" /\ pc'[r] = "exact_served"
       /\ key[r] \notin TemporalKeys
       => \A src \in sources[r] : Matches(src)]_vars

\* With one backend object no store runs into the UNIQUE constraint, though
\* requests for one key miss and generate at the same time.
NoStoreConflict == \A r \in Requests : pc[r] # "conflict"

\* Valid entries exceed max_entries by at most the writes since each service's
\* last eviction, although every service counts only its own and each decides
\* for the whole table (_maybe_evict).
SinceEviction == {w \in Services \X (1 .. EvictionInterval) : w[2] <= writes[w[1]]}
EvictionBound == Cardinality(ValidIds) <= MaxEntries + Cardinality(SinceEviction)

\* Every request that arrives is answered or fails, or dies with its service,
\* although handlers wait for each other's sessions.
RequestsEnd ==
  \A r \in Requests : pc[r] = "exact" ~> pc[r] \in Answered \cup {"idle"}

\* The cache seen by those who ask it.
PhaseOf(at) ==
  CASE at \in {"exact", "verify"} -> "asked"
    [] at = "exact_served" -> "served"
    [] at \in Answered \ {"exact_served"} -> "ended"
    [] at = "idle" -> "idle"
    [] OTHER -> "missed"
Seen(r) ==
  [phase |-> PhaseOf(pc[r]), key |-> key[r], plain |-> standalone[r],
   served |-> IF pc[r] = "exact_served" THEN sources[r] ELSE {}]
Entry(i) == <<rows[i].key, rows[i].sources>>

Cache == INSTANCE FreshCache WITH
  store <- {Entry(i) : i \in ValidIds},
  client <- [r \in Requests |-> Seen(r)]

\* With one backend object the exact layer (try_cache, double_verify, the gate,
\* cache_store, cache_evict_lru, the cascade) is the cache FreshCache describes:
\* although a lookup reads, verifies and serves in many steps, it takes effect
\* in one, hits whenever it can, and throws away nothing that is current.
KeepsCache == Cache!Spec

(***************************************************************************)
(* What the documentation says and the code does not do.                   *)
(***************************************************************************)

\* double_verify: "Before serving ANY cached answer, verify that every source
\* section's version_hash still matches", and CACHE_ARCHITECTURE.md: "cached
\* answers are never served from stale source data".  The semantic layer serves
\* without verifying, and an answer written with an older one in its prompt
\* carries that one's sections in its text and not in its manifest.
ServedTextWasCurrent ==
  \A r \in Requests :
    pc[r] \in {"exact_served", "semantic_served"} /\ key[r] \notin TemporalKeys
      => basis[r] \subseteq since[r]

=============================================================================
