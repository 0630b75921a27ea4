--------------------------- MODULE ProjectIndexer ---------------------------
(***************************************************************************)
(* ProjectIndexer.scan over a directory that changes while it is read.     *)
(*                                                                         *)
(* One database session spans a scan, and the session holds the backend's  *)
(* lock: scans are serialised, and what one writes is seen when it ends or *)
(* forgotten when it raises.  The files are read without any lock: each    *)
(* file is hashed, read and asked for its size in steps of their own.      *)
(***************************************************************************)
EXTENDS Naturals, FiniteSets

CONSTANTS
  Files, Contents, Absent,   \* Absent also stands for the hash of no file, ""
  NoRecord, Nobody,
  Threads, Gateway,          \* who may scan; the event loop of the gateway
  Disks,                     \* bound: the directory at first
  MaxEdits, MaxRequests,     \* bounds of the environment
  MaxFailures                \* bound: database and embedding failures
ASSUME IndexerAssumption ==
  /\ Gateway \in Threads /\ Nobody \notin Threads
  /\ Absent \notin Contents /\ Disks \subseteq [Files -> Contents \cup {Absent}]
  /\ NoRecord \notin [hash : Contents \cup {Absent}, chunks : Contents, embedded : BOOLEAN]
  /\ {MaxEdits, MaxRequests, MaxFailures} \subseteq Nat

\* A row of project_files with its project_chunks: the hash of one reading of
\* the file, the chunks of another, and whether the chunks have embeddings.
Record == [hash : Contents \cup {Absent}, chunks : Contents, embedded : BOOLEAN]

VARIABLES
  disk,                                  \* the project directory
  registered, record,                    \* projects, project_files and chunks
  scanner,                               \* the thread whose session is open
  todo, walked, draft, file, hashed, text, \* its scan
  pc,                                    \* what each thread does
  edits, requests, failures,             \* the bounded counters
  touched, missed, lost                  \* history, see below

db == <<registered, record>>
scan == <<todo, walked, draft, file, hashed, text>>
budget == <<edits, requests, failures>>

\* touched: files changed since the open scan began.
\* missed:  files changed, unseen by any watcher, since the last scan that
\*          ended had begun.
\* lost:    the last scan raised.
history == <<touched, missed, lost>>
indexerVars == <<disk, db, scanner, scan, pc, budget, history>>

Present == {f \in Files : disk[f] # Absent}
Goto(t, next) == pc' = [pc EXCEPT ![t] = next]
Fails == failures < MaxFailures /\ failures' = failures + 1

IndexerInit ==
  /\ disk \in Disks
  /\ registered \in BOOLEAN /\ record = [f \in Files |-> NoRecord]
  /\ scanner = Nobody
  /\ todo = {} /\ walked = {} /\ draft = record
  /\ file = Nobody /\ hashed = Absent /\ text = Absent
  /\ pc = [t \in Threads |-> "idle"]
  /\ edits = 0 /\ requests = 0 /\ failures = 0
  /\ touched = {} /\ missed = Files /\ lost = FALSE

-----------------------------------------------------------------------------
(***************************************************************************)
(* A scan.  A thread at "call" waits for a session; one at "returned" has   *)
(* left scan, by its end or by an exception.                               *)
(***************************************************************************)
Closed ==
  /\ scanner' = Nobody
  /\ todo' = {} /\ walked' = {} /\ draft' = record'
  /\ file' = Nobody /\ hashed' = Absent /\ text' = Absent
  /\ touched' = {}
Aborts(t) ==
  /\ Goto(t, "returned") /\ UNCHANGED db /\ Closed
  /\ lost' = TRUE /\ UNCHANGED missed

\* The session opens; an unknown project raises.  The directory is walked.
BeginScan(t) ==
  /\ pc[t] = "call" /\ scanner = Nobody
  /\ IF registered
       THEN /\ scanner' = t /\ todo' = Present /\ walked' = Present
            /\ draft' = record /\ touched' = {}
            /\ Goto(t, "scan")
            /\ UNCHANGED <<db, file, hashed, text, missed, lost>>
       ELSE Aborts(t)
  /\ UNCHANGED <<disk, budget>>

\* _file_hash, and the comparison with the hash recorded.
HashFile_FirstTimeOnly(t, f) ==
  /\ pc[t] = "scan" /\ scanner = t /\ f \in todo
  /\ IF draft[f] # NoRecord
       THEN todo' = todo \ {f} /\ UNCHANGED <<pc, file, hashed>>
       ELSE Goto(t, "read") /\ file' = f /\ hashed' = disk[f] /\ UNCHANGED todo
  /\ UNCHANGED <<disk, db, scanner, walked, draft, text, budget, history>>
HashFile(t, f) ==
  /\ pc[t] = "scan" /\ scanner = t /\ f \in todo
  /\ IF draft[f] # NoRecord /\ draft[f].hash = disk[f]
       THEN todo' = todo \ {f} /\ UNCHANGED <<pc, file, hashed>>
       ELSE Goto(t, "read") /\ file' = f /\ hashed' = disk[f] /\ UNCHANGED todo
  /\ UNCHANGED <<disk, db, scanner, walked, draft, text, budget, history>>

\* The content is read; a file that cannot be opened keeps what was indexed.
ReadFile_AsEmpty(t) ==
  /\ pc[t] = "read" /\ scanner = t
  /\ Goto(t, "stat") /\ text' = disk[file]
  /\ UNCHANGED <<disk, db, scanner, todo, walked, draft, file, hashed, budget, history>>
ReadFile(t) ==
  /\ pc[t] = "read" /\ scanner = t
  /\ IF disk[file] = Absent
       THEN Goto(t, "scan") /\ todo' = todo \ {file} /\ UNCHANGED text
       ELSE Goto(t, "stat") /\ text' = disk[file] /\ UNCHANGED todo
  /\ UNCHANGED <<disk, db, scanner, walked, draft, file, hashed, budget, history>>

\* getsize and getmtime raise when the file is gone by now.  Otherwise the old
\* chunks go, the record is written, and the new chunks are stored, without
\* embeddings when the embedder raised.
StoreFile(t, embeds) ==
  /\ pc[t] = "stat" /\ scanner = t
  /\ IF disk[file] = Absent
       THEN embeds /\ Aborts(t) /\ UNCHANGED failures
       ELSE /\ draft' = [draft EXCEPT ![file] =
                           [hash |-> hashed, chunks |-> text, embedded |-> embeds]]
            /\ todo' = todo \ {file} /\ Goto(t, "scan")
            /\ IF embeds THEN UNCHANGED failures ELSE Fails
            /\ UNCHANGED <<db, scanner, walked, file, hashed, text, history>>
  /\ UNCHANGED <<disk, edits, requests>>

\* Records of files the walk did not meet are removed; the session commits.
EndScan(t) ==
  /\ pc[t] = "scan" /\ scanner = t /\ todo = {}
  /\ record' = [f \in Files |-> IF f \in walked THEN draft[f] ELSE NoRecord]
  /\ missed' = missed \cap touched /\ lost' = FALSE
  /\ Goto(t, "returned") /\ Closed
  /\ UNCHANGED <<disk, registered, budget>>

\* A statement of the session raises: everything is rolled back.
ScanFails(t) ==
  /\ pc[t] \in {"scan", "read", "stat"} /\ scanner = t /\ Fails
  /\ Aborts(t)
  /\ UNCHANGED <<disk, edits, requests>>

-----------------------------------------------------------------------------
(***************************************************************************)
(* The project endpoints of the gateway, one at a time on its event loop.  *)
(***************************************************************************)
Requested == requests < MaxRequests /\ requests' = requests + 1

ScanProject ==
  /\ pc[Gateway] = "idle" /\ Requested
  /\ Goto(Gateway, "call")
  /\ UNCHANGED <<disk, db, scanner, scan, edits, failures, history>>

RegisterProject ==
  /\ pc[Gateway] = "idle" /\ scanner = Nobody
  /\ ~registered /\ Requested
  /\ registered' = TRUE
  /\ UNCHANGED <<disk, record, scanner, scan, pc, edits, failures, history>>

\* project_delete: the files and chunks go with the project.
RemoveProject ==
  /\ pc[Gateway] = "idle" /\ scanner = Nobody
  /\ registered /\ Requested
  /\ registered' = FALSE /\ record' = [f \in Files |-> NoRecord]
  /\ missed' = Files /\ draft' = record'
  /\ UNCHANGED <<disk, scanner, todo, walked, file, hashed, text, pc, edits,
                 failures, touched, lost>>

IndexerTypeOK ==
  /\ disk \in [Files -> Contents \cup {Absent}]
  /\ registered \in BOOLEAN /\ record \in [Files -> Record \cup {NoRecord}]
  /\ scanner \in Threads \cup {Nobody}
  /\ todo \subseteq walked /\ walked \subseteq Files
  /\ draft \in [Files -> Record \cup {NoRecord}]
  /\ file \in Files \cup {Nobody} /\ {hashed, text} \subseteq Contents \cup {Absent}
  /\ edits \in 0 .. MaxEdits /\ requests \in 0 .. MaxRequests
  /\ failures \in 0 .. MaxFailures
  /\ touched \subseteq Files /\ missed \subseteq Files /\ lost \in BOOLEAN

\* What the index says of a file agrees with the directory.
Agrees(f, table) ==
  IF disk[f] = Absent THEN table[f] = NoRecord
                      ELSE table[f] # NoRecord /\ table[f].hash = disk[f]

=============================================================================
