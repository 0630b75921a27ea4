--------------------------- MODULE ProjectProofs ---------------------------
(***************************************************************************)
(* Proofs about ProjectIndexer and ProjectWatcher, for any number of files, *)
(* contents, timers and polling threads, and any edits.                     *)
(***************************************************************************)
EXTENDS ProjectWatcher, TLAPS

Scans == {"scan", "read", "stat"}
Phases == Scans \cup {"idle", "call", "returned", "flush", "begin", "sleep",
                      "join", "cancel", "clear"}

\* The steps that leave the scan and the index alone, and those of the scan.
Watches ==
  \/ \E f \in Files : Enqueue(f)
  \/ \E t \in Threads : TimerFires(t) \/ Flush(t) \/ Returned(t) \/ InitialScan(t) \/ Poll(t)
  \/ Start \/ Stop \/ Stopping \/ ZombieEnds
Serves == ScanProject \/ RegisterProject \/ RemoveProject
Works(t) == Indexing(t) \/ ScanFails(t)

LEMMA NextCases ==
  ASSUME Next
  PROVE  \/ Watches
         \/ \E f \in Files, c \in Contents \cup {Absent} : Edit(f, c)
         \/ /\ Serves \/ \E t \in Threads : Works(t)
            /\ UNCHANGED <<watchdog, watch, debounce, polls>>
  BY DEF Next, Runs, Watches, Serves, Works

-----------------------------------------------------------------------------
(***************************************************************************)
(* Types.                                                                  *)
(***************************************************************************)
LEMMA TypeWatches == TypeOK /\ Watches => TypeOK'
<1> SUFFICES ASSUME TypeOK, Watches PROVE TypeOK'
  OBVIOUS
<1> USE WatcherAssumption DEF TypeOK, IndexerTypeOK, Goto, db, scan, budget, history, watch,
        debounce, polls, Untouched
<1>1. CASE \E f \in Files : Enqueue(f)
  BY <1>1 DEF Enqueue
<1>2. ASSUME NEW t \in Threads, TimerFires(t) PROVE TypeOK'
  BY <1>2 DEF TimerFires
<1>3. ASSUME NEW t \in Threads, Flush(t) \/ Returned(t) PROVE TypeOK'
  BY <1>3 DEF Flush, Returned
<1>4. ASSUME NEW t \in Threads, InitialScan(t) \/ Poll(t) PROVE TypeOK'
  BY <1>4 DEF InitialScan, Poll, Present
<1>5. CASE Start
  BY <1>5 DEF Start
<1>6. CASE Stop
  BY ZenonT(30), <1>6 DEF Stop
<1>7. CASE \E ended \in BOOLEAN : Join(ended)
  BY ZenonT(30), <1>7 DEF Join
<1>8. CASE CancelTimer \/ ClearTimer
  BY <1>8 DEF CancelTimer, ClearTimer
<1>9. CASE ZombieEnds
  BY <1>9 DEF ZombieEnds
<1> QED
  BY <1>1, <1>2, <1>3, <1>4, <1>5, <1>6, <1>7, <1>8, <1>9 DEF Watches, Stopping

LEMMA TypeEdit ==
  ASSUME TypeOK, NEW f \in Files, NEW c \in Contents \cup {Absent}, Edit(f, c)
  PROVE  TypeOK'
<1>1. edits' \in 0 .. MaxEdits
  BY IndexerAssumption DEF Edit, TypeOK, IndexerTypeOK
<1>2. /\ disk' \in [Files -> Contents \cup {Absent}]
      /\ events' \subseteq Files /\ missed' \subseteq Files /\ touched' \subseteq Files
      /\ unseen' \in [Pollers -> SUBSET Files]
  BY DEF Edit, TypeOK, IndexerTypeOK
<1> QED BY <1>1, <1>2 DEF Edit, TypeOK, IndexerTypeOK, db, scan, debounce

LEMMA TypeServes ==
  ASSUME TypeOK, Serves, UNCHANGED <<watchdog, watch, debounce, polls>>
  PROVE  TypeOK'
<1> USE IndexerAssumption, WatcherAssumption DEF TypeOK, IndexerTypeOK, Goto, Requested, db, scan, budget, history,
        watch, debounce, polls
<1>1. CASE ScanProject
  BY <1>1 DEF ScanProject
<1>2. CASE RegisterProject
  BY <1>2 DEF RegisterProject
<1>3. CASE RemoveProject
  <2>1. Requested /\ record' = [f \in Files |-> NoRecord] /\ draft' = record' /\ missed' = Files
    BY <1>3 DEF RemoveProject
  <2>2. requests' \in 0 .. MaxRequests
    BY <2>1
  <2>3. /\ record' \in [Files -> Record \cup {NoRecord}]
        /\ draft' \in [Files -> Record \cup {NoRecord}]
    BY <2>1
  <2>4. registered' \in BOOLEAN
    BY <1>3 DEF RemoveProject
  <2> QED BY <1>3, <2>1, <2>2, <2>3, <2>4 DEF RemoveProject
<1> QED BY <1>1, <1>2, <1>3 DEF Serves

\* Read on the way to the store, a file has a content.
Reading ==
  \A t \in Threads : /\ pc[t] \in {"read", "stat"} => file \in Files
                     /\ pc[t] = "stat" => text \in Contents

LEMMA TypeWorks ==
  ASSUME TypeOK, Reading, NEW t \in Threads, Works(t),
         UNCHANGED <<watchdog, watch, debounce, polls>>
  PROVE  TypeOK'
<1> USE IndexerAssumption DEF TypeOK, IndexerTypeOK, Goto, db, scan, budget, history, watch,
        debounce, polls
<1>1. ASSUME Aborts(t), UNCHANGED <<disk, edits, requests>>, failures' \in 0 .. MaxFailures
      PROVE  TypeOK'
  BY <1>1 DEF Aborts, Closed
<1>2. CASE BeginScan(t)
  BY <1>1, <1>2 DEF BeginScan, Present
<1>3. CASE \E f \in Files : HashFile(t, f)
  BY <1>3 DEF HashFile
<1>4. CASE ReadFile(t)
  <2>1. /\ todo' \subseteq walked /\ text' \in Contents \cup {Absent}
        /\ \E next \in {"scan", "stat"} : pc' = [pc EXCEPT ![t] = next]
    BY <1>4 DEF ReadFile, Reading
  <2> QED BY <1>4, <2>1 DEF ReadFile
<1>5. ASSUME NEW embeds \in BOOLEAN, StoreFile(t, embeds)
      PROVE  TypeOK'
  <2>1. CASE disk[file] = Absent
    BY <1>1, <1>5, <2>1 DEF StoreFile
  <2>2. CASE disk[file] # Absent
    <3>1. [hash |-> hashed, chunks |-> text, embedded |-> embeds] \in Record
      BY <1>5 DEF StoreFile, Record, Reading
    <3>2. failures' \in 0 .. MaxFailures
      BY <1>5, <2>2 DEF StoreFile, Fails
    <3> QED BY <1>5, <2>2, <3>1, <3>2 DEF StoreFile
  <2> QED BY <2>1, <2>2
<1>6. CASE EndScan(t)
  BY <1>6 DEF EndScan, Closed
<1>7. CASE ScanFails(t)
  BY <1>1, <1>7 DEF ScanFails, Fails
<1> QED BY <1>2, <1>3, <1>4, <1>5, <1>6, <1>7 DEF Works, Indexing

-----------------------------------------------------------------------------
(***************************************************************************)
(* Scans.                                                                  *)
(***************************************************************************)

\* What an open scan knows of the files not edited since it began.
Settled(f) ==
  /\ draft[f] # NoRecord /\ draft[f].hash = disk[f]
  /\ draft[f].chunks = disk[f] \/ draft[f] = record[f]
Scanned ==
  /\ \A f \in Files \ touched : f \in walked <=> disk[f] # Absent
  /\ \A f \in todo : draft[f] = record[f]
  /\ \A f \in walked \ (todo \cup touched) : Settled(f)
  /\ pc[scanner] \in {"read", "stat"} => file \in touched \/ hashed = disk[file]
  /\ pc[scanner] = "stat" => file \in touched \/ text = disk[file]
Scanning ==
  /\ TypeOK
  /\ \A t \in Threads : pc[t] \in Scans <=> scanner = t
  /\ scanner # Nobody => Scanned
  /\ \A t \in Threads : /\ pc[t] \in {"read", "stat"} => file \in todo
                        /\ pc[t] = "stat" => text \in Contents

LEMMA ScanningReads == Scanning => TypeOK /\ Reading
  BY DEF Scanning, Reading, TypeOK, IndexerTypeOK

LEMMA ScanningInit == Init => Scanning
<1> SUFFICES ASSUME Init PROVE Scanning
  OBVIOUS
<1>1. scanner = Nobody /\ pc = [t \in Threads |-> "idle"]
  BY DEF Init, IndexerInit
<1>2. disk \in [Files -> Contents \cup {Absent}]
  BY IndexerAssumption DEF Init, IndexerInit
<1>3. TypeOK
  <2>1. /\ edits = 0 /\ requests = 0 /\ failures = 0 /\ starts = 0 /\ orphans = 0
    BY DEF Init, IndexerInit
  <2>2. /\ edits \in 0 .. MaxEdits /\ requests \in 0 .. MaxRequests
        /\ failures \in 0 .. MaxFailures /\ starts \in 0 .. MaxStarts /\ orphans \in Nat
    BY <2>1, IndexerAssumption, WatcherAssumption
  <2>3. /\ record \in [Files -> Record \cup {NoRecord}] /\ draft = record
        /\ known \in [Pollers -> SUBSET Files] /\ unseen \in [Pollers -> SUBSET Files]
    BY DEF Init, IndexerInit
  <2>4. IndexerTypeOK
    BY <1>2, <2>2, <2>3 DEF Init, IndexerInit, IndexerTypeOK
  <2> QED BY <1>1, <2>2, <2>3, <2>4 DEF Init, TypeOK
<1> QED BY <1>1, <1>3, IndexerAssumption DEF Scanning, Scans

\* No thread enters or leaves a scan.
OffScan ==
  \/ UNCHANGED pc
  \/ \E t \in Threads, next \in Phases \ Scans :
       pc[t] \notin Scans /\ pc' = [pc EXCEPT ![t] = next]

\* Nothing of a scan or of the index changes, and no thread enters or leaves.
LEMMA ScanningElsewhere ==
  ASSUME Scanning, TypeOK', UNCHANGED <<disk, scan, scanner, record, touched>>,
         OffScan
  PROVE  Scanning'
<1>1. \A t \in Threads : (pc'[t] \in Scans \/ pc[t] \in Scans) => pc'[t] = pc[t]
  BY DEF OffScan, Scanning, TypeOK
<1>2. \A t \in Threads : (pc[t] \in Scans <=> scanner = t)'
  BY <1>1 DEF Scanning
<1>3. scanner # Nobody => pc'[scanner] = pc[scanner]
  BY <1>1 DEF Scanning, TypeOK, IndexerTypeOK
<1>4. scanner # Nobody => Scanned'
  BY <1>3 DEF Scanning, Scanned, Settled, scan
<1> QED BY <1>1, <1>2, <1>4 DEF Scanning, Scans, scan

LEMMA WatchesOff ==
  ASSUME TypeOK, Watches
  PROVE  /\ UNCHANGED <<disk, scan, scanner, record, touched>>
         /\ OffScan
<1> USE WatcherAssumption DEF OffScan, Goto, Phases, Scans, debounce, Untouched, db, history
<1>1. CASE (\E f \in Files : Enqueue(f)) \/ ZombieEnds
  BY <1>1 DEF Enqueue, ZombieEnds
<1>2. ASSUME NEW t \in Threads, TimerFires(t) \/ Flush(t) \/ Returned(t)
      PROVE  OffScan /\ UNCHANGED <<disk, scan, scanner, record, touched>>
  BY <1>2 DEF TimerFires, Flush, Returned
<1>3. ASSUME NEW t \in Threads, InitialScan(t) \/ Poll(t)
      PROVE  OffScan /\ UNCHANGED <<disk, scan, scanner, record, touched>>
  BY <1>3 DEF InitialScan, Poll
<1>4. CASE Start \/ Stop
  BY <1>4 DEF Start, Stop
<1>5. CASE Stopping
  BY <1>5 DEF Stopping, Join, CancelTimer, ClearTimer
<1> QED BY <1>1, <1>2, <1>3, <1>4, <1>5 DEF Watches

LEMMA ScanningWatches == Scanning /\ Watches => Scanning'
<1> SUFFICES ASSUME Scanning, Watches PROVE Scanning'
  OBVIOUS
<1>1. TypeOK'
  BY TypeWatches DEF Scanning
<1> QED BY <1>1, WatchesOff, ScanningElsewhere DEF Scanning

LEMMA ScanningServes ==
  ASSUME Scanning, Serves, UNCHANGED <<watchdog, watch, debounce, polls>>
  PROVE  Scanning'
<1>1. TypeOK'
  BY TypeServes DEF Scanning
<1>2. CASE ScanProject
  <2>1. OffScan
    BY <1>2, IndexerAssumption DEF ScanProject, Goto, OffScan, Phases, Scans
  <2> QED BY <1>1, <1>2, <2>1, ScanningElsewhere DEF ScanProject, db, history
<1>3. CASE RegisterProject
  BY <1>1, <1>3, ScanningElsewhere DEF RegisterProject, OffScan, history
<1>4. CASE RemoveProject
  BY <1>1, <1>4 DEF RemoveProject, Scanning
<1> QED BY <1>2, <1>3, <1>4 DEF Serves

LEMMA ScanningEdit ==
  ASSUME Scanning, NEW f \in Files, NEW c \in Contents \cup {Absent}, Edit(f, c)
  PROVE  Scanning'
<1>1. TypeOK'
  BY TypeEdit DEF Scanning
<1>2. /\ UNCHANGED <<scan, scanner, record, pc>>
      /\ \A g \in Files \ {f} : disk'[g] = disk[g]
      /\ scanner # Nobody => touched' = touched \cup {f}
  BY DEF Edit, db, Scanning, TypeOK, IndexerTypeOK
<1>3. scanner # Nobody => Scanned'
  <2> SUFFICES ASSUME scanner # Nobody PROVE Scanned'
    OBVIOUS
  <2>1. Scanned /\ touched' = touched \cup {f}
    BY <1>2 DEF Scanning
  <2>2. walked \subseteq Files
    BY DEF Scanning, TypeOK, IndexerTypeOK
  <2>3. \A g \in walked \ (todo \cup touched') : Settled(g)'
    BY <1>2, <2>1, <2>2 DEF Scanned, Settled, scan
  <2>4. /\ pc[scanner] \in {"read", "stat"} => file \in todo
        /\ todo \subseteq Files
    BY DEF Scanning, TypeOK, IndexerTypeOK
  <2> QED BY <1>2, <2>1, <2>2, <2>3, <2>4 DEF Scanned, scan
<1> QED BY <1>1, <1>2, <1>3 DEF Scanning, scan

LEMMA ScanningCloses ==
  ASSUME Scanning, TypeOK', NEW t \in Threads, Goto(t, "returned"), Closed,
         scanner \in {t, Nobody}
  PROVE  Scanning'
<1>1. pc'[t] = "returned" /\ \A u \in Threads \ {t} : pc'[u] = pc[u]
  BY DEF Goto, Scanning, TypeOK
<1>2. scanner' = Nobody /\ Nobody \notin Threads
  BY IndexerAssumption DEF Closed
<1>3. \A u \in Threads : pc'[u] \notin Scans
  BY <1>1, <1>2 DEF Scanning, Scans
<1> QED BY <1>2, <1>3 DEF Scanning, Scans

LEMMA ScanningWorks ==
  ASSUME Scanning, NEW t \in Threads, Works(t),
         UNCHANGED <<watchdog, watch, debounce, polls>>
  PROVE  Scanning'
<1>1. TypeOK' /\ Nobody \notin Threads
  BY TypeWorks, ScanningReads, IndexerAssumption
<1>2. ASSUME Aborts(t), scanner \in {t, Nobody}
      PROVE  Scanning'
  BY <1>1, <1>2, ScanningCloses DEF Aborts
<1>3. CASE BeginScan(t)
  <2>1. CASE ~registered
    BY <1>2, <1>3, <2>1 DEF BeginScan
  <2>2. CASE registered
    <3>1. /\ scanner = Nobody /\ scanner' = t /\ todo' = Present /\ walked' = Present
          /\ draft' = record /\ pc' = [pc EXCEPT ![t] = "scan"]
          /\ UNCHANGED <<disk, record>>
      BY <1>3, <2>2 DEF BeginScan, Goto, db
    <3>2. \A u \in Threads : pc'[u] = IF u = t THEN "scan" ELSE pc[u]
      BY <3>1 DEF Scanning, TypeOK
    <3>3. \A u \in Threads : pc'[u] \in Scans <=> scanner' = u
      BY <1>1, <3>1, <3>2 DEF Scanning, Scans
    <3>4. Scanned'
      BY <3>1, <3>2 DEF Scanned, Present
    <3>5. \A u \in Threads : pc'[u] \notin {"read", "stat"}
      BY <3>1, <3>2, <3>3 DEF Scans
    <3> QED BY <1>1, <3>3, <3>4, <3>5 DEF Scanning
  <2> QED BY <2>1, <2>2
<1>4. ASSUME NEW f \in Files, HashFile(t, f)
      PROVE  Scanning'
  <2>1. /\ pc[t] = "scan" /\ scanner = t /\ f \in todo
        /\ UNCHANGED <<disk, record, scanner, walked, draft, touched, text>>
    BY <1>4 DEF HashFile, db, history
  <2>2. Scanned
    BY <1>1, <2>1 DEF Scanning
  <2>3. CASE draft[f] # NoRecord /\ draft[f].hash = disk[f]
    <3>1. todo' = todo \ {f} /\ UNCHANGED <<pc, file, hashed>>
      BY <1>4, <2>3 DEF HashFile
    <3>2. Settled(f)
      BY <2>1, <2>2, <2>3 DEF Settled, Scanned
    <3>3. Scanned'
      BY <2>1, <2>2, <3>1, <3>2 DEF Scanned, Settled
    <3>4. \A u \in Threads : pc[u] \notin {"read", "stat"}
      BY <2>1 DEF Scanning, Scans
    <3> QED BY <1>1, <2>1, <3>1, <3>3, <3>4 DEF Scanning
  <2>4. CASE ~(draft[f] # NoRecord /\ draft[f].hash = disk[f])
    <3>1. /\ pc' = [pc EXCEPT ![t] = "read"] /\ file' = f /\ hashed' = disk[f]
          /\ UNCHANGED todo
      BY <1>4, <2>4 DEF HashFile, Goto
    <3>2. \A u \in Threads : pc'[u] = IF u = t THEN "read" ELSE pc[u]
      BY <3>1 DEF Scanning, TypeOK
    <3>3. Scanned'
      BY <2>1, <2>2, <3>1, <3>2 DEF Scanned, Settled
    <3>4. \A u \in Threads : pc'[u] \in Scans <=> scanner' = u
      BY <2>1, <3>2 DEF Scanning, Scans
    <3>5. \A u \in Threads : pc'[u] # "stat"
      BY <2>1, <3>2, <3>4 DEF Scans
    <3> QED BY <1>1, <2>1, <3>1, <3>3, <3>4, <3>5 DEF Scanning
  <2> QED BY <2>3, <2>4
<1>5. CASE ReadFile(t)
  <2>1. /\ pc[t] = "read" /\ scanner = t
        /\ UNCHANGED <<disk, record, scanner, walked, draft, touched, file, hashed>>
    BY <1>5 DEF ReadFile, db, history
  <2>2. Scanned /\ file \in todo /\ file \in Files /\ todo \subseteq walked
    BY <1>1, <2>1 DEF Scanning, TypeOK, IndexerTypeOK
  <2>3. CASE disk[file] = Absent
    <3>1. pc' = [pc EXCEPT ![t] = "scan"] /\ todo' = todo \ {file} /\ UNCHANGED text
      BY <1>5, <2>3 DEF ReadFile, Goto
    <3>2. \A u \in Threads : pc'[u] = IF u = t THEN "scan" ELSE pc[u]
      BY <3>1 DEF Scanning, TypeOK
    <3>3. file \in touched
      BY <2>2, <2>3 DEF Scanned
    <3>4. Scanned'
      BY <2>1, <2>2, <3>1, <3>2, <3>3 DEF Scanned, Settled
    <3>5. \A u \in Threads : pc'[u] \in Scans <=> scanner' = u
      BY <2>1, <3>2 DEF Scanning, Scans
    <3>6. \A u \in Threads : pc'[u] \notin {"read", "stat"}
      BY <2>1, <3>2, <3>5 DEF Scans
    <3> QED BY <1>1, <3>4, <3>5, <3>6 DEF Scanning
  <2>4. CASE disk[file] # Absent
    <3>1. pc' = [pc EXCEPT ![t] = "stat"] /\ text' = disk[file] /\ UNCHANGED todo
      BY <1>5, <2>4 DEF ReadFile, Goto
    <3>2. \A u \in Threads : pc'[u] = IF u = t THEN "stat" ELSE pc[u]
      BY <3>1 DEF Scanning, TypeOK
    <3>3. Scanned'
      BY <2>1, <2>2, <3>1, <3>2 DEF Scanned, Settled
    <3>4. \A u \in Threads : pc'[u] \in Scans <=> scanner' = u
      BY <2>1, <3>2 DEF Scanning, Scans
    <3>5. text' \in Contents
      BY <2>2, <2>4, <3>1 DEF Scanning, TypeOK, IndexerTypeOK
    <3> QED BY <1>1, <2>1, <2>2, <3>1, <3>3, <3>4, <3>5 DEF Scanning
  <2> QED BY <2>3, <2>4
<1>6. ASSUME NEW embeds \in BOOLEAN, StoreFile(t, embeds)
      PROVE  Scanning'
  <2>1. pc[t] = "stat" /\ scanner = t /\ UNCHANGED disk
    BY <1>6 DEF StoreFile
  <2>2. CASE disk[file] = Absent
    BY <1>2, <1>6, <2>1, <2>2 DEF StoreFile
  <2>3. CASE disk[file] # Absent
    <3> DEFINE new == [hash |-> hashed, chunks |-> text, embedded |-> embeds]
    <3>1. /\ draft' = [draft EXCEPT ![file] = new] /\ todo' = todo \ {file}
          /\ pc' = [pc EXCEPT ![t] = "scan"]
          /\ UNCHANGED <<record, scanner, walked, file, hashed, text, touched>>
      BY <1>6, <2>3 DEF StoreFile, Goto, db, history
    <3>2. Scanned /\ file \in todo /\ file \in Files /\ text \in Contents
      BY <1>1, <2>1 DEF Scanning, TypeOK, IndexerTypeOK
    <3>3. \A u \in Threads : pc'[u] = IF u = t THEN "scan" ELSE pc[u]
      BY <3>1 DEF Scanning, TypeOK
    <3>4. new # NoRecord
      BY <3>2, IndexerAssumption DEF Scanning, TypeOK, IndexerTypeOK
    <3>5. \A f \in Files : draft'[f] = IF f = file THEN new ELSE draft[f]
      BY <3>1, <3>2 DEF Scanning, TypeOK, IndexerTypeOK
    <3>6. todo \subseteq Files /\ walked \subseteq Files
      BY DEF Scanning, TypeOK, IndexerTypeOK
    <3>7. file \notin touched => Settled(file)'
      <4>1. file \notin touched => new.hash = disk[file] /\ new.chunks = disk[file]
        BY <2>1, <3>2 DEF Scanned
      <4> QED BY <2>1, <3>1, <3>2, <3>4, <3>5, <4>1 DEF Settled
    <3>8. \A f \in walked \ (todo \cup touched) : Settled(f)'
      BY <2>1, <3>1, <3>2, <3>5, <3>6 DEF Scanned, Settled
    <3>9. Scanned'
      BY <2>1, <3>1, <3>2, <3>3, <3>5, <3>6, <3>7, <3>8 DEF Scanned
    <3>10. \A u \in Threads : pc'[u] \in Scans <=> scanner' = u
      BY <2>1, <3>1, <3>3 DEF Scanning, Scans
    <3>11. \A u \in Threads : pc'[u] \notin {"read", "stat"}
      BY <2>1, <3>1, <3>3, <3>10 DEF Scans
    <3> QED BY <1>1, <3>9, <3>10, <3>11 DEF Scanning
  <2> QED BY <2>2, <2>3
<1>7. CASE EndScan(t)
  BY <1>1, <1>7, ScanningCloses DEF EndScan
<1>8. CASE ScanFails(t)
  BY <1>2, <1>8 DEF ScanFails
<1> QED BY <1>3, <1>4, <1>5, <1>6, <1>7, <1>8 DEF Works, Indexing

LEMMA ScanningNext == Scanning /\ [Next]_vars => Scanning'
<1> SUFFICES ASSUME Scanning, [Next]_vars PROVE Scanning'
  OBVIOUS
<1>1. CASE UNCHANGED vars
  BY <1>1 DEF vars, indexerVars, db, scan, budget, history, watch, debounce, polls, Scanning,
              TypeOK, IndexerTypeOK, Scanned, Settled
<1>2. CASE Next
  BY <1>2, NextCases, ScanningWatches, ScanningServes, ScanningEdit, ScanningWorks
<1> QED BY <1>1, <1>2

\* The variables keep their types.
THEOREM TypeCorrect == Spec => []TypeOK
<1>1. Scanning => TypeOK
  BY DEF Scanning
<1> QED BY <1>1, ScanningInit, ScanningNext, PTL DEF Spec

\* A scan that commits leaves the index in agreement with every file that was
\* not edited while it ran: ProjectIndexer.scan.
THEOREM ScansIndexTheRest == Spec => ScanIndexesTheRest
<1> DEFINE Commits ==
      \A t \in Threads, f \in Files \ touched :
        EndScan(t) =>
          /\ Agrees(f, record')
          /\ \/ record'[f] = NoRecord \/ record'[f].chunks = disk[f]
             \/ record'[f] = record[f]
<1>1. Scanning => Commits
  <2> SUFFICES ASSUME Scanning, NEW t \in Threads, NEW f \in Files \ touched, EndScan(t)
               PROVE  /\ Agrees(f, record')
                      /\ \/ record'[f] = NoRecord \/ record'[f].chunks = disk[f]
                         \/ record'[f] = record[f]
    OBVIOUS
  <2>1. /\ scanner = t /\ todo = {} /\ record'[f] = IF f \in walked THEN draft[f] ELSE NoRecord
    BY DEF EndScan
  <2>2. Scanned
    BY <2>1, IndexerAssumption DEF Scanning
  <2>3. CASE f \in walked
    <3>1. Settled(f) /\ disk[f] # Absent
      BY <2>1, <2>2, <2>3 DEF Scanned
    <3> QED BY <2>1, <2>3, <3>1 DEF Settled, Agrees
  <2>4. CASE f \notin walked
    BY <2>1, <2>2, <2>4 DEF Scanned, Agrees
  <2> QED BY <2>3, <2>4
<1>2. Scanning /\ [Next]_vars => [Commits]_vars
  BY <1>1
<1> QED BY <1>2, ScanningInit, ScanningNext, PTL DEF Spec, ScanIndexesTheRest

-----------------------------------------------------------------------------
(***************************************************************************)
(* The paths that wait to be reported.                                     *)
(***************************************************************************)
Stops == {"join", "cancel", "clear"}

\* Steps that add no path, and take neither a timer nor a thread away that
\* will flush.
LEMMA FlushedElsewhere ==
  ASSUME TypeOK, PendingIsFlushed, changed' \subseteq changed,
         timer = "armed" => timer' = "armed", orphans > 0 => orphans' > 0,
         \A t \in Threads : pc[t] = "flush" => pc'[t] = "flush",
         pc[Main] \in Stops => pc'[Main] \in Stops
  PROVE  PendingIsFlushed'
  BY DEF PendingIsFlushed, Stops

LEMMA FlushedWatches ==
  ASSUME TypeOK, PendingIsFlushed, Watches
  PROVE  PendingIsFlushed'
<1> USE WatcherAssumption DEF TypeOK, Goto
<1>1. CASE \E f \in Files : Enqueue(f)
  BY <1>1 DEF Enqueue, PendingIsFlushed
<1>2. ASSUME NEW t \in Threads, TimerFires(t)
      PROVE  PendingIsFlushed'
  <2>1. pc'[t] = "flush"
    BY <1>2 DEF TimerFires
  <2> QED BY <2>1 DEF PendingIsFlushed
<1>3. ASSUME NEW t \in Threads, Flush(t)
      PROVE  PendingIsFlushed'
  BY <1>3 DEF Flush, PendingIsFlushed
<1>4. ASSUME NEW t \in Threads, Returned(t) \/ InitialScan(t) \/ Poll(t)
      PROVE  PendingIsFlushed'
  <2>1. /\ UNCHANGED <<changed, timer, orphans>> /\ pc[t] \in {"returned", "begin", "sleep"}
        /\ \E next \in {"sleep", "idle", "call"} : pc' = [pc EXCEPT ![t] = next]
    BY <1>4 DEF Returned, InitialScan, Poll, debounce
  <2> QED BY <2>1, FlushedElsewhere DEF Stops
<1>5. CASE Start
  <2>1. /\ UNCHANGED <<changed, timer, orphans>>
        /\ \/ UNCHANGED pc
           \/ \E p \in Pollers : pc[p] = "idle" /\ pc' = [pc EXCEPT ![p] = "begin"]
    BY <1>5 DEF Start, debounce
  <2> QED BY <2>1, FlushedElsewhere DEF Stops
<1>6. CASE Stop \/ ZombieEnds \/ \E ended \in BOOLEAN : Join(ended)
  <2>1. /\ UNCHANGED <<changed, timer, orphans>>
        /\ \/ UNCHANGED pc
           \/ /\ pc[Main] \in {"idle", "join"}
              /\ \E next \in Stops : pc' = [pc EXCEPT ![Main] = next]
    BY <1>6 DEF Stop, ZombieEnds, Join, Stops, debounce
  <2> QED BY <2>1, FlushedElsewhere DEF Stops
<1>7. CASE CancelTimer \/ ClearTimer
  <2>1. pc'[Main] \in {"flush", "clear"} /\ Main \in Threads
    BY <1>7 DEF CancelTimer, ClearTimer
  <2> QED BY <2>1 DEF PendingIsFlushed
<1> QED
  BY <1>1, <1>2, <1>3, <1>4, <1>5, <1>6, <1>7 DEF Watches, Stopping

\* Paths that wait to be reported have a timer or a thread that will flush
\* them: ProjectWatcher.stop, _enqueue, _flush.
THEOREM PendingFlushed == Spec => []PendingIsFlushed
<1>1. Init => PendingIsFlushed
  BY DEF Init, PendingIsFlushed
<1>2. Scanning /\ PendingIsFlushed /\ [Next]_vars => PendingIsFlushed'
  <2> SUFFICES ASSUME Scanning, PendingIsFlushed, [Next]_vars PROVE PendingIsFlushed'
    OBVIOUS
  <2>1. TypeOK
    BY DEF Scanning
  <2>2. CASE Watches
    BY <2>1, <2>2, FlushedWatches
  <2>3. CASE \/ UNCHANGED vars
             \/ \E f \in Files, c \in Contents \cup {Absent} : Edit(f, c)
    <3>1. UNCHANGED <<changed, timer, orphans, pc>>
      BY <2>3 DEF vars, indexerVars, debounce, Edit
    <3> QED BY <2>1, <3>1, FlushedElsewhere
  <2>4. ASSUME Serves, UNCHANGED debounce
        PROVE  PendingIsFlushed'
    <3>1. \/ UNCHANGED pc
          \/ pc[Gateway] = "idle" /\ pc' = [pc EXCEPT ![Gateway] = "call"]
      BY <2>4 DEF Serves, ScanProject, RegisterProject, RemoveProject, Goto
    <3> QED BY <2>1, <2>4, <3>1, FlushedElsewhere, WatcherAssumption
            DEF TypeOK, Stops, debounce
  <2>5. ASSUME NEW t \in Threads, Works(t), UNCHANGED debounce
        PROVE  PendingIsFlushed'
    <3>1. /\ pc[t] \in {"call", "scan", "read", "stat"}
          /\ \/ UNCHANGED pc
             \/ \E next \in Phases : pc' = [pc EXCEPT ![t] = next]
      BY <2>5 DEF Works, Indexing, BeginScan, HashFile, ReadFile, StoreFile, EndScan, ScanFails,
                  Aborts, Goto, Phases, Scans
    <3> QED BY <2>1, <2>5, <3>1, FlushedElsewhere, WatcherAssumption
            DEF TypeOK, Stops, debounce
  <2> QED BY <2>2, <2>3, <2>4, <2>5, NextCases
<1> QED BY <1>1, <1>2, ScanningInit, ScanningNext, PTL DEF Spec

=============================================================================
