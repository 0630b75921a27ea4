--------------------------- MODULE ProjectWatcher ---------------------------
(***************************************************************************)
(* ProjectWatcher, whose callback re-indexes the project, over a directory *)
(* that others edit.                                                       *)
(*                                                                         *)
(* With watchdog an observer thread dispatches the events of the directory,*)
(* each of which replaces the debounce timer; a timer that fires flushes   *)
(* what has changed on a thread of its own.  Without it a polling thread   *)
(* compares modification times.  The user's thread starts and stops the    *)
(* watcher; stop() touches the timer without the lock the events take.     *)
(***************************************************************************)
EXTENDS ProjectIndexer

CONSTANTS
  Timers, Pollers,   \* bound: threads of timers fired, and polling threads
  Main,              \* the thread that calls start and stop
  Renamed,           \* files that are replaced by renaming another file
  MaxStarts          \* bound
ASSUME WatcherAssumption ==
  /\ Threads = Timers \cup Pollers \cup {Main, Gateway}
  /\ Timers \cap Pollers = {} /\ {Main, Gateway} \cap (Timers \cup Pollers) = {}
  /\ Main # Gateway /\ Renamed \subseteq Files /\ MaxStarts \in Nat
  /\ Nobody \notin Files

VARIABLES
  watchdog,                  \* whether the package is installed
  running, starts,
  observer, zombie, events,  \* the observer, one that outlived its join, and
                             \* events not dispatched yet
  changed, timer, orphans,   \* paths pending, self._timer, and timers armed
                             \* that self._timer does not refer to
  known, unseen              \* of each polling thread: the files it knows of,
                             \* those modified since it last looked

watch == <<running, starts, observer, zombie, events>>
debounce == <<changed, timer, orphans>>
polls == <<known, unseen>>
vars == <<indexerVars, watchdog, watch, debounce, polls>>

Watching == observer = "on"
Polling(p) == pc[p] \notin {"idle", "begin"}

Init ==
  /\ IndexerInit
  /\ watchdog \in BOOLEAN /\ running = FALSE /\ starts = 0
  /\ observer = "none" /\ zombie = FALSE /\ events = {}
  /\ changed = {} /\ timer = "none" /\ orphans = 0
  /\ known = [p \in Pollers |-> {}] /\ unseen = [p \in Pollers |-> {}]

-----------------------------------------------------------------------------
\* The directory is edited.  The rename of a file whose name is not indexed is
\* an event of that file, whatever it replaces (on_any_event uses src_path).
Edit(f, c) ==
  /\ edits < MaxEdits /\ disk[f] # c
  /\ edits' = edits + 1
  /\ disk' = [disk EXCEPT ![f] = c]
  /\ events' = IF Watching /\ f \notin Renamed THEN events \cup {f} ELSE events
  /\ unseen' = [p \in Pollers |-> IF Polling(p) THEN unseen[p] \cup {f} ELSE unseen[p]]
  /\ missed' = IF \/ Watching /\ f \notin Renamed
                  \/ \E p \in Pollers : Polling(p)
                 THEN missed ELSE missed \cup {f}
  /\ touched' = IF scanner = Nobody THEN touched ELSE touched \cup {f}
  /\ UNCHANGED <<db, scanner, scan, pc, requests, failures, lost, watchdog,
                 running, starts, observer, zombie, debounce, known>>

-----------------------------------------------------------------------------
(***************************************************************************)
(* start and stop.                                                         *)
(***************************************************************************)
Start ==
  /\ pc[Main] = "idle" /\ ~running /\ starts < MaxStarts
  /\ running' = TRUE /\ starts' = starts + 1
  /\ IF watchdog
       THEN observer' = "on" /\ UNCHANGED pc
       ELSE /\ UNCHANGED observer
            /\ \E p \in Pollers : pc[p] = "idle" /\ Goto(p, "begin")
  /\ UNCHANGED <<disk, db, scanner, scan, budget, history, watchdog, zombie,
                 events, debounce, polls>>

Untouched == UNCHANGED <<disk, db, scanner, scan, budget, touched, lost,
                         watchdog, starts, polls>>

Stop ==
  /\ pc[Main] = "idle" /\ running
  /\ running' = FALSE
  /\ IF Watching THEN observer' = "stopping" /\ Goto(Main, "join")
                 ELSE UNCHANGED observer /\ Goto(Main, "cancel")
  /\ Untouched /\ UNCHANGED <<missed, zombie, events, debounce>>

\* join(timeout=5): the observer has ended, and with it the events it had not
\* dispatched, or it goes on by itself.
Join(ended) ==
  /\ pc[Main] = "join" /\ Goto(Main, "cancel")
  /\ observer' = "none"
  /\ IF ended
       THEN events' = {} /\ missed' = missed \cup events /\ UNCHANGED zombie
       ELSE zombie' = TRUE /\ UNCHANGED <<events, missed>>
  /\ Untouched /\ UNCHANGED <<running, debounce>>
ZombieEnds ==
  /\ zombie /\ zombie' = FALSE
  /\ IF Watching
       THEN UNCHANGED <<events, missed>>
       ELSE events' = {} /\ missed' = missed \cup events
  /\ Untouched /\ UNCHANGED <<pc, running, observer, debounce>>

\* stop() looks at self._timer and cancels it, which a timer that has fired
\* ignores; then it sets self._timer to None, whatever it refers to by then.
CancelTimer ==
  /\ pc[Main] = "cancel"
  /\ IF timer = "none" THEN Goto(Main, "flush") /\ UNCHANGED timer
                       ELSE Goto(Main, "clear") /\ timer' = "spent"
  /\ Untouched /\ UNCHANGED <<missed, running, observer, zombie, events, changed, orphans>>
ClearTimer ==
  /\ pc[Main] = "clear" /\ Goto(Main, "flush")
  /\ orphans' = IF timer = "armed" THEN orphans + 1 ELSE orphans
  /\ timer' = "none"
  /\ Untouched /\ UNCHANGED <<missed, running, observer, zombie, events, changed>>

-----------------------------------------------------------------------------
(***************************************************************************)
(* Events, timers and the flush.                                           *)
(***************************************************************************)

\* on_any_event and _enqueue: the timer armed before is cancelled.
Enqueue_KeepsTimer(f) ==
  /\ f \in events /\ (observer # "none" \/ zombie)
  /\ events' = events \ {f}
  /\ changed' = changed \cup {f}
  /\ timer' = IF timer = "none" THEN "armed" ELSE timer
  /\ Untouched /\ UNCHANGED <<missed, pc, running, observer, zombie, orphans>>
Enqueue(f) ==
  /\ f \in events /\ (observer # "none" \/ zombie)
  /\ events' = events \ {f}
  /\ changed' = changed \cup {f}
  /\ timer' = "armed"
  /\ Untouched /\ UNCHANGED <<missed, pc, running, observer, zombie, orphans>>

TimerFires(t) ==
  /\ pc[t] = "idle" /\ t \in Timers
  /\ \/ timer = "armed" /\ timer' = "spent" /\ UNCHANGED orphans
     \/ orphans > 0 /\ orphans' = orphans - 1 /\ UNCHANGED timer
  /\ Goto(t, "flush")
  /\ Untouched /\ UNCHANGED <<missed, running, observer, zombie, events, changed>>

\* _flush copies and clears the pending paths, and calls on_change.
Flush_OnlyWhileRunning(t) ==
  /\ pc[t] = "flush"
  /\ Goto(t, IF changed = {} \/ ~running THEN "idle" ELSE "call")
  /\ changed' = {}
  /\ Untouched /\ UNCHANGED <<missed, watch, timer, orphans>>
Flush(t) ==
  /\ pc[t] = "flush"
  /\ Goto(t, IF changed = {} THEN "idle" ELSE "call")
  /\ changed' = {}
  /\ Untouched /\ UNCHANGED <<missed, watch, timer, orphans>>

\* The callback is over; what it raised is logged.  A polling thread looks
\* whether it still has to run.
Returned(t) ==
  /\ pc[t] = "returned"
  /\ Goto(t, IF t \in Pollers THEN "sleep" ELSE "idle")
  /\ UNCHANGED <<disk, db, scanner, scan, budget, history, watchdog, watch,
                 debounce, polls>>

-----------------------------------------------------------------------------
(***************************************************************************)
(* _poll_loop.                                                             *)
(***************************************************************************)
InitialScan(p) ==
  /\ pc[p] = "begin" /\ p \in Pollers
  /\ Goto(p, "sleep")
  /\ known' = [known EXCEPT ![p] = Present]
  /\ unseen' = [unseen EXCEPT ![p] = {}]
  /\ UNCHANGED <<disk, db, scanner, scan, budget, history, watchdog, watch, debounce>>

\* A file that came and went since the last look, and a file modified when the
\* watcher has been stopped, is not reported.
Reported(p) == (unseen[p] \cap Present) \cup (Present \ known[p]) \cup (known[p] \ Present)
Poll(p) ==
  /\ pc[p] = "sleep" /\ p \in Pollers
  /\ IF running
       THEN /\ Goto(p, IF Reported(p) # {} THEN "call" ELSE "sleep")
            /\ missed' = missed \cup (unseen[p] \ Reported(p))
            /\ known' = [known EXCEPT ![p] = Present]
       ELSE /\ Goto(p, "idle") /\ missed' = missed \cup unseen[p]
            /\ known' = [known EXCEPT ![p] = {}]
  /\ unseen' = [unseen EXCEPT ![p] = {}]
  /\ UNCHANGED <<disk, db, scanner, scan, budget, touched, lost, watchdog, watch,
                 debounce>>

-----------------------------------------------------------------------------
Indexing(t) ==
  \/ BeginScan(t) \/ (\E f \in Files : HashFile(t, f)) \/ ReadFile(t)
  \/ (\E embeds \in BOOLEAN : StoreFile(t, embeds)) \/ EndScan(t)
\* What the thread does when the scheduler lets it run.
Runs(t) ==
  \/ Indexing(t) /\ UNCHANGED <<watchdog, watch, debounce, polls>>
  \/ Flush(t) \/ Returned(t) \/ InitialScan(t) \/ Poll(t)
Stopping == (\E ended \in BOOLEAN : Join(ended)) \/ CancelTimer \/ ClearTimer

Next ==
  \/ \E t \in Threads : Runs(t) \/ TimerFires(t)
  \/ \E t \in Threads : ScanFails(t) /\ UNCHANGED <<watchdog, watch, debounce, polls>>
  \/ (ScanProject \/ RegisterProject \/ RemoveProject)
       /\ UNCHANGED <<watchdog, watch, debounce, polls>>
  \/ \E f \in Files, c \in Contents \cup {Absent} : Edit(f, c)
  \/ \E f \in Files : Enqueue(f)
  \/ Start \/ Stop \/ Stopping \/ ZombieEnds

Spec == Init /\ [][Next]_vars

\* The threads and timers run; nobody has to edit, start, stop or ask.
Fairness ==
  /\ \A t \in Threads : WF_vars(Runs(t)) /\ WF_vars(TimerFires(t))
  /\ \A f \in Files : WF_vars(Enqueue(f))
  /\ WF_vars(Stopping)
FairSpec == Spec /\ Fairness

-----------------------------------------------------------------------------
TypeOK ==
  /\ IndexerTypeOK
  /\ pc \in [Threads -> {"idle", "call", "scan", "read", "stat", "returned",
                         "flush", "begin", "sleep", "join", "cancel", "clear"}]
  /\ watchdog \in BOOLEAN /\ running \in BOOLEAN /\ starts \in 0 .. MaxStarts
  /\ observer \in {"none", "on", "stopping"} /\ zombie \in BOOLEAN
  /\ events \subseteq Files /\ changed \subseteq Files
  /\ timer \in {"none", "armed", "spent"} /\ orphans \in Nat
  /\ known \in [Pollers -> SUBSET Files] /\ unseen \in [Pollers -> SUBSET Files]

\* Paths that wait to be reported have a timer or a thread that will flush
\* them: also between the unlocked steps of stop(), and when an event comes
\* after it (ProjectWatcher.stop, _enqueue, _flush).
PendingIsFlushed ==
  changed # {} =>
    \/ timer = "armed" \/ orphans > 0
    \/ \E t \in Threads : pc[t] = "flush"
    \/ pc[Main] \in {"join", "cancel", "clear"}

\* A scan that commits leaves the index in agreement with every file that was
\* not edited while it ran: the hashes always, the chunks unless an earlier
\* scan stored those of another reading (ProjectIndexer.scan).
ScanIndexesTheRest ==
  [][ \A t \in Threads, f \in Files \ touched :
        EndScan(t) =>
          /\ Agrees(f, record')
          /\ \/ record'[f] = NoRecord \/ record'[f].chunks = disk[f]
             \/ record'[f] = record[f] ]_vars

\* Once files and requests rest, the index agrees with every file, but for
\* those whose edit no watcher could see, after a last scan that raised, or in
\* a project not registered.
EventuallyIndexed ==
  \A f \in Files :
    <>[](Agrees(f, record) \/ f \in missed \/ lost \/ ~registered)

=============================================================================
