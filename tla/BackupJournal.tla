--------------------------- MODULE BackupJournal ---------------------------
(***************************************************************************)
(* BackupManager: an append-only journal per session and one index of all  *)
(* sessions with their counts, which is rewritten in place.                *)
(*                                                                         *)
(* A process has one manager and uses it from one thread; several          *)
(* processes (the library, commands of the CLI) may use one directory.     *)
(* Each file operation is a step; processes die between and inside them.   *)
(***************************************************************************)
EXTENDS Naturals, Sequences, FiniteSets

CONSTANTS
  Managers, Ids,
  MaxSessions, Compress,       \* config.backup
  MaxLines, MaxCrashes,        \* bounds: entries of a session, crashes
  MaxCreated,                  \* bound: sessions created in all
  NoJournal, NoFile, NoId
ASSUME JournalAssumption ==
  /\ MaxSessions \in Nat \ {0} /\ Compress \in BOOLEAN
  /\ {MaxLines, MaxCrashes, MaxCreated} \subseteq Nat
  /\ NoId \notin Ids
  /\ NoJournal \notin [lines : Nat, torn : BOOLEAN]
  /\ NoFile \notin [lines : Nat, gzip : BOOLEAN, suffix : BOOLEAN]

\* A line of the index, and a journal: how many of its lines can be read, and
\* whether its last one is incomplete.  A list of sessions is kept in the
\* order of updated_at.
Session == [id : Ids, count : Nat]
Journal == [lines : Nat, torn : BOOLEAN]
Exported == [lines : Nat, gzip : BOOLEAN, suffix : BOOLEAN]
Steps == {"unlink", "truncate", "write", "create", "count", "fill", "recount"}
Damage == {"append", "torn", "delete", "index", "stale"}

VARIABLES
  index, readable,      \* sessions.json, and whether it can be parsed
  journal,              \* sessions/<id>.jsonl
  exported,             \* a file some session was exported to
  sessions, loaded,     \* of each manager: self._sessions, self._initialized
  plan, victim, target, \* the steps left of its operation, the session the
                        \* operation removes, the one it adds to
  created, crashes,     \* the bounded counters
  saved, damaged        \* history: the last index written completely, and
                        \* what made the index wrong about a session

files == <<index, readable, journal, exported>>
history == <<saved, damaged>>
vars == <<files, sessions, loaded, plan, victim, target, created, crashes, history>>

IdsOf(list) == {list[i].id : i \in 1 .. Len(list)}
Position(list, s) == CHOOSE i \in 1 .. Len(list) : list[i].id = s
\* del self._sessions[s]
Without(list, s) ==
  [j \in 1 .. Len(list) - 1 |-> IF j < Position(list, s) THEN list[j] ELSE list[j + 1]]
Count(list, s) == IF s \in IdsOf(list) THEN list[Position(list, s)].count ELSE 0
Same(list, other, s) ==
  (s \in IdsOf(list) <=> s \in IdsOf(other)) /\ Count(list, s) = Count(other, s)
Lines(s) == IF journal[s] = NoJournal THEN 0 ELSE journal[s].lines

Idle(m) == plan[m] = <<>>
Save == <<"truncate", "write">>
Starts(m, steps) == Idle(m) /\ loaded[m] /\ plan' = [plan EXCEPT ![m] = steps]
Takes(m, step) == ~Idle(m) /\ Head(plan[m]) = step /\ plan' = [plan EXCEPT ![m] = Tail(@)]
Blames(S, why) == damaged' = [s \in Ids |-> IF s \in S THEN damaged[s] \cup {why} ELSE damaged[s]]

Init ==
  /\ index = <<>> /\ readable = TRUE
  /\ journal = [s \in Ids |-> NoJournal] /\ exported = NoFile
  /\ sessions = [m \in Managers |-> <<>>] /\ loaded = [m \in Managers |-> FALSE]
  /\ plan = [m \in Managers |-> <<>>]
  /\ victim = [m \in Managers |-> NoId] /\ target = [m \in Managers |-> NoId]
  /\ created = 0 /\ crashes = 0
  /\ saved = <<>> /\ damaged = [s \in Ids |-> {}]

\* Another process is at work on the session.
Contended(m, s) == \E o \in Managers \ {m} : s \in {victim[o], target[o]}

\* An id nothing refers to: uuid4 never repeats one.
Fresh(s) ==
  /\ journal[s] = NoJournal
  /\ s \notin IdsOf(index) \cup IdsOf(saved)
  /\ \A m \in Managers : s \notin IdsOf(sessions[m]) /\ s \notin {victim[m], target[m]}
\* Operations that have yet to choose one.
Creating == {m \in Managers : \E i \in 1 .. Len(plan[m]) : plan[m][i] = "create"}
\* A bound: there are more ids than they need.
Spare == Cardinality(Creating) < Cardinality({s \in Ids : Fresh(s)})

-----------------------------------------------------------------------------
\* _ensure_init: an index that cannot be parsed is an empty one.
Load(m) ==
  /\ ~loaded[m] /\ loaded' = [loaded EXCEPT ![m] = TRUE]
  /\ sessions' = [sessions EXCEPT ![m] = IF readable THEN index ELSE <<>>]
  /\ UNCHANGED <<files, plan, victim, target, created, crashes, history>>

\* new_session, with the deletion of the oldest session when there are too
\* many, and what import_session does before and after it.
Creation_OneMore(m, rest) ==
  LET full == Len(sessions[m]) > MaxSessions
  IN /\ created < MaxCreated /\ created' = created + 1
     /\ Spare
     /\ Starts(m, (IF full THEN <<"unlink">> \o Save ELSE <<>>) \o <<"create">> \o Save \o rest)
     /\ IF full
          THEN /\ sessions' = [sessions EXCEPT ![m] = Tail(@)]
               /\ victim' = [victim EXCEPT ![m] = Head(sessions[m]).id]
          ELSE UNCHANGED <<sessions, victim>>
     /\ UNCHANGED <<files, loaded, target, crashes, history>>
Creation_PassesSession(m, rest) ==
  LET full == Len(sessions[m]) >= MaxSessions
  IN /\ created < MaxCreated /\ created' = created + 1
     /\ Spare
     /\ Starts(m, (IF full THEN <<"unlink">> \o Save ELSE <<>>) \o <<"create">> \o Save \o rest)
     /\ IF full
          THEN /\ sessions' = [sessions EXCEPT ![m] = Tail(@)]
               /\ victim' = [victim EXCEPT ![m] = Head(sessions[m])]
          ELSE UNCHANGED <<sessions, victim>>
     /\ UNCHANGED <<files, loaded, target, crashes, history>>
Creation(m, rest) ==
  LET full == Len(sessions[m]) >= MaxSessions
  IN /\ created < MaxCreated /\ created' = created + 1
     /\ Spare
     /\ Starts(m, (IF full THEN <<"unlink">> \o Save ELSE <<>>) \o <<"create">> \o Save \o rest)
     /\ IF full
          THEN /\ sessions' = [sessions EXCEPT ![m] = Tail(@)]
               /\ victim' = [victim EXCEPT ![m] = Head(sessions[m]).id]
          ELSE UNCHANGED <<sessions, victim>>
     /\ UNCHANGED <<files, loaded, target, crashes, history>>
NewSession(m) == Creation(m, <<>>)

\* An export is opened with gzip by its suffix or by the configuration, an
\* import by the suffix only: when they differ reading it raises.
ImportSession(m) ==
  /\ exported # NoFile /\ exported.lines > 0
  /\ exported.gzip = exported.suffix
  /\ Creation(m, <<"fill", "recount">> \o Save)
ExportSession(m, s, suffix) ==
  /\ Idle(m) /\ loaded[m] /\ journal[s] # NoJournal
  /\ exported' = [lines |-> journal[s].lines, gzip |-> suffix \/ Compress, suffix |-> suffix]
  /\ UNCHANGED <<index, readable, journal, sessions, loaded, plan, victim, target,
                 created, crashes, history>>

DeleteSession_NotSaved(m, s) ==
  /\ s \in IdsOf(sessions[m])
  /\ Starts(m, <<"unlink">>)
  /\ sessions' = [sessions EXCEPT ![m] = Without(@, s)]
  /\ victim' = [victim EXCEPT ![m] = s]
  /\ UNCHANGED <<files, loaded, target, created, crashes, history>>
DeleteSession(m, s) ==
  /\ s \in IdsOf(sessions[m])
  /\ Starts(m, <<"unlink">> \o Save)
  /\ sessions' = [sessions EXCEPT ![m] = Without(@, s)]
  /\ victim' = [victim EXCEPT ![m] = s]
  /\ UNCHANGED <<files, loaded, target, created, crashes, history>>

\* _append: the journal first, created when it is not there; a session the
\* manager does not know, removed or never created, has no count to update.
\* A line that follows an incomplete one becomes part of it.
Appended_Truncates(j) == [lines |-> 1, torn |-> FALSE]
Appended(j) ==
  IF j = NoJournal THEN [lines |-> 1, torn |-> FALSE]
  ELSE [lines |-> IF j.torn THEN j.lines ELSE j.lines + 1, torn |-> FALSE]
\* The manager's count was not that of the journal, so it will be wrong.
Outdated(m, s) == s \notin IdsOf(sessions[m]) \/ Count(sessions[m], s) # Lines(s)
AppendEntry(m, s) ==
  /\ Lines(s) < MaxLines /\ (Fresh(s) => Spare)
  /\ Starts(m, IF s \in IdsOf(sessions[m]) THEN <<"count">> \o Save ELSE <<>>)
  /\ journal' = [journal EXCEPT ![s] = Appended(@)]
  /\ target' = [target EXCEPT ![m] = s]
  /\ IF Outdated(m, s) \/ Contended(m, s) THEN Blames({s}, "stale") ELSE UNCHANGED damaged
  /\ UNCHANGED <<index, readable, exported, sessions, loaded, victim, created, crashes, saved>>

-----------------------------------------------------------------------------
(***************************************************************************)
(* The steps of the operations.                                            *)
(***************************************************************************)
Unlink(m) ==
  /\ Takes(m, "unlink")
  /\ journal' = [journal EXCEPT ![victim[m]] = NoJournal]
  /\ IF Contended(m, victim[m]) THEN Blames({victim[m]}, "stale") ELSE UNCHANGED damaged
  /\ UNCHANGED <<index, readable, exported, sessions, loaded, victim, target,
                 created, crashes, saved>>

\* The session gets an entry in the index, under a new id.
CreateEntry(m, s) ==
  /\ Fresh(s) /\ Takes(m, "create")
  /\ sessions' = [sessions EXCEPT ![m] = Append(@, [id |-> s, count |-> 0])]
  /\ target' = [target EXCEPT ![m] = s]
  /\ damaged' = [damaged EXCEPT ![s] = {}]
  /\ UNCHANGED <<files, loaded, victim, created, crashes, saved>>

\* The count goes up, and updated_at with it: the session is the newest now.
CountEntry(m) ==
  /\ Takes(m, "count")
  /\ LET s == target[m]
     IN sessions' = [sessions EXCEPT ![m] =
          IF s \in IdsOf(@) THEN Append(Without(@, s), [id |-> s, count |-> Count(@, s) + 1])
                            ELSE @]
  /\ UNCHANGED <<files, loaded, victim, target, created, crashes, history>>

\* import_session writes the entries and counts them, which is no update.
FillJournal(m) ==
  /\ Takes(m, "fill")
  /\ journal' = [journal EXCEPT ![target[m]] = [lines |-> exported.lines, torn |-> FALSE]]
  /\ UNCHANGED <<index, readable, exported, sessions, loaded, victim, target,
                 created, crashes, history>>
RecountEntries(m) ==
  /\ Takes(m, "recount")
  /\ sessions' = [sessions EXCEPT ![m] = [i \in 1 .. Len(@) |->
       IF @[i].id = target[m] THEN [@[i] EXCEPT !.count = Lines(target[m])] ELSE @[i]]]
  /\ UNCHANGED <<files, loaded, victim, target, created, crashes, history>>

\* write_text: the file is emptied, then written.
TruncateIndex(m) ==
  /\ Takes(m, "truncate")
  /\ readable' = FALSE /\ index' = <<>>
  /\ UNCHANGED <<journal, exported, sessions, loaded, victim, target, created,
                 crashes, history>>
Overwritten(m) ==
  {s \in Ids \ {victim[m], target[m]} : ~Same(sessions[m], saved, s)}
WriteIndex(m) ==
  /\ Takes(m, "write")
  /\ readable' = TRUE /\ index' = sessions[m] /\ saved' = sessions[m]
  /\ Blames(Overwritten(m), "stale")
  /\ IF plan[m] = <<"write">>
       THEN victim' = [victim EXCEPT ![m] = NoId] /\ target' = [target EXCEPT ![m] = NoId]
       ELSE UNCHANGED <<victim, target>>
  /\ UNCHANGED <<journal, exported, sessions, loaded, created, crashes>>

-----------------------------------------------------------------------------
(***************************************************************************)
(* The process dies, and starts again with an empty manager.               *)
(***************************************************************************)
Dies(m) ==
  /\ crashes < MaxCrashes /\ crashes' = crashes + 1
  /\ sessions' = [sessions EXCEPT ![m] = <<>>] /\ loaded' = [loaded EXCEPT ![m] = FALSE]
  /\ plan' = [plan EXCEPT ![m] = <<>>]
  /\ victim' = [victim EXCEPT ![m] = NoId] /\ target' = [target EXCEPT ![m] = NoId]
  /\ UNCHANGED <<exported, created, saved>>

\* Between two steps: the sessions of the operation are left half done, and a
\* process that dies while it rewrites the index leaves one without content.
Crash(m) ==
  /\ Dies(m)
  /\ damaged' = [s \in Ids |->
       damaged[s] \cup {w \in Damage :
         \/ w = "append" /\ s = target[m]
         \/ w = "delete" /\ s = victim[m]
         \/ w = "index" /\ ~Idle(m) /\ Head(plan[m]) = "write"}]
  /\ UNCHANGED <<index, readable, journal>>

\* Inside the write of an entry, or of imported ones.
CrashInAppend(m, s) ==
  /\ Dies(m) /\ Idle(m) /\ loaded[m] /\ (Fresh(s) => Spare)
  /\ journal' = [journal EXCEPT ![s] =
       [lines |-> IF @ = NoJournal THEN 0 ELSE @.lines, torn |-> TRUE]]
  /\ Blames({s}, "torn")
  /\ UNCHANGED <<index, readable>>
CrashInImport(m, written) ==
  /\ Dies(m) /\ ~Idle(m) /\ Head(plan[m]) = "fill" /\ written < exported.lines
  /\ journal' = [journal EXCEPT ![target[m]] = [lines |-> written, torn |-> TRUE]]
  /\ Blames({target[m]}, "torn")
  /\ UNCHANGED <<index, readable>>

Next ==
  \E m \in Managers :
    \/ Load(m) \/ NewSession(m) \/ ImportSession(m) \/ Crash(m)
    \/ \E s \in Ids : DeleteSession(m, s) \/ AppendEntry(m, s) \/ CrashInAppend(m, s)
    \/ \E s \in Ids, suffix \in BOOLEAN : ExportSession(m, s, suffix)
    \/ Unlink(m) \/ TruncateIndex(m) \/ WriteIndex(m) \/ CountEntry(m)
    \/ FillJournal(m) \/ RecountEntries(m) \/ (\E s \in Ids : CreateEntry(m, s))
    \/ \E written \in 0 .. MaxLines : CrashInImport(m, written)

Spec == Init /\ [][Next]_vars

-----------------------------------------------------------------------------
TypeOK ==
  /\ index \in Seq(Session) /\ readable \in BOOLEAN
  /\ journal \in [Ids -> Journal \cup {NoJournal}]
  /\ exported \in Exported \cup {NoFile}
  /\ sessions \in [Managers -> Seq(Session)] /\ loaded \in [Managers -> BOOLEAN]
  /\ plan \in [Managers -> Seq(Steps)]
  /\ victim \in [Managers -> Ids \cup {NoId}] /\ target \in [Managers -> Ids \cup {NoId}]
  /\ created \in 0 .. MaxCreated /\ crashes \in 0 .. MaxCrashes
  /\ saved \in Seq(Session) /\ damaged \in [Ids -> SUBSET Damage]

Busy(s) == \E m \in Managers : s \in {victim[m], target[m]}

\* Between operations the index lists exactly the sessions with a journal, with
\* their counts, but for sessions a process died over, those of which some
\* process wrote what another had changed, and those that got an entry from a
\* process that does not list them: nothing else makes the index wrong, no
\* removal, creation or import of another session, and no crash in one
\* (BackupManager._append, delete_session, new_session, import_session).
IndexIsRight ==
  readable => \A s \in Ids :
    damaged[s] = {} /\ ~Busy(s) =>
      Count(index, s) = Lines(s) /\ (journal[s] # NoJournal => s \in IdsOf(index))

\* At any moment, also after a crash between the steps of an append or import,
\* the index counts no entry the journal does not have: the journal is written
\* first (_append, import_session).  (Not after a crash inside the write: the
\* next entry is appended to the incomplete line, counted, and never read.)
NeverAhead ==
  \A s \in Ids :
    damaged[s] \subseteq {"append"} /\ (\A m \in Managers : victim[m] # s) =>
      Count(index, s) <= Lines(s)

\* Neither a manager nor the index has more than max_sessions sessions, each
\* listed once (new_session).
SessionsBounded ==
  \A list \in {sessions[m] : m \in Managers} \cup {index} :
    Len(list) <= MaxSessions /\ Cardinality(IdsOf(list)) = Len(list)

=============================================================================
