----------------------------- MODULE Migrations -----------------------------
(***************************************************************************)
(* How a SQLite database gets its schema: SQLiteBackend.initialize and     *)
(* MigrationRunner, run by commands of several processes on one file.      *)
(*                                                                         *)
(* SQLite commits each statement by itself until a row is inserted: from   *)
(* the first row of schema_migrations on, a command holds the write lock   *)
(* and what it does is kept or undone together, the scripts of the later   *)
(* versions included.  A statement whose object exists changes nothing and *)
(* takes no lock; one that has to wait for the lock may give up.           *)
(***************************************************************************)
EXTENDS Naturals, Sequences

CONSTANTS
  Processes, NoProcess,
  Names,                    \* of tables, indexes and columns
  Bootstrap, Upgrades,      \* the statements of initialize
  Scripts,                  \* of each version, the statements of its SQL_SQLITE
  OldSchemas,               \* the objects of the databases found at the start
  Targets, All,             \* the values of --target, and none
  MaxCommands, MaxCrashes   \* bounds

Objects(script) == {script[i].name : i \in 1 .. Len(script)}
VersionTable == [name |-> "schema_migrations", needs |-> {}, adds |-> {"schema_migrations"}]
Versions == DOMAIN Scripts
Statement == [name : Names, needs : SUBSET Names, adds : SUBSET Names]

ASSUME MigrationAssumption ==
  /\ NoProcess \notin Processes /\ VersionTable.name \in Names
  /\ Bootstrap \in Seq(Statement) /\ Upgrades \in Seq(Statement)
  /\ Versions \subseteq Nat /\ \A v \in Versions : Scripts[v] \in Seq(Statement)
  /\ \A script \in {Bootstrap, Upgrades} \cup {Scripts[v] : v \in Versions} :
       \A i \in 1 .. Len(script) : script[i].name \in script[i].adds
  /\ \A i \in 1 .. Len(Upgrades) : Upgrades[i].needs \subseteq Objects(Bootstrap)
  /\ OldSchemas \subseteq SUBSET Names
  /\ Targets \subseteq Nat /\ All \in Nat /\ \A v \in Versions : v <= All
  /\ MaxCommands \in Nat /\ MaxCrashes \in Nat

VARIABLES
  db,               \* the file: its objects and the recorded versions
  writer, tx,       \* who holds the write lock, and what it has written
  pc, step,         \* where each command is, and its next statement
  command, pending, \* what it was asked, and the versions it has yet to apply
  started, crashes  \* the bounded counters

vars == <<db, writer, tx, pc, step, command, pending, started, crashes>>

Content == [schema : SUBSET Names, recorded : SUBSET Versions]
Nothing == [schema |-> {}, recorded |-> {}]
\* Only bitmod migrate has a --target; any version is below All.
Command ==
  [kind : {"migrate"}, target : Targets \cup {All}] \cup
  [kind : {"init", "status", "use"}, target : {All}]
Phases == {"idle", "bootstrap", "upgrade", "look", "ensure", "plan", "apply", "write"}

Init ==
  /\ \E old \in OldSchemas : db = [schema |-> old, recorded |-> {}]
  /\ writer = NoProcess /\ tx = Nothing
  /\ pc = [p \in Processes |-> "idle"] /\ step = [p \in Processes |-> 1]
  /\ command = [p \in Processes |-> [kind |-> "init", target |-> All]]
  /\ pending = [p \in Processes |-> {}]
  /\ started = 0 /\ crashes = 0

Goto(p, phase) == pc' = [pc EXCEPT ![p] = phase] /\ step' = [step EXCEPT ![p] = 1]
Advance(p) == step' = [step EXCEPT ![p] = @ + 1] /\ UNCHANGED pc
View(p) == IF writer = p THEN tx ELSE db
Locked(p) == writer \notin {NoProcess, p}

\* A statement that succeeds, in p's transaction if it has one.
Executes(p, s) ==
  \/ s.name \in View(p).schema /\ UNCHANGED <<db, tx>>
  \/ /\ s.name \notin View(p).schema /\ s.needs \subseteq View(p).schema /\ ~Locked(p)
     /\ IF writer = p
          THEN tx' = [tx EXCEPT !.schema = @ \cup s.adds] /\ UNCHANGED db
          ELSE db' = [db EXCEPT !.schema = @ \cup s.adds] /\ UNCHANGED tx
\* A statement that fails: it needs what is not there, or waited too long.
Errs(p, s) ==
  /\ s.name \notin View(p).schema
  /\ ~(s.needs \subseteq View(p).schema) \/ Locked(p)

\* The lock outlives the transaction.
Ends_KeepsLock(p) ==
  /\ Goto(p, "idle") /\ pending' = [pending EXCEPT ![p] = {}]
  /\ IF writer = p THEN tx' = Nothing /\ UNCHANGED writer ELSE UNCHANGED <<writer, tx>>
\* The command is over; a transaction that was not committed is undone.
Ends(p) ==
  /\ Goto(p, "idle") /\ pending' = [pending EXCEPT ![p] = {}]
  /\ IF writer = p THEN writer' = NoProcess /\ tx' = Nothing ELSE UNCHANGED <<writer, tx>>
Fails(p) == Ends(p) /\ UNCHANGED db

-----------------------------------------------------------------------------
Begin(p, c) ==
  /\ pc[p] = "idle" /\ started < MaxCommands /\ started' = started + 1
  /\ command' = [command EXCEPT ![p] = c] /\ Goto(p, "bootstrap")
  /\ UNCHANGED <<db, writer, tx, pending, crashes>>

\* executescript: the first error ends initialize.
RunBootstrap(p) ==
  /\ pc[p] = "bootstrap"
  /\ \/ /\ step[p] <= Len(Bootstrap) /\ Executes(p, Bootstrap[step[p]])
        /\ Advance(p) /\ UNCHANGED <<writer, pending>>
     \/ step[p] <= Len(Bootstrap) /\ Errs(p, Bootstrap[step[p]]) /\ Fails(p)
     \/ step[p] > Len(Bootstrap) /\ Goto(p, "upgrade") /\ UNCHANGED <<db, writer, tx, pending>>
  /\ UNCHANGED <<command, started, crashes>>

\* What a command does with the initialized database.
Session(kind) ==
  CASE kind = "migrate" -> "look" [] kind = "use" -> "write" [] OTHER -> "ensure"

\* Only the commands that set a database up upgrade it.
RunUpgrades_NotForUsers(p) ==
  /\ pc[p] = "upgrade"
  /\ \/ /\ command[p].kind # "use" /\ step[p] <= Len(Upgrades)
        /\ Executes(p, Upgrades[step[p]]) /\ Advance(p)
     \/ /\ step[p] > Len(Upgrades) \/ command[p].kind = "use"
        /\ Goto(p, Session(command[p].kind)) /\ UNCHANGED <<db, tx>>
  /\ UNCHANGED <<writer, command, pending, started, crashes>>
\* Every error of an upgrade is passed over.
RunUpgrades(p) ==
  /\ pc[p] = "upgrade"
  /\ \/ /\ step[p] <= Len(Upgrades) /\ Advance(p)
        /\ IF Errs(p, Upgrades[step[p]])
             THEN UNCHANGED <<db, tx>>
             ELSE Executes(p, Upgrades[step[p]])
     \/ /\ step[p] > Len(Upgrades) /\ Goto(p, Session(command[p].kind))
        /\ UNCHANGED <<db, tx>>
  /\ UNCHANGED <<writer, command, pending, started, crashes>>

Unrecorded(p) == {v \in Versions \ View(p).recorded : v <= command[p].target}

\* bitmod migrate asks for the pending versions before it calls migrate.
Look(p) ==
  /\ pc[p] = "look"
  /\ IF VersionTable.name \in db.schema /\ Unrecorded(p) # {}
       THEN Goto(p, "ensure") /\ UNCHANGED <<db, writer, tx, pending>>
       ELSE Fails(p)
  /\ UNCHANGED <<command, started, crashes>>

EnsureMigrationTable(p) ==
  /\ pc[p] = "ensure"
  /\ \/ /\ Executes(p, VersionTable)
        /\ Goto(p, IF command[p].kind = "status" THEN "idle" ELSE "plan")
        /\ UNCHANGED <<writer, pending>>
     \/ Errs(p, VersionTable) /\ Fails(p)
  /\ UNCHANGED <<command, started, crashes>>

\* A version without SQL for SQLite is passed over and never recorded.
GetPending(p) ==
  /\ pc[p] = "plan" /\ Goto(p, "apply")
  /\ pending' = [pending EXCEPT ![p] = {v \in Unrecorded(p) : Scripts[v] # <<>>}]
  /\ UNCHANGED <<db, writer, tx, command, started, crashes>>

\* The least of the pending versions.
Applies(p, v) ==
  /\ pc[p] = "apply" /\ v \in pending[p] /\ \A w \in pending[p] : v <= w
Applied(p, v) == pending' = [pending EXCEPT ![p] = @ \ {v}] /\ Goto(p, "apply")

\* Any error of a statement is taken for "already applied".
ApplyStatement_NeverFails(p, v) ==
  /\ Applies(p, v) /\ step[p] <= Len(Scripts[v]) /\ Advance(p)
  /\ \/ Executes(p, Scripts[v][step[p]])
     \/ Errs(p, Scripts[v][step[p]]) /\ UNCHANGED <<db, tx>>
  /\ UNCHANGED <<writer, pending, command, started, crashes>>
ApplyStatement(p, v) ==
  /\ Applies(p, v) /\ step[p] <= Len(Scripts[v])
  /\ \/ Executes(p, Scripts[v][step[p]]) /\ Advance(p) /\ UNCHANGED <<writer, pending>>
     \/ Errs(p, Scripts[v][step[p]]) /\ Fails(p)
  /\ UNCHANGED <<command, started, crashes>>

\* The insert begins the transaction unless it has begun; a version recorded
\* since by another process violates the key.
Record(p, v) ==
  /\ Applies(p, v) /\ step[p] > Len(Scripts[v])
  /\ \/ /\ ~Locked(p) /\ v \notin View(p).recorded
        /\ writer' = p /\ tx' = [View(p) EXCEPT !.recorded = @ \cup {v}]
        /\ Applied(p, v) /\ UNCHANGED db
     \/ Locked(p) /\ Fails(p)
     \/ ~Locked(p) /\ v \in View(p).recorded /\ Fails(p)
  /\ UNCHANGED <<command, started, crashes>>

\* The rows any other user of the database writes.
Write(p) ==
  /\ pc[p] = "write"
  /\ \/ /\ ~Locked(p) /\ writer' = p /\ tx' = db
        /\ Goto(p, "apply") /\ UNCHANGED <<db, pending>>
     \/ Locked(p) /\ Fails(p)
  /\ UNCHANGED <<command, started, crashes>>

\* The end of the session.
Commit(p) ==
  /\ pc[p] = "apply" /\ pending[p] = {} /\ Ends(p)
  /\ IF writer = p THEN db' = tx ELSE UNCHANGED db
  /\ UNCHANGED <<command, started, crashes>>

Crash(p) ==
  /\ pc[p] # "idle" /\ crashes < MaxCrashes /\ crashes' = crashes + 1 /\ Fails(p)
  /\ UNCHANGED <<command, started>>

Steps(p) ==
  \/ RunBootstrap(p) \/ RunUpgrades(p) \/ Look(p) \/ EnsureMigrationTable(p) \/ GetPending(p)
  \/ \E v \in Versions : ApplyStatement(p, v) \/ Record(p, v)
  \/ Write(p) \/ Commit(p) \/ Crash(p)
Next == \E p \in Processes : Steps(p) \/ \E c \in Command : Begin(p, c)
Spec == Init /\ [][Next]_vars

-----------------------------------------------------------------------------
\* Only the holder of the lock has a transaction, and no other command is in
\* the part of its work that needs one.
TypeOK ==
  /\ db \in Content /\ tx \in Content
  /\ writer \in Processes \cup {NoProcess} /\ (writer = NoProcess => tx = Nothing)
  /\ pc \in [Processes -> Phases] /\ step \in [Processes -> Nat]
  /\ command \in [Processes -> Command] /\ pending \in [Processes -> SUBSET Versions]
  /\ \A p \in Processes : writer = p => pc[p] = "apply"

\* A recorded version has been applied to the last statement: every table,
\* index and column of its script is in the file (MigrationRunner.apply), and
\* so it is for every earlier version that has SQL.  Commands that crash
\* between two statements, that lose their transaction or that run the same
\* scripts at the same time leave no record of what is not there.
RecordedIsThere ==
  \A v \in db.recorded :
    \A w \in Versions : w <= v => /\ Objects(Scripts[w]) \subseteq db.schema
                                  /\ Scripts[w] # <<>> => w \in db.recorded

\* A command that comes out of SQLiteBackend.initialize finds every object of
\* the bootstrap schema and every column of the upgrades, whatever the file
\* was before.  initialize passes over every error of an upgrade, a lock that
\* another process holds included: that is harmless only because whoever
\* writes rows has itself been through the upgrades.
InitializedIsComplete ==
  \A p \in Processes : pc[p] \notin {"idle", "bootstrap", "upgrade"} =>
    Objects(Bootstrap) \cup Objects(Upgrades) \subseteq db.schema

=============================================================================
