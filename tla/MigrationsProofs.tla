-------------------------- MODULE MigrationsProofs --------------------------
(***************************************************************************)
(* Proofs about Migrations, for any statements and scripts, any processes, *)
(* any older database and any number of commands and crashes.              *)
(*                                                                         *)
(* The inductive invariant says how far each command has come: the         *)
(* statements before its next one have left their objects in the file or   *)
(* in its transaction, and the versions it has passed are recorded there.  *)
(* Both only grow while the command lasts.                                 *)
(***************************************************************************)
EXTENDS Migrations, TLAPS

\* A record of versions that is right about the objects beside it.
Sound(c) ==
  \A v \in c.recorded : \A w \in Versions : w <= v =>
    /\ Objects(Scripts[w]) \subseteq c.schema
    /\ Scripts[w] # <<>> => w \in c.recorded

Run(script, k, schema) == \A i \in 1 .. Len(script) : i < k => script[i].name \in schema

\* What a command in a phase has done, in the file and in what it sees.
Progress(phase, k, left, mine, file) ==
  /\ k \in Nat \ {0}
  /\ phase = "bootstrap" => Run(Bootstrap, k, file.schema)
  /\ phase = "upgrade" =>
       Objects(Bootstrap) \subseteq file.schema /\ Run(Upgrades, k, file.schema)
  /\ phase \notin {"idle", "bootstrap", "upgrade"} =>
       Objects(Bootstrap) \cup Objects(Upgrades) \subseteq file.schema
  /\ phase # "apply" => left = {}
  /\ \A v \in left : Scripts[v] # <<>>
  /\ \A v \in left : (\A w \in left : v <= w) => Run(Scripts[v], k, mine.schema)
  /\ \A v \in left, w \in Versions :
       w < v /\ Scripts[w] # <<>> /\ w \notin left => w \in mine.recorded

Within(c, d) == c.schema \subseteq d.schema /\ c.recorded \subseteq d.recorded

IInv ==
  /\ TypeOK
  /\ writer # NoProcess => Within(db, tx)
  /\ Sound(db) /\ Sound(tx)
  /\ \A p \in Processes : Progress(pc[p], step[p], pending[p], View(p), db)

-----------------------------------------------------------------------------
\* Progress survives the growth of the file and of what the command sees.
LEMMA ProgressKept ==
  ASSUME NEW phase, NEW k, NEW left, NEW mine, NEW file, NEW mine2, NEW file2,
         Progress(phase, k, left, mine, file), Within(mine, mine2), Within(file, file2)
  PROVE  Progress(phase, k, left, mine2, file2)
  BY DEF Progress, Within, Run

\* A growing schema keeps a sound record sound.
LEMMA SoundKept ==
  ASSUME NEW c, NEW d, Sound(c), c.schema \subseteq d.schema, d.recorded = c.recorded
  PROVE  Sound(d)
  BY DEF Sound

\* The whole of a script has run when no statement is left.
LEMMA RunAll ==
  ASSUME NEW script, NEW k \in Nat, NEW schema, Len(script) \in Nat,
         Run(script, k, schema), k > Len(script)
  PROVE  Objects(script) \subseteq schema
  BY DEF Run, Objects

\* A statement that succeeds leaves its object and takes nothing away.
LEMMA ExecutesGrows ==
  ASSUME IInv, NEW p \in Processes, NEW s \in Statement, s.name \in s.adds,
         Executes(p, s), UNCHANGED writer
  PROVE  /\ db' \in Content /\ tx' \in Content
         /\ Within(db, db') /\ Within(tx, tx') /\ Within(View(p), View(p)')
         /\ db'.recorded = db.recorded /\ tx'.recorded = tx.recorded
         /\ s.name \in View(p)'.schema
         /\ writer = NoProcess => tx' = Nothing
         /\ writer # NoProcess => Within(db', tx')
         /\ writer # p => s.name \in db'.schema
<1>1. /\ db = [schema |-> db.schema, recorded |-> db.recorded]
      /\ tx = [schema |-> tx.schema, recorded |-> tx.recorded]
      /\ db.schema \subseteq Names /\ tx.schema \subseteq Names /\ s.adds \subseteq Names
      /\ db.recorded \subseteq Versions /\ tx.recorded \subseteq Versions
      /\ p # NoProcess
  BY MigrationAssumption DEF IInv, TypeOK, Content, Statement
<1>2. CASE s.name \in View(p).schema /\ UNCHANGED <<db, tx>>
  BY <1>1, <1>2 DEF IInv, TypeOK, View, Within
<1>3. CASE /\ s.name \notin View(p).schema /\ writer = p
           /\ tx' = [tx EXCEPT !.schema = @ \cup s.adds] /\ UNCHANGED db
  <2>1. tx' = [schema |-> tx.schema \cup s.adds, recorded |-> tx.recorded]
    BY <1>1, <1>3
  <2>2. tx' \in Content /\ db' \in Content
    BY <2>1, <1>1, <1>3 DEF IInv, TypeOK, Content
  <2>3. Within(tx, tx') /\ Within(db, db') /\ Within(db, tx)
    BY <2>1, <1>1, <1>3 DEF Within, IInv
  <2>4. View(p) = tx /\ View(p)' = tx'
    BY <1>3 DEF View
  <2> QED BY <2>1, <2>2, <2>3, <2>4, <1>1, <1>3 DEF Within
<1>4. CASE /\ s.name \notin View(p).schema /\ writer = NoProcess
           /\ db' = [db EXCEPT !.schema = @ \cup s.adds] /\ UNCHANGED tx
  <2>1. db' = [schema |-> db.schema \cup s.adds, recorded |-> db.recorded]
    BY <1>1, <1>4
  <2>2. tx' \in Content /\ db' \in Content
    BY <2>1, <1>1, <1>4 DEF IInv, TypeOK, Content
  <2>3. Within(tx, tx') /\ Within(db, db')
    BY <2>1, <1>1, <1>4 DEF Within
  <2>4. View(p) = db /\ View(p)' = db'
    BY <1>4, <1>1 DEF View
  <2> QED BY <2>1, <2>2, <2>3, <2>4, <1>1, <1>4 DEF IInv, TypeOK
<1> QED BY <1>1, <1>2, <1>3, <1>4 DEF Executes, Locked

\* A step of p that only lets the file and the transaction grow, and leaves
\* the lock, keeps the invariant if it keeps p's own progress and types.
LEMMA StepKept ==
  ASSUME IInv, NEW p \in Processes, UNCHANGED writer,
         db' \in Content, tx' \in Content, Within(db, db'), Within(tx, tx'),
         db'.recorded = db.recorded, tx'.recorded = tx.recorded,
         writer = NoProcess => tx' = Nothing, writer # NoProcess => Within(db', tx'),
         pc' \in [Processes -> Phases], step' \in [Processes -> Nat],
         command' \in [Processes -> Command], pending' \in [Processes -> SUBSET Versions],
         writer = p => pc'[p] = "apply",
         \A q \in Processes \ {p} : pc'[q] = pc[q] /\ step'[q] = step[q] /\ pending'[q] = pending[q],
         Progress(pc'[p], step'[p], pending'[p], View(p)', db')
  PROVE  IInv'
<1>1. TypeOK'
  BY DEF IInv, TypeOK
<1>2. Sound(db)' /\ Sound(tx)'
  BY SoundKept DEF IInv, Within, Sound
<1>3. ASSUME NEW q \in Processes \ {p}
      PROVE  Progress(pc[q], step[q], pending[q], View(q), db)'
  <2>1. Within(View(q), View(q)')
    BY DEF View, Within
  <2> QED BY <2>1, ProgressKept DEF IInv
<1> QED BY <1>1, <1>2, <1>3 DEF IInv
-----------------------------------------------------------------------------
\* A command that ends without a commit, by an error, a crash or with nothing
\* to do: its transaction is gone.
LEMMA FailsKept ==
  ASSUME IInv, NEW p \in Processes, Fails(p), UNCHANGED command
  PROVE  IInv'
<1>1. /\ db' = db /\ pc' = [pc EXCEPT ![p] = "idle"] /\ step' = [step EXCEPT ![p] = 1]
      /\ pending' = [pending EXCEPT ![p] = {}]
      /\ writer = p => writer' = NoProcess /\ tx' = Nothing
      /\ writer # p => UNCHANGED <<writer, tx>>
  BY DEF Fails, Ends, Goto
<1>2. TypeOK'
  BY <1>1, MigrationAssumption DEF IInv, TypeOK, Phases, Content, Nothing
<1>3. (writer # NoProcess => Within(db, tx))' /\ Sound(db)' /\ Sound(tx)'
  BY <1>1 DEF IInv, Sound, Nothing
<1>4. ASSUME NEW q \in Processes
      PROVE  Progress(pc[q], step[q], pending[q], View(q), db)'
  <2>1. CASE q = p
    BY <2>1, <1>1 DEF IInv, TypeOK, Progress
  <2>2. CASE q # p
    <3>1. View(q)' = View(q) /\ db' = db
      BY <2>2, <1>1, MigrationAssumption DEF View
    <3>2. pc'[q] = pc[q] /\ step'[q] = step[q] /\ pending'[q] = pending[q]
      BY <2>2, <1>1 DEF IInv, TypeOK
    <3> QED BY <3>1, <3>2 DEF IInv
  <2> QED BY <2>1, <2>2
<1> QED BY <1>2, <1>3, <1>4 DEF IInv

LEMMA BeginKept ==
  ASSUME IInv, NEW p \in Processes, NEW c \in Command, Begin(p, c)
  PROVE  IInv'
<1>1. /\ UNCHANGED <<db, writer, tx, pending>>
      /\ pc[p] = "idle" /\ pc' = [pc EXCEPT ![p] = "bootstrap"] /\ step' = [step EXCEPT ![p] = 1]
      /\ command' = [command EXCEPT ![p] = c]
  BY DEF Begin, Goto
<1>2. Progress("bootstrap", 1, pending[p], View(p), db)
  <2>1. Run(Bootstrap, 1, db.schema) /\ pending[p] = {}
    BY <1>1 DEF Run, IInv, Progress
  <2> QED BY <2>1 DEF Progress
<1>3. View(p)' = View(p)
  BY <1>1 DEF View
<1> QED BY <1>1, <1>2, <1>3, StepKept DEF IInv, TypeOK, Phases, Within

\* The next statement of a script.
LEMMA NextStatement ==
  ASSUME NEW script \in {Bootstrap, Upgrades} \cup {Scripts[v] : v \in Versions},
         NEW k \in Nat \ {0}, k <= Len(script)
  PROVE  script[k] \in Statement /\ script[k].name \in script[k].adds /\ Len(script) \in Nat
<1>1. script \in Seq(Statement)
  BY MigrationAssumption
<1>2. Len(script) \in Nat /\ k \in 1 .. Len(script)
  BY <1>1
<1>3. script[k] \in Statement
  BY <1>1, <1>2
<1>4. \A i \in 1 .. Len(script) : script[i].name \in script[i].adds
  BY MigrationAssumption
<1> QED BY <1>2, <1>3, <1>4

LEMMA RunFurther ==
  ASSUME NEW script, NEW k \in Nat, NEW schema, NEW schema2, Len(script) \in Nat,
         Run(script, k, schema), schema \subseteq schema2, script[k].name \in schema2
  PROVE  Run(script, k + 1, schema2)
  BY DEF Run

LEMMA RunBootstrapKept ==
  ASSUME IInv, NEW p \in Processes, RunBootstrap(p)
  PROVE  IInv'
<1>0. /\ pc[p] = "bootstrap" /\ UNCHANGED command /\ writer # p
      /\ step[p] \in Nat \ {0} /\ step[p] + 1 \in Nat \ {0}
      /\ pending[p] = {} /\ Run(Bootstrap, step[p], db.schema) /\ Len(Bootstrap) \in Nat
  <2>1. pc[p] = "bootstrap" /\ UNCHANGED command
    BY DEF RunBootstrap
  <2>2. writer # p
    BY <2>1 DEF IInv, TypeOK
  <2>3. /\ step[p] \in Nat \ {0} /\ pending[p] = {} /\ Run(Bootstrap, step[p], db.schema)
    BY <2>1 DEF IInv, Progress
  <2>4. Len(Bootstrap) \in Nat
    BY MigrationAssumption
  <2> QED BY <2>1, <2>2, <2>3, <2>4
<1>1. CASE /\ step[p] <= Len(Bootstrap) /\ Executes(p, Bootstrap[step[p]])
           /\ Advance(p) /\ UNCHANGED <<writer, pending>>
  <2> DEFINE s == Bootstrap[step[p]]
  <2>1. s \in Statement /\ s.name \in s.adds
    BY <1>0, <1>1, NextStatement
  <2> HIDE DEF s
  <2>2. Executes(p, s)
    BY <1>1 DEF s
  <2>3. /\ db' \in Content /\ tx' \in Content /\ Within(db, db') /\ Within(tx, tx')
        /\ db'.recorded = db.recorded /\ tx'.recorded = tx.recorded
        /\ writer = NoProcess => tx' = Nothing
        /\ writer # NoProcess => Within(db', tx')
        /\ s.name \in db'.schema
    BY <2>1, <2>2, <1>0, <1>1, ExecutesGrows
  <2>4. Run(Bootstrap, step[p] + 1, db'.schema)
    BY <2>3, <1>0, RunFurther DEF s, Within
  <2>5. Progress("bootstrap", step[p] + 1, pending[p], View(p)', db')
    BY <2>4, <1>0 DEF Progress
  <2>6. /\ step' = [step EXCEPT ![p] = step[p] + 1] /\ UNCHANGED <<pc, writer, pending, command>>
    BY <1>0, <1>1 DEF Advance
  <2>7. step' \in [Processes -> Nat] /\ step'[p] = step[p] + 1
    BY <2>6, <1>0 DEF IInv, TypeOK
  <2> QED BY <2>3, <2>5, <2>6, <2>7, <1>0, StepKept DEF IInv, TypeOK
<1>2. CASE Fails(p)
  BY <1>0, <1>2, FailsKept
<1>3. CASE /\ step[p] > Len(Bootstrap) /\ Goto(p, "upgrade")
           /\ UNCHANGED <<db, writer, tx, pending>>
  <2>1. Objects(Bootstrap) \subseteq db.schema /\ Run(Upgrades, 1, db.schema)
    BY <1>0, <1>3, RunAll DEF Run
  <2>2. Progress("upgrade", 1, pending[p], View(p), db) /\ View(p)' = View(p)
    BY <2>1, <1>0, <1>3 DEF Progress, View
  <2> QED BY <2>2, <1>0, <1>3, StepKept DEF IInv, TypeOK, Phases, Within, Goto
<1> QED BY <1>1, <1>2, <1>3 DEF RunBootstrap

\* An upgrade that fails is there already: its table is part of the bootstrap
\* schema, so it lacks nothing, and whoever holds the lock has had every
\* upgrade.
LEMMA UpgradesKept ==
  ASSUME IInv, NEW p \in Processes, RunUpgrades(p)
  PROVE  IInv'
<1>0. /\ pc[p] = "upgrade" /\ UNCHANGED <<writer, command, pending>> /\ writer # p
      /\ step[p] \in Nat \ {0} /\ step[p] + 1 \in Nat \ {0} /\ pending[p] = {}
      /\ Objects(Bootstrap) \subseteq db.schema
      /\ Run(Upgrades, step[p], db.schema) /\ Len(Upgrades) \in Nat
  <2>1. pc[p] = "upgrade" /\ UNCHANGED <<writer, command, pending>>
    BY DEF RunUpgrades
  <2>2. writer # p
    BY <2>1 DEF IInv, TypeOK
  <2>3. /\ step[p] \in Nat \ {0} /\ pending[p] = {}
        /\ Objects(Bootstrap) \subseteq db.schema /\ Run(Upgrades, step[p], db.schema)
    BY <2>1 DEF IInv, Progress
  <2>4. Len(Upgrades) \in Nat
    BY MigrationAssumption
  <2> QED BY <2>1, <2>2, <2>3, <2>4
<1>1. CASE /\ step[p] <= Len(Upgrades) /\ Advance(p)
           /\ IF Errs(p, Upgrades[step[p]])
                THEN UNCHANGED <<db, tx>>
                ELSE Executes(p, Upgrades[step[p]])
  <2> DEFINE s == Upgrades[step[p]]
  <2>1. s \in Statement /\ s.name \in s.adds
    BY <1>0, <1>1, NextStatement
  <2>2. s.needs \subseteq Objects(Bootstrap) /\ s.name \in Objects(Upgrades)
    BY <1>0, <1>1, MigrationAssumption DEF Objects
  <2> HIDE DEF s
  <2>3. ~Errs(p, s)
    <3>1. SUFFICES ASSUME Errs(p, s) PROVE FALSE
      OBVIOUS
    <3>2. View(p) = db
      BY <1>0 DEF View
    <3>3. s.name \notin db.schema /\ Locked(p)
      BY <3>1, <3>2, <2>2, <1>0 DEF Errs
    <3>4. PICK q \in Processes : writer = q
      BY <3>3 DEF Locked, IInv, TypeOK
    <3>5. pc[q] = "apply"
      BY <3>4 DEF IInv, TypeOK
    <3>6. Objects(Upgrades) \subseteq db.schema
      BY <3>5 DEF IInv, Progress
    <3> QED BY <3>3, <3>6, <2>2
  <2>4. Executes(p, s)
    BY <1>1, <2>3 DEF s
  <2>5. /\ db' \in Content /\ tx' \in Content /\ Within(db, db') /\ Within(tx, tx')
        /\ db'.recorded = db.recorded /\ tx'.recorded = tx.recorded
        /\ writer = NoProcess => tx' = Nothing
        /\ writer # NoProcess => Within(db', tx')
        /\ s.name \in db'.schema
    BY <2>1, <2>4, <1>0, ExecutesGrows
  <2>6. Run(Upgrades, step[p] + 1, db'.schema)
    BY <2>5, <1>0, RunFurther DEF s, Within
  <2>7. Progress("upgrade", step[p] + 1, pending[p], View(p)', db')
    BY <2>6, <2>5, <1>0 DEF Progress, Within
  <2>8. /\ step' = [step EXCEPT ![p] = step[p] + 1] /\ UNCHANGED pc
    BY <1>1 DEF Advance
  <2>9. step' \in [Processes -> Nat] /\ step'[p] = step[p] + 1
    BY <2>8, <1>0 DEF IInv, TypeOK
  <2> QED BY <2>5, <2>7, <2>8, <2>9, <1>0, StepKept DEF IInv, TypeOK
<1>2. CASE /\ step[p] > Len(Upgrades) /\ Goto(p, Session(command[p].kind))
           /\ UNCHANGED <<db, tx>>
  <2> DEFINE phase == Session(command[p].kind)
  <2>1. Objects(Bootstrap) \cup Objects(Upgrades) \subseteq db.schema
    BY <1>0, <1>2, RunAll
  <2>2. phase \in {"look", "write", "ensure"}
    BY DEF Session
  <2>3. Progress(phase, 1, pending[p], View(p), db) /\ View(p)' = View(p)
    BY <2>1, <2>2, <1>0, <1>2 DEF Progress, View
  <2> HIDE DEF phase
  <2>4. pc' = [pc EXCEPT ![p] = phase] /\ step' = [step EXCEPT ![p] = 1]
    BY <1>2 DEF Goto, phase
  <2> QED BY <2>2, <2>3, <2>4, <1>0, <1>2, StepKept DEF IInv, TypeOK, Phases, Within
<1> QED BY <1>1, <1>2 DEF RunUpgrades

LEMMA LookKept ==
  ASSUME IInv, NEW p \in Processes, Look(p)
  PROVE  IInv'
<1>1. CASE Fails(p)
  BY <1>1, FailsKept DEF Look
<1>2. CASE /\ pc[p] = "look" /\ Goto(p, "ensure")
           /\ UNCHANGED <<db, writer, tx, pending, command>>
  <2>1. Progress("ensure", 1, pending[p], View(p), db) /\ View(p)' = View(p)
    BY <1>2 DEF IInv, Progress, View
  <2>2. writer # p
    BY <1>2 DEF IInv, TypeOK
  <2> QED BY <2>1, <2>2, <1>2, StepKept DEF IInv, TypeOK, Phases, Within, Goto
<1> QED BY <1>1, <1>2 DEF Look

LEMMA EnsureKept ==
  ASSUME IInv, NEW p \in Processes, EnsureMigrationTable(p)
  PROVE  IInv'
<1>0. /\ pc[p] = "ensure" /\ UNCHANGED command /\ writer # p /\ pending[p] = {}
      /\ Objects(Bootstrap) \cup Objects(Upgrades) \subseteq db.schema
  <2>1. pc[p] = "ensure" /\ UNCHANGED command
    BY DEF EnsureMigrationTable
  <2> QED BY <2>1 DEF IInv, TypeOK, Progress
<1>1. CASE Fails(p)
  BY <1>0, <1>1, FailsKept
<1>2. CASE /\ Executes(p, VersionTable)
           /\ Goto(p, IF command[p].kind = "status" THEN "idle" ELSE "plan")
           /\ UNCHANGED <<writer, pending>>
  <2> DEFINE phase == IF command[p].kind = "status" THEN "idle" ELSE "plan"
  <2>1. VersionTable \in Statement /\ VersionTable.name \in VersionTable.adds
    BY MigrationAssumption DEF VersionTable, Statement
  <2>2. /\ db' \in Content /\ tx' \in Content /\ Within(db, db') /\ Within(tx, tx')
        /\ db'.recorded = db.recorded /\ tx'.recorded = tx.recorded
        /\ writer = NoProcess => tx' = Nothing
        /\ writer # NoProcess => Within(db', tx')
    BY <2>1, <1>2, ExecutesGrows
  <2>3. Progress(phase, 1, pending[p], View(p)', db')
    BY <2>2, <1>0 DEF Progress, Within
  <2>4. phase \in {"idle", "plan"}
    OBVIOUS
  <2>5. pc' = [pc EXCEPT ![p] = phase] /\ step' = [step EXCEPT ![p] = 1]
    BY <1>2 DEF Goto
  <2> HIDE DEF phase
  <2> QED BY <2>2, <2>3, <2>4, <2>5, <1>0, <1>2, StepKept DEF IInv, TypeOK, Phases
<1> QED BY <1>1, <1>2 DEF EnsureMigrationTable

LEMMA GetPendingKept ==
  ASSUME IInv, NEW p \in Processes, GetPending(p)
  PROVE  IInv'
<1> DEFINE left == {v \in Unrecorded(p) : Scripts[v] # <<>>}
<1>1. /\ pc[p] = "plan" /\ pc' = [pc EXCEPT ![p] = "apply"] /\ step' = [step EXCEPT ![p] = 1]
      /\ pending' = [pending EXCEPT ![p] = left] /\ UNCHANGED <<db, writer, tx, command>>
  BY DEF GetPending, Goto
<1>2. left \subseteq Versions /\ View(p)' = View(p) /\ writer # p
  BY <1>1 DEF Unrecorded, View, IInv, TypeOK
<1>3. \A v \in left, w \in Versions :
        w < v /\ Scripts[w] # <<>> /\ w \notin left => w \in View(p).recorded
  <2>1. command[p].target \in Nat /\ Versions \subseteq Nat
    BY MigrationAssumption DEF IInv, TypeOK, Command
  <2> QED BY <2>1 DEF Unrecorded
<1>4. \A v \in left : Run(Scripts[v], 1, View(p).schema)
  BY DEF Run
<1>5. Progress("apply", 1, left, View(p), db)
  BY <1>1, <1>3, <1>4 DEF IInv, Progress
<1> HIDE DEF left
<1>6. /\ pending' \in [Processes -> SUBSET Versions] /\ pending'[p] = left
      /\ pc' \in [Processes -> Phases] /\ pc'[p] = "apply"
      /\ step' \in [Processes -> Nat] /\ step'[p] = 1
  BY <1>1, <1>2 DEF IInv, TypeOK, Phases
<1> QED BY <1>1, <1>2, <1>5, <1>6, StepKept DEF IInv, TypeOK, Within

\* The version a command applies next.
LEMMA AppliesNext ==
  ASSUME IInv, NEW p \in Processes, NEW v \in Versions, Applies(p, v)
  PROVE  /\ pc[p] = "apply" /\ v \in pending[p] /\ \A w \in pending[p] : v <= w
         /\ Scripts[v] # <<>> /\ Len(Scripts[v]) \in Nat
         /\ step[p] \in Nat \ {0} /\ step[p] + 1 \in Nat \ {0}
         /\ Run(Scripts[v], step[p], View(p).schema)
         /\ Objects(Bootstrap) \cup Objects(Upgrades) \subseteq db.schema
<1>1. pc[p] = "apply" /\ v \in pending[p] /\ \A w \in pending[p] : v <= w
  BY DEF Applies
<1>2. Progress(pc[p], step[p], pending[p], View(p), db) /\ Len(Scripts[v]) \in Nat
  BY MigrationAssumption DEF IInv
<1> QED BY <1>1, <1>2 DEF Progress

LEMMA ApplyKept ==
  ASSUME IInv, NEW p \in Processes, NEW v \in Versions, ApplyStatement(p, v)
  PROVE  IInv'
<1>0. Applies(p, v) /\ step[p] <= Len(Scripts[v]) /\ UNCHANGED command
  BY DEF ApplyStatement
<1>1. CASE Fails(p)
  BY <1>0, <1>1, FailsKept
<1>2. CASE /\ Executes(p, Scripts[v][step[p]]) /\ Advance(p) /\ UNCHANGED <<writer, pending>>
  <2> DEFINE s == Scripts[v][step[p]]
  <2>1. s \in Statement /\ s.name \in s.adds
    BY <1>0, AppliesNext, NextStatement
  <2> HIDE DEF s
  <2>2. Executes(p, s)
    BY <1>2 DEF s
  <2>3. /\ db' \in Content /\ tx' \in Content /\ Within(db, db') /\ Within(tx, tx')
        /\ Within(View(p), View(p)')
        /\ db'.recorded = db.recorded /\ tx'.recorded = tx.recorded
        /\ writer = NoProcess => tx' = Nothing
        /\ writer # NoProcess => Within(db', tx')
        /\ s.name \in View(p)'.schema
    BY <2>1, <2>2, <1>2, ExecutesGrows
  <2>4. Run(Scripts[v], step[p] + 1, View(p)'.schema)
    BY <2>3, <1>0, AppliesNext, RunFurther DEF s, Within
  <2>5. \A w \in pending[p] : (\A u \in pending[p] : w <= u) => w = v
    BY <1>0, AppliesNext, MigrationAssumption DEF IInv, TypeOK
  <2>6. Progress("apply", step[p] + 1, pending[p], View(p)', db')
    BY <2>3, <2>4, <2>5, <1>0, AppliesNext DEF IInv, Progress, Within
  <2>7. /\ step' = [step EXCEPT ![p] = step[p] + 1] /\ UNCHANGED pc
        /\ pc[p] = "apply" /\ step[p] + 1 \in Nat
    BY <1>0, <1>2, AppliesNext DEF Advance
  <2>8. step' \in [Processes -> Nat] /\ step'[p] = step[p] + 1
    BY <2>7 DEF IInv, TypeOK
  <2> QED BY <2>3, <2>6, <2>7, <2>8, <1>0, <1>2, StepKept DEF IInv, TypeOK
<1> QED BY <1>1, <1>2 DEF ApplyStatement

\* The step of the process that gets the lock or has it: the others see the
\* same file as before.
LEMMA WriterKept ==
  ASSUME IInv, NEW p \in Processes, ~Locked(p), writer' = p,
         tx' \in Content, Within(db, tx'), Sound(tx'), UNCHANGED <<db, command>>,
         NEW k \in Nat, pc' = [pc EXCEPT ![p] = "apply"], step' = [step EXCEPT ![p] = k],
         NEW left \in SUBSET Versions, pending' = [pending EXCEPT ![p] = left],
         Progress("apply", k, left, tx', db)
  PROVE  IInv'
<1>1. TypeOK'
  BY MigrationAssumption DEF IInv, TypeOK, Locked, Phases
<1>2. Sound(db)' /\ Sound(tx)' /\ Within(db, tx)'
  BY DEF IInv, Sound, Within
<1>3. ASSUME NEW q \in Processes
      PROVE  Progress(pc[q], step[q], pending[q], View(q), db)'
  <2>1. CASE q = p
    BY <2>1 DEF IInv, TypeOK, View
  <2>2. CASE q # p
    <3>1. View(q)' = db /\ View(q) = db
      BY <2>2, MigrationAssumption DEF View, Locked
    <3>2. pc'[q] = pc[q] /\ step'[q] = step[q] /\ pending'[q] = pending[q]
      BY <2>2 DEF IInv, TypeOK
    <3> QED BY <3>1, <3>2 DEF IInv
  <2> QED BY <2>1, <2>2
<1> QED BY <1>1, <1>2, <1>3 DEF IInv

LEMMA RecordKept ==
  ASSUME IInv, NEW p \in Processes, NEW v \in Versions, Record(p, v)
  PROVE  IInv'
<1>0. Applies(p, v) /\ step[p] > Len(Scripts[v]) /\ UNCHANGED command
  BY DEF Record
<1>1. CASE Fails(p)
  BY <1>0, <1>1, FailsKept
<1>2. CASE /\ ~Locked(p) /\ v \notin View(p).recorded
           /\ writer' = p /\ tx' = [View(p) EXCEPT !.recorded = @ \cup {v}]
           /\ Applied(p, v) /\ UNCHANGED db
  <2> DEFINE left == pending[p] \ {v}
  <2>1. /\ View(p) \in Content /\ Sound(View(p)) /\ Within(db, View(p))
        /\ pending[p] \in SUBSET Versions /\ Versions \subseteq Nat
    BY MigrationAssumption DEF IInv, TypeOK, View, Within
  <2>2. tx' = [schema |-> View(p).schema, recorded |-> View(p).recorded \cup {v}]
    BY <1>2, <2>1 DEF Content
  <2>3. tx' \in Content /\ Within(db, tx')
    BY <2>1, <2>2 DEF Content, Within
  <2>4. Objects(Scripts[v]) \subseteq View(p).schema
    BY <1>0, AppliesNext, RunAll
  <2>5. ASSUME NEW w \in Versions, w < v
        PROVE  /\ Objects(Scripts[w]) \subseteq View(p).schema
               /\ Scripts[w] # <<>> => w \in View(p).recorded
    <3>1. w \notin pending[p]
      BY <2>5, <2>1, <1>0, AppliesNext
    <3>2. Scripts[w] # <<>> => w \in View(p).recorded
      BY <3>1, <2>5, <1>0, AppliesNext DEF IInv, Progress
    <3>3. Scripts[w] = <<>> => Objects(Scripts[w]) = {}
      BY DEF Objects
    <3> QED BY <3>2, <3>3, <2>1 DEF Sound
  <2>6. Sound(tx')
    BY <2>1, <2>2, <2>4, <2>5 DEF Sound
  <2>7. Progress("apply", 1, left, tx', db)
    <3>1. \A u \in left, w \in Versions :
            w < u /\ Scripts[w] # <<>> /\ w \notin left => w \in tx'.recorded
      BY <2>2, <1>0, AppliesNext DEF IInv, Progress
    <3>2. \A u \in left : Scripts[u] # <<>> /\ Run(Scripts[u], 1, tx'.schema)
      BY <1>0, AppliesNext DEF IInv, Progress, Run
    <3> QED BY <3>1, <3>2, <1>0, AppliesNext DEF Progress
  <2>8. /\ pending' = [pending EXCEPT ![p] = left] /\ pc' = [pc EXCEPT ![p] = "apply"]
        /\ step' = [step EXCEPT ![p] = 1] /\ left \in SUBSET Versions
    BY <1>2, <2>1 DEF Applied, Goto
  <2> HIDE DEF left
  <2> QED BY <2>3, <2>6, <2>7, <2>8, <1>0, <1>2, WriterKept
<1> QED BY <1>0, <1>1, <1>2 DEF Record

LEMMA WriteKept ==
  ASSUME IInv, NEW p \in Processes, Write(p)
  PROVE  IInv'
<1>0. pc[p] = "write" /\ UNCHANGED command
  BY DEF Write
<1>1. CASE Fails(p)
  BY <1>0, <1>1, FailsKept
<1>2. CASE /\ ~Locked(p) /\ writer' = p /\ tx' = db
           /\ Goto(p, "apply") /\ UNCHANGED <<db, pending>>
  <2>1. db \in Content /\ Sound(db) /\ Within(db, db)
    BY DEF IInv, TypeOK, Within
  <2>2. pending[p] = {} /\ pending' = [pending EXCEPT ![p] = {}]
    BY <1>0, <1>2 DEF IInv, TypeOK, Progress
  <2>3. Progress("apply", 1, {}, tx', db)
    BY <1>0, <1>2 DEF IInv, Progress
  <2>4. pc' = [pc EXCEPT ![p] = "apply"] /\ step' = [step EXCEPT ![p] = 1]
    BY <1>2 DEF Goto
  <2> QED BY <2>1, <2>2, <2>3, <2>4, <1>0, <1>2, WriterKept
<1> QED BY <1>0, <1>1, <1>2 DEF Write

LEMMA CommitKept ==
  ASSUME IInv, NEW p \in Processes, Commit(p)
  PROVE  IInv'
<1>1. CASE writer # p
  BY <1>1, FailsKept DEF Commit, Fails
<1>2. CASE writer = p
  <2>1. /\ db' = tx /\ writer' = NoProcess /\ tx' = Nothing /\ UNCHANGED command
        /\ pc' = [pc EXCEPT ![p] = "idle"] /\ step' = [step EXCEPT ![p] = 1]
        /\ pending' = [pending EXCEPT ![p] = {}]
    BY <1>2 DEF Commit, Ends, Goto
  <2>2. TypeOK'
    BY <2>1, MigrationAssumption DEF IInv, TypeOK, Phases, Content, Nothing
  <2>3. (writer # NoProcess => Within(db, tx))' /\ Sound(db)' /\ Sound(tx)'
    BY <2>1 DEF IInv, Sound, Nothing
  <2>4. Within(db, db')
    BY <1>2, <2>1, MigrationAssumption DEF IInv
  <2>5. ASSUME NEW q \in Processes
        PROVE  Progress(pc[q], step[q], pending[q], View(q), db)'
    <3>1. CASE q = p
      BY <3>1, <2>1 DEF IInv, TypeOK, Progress
    <3>2. CASE q # p
      <4>1. View(q) = db /\ View(q)' = db'
        BY <3>2, <1>2, <2>1, MigrationAssumption DEF View
      <4>2. pc'[q] = pc[q] /\ step'[q] = step[q] /\ pending'[q] = pending[q]
        BY <3>2, <2>1 DEF IInv, TypeOK
      <4>3. Progress(pc[q], step[q], pending[q], View(q), db)
        BY DEF IInv
      <4> QED BY <4>1, <4>2, <4>3, <2>4, ProgressKept
    <3> QED BY <3>1, <3>2
  <2> QED BY <2>2, <2>3, <2>5 DEF IInv
<1> QED BY <1>1, <1>2

-----------------------------------------------------------------------------
LEMMA InvInit == Init => IInv
<1> SUFFICES ASSUME Init PROVE IInv
  OBVIOUS
<1>1. db \in Content /\ tx \in Content /\ db.recorded = {} /\ tx = Nothing /\ writer = NoProcess
  BY MigrationAssumption DEF Init, Content, Nothing
<1>2. TypeOK
  BY <1>1, MigrationAssumption DEF Init, TypeOK, Phases, Command
<1>3. ASSUME NEW p \in Processes
      PROVE  Progress(pc[p], step[p], pending[p], View(p), db)
  <2>1. pc[p] = "idle" /\ step[p] = 1 /\ pending[p] = {}
    BY DEF Init
  <2> QED BY <2>1 DEF Progress
<1> QED BY <1>1, <1>2, <1>3 DEF IInv, Sound, Nothing

LEMMA InvNext == IInv /\ [Next]_vars => IInv'
<1> SUFFICES ASSUME IInv, [Next]_vars PROVE IInv'
  OBVIOUS
<1>1. CASE UNCHANGED vars
  BY <1>1 DEF IInv, TypeOK, View, Sound, Within, Progress, Run, vars
<1>2. ASSUME NEW p \in Processes, NEW c \in Command, Begin(p, c)
      PROVE  IInv'
  BY <1>2, BeginKept
<1>3. ASSUME NEW p \in Processes, Steps(p)
      PROVE  IInv'
  <2>1. Crash(p) => IInv'
    BY FailsKept DEF Crash
  <2> QED BY <1>3, <2>1, RunBootstrapKept, UpgradesKept, LookKept, EnsureKept, GetPendingKept,
             ApplyKept, RecordKept, WriteKept, CommitKept DEF Steps
<1> QED BY <1>1, <1>2, <1>3 DEF Next

LEMMA Invariant == Spec => []IInv
  BY InvInit, InvNext, PTL DEF Spec

\* The file, the transaction and every command stay well-typed, and only a
\* command in its session holds the lock, whatever the scripts are.
THEOREM TypeCorrect == Spec => []TypeOK
<1>1. IInv => TypeOK
  BY DEF IInv
<1> QED BY <1>1, Invariant, PTL

\* MigrationRunner.apply and migrate: in the file a recorded version has been
\* applied to its last statement, and the earlier ones with it, through any
\* crashes and any number of processes that migrate at the same time.
THEOREM RecordedApplied == Spec => []RecordedIsThere
<1>1. IInv => RecordedIsThere
  BY DEF IInv, Sound, RecordedIsThere
<1> QED BY <1>1, Invariant, PTL

\* SQLiteBackend.initialize: a command that has come out of it finds the whole
\* bootstrap schema and every upgrade, although errors of the upgrades are
\* passed over.
THEOREM InitializedComplete == Spec => []InitializedIsComplete
<1>1. IInv => InitializedIsComplete
  BY DEF IInv, Progress, InitializedIsComplete
<1> QED BY <1>1, Invariant, PTL

=============================================================================
