------------------------ MODULE BackupJournalProofs ------------------------
(***************************************************************************)
(* Proofs about BackupJournal, for any number of processes and sessions,   *)
(* any limit, and any crashes.                                             *)
(***************************************************************************)
EXTENDS BackupJournal, FiniteSetTheorems, SequenceTheorems, TLAPS

Has(p, step) == \E i \in 1 .. Len(p) : p[i] = step
\* The ids of a list are distinct.
Distinct(list) == \A i, j \in 1 .. Len(list) : list[i].id = list[j].id => i = j
Bounded(list) == list \in Seq(Session) /\ Distinct(list) /\ Len(list) <= MaxSessions

-----------------------------------------------------------------------------
(***************************************************************************)
(* Lists of sessions.                                                      *)
(***************************************************************************)

\* A list counts as many sessions as its ids.
LEMMA DistinctCounts ==
  ASSUME NEW list \in Seq(Session), Distinct(list)
  PROVE  Cardinality(IdsOf(list)) = Len(list)
<1> DEFINE f == [i \in 1 .. Len(list) |-> list[i].id]
<1>1. Len(list) \in Nat
  OBVIOUS
<1>2. f \in Bijection(1 .. Len(list), IdsOf(list))
  BY DEF Distinct, IdsOf, Bijection, Injection, Surjection, IsInjective
<1>3. ExistsBijection(1 .. Len(list), IdsOf(list))
  BY <1>2 DEF ExistsBijection
<1> QED BY <1>1, <1>3, FS_CountingElements

LEMMA PositionFound ==
  ASSUME NEW list \in Seq(Session), NEW s \in IdsOf(list)
  PROVE  Position(list, s) \in 1 .. Len(list) /\ list[Position(list, s)].id = s
  BY DEF IdsOf, Position

LEMMA WithoutShorter ==
  ASSUME NEW list, Bounded(list), NEW s \in IdsOf(list)
  PROVE  LET rest == Without(list, s)
         IN Bounded(rest) /\ Len(rest) = Len(list) - 1 /\ s \notin IdsOf(rest)
<1> DEFINE rest == Without(list, s)
           p == Position(list, s)
<1>1. p \in 1 .. Len(list) /\ list[p].id = s /\ Len(list) \in Nat
  BY PositionFound DEF Bounded
<1>2. /\ \A i \in 1 .. Len(list) : list[i] \in Session
      /\ \A i, j \in 1 .. Len(list) : list[i].id = list[j].id => i = j
  BY DEF Bounded, Distinct
<1> HIDE DEF p
<1>3. \A j \in 1 .. Len(list) - 1 : rest[j] = IF j < p THEN list[j] ELSE list[j + 1]
  BY DEF Without, p
<1>4. rest \in [1 .. Len(list) - 1 -> Session]
  BY <1>1, <1>2 DEF Without, p
<1>5. rest \in Seq(Session) /\ Len(rest) = Len(list) - 1
  BY <1>1, <1>4
<1> HIDE DEF rest
<1>6. Distinct(rest)
  BY <1>1, <1>2, <1>3, <1>5 DEF Distinct
<1>7. s \notin IdsOf(rest)
  BY <1>1, <1>2, <1>3, <1>5 DEF IdsOf
<1>8. MaxSessions \in Nat
  BY JournalAssumption
<1> QED BY <1>1, <1>5, <1>6, <1>7, <1>8 DEF Bounded, rest

LEMMA AppendLonger ==
  ASSUME NEW list, Bounded(list), NEW e \in Session, e.id \notin IdsOf(list),
         Len(list) < MaxSessions
  PROVE  Bounded(Append(list, e)) /\ Len(Append(list, e)) = Len(list) + 1
<1>1. list \in Seq(Session) /\ Len(list) \in Nat /\ MaxSessions \in Nat
  BY JournalAssumption DEF Bounded
<1>2. Distinct(Append(list, e))
  BY <1>1 DEF Bounded, Distinct, IdsOf
<1> QED BY <1>1, <1>2 DEF Bounded

LEMMA TailShorter ==
  ASSUME NEW list, Bounded(list), list # <<>>
  PROVE  Bounded(Tail(list)) /\ Len(Tail(list)) = Len(list) - 1
<1>1. list \in Seq(Session) /\ Len(list) \in Nat \ {0} /\ MaxSessions \in Nat
  BY JournalAssumption DEF Bounded
<1>2. Distinct(Tail(list))
  BY <1>1 DEF Bounded, Distinct
<1> QED BY <1>1, <1>2 DEF Bounded

-----------------------------------------------------------------------------
(***************************************************************************)
(* Plans.                                                                  *)
(***************************************************************************)

\* At most one session is created by an operation, and only an import fills
\* its journal.
OneCreate(p) == \A i, j \in 1 .. Len(p) : p[i] = "create" /\ p[j] = "create" => i = j

LEMMA PlanOf ==
  ASSUME NEW a \in Seq(Steps \ {"create", "fill"}), NEW b \in Seq(Steps \ {"create"})
  PROVE  LET p == a \o <<"create">> \o b
         IN p \in Seq(Steps) /\ OneCreate(p) /\ (Has(p, "fill") => Has(b, "fill"))
<1> DEFINE p == a \o <<"create">> \o b
<1>1. p \in Seq(Steps)
  BY DEF Steps
<1>2. \A i \in 1 .. Len(p) : p[i] = "create" => i = Len(a) + 1
  BY DEF Steps
<1>3. ASSUME NEW i \in 1 .. Len(p), p[i] = "fill"
      PROVE  Has(b, "fill")
  <2>1. i > Len(a) + 1 /\ i - Len(a) - 1 \in 1 .. Len(b) /\ b[i - Len(a) - 1] = p[i]
    BY <1>3
  <2> QED BY <1>3, <2>1 DEF Has
<1> QED BY <1>1, <1>2, <1>3 DEF OneCreate, Has

\* Deletions and appends create nothing.
LEMMA PlanShort ==
  ASSUME NEW p, p \in {<<>>, <<"unlink">> \o Save, <<"count">> \o Save}
  PROVE  p \in Seq(Steps) /\ ~Has(p, "create") /\ ~Has(p, "fill")
<1>1. /\ <<"unlink">> \in Seq(Steps \ {"create", "fill"})
      /\ <<"count">> \in Seq(Steps \ {"create", "fill"})
      /\ Save \in Seq(Steps \ {"create", "fill"}) /\ <<>> \in Seq(Steps \ {"create", "fill"})
  BY DEF Steps, Save
<1>2. p \in Seq(Steps \ {"create", "fill"})
  BY <1>1, ConcatProperties
<1> QED BY <1>2 DEF Has

LEMMA PlanNext ==
  ASSUME NEW p \in Seq(Steps), p # <<>>, OneCreate(p)
  PROVE  /\ Tail(p) \in Seq(Steps) /\ OneCreate(Tail(p))
         /\ \A step : Has(Tail(p), step) => Has(p, step)
         /\ Head(p) = "create" => ~Has(Tail(p), "create")
<1>1. Len(p) \in Nat \ {0} /\ Tail(p) \in Seq(Steps) /\ Len(Tail(p)) = Len(p) - 1
  OBVIOUS
<1>2. \A i \in 1 .. Len(Tail(p)) : Tail(p)[i] = p[i + 1] /\ i + 1 \in 1 .. Len(p)
  BY <1>1
<1>3. Head(p) = p[1] /\ 1 \in 1 .. Len(p)
  BY <1>1
<1> QED BY <1>1, <1>2, <1>3 DEF OneCreate, Has

-----------------------------------------------------------------------------
(***************************************************************************)
(* The invariant: lists stay bounded, and there is room for the session an *)
(* operation has yet to create.                                            *)
(***************************************************************************)
Inv ==
  /\ TypeOK
  /\ Bounded(index) /\ \A m \in Managers : Bounded(sessions[m])
  /\ \A m \in Managers :
       /\ OneCreate(plan[m])
       /\ Has(plan[m], "create") => Len(sessions[m]) < MaxSessions /\ loaded[m]
       /\ Has(plan[m], "fill") => exported # NoFile

LEMMA InvBounded == Inv => SessionsBounded
<1> SUFFICES ASSUME Inv, NEW list \in {sessions[m] : m \in Managers} \cup {index}
             PROVE  Len(list) <= MaxSessions /\ Cardinality(IdsOf(list)) = Len(list)
  BY DEF SessionsBounded
<1>1. Bounded(list)
  BY DEF Inv
<1> QED BY <1>1, DistinctCounts DEF Bounded

LEMMA InvInit == Init => Inv
<1> SUFFICES ASSUME Init PROVE Inv
  OBVIOUS
<1>1. <<>> \in Seq(Session) /\ Len(<<>>) = 0
  OBVIOUS
<1>2. Bounded(<<>>)
  BY <1>1, JournalAssumption DEF Bounded, Distinct
<1>3. OneCreate(<<>>) /\ \A step : ~Has(<<>>, step)
  BY <1>1 DEF OneCreate, Has
<1>4. TypeOK
  BY <1>1, JournalAssumption DEF Init, TypeOK
<1> QED BY <1>2, <1>3, <1>4 DEF Init, Inv

\* What a step of one manager may do to the lists.
LEMMA InvStep ==
  ASSUME Inv, TypeOK', NEW m \in Managers,
         \A o \in Managers \ {m} : /\ sessions'[o] = sessions[o] /\ plan'[o] = plan[o]
                                   /\ loaded'[o] = loaded[o],
         Bounded(sessions'[m]), Bounded(index'), OneCreate(plan'[m]),
         Has(plan'[m], "create") => Len(sessions'[m]) < MaxSessions /\ loaded'[m],
         exported' # exported => exported' # NoFile,
         Has(plan'[m], "fill") => exported # NoFile
  PROVE  Inv'
  BY DEF Inv

LEMMA StepTaken ==
  ASSUME Inv, NEW m \in Managers, NEW step, Takes(m, step)
  PROVE  /\ plan' \in [Managers -> Seq(Steps)]
         /\ \A o \in Managers \ {m} : plan'[o] = plan[o]
         /\ OneCreate(plan'[m])
         /\ \A s : Has(plan'[m], s) => Has(plan[m], s)
         /\ step = "create" => ~Has(plan'[m], "create") /\ Has(plan[m], "create")
         /\ step = "fill" => exported # NoFile
<1>1. /\ plan[m] \in Seq(Steps) /\ plan[m] # <<>> /\ OneCreate(plan[m])
      /\ Head(plan[m]) = step /\ plan' = [plan EXCEPT ![m] = Tail(@)]
      /\ plan \in [Managers -> Seq(Steps)]
  BY DEF Takes, Idle, Inv, TypeOK
<1>2. plan'[m] = Tail(plan[m]) /\ Has(plan[m], step)
  BY <1>1 DEF Has
<1> QED BY <1>1, <1>2, PlanNext DEF Inv

LEMMA BlamesTyped ==
  ASSUME NEW S, NEW why \in Damage, damaged \in [Ids -> SUBSET Damage],
         Blames(S, why) \/ UNCHANGED damaged
  PROVE  damaged' \in [Ids -> SUBSET Damage]
  BY DEF Blames

LEMMA InvTakes ==
  ASSUME Inv, NEW m \in Managers,
         \/ Unlink(m) \/ TruncateIndex(m) \/ WriteIndex(m) \/ CountEntry(m)
         \/ FillJournal(m) \/ RecountEntries(m) \/ \E s \in Ids : CreateEntry(m, s)
  PROVE  Inv'
<1>0. UNCHANGED loaded
  BY DEF Unlink, TruncateIndex, WriteIndex, CountEntry, FillJournal, RecountEntries, CreateEntry
<1>1. ASSUME NEW list, Bounded(list) PROVE list \in Seq(Session)
  BY <1>1 DEF Bounded
<1>2. CASE Unlink(m)
  <2>1. /\ Takes(m, "unlink") /\ UNCHANGED <<index, exported, sessions>>
    BY <1>2 DEF Unlink
  <2>2. damaged' \in [Ids -> SUBSET Damage]
    <3>1. "stale" \in Damage
      BY DEF Damage
    <3> QED BY <1>2, <3>1, BlamesTyped DEF Unlink, Inv, TypeOK
  <2>3. journal' \in [Ids -> Journal \cup {NoJournal}]
    BY <1>2 DEF Unlink, Inv, TypeOK
  <2>4. TypeOK'
    BY <1>2, <2>1, <2>2, <2>3, StepTaken DEF Unlink, Inv, TypeOK
  <2> QED BY <1>0, <2>1, <2>4, StepTaken, InvStep DEF Inv
<1>3. CASE TruncateIndex(m)
  <2>1. /\ Takes(m, "truncate") /\ index' = <<>> /\ UNCHANGED <<exported, sessions>>
    BY <1>3 DEF TruncateIndex
  <2>2. Bounded(<<>>)
    BY JournalAssumption DEF Bounded, Distinct
  <2>3. TypeOK'
    BY <1>1, <1>3, <2>1, <2>2, StepTaken DEF TruncateIndex, Inv, TypeOK, history
  <2> QED BY <1>0, <2>1, <2>2, <2>3, StepTaken, InvStep DEF Inv
<1>4. CASE WriteIndex(m)
  <2>1. /\ Takes(m, "write") /\ index' = sessions[m] /\ saved' = sessions[m]
        /\ UNCHANGED <<exported, sessions>>
    BY <1>4 DEF WriteIndex
  <2>2. damaged' \in [Ids -> SUBSET Damage]
    BY <1>4 DEF WriteIndex, Blames, Damage, Inv, TypeOK
  <2>3. victim' \in [Managers -> Ids \cup {NoId}] /\ target' \in [Managers -> Ids \cup {NoId}]
    BY <1>4 DEF WriteIndex, Inv, TypeOK
  <2>4. TypeOK'
    BY <1>4, <2>1, <2>2, <2>3, StepTaken DEF WriteIndex, Inv, TypeOK
  <2> QED BY <1>0, <2>1, <2>4, StepTaken, InvStep DEF Inv
<1>5. CASE CountEntry(m)
  <2> DEFINE s == target[m]
             list == sessions[m]
             counted == [id |-> s, count |-> Count(list, s) + 1]
  <2>1. /\ Takes(m, "count") /\ UNCHANGED <<index, exported>>
        /\ sessions' = [sessions EXCEPT ![m] =
             IF s \in IdsOf(list) THEN Append(Without(list, s), counted) ELSE list]
    BY <1>5 DEF CountEntry, files
  <2>2. Bounded(list)
    BY DEF Inv
  <2>3. Bounded(sessions'[m]) /\ Len(sessions'[m]) = Len(list)
    <3>1. CASE s \in IdsOf(list)
      <4>1. /\ Bounded(Without(list, s)) /\ Len(Without(list, s)) = Len(list) - 1
            /\ s \notin IdsOf(Without(list, s))
        BY <2>2, <3>1, WithoutShorter
      <4>2. Len(list) \in Nat /\ Len(list) <= MaxSessions /\ list \in Seq(Session)
        BY <2>2 DEF Bounded
      <4>3. s \in Ids /\ Count(list, s) \in Nat
        <5>1. Position(list, s) \in 1 .. Len(list) /\ list[Position(list, s)].id = s
          BY <3>1, <4>2, PositionFound
        <5>2. list[Position(list, s)] \in Session
          BY <4>2, <5>1
        <5> QED BY <3>1, <5>1, <5>2 DEF Count, Session
      <4>4. counted \in Session /\ counted.id = s
        BY <4>3 DEF Session
      <4>5. Len(Without(list, s)) < MaxSessions
        BY <4>1, <4>2, JournalAssumption
      <4>6. /\ Bounded(Append(Without(list, s), counted))
            /\ Len(Append(Without(list, s), counted)) = Len(list)
        BY <4>1, <4>2, <4>4, <4>5, AppendLonger
      <4> QED BY <2>1, <3>1, <4>6 DEF Inv, TypeOK
    <3>2. CASE s \notin IdsOf(list)
      BY <2>1, <2>2, <3>2 DEF Inv, TypeOK
    <3> QED BY <3>1, <3>2
  <2>4. sessions' \in [Managers -> Seq(Session)]
    BY <1>1, <2>1, <2>3 DEF Inv, TypeOK
  <2>5. TypeOK'
    BY <1>5, <2>1, <2>4, StepTaken DEF CountEntry, Inv, TypeOK, files, history
  <2>6. \A o \in Managers \ {m} : sessions'[o] = sessions[o]
    BY <2>1 DEF Inv, TypeOK
  <2> QED BY <1>0, <2>1, <2>3, <2>5, <2>6, StepTaken, InvStep DEF Inv
<1>6. CASE FillJournal(m)
  <2>1. /\ Takes(m, "fill") /\ UNCHANGED <<index, exported, sessions>>
        /\ journal' = [journal EXCEPT ![target[m]] = [lines |-> exported.lines, torn |-> FALSE]]
    BY <1>6 DEF FillJournal
  <2>2. exported # NoFile
    BY <2>1, StepTaken
  <2>3. journal' \in [Ids -> Journal \cup {NoJournal}]
    BY <2>1, <2>2 DEF Inv, TypeOK, Exported, Journal
  <2>4. TypeOK'
    BY <1>6, <2>1, <2>3, StepTaken DEF FillJournal, Inv, TypeOK, history
  <2> QED BY <1>0, <2>1, <2>4, StepTaken, InvStep DEF Inv
<1>7. CASE RecountEntries(m)
  <2> DEFINE list == sessions[m]
             recounted == [i \in 1 .. Len(list) |->
               IF list[i].id = target[m] THEN [list[i] EXCEPT !.count = Lines(target[m])]
                                         ELSE list[i]]
  <2>1. /\ Takes(m, "recount") /\ UNCHANGED <<index, exported>>
        /\ sessions' = [sessions EXCEPT ![m] = recounted]
    BY <1>7 DEF RecountEntries, files
  <2>2. Bounded(list) /\ Len(list) \in Nat /\ \A i \in 1 .. Len(list) : list[i] \in Session
    BY DEF Inv, Bounded
  <2>3. \A s \in Ids : Lines(s) \in Nat
    BY DEF Lines, Inv, TypeOK, Journal
  <2>4. \A i \in 1 .. Len(list) : recounted[i] \in Session /\ recounted[i].id = list[i].id
    BY <2>2, <2>3 DEF Session
  <2>5. recounted \in Seq(Session) /\ Len(recounted) = Len(list)
    <3>1. recounted \in [1 .. Len(list) -> Session]
      BY <2>4
    <3> HIDE DEF recounted
    <3> QED BY <2>2, <3>1
  <2>6. Bounded(recounted)
    <3> HIDE DEF recounted
    <3> QED BY <2>2, <2>4, <2>5 DEF Bounded, Distinct
  <2>7. sessions'[m] = recounted /\ \A o \in Managers \ {m} : sessions'[o] = sessions[o]
    BY <2>1 DEF Inv, TypeOK
  <2>8. sessions' \in [Managers -> Seq(Session)]
    <3> HIDE DEF recounted
    <3> QED BY <2>1, <2>5 DEF Inv, TypeOK
  <2>9. TypeOK'
    BY <1>7, <2>1, <2>8, StepTaken DEF RecountEntries, Inv, TypeOK, files, history
  <2> HIDE DEF recounted
  <2>10. /\ \A o \in Managers \ {m} : plan'[o] = plan[o] /\ loaded'[o] = loaded[o]
         /\ OneCreate(plan'[m]) /\ \A s : Has(plan'[m], s) => Has(plan[m], s)
    BY <1>0, <2>1, StepTaken
  <2>11. /\ Has(plan'[m], "create") => Len(sessions'[m]) < MaxSessions /\ loaded'[m]
         /\ Has(plan'[m], "fill") => exported # NoFile
    BY <1>0, <2>5, <2>7, <2>10 DEF Inv
  <2>12. Bounded(index') /\ Bounded(sessions'[m])
    BY <2>1, <2>6, <2>7 DEF Inv
  <2> QED BY <2>1, <2>7, <2>9, <2>10, <2>11, <2>12, InvStep
<1>8. ASSUME NEW s \in Ids, CreateEntry(m, s)
      PROVE  Inv'
  <2> DEFINE new == [id |-> s, count |-> 0]
  <2>1. /\ Takes(m, "create") /\ Fresh(s) /\ UNCHANGED <<index, exported>>
        /\ sessions' = [sessions EXCEPT ![m] = Append(@, new)]
    BY <1>8 DEF CreateEntry, files
  <2>2. new \in Session /\ new.id \notin IdsOf(sessions[m])
    BY <2>1 DEF Session, Fresh
  <2>3. Bounded(Append(sessions[m], new))
    BY <2>1, <2>2, StepTaken, AppendLonger DEF Inv
  <2>4. /\ sessions'[m] = Append(sessions[m], new)
        /\ \A o \in Managers \ {m} : sessions'[o] = sessions[o]
    BY <2>1 DEF Inv, TypeOK
  <2>5. sessions' \in [Managers -> Seq(Session)]
    BY <2>1, <2>2 DEF Inv, TypeOK
  <2>6. TypeOK'
    BY <1>8, <2>1, <2>5, StepTaken DEF CreateEntry, Inv, TypeOK, files
  <2> QED BY <1>0, <2>1, <2>3, <2>4, <2>6, StepTaken, InvStep DEF Inv
<1> QED BY <1>2, <1>3, <1>4, <1>5, <1>6, <1>7, <1>8

\* A step of a manager that is idle: what it plans has no session to create.
LEMMA InvIdles ==
  ASSUME Inv, TypeOK', NEW m \in Managers,
         \A o \in Managers \ {m} : /\ sessions'[o] = sessions[o] /\ plan'[o] = plan[o]
                                   /\ loaded'[o] = loaded[o],
         Bounded(sessions'[m]), UNCHANGED index,
         ~Has(plan'[m], "create"), ~Has(plan'[m], "fill"),
         exported' # exported => exported' # NoFile
  PROVE  Inv'
<1>1. OneCreate(plan'[m])
  BY DEF OneCreate, Has
<1> QED BY <1>1, InvStep DEF Inv

LEMMA InvCreation ==
  ASSUME Inv, NEW m \in Managers, NEW rest, Creation(m, rest),
         \/ rest = <<>>
         \/ rest = <<"fill", "recount">> \o Save /\ exported # NoFile
  PROVE  Inv'
<1> DEFINE full == Len(sessions[m]) >= MaxSessions
           before == IF full THEN <<"unlink">> \o Save ELSE <<>>
           after == Save \o rest
           steps == before \o <<"create">> \o after
<1>1. /\ plan' = [plan EXCEPT ![m] = before \o <<"create">> \o Save \o rest]
      /\ UNCHANGED <<files, loaded, target, crashes, history>>
      /\ created' \in 0 .. MaxCreated /\ loaded[m]
  BY JournalAssumption DEF Creation, Starts, Inv, TypeOK
<1>2. Save \in Seq(Steps \ {"create", "fill"})
  BY DEF Save, Steps
<1>3. before \in Seq(Steps \ {"create", "fill"})
  <2>1. <<"unlink">> \o Save \in Seq(Steps \ {"create", "fill"})
    <3>1. <<"unlink">> \in Seq(Steps \ {"create", "fill"})
      BY DEF Steps
    <3> QED BY <1>2, <3>1, ConcatProperties
  <2>2. <<>> \in Seq(Steps \ {"create", "fill"})
    OBVIOUS
  <2> QED BY <2>1, <2>2, Zenon
<1>4. after \in Seq(Steps \ {"create"}) /\ (Has(after, "fill") => exported # NoFile)
  <2>1. CASE rest = <<>>
    <3>1. after = Save
      BY <1>2, <2>1
    <3>2. ~Has(Save, "fill")
      BY <1>2 DEF Has, Steps
    <3> QED BY <1>2, <3>1, <3>2 DEF Steps
  <2>2. CASE rest = <<"fill", "recount">> \o Save /\ exported # NoFile
    <3>1. <<"fill", "recount">> \in Seq(Steps \ {"create"}) /\ Save \in Seq(Steps \ {"create"})
      BY DEF Save, Steps
    <3> QED BY <2>2, <3>1
  <2> QED BY <2>1, <2>2
<1>5. before \o <<"create">> \o Save \o rest = steps
  <2>1. rest \in Seq(Steps)
    <3>1. <<"fill", "recount">> \in Seq(Steps) /\ Save \in Seq(Steps) /\ <<>> \in Seq(Steps)
      BY DEF Steps, Save
    <3> QED BY <3>1, ConcatProperties
  <2>2. PICK first : first = before \o <<"create">>
    OBVIOUS
  <2>3. <<"create">> \in Seq(Steps) /\ before \in Seq(Steps) /\ Save \in Seq(Steps)
    BY <1>2, <1>3 DEF Steps
  <2>4. first \in Seq(Steps)
    BY <2>2, <2>3, ConcatProperties
  <2> HIDE DEF before
  <2>5. (first \o Save) \o rest = first \o (Save \o rest)
    BY <2>1, <2>3, <2>4, ConcatAssociative, SMTT(30)
  <2> QED BY <2>2, <2>5, Zenon
<1> HIDE DEF before, after
<1>6. /\ steps \in Seq(Steps) /\ OneCreate(steps)
      /\ Has(steps, "fill") => exported # NoFile
  BY <1>3, <1>4, PlanOf
<1>7. /\ plan'[m] = steps /\ plan' \in [Managers -> Seq(Steps)]
      /\ \A o \in Managers \ {m} : plan'[o] = plan[o]
  BY <1>1, <1>5, <1>6 DEF Inv, TypeOK
<1>8. Bounded(sessions[m]) /\ MaxSessions \in Nat \ {0}
  BY JournalAssumption DEF Inv
<1>9. /\ Bounded(sessions'[m]) /\ Len(sessions'[m]) < MaxSessions
      /\ sessions' \in [Managers -> Seq(Session)]
      /\ \A o \in Managers \ {m} : sessions'[o] = sessions[o]
      /\ victim' \in [Managers -> Ids \cup {NoId}]
  <2>1. CASE full
    <3>1. /\ sessions' = [sessions EXCEPT ![m] = Tail(@)]
          /\ victim' = [victim EXCEPT ![m] = Head(sessions[m]).id]
      BY <2>1 DEF Creation
    <3>2. Len(sessions[m]) \in Nat /\ sessions[m] # <<>> /\ Len(sessions[m]) <= MaxSessions
      BY <1>8, <2>1 DEF Bounded
    <3>3. Bounded(Tail(sessions[m])) /\ Len(Tail(sessions[m])) = Len(sessions[m]) - 1
      BY <1>8, <3>2, TailShorter
    <3>4. Head(sessions[m]) \in Session
      BY <1>8, <3>2 DEF Bounded
    <3>5. sessions'[m] = Tail(sessions[m]) /\ \A o \in Managers \ {m} : sessions'[o] = sessions[o]
      BY <3>1 DEF Inv, TypeOK
    <3>6. sessions' \in [Managers -> Seq(Session)]
      BY <3>1, <3>3 DEF Inv, TypeOK, Bounded
    <3>7. victim' \in [Managers -> Ids \cup {NoId}]
      BY <3>1, <3>4 DEF Inv, TypeOK, Session
    <3> QED BY <1>8, <3>2, <3>3, <3>5, <3>6, <3>7
  <2>2. CASE ~full
    <3>1. UNCHANGED <<sessions, victim>>
      BY <2>2 DEF Creation
    <3> QED BY <1>8, <2>2, <3>1 DEF Inv, TypeOK, Bounded
  <2> QED BY <2>1, <2>2
<1>10. TypeOK'
  BY <1>1, <1>7, <1>9 DEF Inv, TypeOK, files, history
<1>11. UNCHANGED <<index, exported>>
  BY <1>1 DEF files
<1> HIDE DEF steps
<1> QED BY <1>1, <1>6, <1>7, <1>9, <1>10, <1>11, InvStep DEF Inv

LEMMA InvStarts ==
  ASSUME Inv, NEW m \in Managers,
         \/ Load(m) \/ \E s \in Ids : DeleteSession(m, s) \/ AppendEntry(m, s)
         \/ \E s \in Ids, suffix \in BOOLEAN : ExportSession(m, s, suffix)
  PROVE  Inv'
<1>1. CASE Load(m)
  <2>1. /\ sessions' = [sessions EXCEPT ![m] = IF readable THEN index ELSE <<>>]
        /\ UNCHANGED <<index, exported, plan>>
        /\ ~loaded[m] /\ loaded' = [loaded EXCEPT ![m] = TRUE]
    BY <1>1 DEF Load, files
  <2>2. Bounded(<<>>)
    BY JournalAssumption DEF Bounded, Distinct
  <2>3. /\ Bounded(sessions'[m]) /\ \A o \in Managers \ {m} : sessions'[o] = sessions[o]
        /\ sessions' \in [Managers -> Seq(Session)]
    BY <2>1, <2>2 DEF Inv, TypeOK, Bounded
  <2>4. TypeOK'
    BY <1>1, <2>3 DEF Load, Inv, TypeOK, files, history
  <2> QED BY <2>1, <2>3, <2>4 DEF Inv
<1>2. ASSUME NEW s \in Ids, DeleteSession(m, s)
      PROVE  Inv'
  <2>1. /\ s \in IdsOf(sessions[m]) /\ plan' = [plan EXCEPT ![m] = <<"unlink">> \o Save]
        /\ sessions' = [sessions EXCEPT ![m] = Without(@, s)]
        /\ UNCHANGED <<index, exported, loaded>>
    BY <1>2 DEF DeleteSession, Starts, files
  <2>2. Bounded(Without(sessions[m], s))
    BY <2>1, WithoutShorter DEF Inv
  <2>3. /\ Bounded(sessions'[m]) /\ \A o \in Managers \ {m} : sessions'[o] = sessions[o]
        /\ sessions' \in [Managers -> Seq(Session)]
    BY <2>1, <2>2 DEF Inv, TypeOK, Bounded
  <2>4. /\ plan'[m] = <<"unlink">> \o Save /\ plan' \in [Managers -> Seq(Steps)]
        /\ \A o \in Managers \ {m} : plan'[o] = plan[o]
        /\ ~Has(plan'[m], "create") /\ ~Has(plan'[m], "fill")
    BY <2>1, PlanShort DEF Inv, TypeOK
  <2>5. TypeOK'
    BY <1>2, <2>3, <2>4 DEF DeleteSession, Inv, TypeOK, files, history
  <2> QED BY <2>1, <2>3, <2>4, <2>5, InvIdles
<1>3. ASSUME NEW s \in Ids, AppendEntry(m, s)
      PROVE  Inv'
  <2>1. /\ plan' = [plan EXCEPT ![m] = IF s \in IdsOf(sessions[m]) THEN <<"count">> \o Save ELSE <<>>]
        /\ journal' = [journal EXCEPT ![s] = Appended(@)]
        /\ target' = [target EXCEPT ![m] = s]
        /\ UNCHANGED <<index, exported, sessions, loaded>>
    BY <1>3 DEF AppendEntry, Starts
  <2>2. /\ plan' \in [Managers -> Seq(Steps)] /\ \A o \in Managers \ {m} : plan'[o] = plan[o]
        /\ ~Has(plan'[m], "create") /\ ~Has(plan'[m], "fill")
    BY <2>1, PlanShort DEF Inv, TypeOK
  <2>3. journal' \in [Ids -> Journal \cup {NoJournal}]
    BY <2>1 DEF Inv, TypeOK, Appended, Journal
  <2>4. target' \in [Managers -> Ids \cup {NoId}]
    BY <2>1 DEF Inv, TypeOK
  <2>5. damaged' \in [Ids -> SUBSET Damage]
    <3>1. "stale" \in Damage
      BY DEF Damage
    <3> QED BY <1>3, <3>1, BlamesTyped DEF AppendEntry, Inv, TypeOK
  <2>6. TypeOK'
    BY <1>3, <2>2, <2>3, <2>4, <2>5 DEF AppendEntry, Inv, TypeOK
  <2> QED BY <2>1, <2>2, <2>6, InvIdles DEF Inv
<1>4. ASSUME NEW s \in Ids, NEW suffix \in BOOLEAN, ExportSession(m, s, suffix)
      PROVE  Inv'
  <2>1. /\ journal[s] # NoJournal
        /\ exported' = [lines |-> journal[s].lines, gzip |-> suffix \/ Compress, suffix |-> suffix]
        /\ UNCHANGED <<index, sessions, plan, loaded>>
    BY <1>4 DEF ExportSession
  <2>2. journal[s].lines \in Nat /\ (suffix \/ Compress) \in BOOLEAN
    BY <2>1, JournalAssumption DEF Inv, TypeOK, Journal
  <2>3. exported' \in Exported
    BY <2>1, <2>2 DEF Exported
  <2>4. exported' # NoFile
    BY <2>3, JournalAssumption DEF Exported
  <2>5. TypeOK'
    BY <1>4, <2>3 DEF ExportSession, Inv, TypeOK, history
  <2> QED BY <2>1, <2>4, <2>5 DEF Inv
<1> QED BY <1>1, <1>2, <1>3, <1>4

LEMMA InvCrashes ==
  ASSUME Inv, NEW m \in Managers,
         \/ Crash(m) \/ \E s \in Ids : CrashInAppend(m, s)
         \/ \E written \in 0 .. MaxLines : CrashInImport(m, written)
  PROVE  Inv'
<1>1. /\ Dies(m) /\ UNCHANGED <<index, readable>>
  BY DEF Crash, CrashInAppend, CrashInImport
<1>2. /\ crashes' \in 0 .. MaxCrashes
      /\ sessions' = [sessions EXCEPT ![m] = <<>>] /\ loaded' = [loaded EXCEPT ![m] = FALSE]
      /\ plan' = [plan EXCEPT ![m] = <<>>]
      /\ victim' = [victim EXCEPT ![m] = NoId] /\ target' = [target EXCEPT ![m] = NoId]
      /\ UNCHANGED <<exported, created, saved>>
  BY <1>1, JournalAssumption DEF Dies, Inv, TypeOK
<1>3. damaged' \in [Ids -> SUBSET Damage]
  <2>1. CASE Crash(m)
    BY <2>1 DEF Crash, Inv, TypeOK
  <2>2. CASE ~Crash(m)
    <3>1. "torn" \in Damage
      BY DEF Damage
    <3> QED BY <2>2, <3>1, BlamesTyped DEF CrashInAppend, CrashInImport, Inv, TypeOK
  <2> QED BY <2>1, <2>2
<1>4. journal' \in [Ids -> Journal \cup {NoJournal}]
  <2>1. CASE Crash(m)
    BY <2>1 DEF Crash, Inv, TypeOK
  <2>2. ASSUME NEW s \in Ids, CrashInAppend(m, s)
        PROVE  journal' \in [Ids -> Journal \cup {NoJournal}]
    BY <2>2 DEF CrashInAppend, Inv, TypeOK, Journal
  <2>3. ASSUME NEW written \in 0 .. MaxLines, CrashInImport(m, written)
        PROVE  journal' \in [Ids -> Journal \cup {NoJournal}]
    <3>1. written \in Nat
      BY JournalAssumption
    <3> QED BY <2>3, <3>1 DEF CrashInImport, Inv, TypeOK, Journal
  <2> QED BY <2>1, <2>2, <2>3
<1>5. Bounded(<<>>) /\ ~Has(<<>>, "create") /\ ~Has(<<>>, "fill") /\ <<>> \in Seq(Steps)
  BY JournalAssumption DEF Bounded, Distinct, Has
<1>6. /\ plan' \in [Managers -> Seq(Steps)] /\ sessions' \in [Managers -> Seq(Session)]
      /\ plan'[m] = <<>> /\ sessions'[m] = <<>>
      /\ \A o \in Managers \ {m} : /\ sessions'[o] = sessions[o] /\ plan'[o] = plan[o]
                                   /\ loaded'[o] = loaded[o]
  BY <1>2, <1>5 DEF Inv, TypeOK, Bounded
<1>7. TypeOK'
  BY <1>1, <1>2, <1>3, <1>4, <1>6 DEF Inv, TypeOK
<1> QED BY <1>1, <1>2, <1>5, <1>6, <1>7, InvIdles

LEMMA InvNext == Inv /\ [Next]_vars => Inv'
<1> SUFFICES ASSUME Inv, [Next]_vars PROVE Inv'
  OBVIOUS
<1>1. CASE UNCHANGED vars
  BY <1>1 DEF vars, files, history, Inv, TypeOK
<1>2. CASE Next
  <2>1. PICK m \in Managers :
          \/ Load(m) \/ NewSession(m) \/ ImportSession(m) \/ Crash(m)
          \/ \E s \in Ids : DeleteSession(m, s) \/ AppendEntry(m, s) \/ CrashInAppend(m, s)
          \/ \E s \in Ids, suffix \in BOOLEAN : ExportSession(m, s, suffix)
          \/ Unlink(m) \/ TruncateIndex(m) \/ WriteIndex(m) \/ CountEntry(m)
          \/ FillJournal(m) \/ RecountEntries(m) \/ (\E s \in Ids : CreateEntry(m, s))
          \/ \E written \in 0 .. MaxLines : CrashInImport(m, written)
    BY <1>2 DEF Next
  <2>2. CASE NewSession(m) \/ ImportSession(m)
    BY <2>2, InvCreation DEF NewSession, ImportSession
  <2> QED BY <2>1, <2>2, InvStarts, InvCrashes, InvTakes
<1> QED BY <1>1, <1>2

\* The variables keep their types.
THEOREM TypeCorrect == Spec => []TypeOK
<1>1. Inv => TypeOK
  BY DEF Inv
<1> QED BY <1>1, InvInit, InvNext, PTL DEF Spec

\* No list of sessions, of a manager or in the index, exceeds max_sessions or
\* names one twice, whoever else uses the directory: new_session.
THEOREM SessionsAreBounded == Spec => []SessionsBounded
  BY InvBounded, InvInit, InvNext, PTL DEF Spec

-----------------------------------------------------------------------------
(***************************************************************************)
(* The order of the steps of an operation.  It saves last, removes or      *)
(* counts first, saves a removal before it creates, and recounts at once   *)
(* what it has filled.                                                     *)
(***************************************************************************)
Shape(p) ==
  /\ p # <<>> => p[Len(p)] = "write"
  /\ \A i \in 1 .. Len(p) :
       /\ p[i] \in {"unlink", "count"} => i = 1
       /\ p[i] = "create" /\ i > 1 => p[i - 1] = "write"
       /\ p[i] = "fill" => i < Len(p) /\ p[i + 1] = "recount"
       /\ \A j \in i + 1 .. Len(p) :
            /\ p[i] \in {"recount", "count"} => p[j] \notin {"fill", "recount"}
            /\ p[i] = "fill" => p[j] \notin {"fill", "create"}
  /\ Has(p, "unlink") /\ Has(p, "fill") => Has(p, "create")

LEMMA ShapeTail ==
  ASSUME NEW p \in Seq(Steps), p # <<>>, Shape(p)
  PROVE  /\ Shape(Tail(p)) /\ Tail(p) \in Seq(Steps)
         /\ \A step : Has(Tail(p), step) => Has(p, step)
         /\ \A step : Has(p, step) => step = Head(p) \/ Has(Tail(p), step)
         /\ ~Has(Tail(p), "unlink") /\ ~Has(Tail(p), "count")
         /\ Head(p) # "write" => Tail(p) # <<>> /\ Head(Tail(p)) # "create"
         /\ Head(p) = "fill" =>
              Has(Tail(p), "recount") /\ ~Has(Tail(p), "fill") /\ ~Has(Tail(p), "create")
         /\ Head(p) \in {"recount", "count"}
              => ~Has(Tail(p), "fill") /\ ~Has(Tail(p), "recount")
<1>1. Len(p) \in Nat \ {0} /\ Tail(p) \in Seq(Steps) /\ Len(Tail(p)) = Len(p) - 1
  OBVIOUS
<1>2. \A i \in 1 .. Len(Tail(p)) : Tail(p)[i] = p[i + 1] /\ i + 1 \in 1 .. Len(p)
  BY <1>1
<1>3. Head(p) = p[1] /\ 1 \in 1 .. Len(p)
  BY <1>1
<1>4. Shape(Tail(p))
  <2>1. Tail(p) # <<>> => Tail(p)[Len(Tail(p))] = "write"
    BY <1>1, <1>2 DEF Shape
  <2>2. ~Has(Tail(p), "unlink")
    BY <1>1, <1>2 DEF Has, Shape
  <2>3. \A i \in 1 .. Len(Tail(p)) :
          LET t == Tail(p)
          IN /\ t[i] \in {"unlink", "count"} => i = 1
             /\ t[i] = "create" /\ i > 1 => t[i - 1] = "write"
             /\ t[i] = "fill" => i < Len(t) /\ t[i + 1] = "recount"
             /\ \A j \in i + 1 .. Len(t) :
                  /\ t[i] \in {"recount", "count"} => t[j] \notin {"fill", "recount"}
                  /\ t[i] = "fill" => t[j] \notin {"fill", "create"}
    BY <1>1, <1>2 DEF Shape
  <2> QED BY <2>1, <2>2, <2>3 DEF Shape
<1>5. \A step : Has(Tail(p), step) => Has(p, step)
  BY <1>2 DEF Has
<1>6. \A i \in 2 .. Len(p) : i - 1 \in 1 .. Len(Tail(p)) /\ Tail(p)[i - 1] = p[i]
  BY <1>1, <1>2
<1>7. \A step : Has(p, step) => step = Head(p) \/ Has(Tail(p), step)
  BY <1>1, <1>3, <1>6 DEF Has
<1>8. ~Has(Tail(p), "unlink") /\ ~Has(Tail(p), "count")
  BY <1>1, <1>2 DEF Has, Shape
<1>9. Head(p) # "write" => Tail(p) # <<>> /\ Head(Tail(p)) # "create"
  <2> SUFFICES ASSUME Head(p) # "write" PROVE Tail(p) # <<>> /\ Head(Tail(p)) # "create"
    OBVIOUS
  <2>1. Len(p) > 1
    BY <1>1, <1>3 DEF Shape
  <2>2. p[2] # "create"
    <3>1. 2 \in 1 .. Len(p) /\ 2 > 1 /\ 2 - 1 = 1
      BY <1>1, <2>1
    <3>2. p[2] = "create" => p[2 - 1] = "write"
      BY <3>1 DEF Shape
    <3> QED BY <1>3, <3>1, <3>2
  <2>3. Tail(p)[1] = p[2]
    <3>1. 1 \in 1 .. Len(Tail(p)) /\ 1 + 1 = 2
      BY <1>1, <2>1
    <3> QED BY <1>2, <3>1
  <2>4. Tail(p) # <<>> /\ Head(Tail(p)) = Tail(p)[1]
    <3>1. PICK t : t = Tail(p)
      OBVIOUS
    <3>2. t \in Seq(Steps) /\ Len(t) # 0
      BY <1>1, <2>1, <3>1
    <3>3. t # <<>> /\ Head(t) = t[1]
      BY <3>2
    <3> QED BY <3>1, <3>3
  <2> QED BY <2>2, <2>3, <2>4
<1>10. ASSUME p[1] = "fill"
       PROVE  Has(Tail(p), "recount") /\ ~Has(Tail(p), "fill") /\ ~Has(Tail(p), "create")
  <2>1. 1 < Len(p) /\ p[2] = "recount"
    BY <1>1, <1>3, <1>10 DEF Shape
  <2>2. Has(Tail(p), "recount")
    <3>1. 2 \in 2 .. Len(p) /\ 2 - 1 = 1
      BY <1>1, <2>1
    <3>2. 1 \in 1 .. Len(Tail(p)) /\ Tail(p)[1] = p[2]
      BY <1>6, <3>1
    <3> QED BY <2>1, <3>2 DEF Has
  <2>3. \A j \in 2 .. Len(p) : p[j] \notin {"fill", "create"}
    BY <1>1, <1>3, <1>10 DEF Shape
  <2> QED BY <1>1, <1>2, <2>2, <2>3 DEF Has
<1>11. ASSUME p[1] \in {"recount", "count"}
       PROVE  ~Has(Tail(p), "fill") /\ ~Has(Tail(p), "recount")
  <2>1. \A j \in 2 .. Len(p) : p[j] \notin {"fill", "recount"}
    BY <1>1, <1>3, <1>11 DEF Shape
  <2> QED BY <1>1, <1>2, <2>1 DEF Has
<1> QED BY <1>1, <1>3, <1>4, <1>5, <1>7, <1>8, <1>9, <1>10, <1>11

LEMMA ShapeConcat ==
  ASSUME NEW p \in Seq(Steps \ {"count", "fill", "recount"}), Shape(p),
         NEW q \in Seq(Steps \ {"unlink", "count"}), Shape(q), q # <<>>,
         Has(p, "unlink") => Has(q, "create")
  PROVE  Shape(p \o q) /\ p \o q # <<>>
<1> DEFINE r == p \o q
<1>1. /\ p \in Seq(Steps) /\ q \in Seq(Steps) /\ r \in Seq(Steps)
      /\ Len(p) \in Nat /\ Len(q) \in Nat \ {0} /\ Len(r) = Len(p) + Len(q)
  OBVIOUS
<1>2. \A i \in 1 .. Len(p) : r[i] = p[i] /\ p[i] \notin {"count", "fill", "recount"}
  OBVIOUS
<1>3. \A i \in 1 .. Len(q) : r[Len(p) + i] = q[i] /\ q[i] \notin {"unlink", "count"}
  OBVIOUS
<1> HIDE DEF r
<1>4. \A i \in 1 .. Len(r) :
        i \in 1 .. Len(p) \/ (i > Len(p) /\ i - Len(p) \in 1 .. Len(q)
                              /\ r[i] = q[i - Len(p)] /\ q[i - Len(p)] \notin {"unlink", "count"})
  <2> SUFFICES ASSUME NEW i \in 1 .. Len(r), i > Len(p)
               PROVE  /\ i - Len(p) \in 1 .. Len(q) /\ r[i] = q[i - Len(p)]
                      /\ q[i - Len(p)] \notin {"unlink", "count"}
    BY <1>1
  <2>1. i - Len(p) \in 1 .. Len(q) /\ Len(p) + (i - Len(p)) = i
    BY <1>1
  <2> QED BY <1>3, <2>1
<1>5. r[Len(r)] = "write"
  BY <1>1, <1>3 DEF Shape
<1>6. ASSUME NEW i \in 1 .. Len(p)
      PROVE  /\ r[i] \in {"unlink", "count"} => i = 1
             /\ r[i] = "create" /\ i > 1 => r[i - 1] = "write"
             /\ r[i] \notin {"fill", "recount", "count"}
  <2>1. r[i] = p[i] /\ p[i] \notin {"count", "fill", "recount"}
    BY <1>2
  <2>2. i > 1 => i - 1 \in 1 .. Len(p) /\ r[i - 1] = p[i - 1]
    <3>1. i > 1 => i - 1 \in 1 .. Len(p)
      BY <1>1
    <3> QED BY <1>2, <3>1
  <2>3. /\ p[i] \in {"unlink", "count"} => i = 1
        /\ p[i] = "create" /\ i > 1 => p[i - 1] = "write"
    BY DEF Shape
  <2> QED BY <2>1, <2>2, <2>3
<1>7. ASSUME NEW i \in 1 .. Len(r), i > Len(p)
      PROVE  /\ r[i] \notin {"unlink", "count"}
             /\ r[i] = "create" /\ i > 1 => r[i - 1] = "write"
             /\ r[i] = "fill" => i < Len(r) /\ r[i + 1] = "recount"
             /\ \A j \in i + 1 .. Len(r) :
                  /\ r[i] \in {"recount", "count"} => r[j] \notin {"fill", "recount"}
                  /\ r[i] = "fill" => r[j] \notin {"fill", "create"}
  <2>1. PICK n : n = i - Len(p)
    OBVIOUS
  <2>2. n \in 1 .. Len(q) /\ i = Len(p) + n /\ r[i] = q[n] /\ q[n] \notin {"unlink", "count"}
    BY <1>1, <1>4, <1>7, <2>1
  <2>3. r[i] = "create" /\ i > 1 => r[i - 1] = "write"
    <3>1. CASE n = 1
      BY <1>1, <1>2, <2>2, <3>1 DEF Shape
    <3>2. CASE n > 1
      <4>1. n - 1 \in 1 .. Len(q) /\ Len(p) + (n - 1) = i - 1
        BY <1>1, <2>2, <3>2
      <4>2. r[i - 1] = q[n - 1]
        BY <1>3, <4>1
      <4> QED BY <2>2, <3>2, <4>2 DEF Shape
    <3> QED BY <1>1, <2>2, <3>1, <3>2
  <2>4. r[i] = "fill" => i < Len(r) /\ r[i + 1] = "recount"
    <3> SUFFICES ASSUME q[n] = "fill" PROVE i < Len(r) /\ r[i + 1] = "recount"
      BY <2>2
    <3>1. n < Len(q) /\ q[n + 1] = "recount"
      BY <2>2 DEF Shape
    <3>2. n + 1 \in 1 .. Len(q) /\ Len(p) + (n + 1) = i + 1
      BY <1>1, <2>2, <3>1
    <3> QED BY <1>1, <1>3, <2>2, <3>1, <3>2
  <2>5. ASSUME NEW j \in i + 1 .. Len(r)
        PROVE  /\ r[i] \in {"recount", "count"} => r[j] \notin {"fill", "recount"}
               /\ r[i] = "fill" => r[j] \notin {"fill", "create"}
    <3>1. PICK k : k = j - Len(p)
      OBVIOUS
    <3>2. k \in n + 1 .. Len(q) /\ r[j] = q[k]
      BY <1>1, <1>4, <2>2, <3>1
    <3> QED BY <2>2, <3>2 DEF Shape
  <2> QED BY <2>2, <2>3, <2>4, <2>5
<1>8. \A i \in 1 .. Len(r) : i \in 1 .. Len(p) \/ i > Len(p)
  BY <1>1
<1>9. Has(r, "unlink") => Has(r, "create")
  <2> SUFFICES ASSUME NEW i \in 1 .. Len(r), r[i] = "unlink" PROVE Has(r, "create")
    BY DEF Has
  <2>1. i \in 1 .. Len(p) /\ p[i] = "unlink"
    BY <1>2, <1>7, <1>8
  <2>2. PICK n \in 1 .. Len(q) : q[n] = "create"
    BY <2>1 DEF Has
  <2>3. r[Len(p) + n] = "create" /\ Len(p) + n \in 1 .. Len(r)
    BY <1>1, <1>3, <2>2
  <2> QED BY <2>3 DEF Has
<1>10. \A i \in 1 .. Len(r) :
         /\ r[i] \in {"unlink", "count"} => i = 1
         /\ r[i] = "create" /\ i > 1 => r[i - 1] = "write"
         /\ r[i] = "fill" => i < Len(r) /\ r[i + 1] = "recount"
         /\ \A j \in i + 1 .. Len(r) :
              /\ r[i] \in {"recount", "count"} => r[j] \notin {"fill", "recount"}
              /\ r[i] = "fill" => r[j] \notin {"fill", "create"}
  BY <1>6, <1>7, <1>8
<1>11. r # <<>>
  BY <1>1
<1> QED BY <1>5, <1>9, <1>10, <1>11 DEF Shape, r

\* The operations have plans of that shape.
LEMMA ShapeShort ==
  /\ Save = <<"truncate", "write">> /\ Shape(<<>>) /\ Shape(Save)
  /\ <<"unlink">> \o Save = <<"unlink", "truncate", "write">>
  /\ <<"count">> \o Save = <<"count", "truncate", "write">>
  /\ <<"create">> \o Save = <<"create", "truncate", "write">>
  /\ <<"fill", "recount">> \o Save = <<"fill", "recount", "truncate", "write">>
<1>1. /\ Save \in Seq(Steps) /\ Len(Save) = 2 /\ Save[1] = "truncate" /\ Save[2] = "write"
      /\ Save = <<"truncate", "write">>
  BY DEF Save, Steps
<1>2. ASSUME NEW step \in Steps
      PROVE  <<step>> \o Save = <<step, "truncate", "write">>
  <2> DEFINE p == <<step>> \o Save
  <2>1. <<step>> \in Seq(Steps) /\ Len(<<step>>) = 1
    OBVIOUS
  <2>2. p \in Seq(Steps) /\ Len(p) = 3 /\ p[1] = step /\ p[2] = "truncate" /\ p[3] = "write"
    BY <1>1, <2>1
  <2> HIDE DEF p
  <2>3. p = <<step, "truncate", "write">>
    BY <2>2
  <2> QED BY <2>3 DEF p
<1>3. <<"fill", "recount">> \o Save = <<"fill", "recount", "truncate", "write">>
  <2> DEFINE p == <<"fill", "recount">> \o Save
  <2>1. <<"fill", "recount">> \in Seq(Steps) /\ Len(<<"fill", "recount">>) = 2
    BY DEF Steps
  <2>2. /\ p \in Seq(Steps) /\ Len(p) = 4 /\ p[1] = "fill" /\ p[2] = "recount"
        /\ p[3] = "truncate" /\ p[4] = "write"
    BY <1>1, <2>1
  <2> HIDE DEF p
  <2>3. p = <<"fill", "recount", "truncate", "write">>
    BY <2>2
  <2> QED BY <2>3 DEF p
<1>4. Shape(<<>>) /\ Shape(<<"truncate", "write">>)
  BY DEF Shape, Has
<1>5. "unlink" \in Steps /\ "count" \in Steps /\ "create" \in Steps
  BY DEF Steps
<1> QED BY <1>1, <1>2, <1>3, <1>4, <1>5

LEMMA ShapeJoined ==
  ASSUME NEW before \in Seq(Steps \ {"count", "fill", "recount"}), Shape(before),
         NEW rest \in Seq(Steps \ {"unlink", "count"}), Shape(rest)
  PROVE  LET p == before \o <<"create">> \o Save \o rest
         IN /\ Shape(p) /\ p # <<>>
            /\ before # <<>> /\ Head(before) = "unlink" =>
                 Has(p, "unlink") /\ Has(p, "create") /\ Head(p) = "unlink"
<1>1. PICK middle : middle = <<"create">> \o Save
  OBVIOUS
<1>2. middle = <<"create", "truncate", "write">>
  BY <1>1, ShapeShort
<1>3. /\ middle \in Seq(Steps \ {"unlink", "count", "fill", "recount"})
      /\ Shape(middle) /\ middle # <<>>
      /\ ~Has(middle, "unlink") /\ Len(middle) = 3 /\ middle[1] = "create"
  <2>1. Shape(<<"create", "truncate", "write">>)
    BY DEF Shape, Has
  <2>2. <<"create", "truncate", "write">> \in Seq(Steps \ {"unlink", "count", "fill", "recount"})
    BY DEF Steps
  <2>3. ~Has(<<"create", "truncate", "write">>, "unlink")
    BY DEF Has
  <2> QED BY <1>2, <2>1, <2>2, <2>3
<1>4. PICK after : after = middle \o rest
  OBVIOUS
<1>5. /\ after \in Seq(Steps \ {"unlink", "count"}) /\ Shape(after) /\ after # <<>>
      /\ after[1] = "create" /\ 1 \in 1 .. Len(after)
  <2>1. CASE rest = <<>>
    <3>1. middle \in Seq(Steps \ {"unlink", "count"})
      BY <1>3
    <3>2. after = middle
      BY <1>4, <2>1, <3>1
    <3> QED BY <1>3, <3>1, <3>2
  <2>2. CASE rest # <<>>
    <3>1. /\ middle \in Seq(Steps \ {"count", "fill", "recount"})
          /\ middle \in Seq(Steps \ {"unlink", "count"})
      BY <1>3
    <3>2. Shape(after) /\ after # <<>>
      BY <1>3, <1>4, <2>2, <3>1, ShapeConcat
    <3>3. /\ after \in Seq(Steps \ {"unlink", "count"}) /\ 1 \in 1 .. Len(after)
          /\ after[1] = middle[1]
      BY <1>3, <1>4, <3>1
    <3> QED BY <1>3, <3>2, <3>3
  <2> QED BY <2>1, <2>2
<1>6. PICK p : p = before \o <<"create">> \o Save \o rest
  OBVIOUS
<1>7. p = before \o after
  <2>1. PICK c : c = <<"create">>
    OBVIOUS
  <2>2. PICK save : save = Save
    OBVIOUS
  <2>3. c \in Seq(Steps) /\ save \in Seq(Steps)
    BY <2>1, <2>2 DEF Save, Steps
  <2>4. before \in Seq(Steps) /\ rest \in Seq(Steps)
    OBVIOUS
  <2>5. middle = c \o save /\ middle \in Seq(Steps)
    BY <1>1, <1>3, <2>1, <2>2
  <2>6. (before \o c) \o save = before \o (c \o save)
    BY <2>3, <2>4, ConcatAssociative, SMTT(30)
  <2>7. (before \o middle) \o rest = before \o (middle \o rest)
    BY <2>4, <2>5, ConcatAssociative, SMTT(30)
  <2> QED BY <1>4, <1>6, <2>1, <2>2, <2>5, <2>6, <2>7, Zenon
<1>8. before \in Seq(Steps) /\ after \in Seq(Steps) /\ Has(after, "create")
  BY <1>5 DEF Has
<1>9. ASSUME before # <<>>, Head(before) = "unlink"
      PROVE  Has(p, "unlink") /\ Has(p, "create") /\ Head(p) = "unlink"
  <2>1. p[1] = "unlink" /\ 1 \in 1 .. Len(p) /\ Head(p) = p[1]
    BY <1>7, <1>8, <1>9
  <2>2. p[Len(before) + 1] = "create" /\ Len(before) + 1 \in 1 .. Len(p)
    BY <1>5, <1>7, <1>8
  <2> QED BY <2>1, <2>2 DEF Has
<1>10. Shape(p) /\ p # <<>>
  BY <1>5, <1>7, <1>8, ShapeConcat
<1> QED BY <1>6, <1>9, <1>10

LEMMA ShapeCreation ==
  ASSUME NEW full \in BOOLEAN, NEW rest, rest \in {<<>>, <<"fill", "recount">> \o Save}
  PROVE  LET p == (IF full THEN <<"unlink">> \o Save ELSE <<>>)
                    \o <<"create">> \o Save \o rest
         IN /\ Shape(p) /\ p # <<>>
            /\ full => Has(p, "unlink") /\ Has(p, "create") /\ Head(p) = "unlink"
<1>1. PICK before : before = IF full THEN <<"unlink">> \o Save ELSE <<>>
  OBVIOUS
<1>2. before = IF full THEN <<"unlink", "truncate", "write">> ELSE <<>>
  BY <1>1, ShapeShort
<1>3. before \in Seq(Steps \ {"count", "fill", "recount"}) /\ Shape(before)
  <2>1. <<"unlink", "truncate", "write">> \in Seq(Steps \ {"count", "fill", "recount"})
    BY DEF Steps
  <2>2. Shape(<<"unlink", "truncate", "write">>)
    BY DEF Shape, Has
  <2>3. <<>> \in Seq(Steps \ {"count", "fill", "recount"})
    OBVIOUS
  <2> QED BY <1>2, <2>1, <2>2, <2>3, ShapeShort
<1>4. full => before # <<>> /\ Head(before) = "unlink"
  BY <1>2
<1>5. rest \in Seq(Steps \ {"unlink", "count"}) /\ Shape(rest)
  <2>1. <<"fill", "recount", "truncate", "write">> \in Seq(Steps \ {"unlink", "count"})
    BY DEF Steps
  <2>2. Shape(<<"fill", "recount", "truncate", "write">>)
    BY DEF Shape, Has
  <2>3. rest = <<>> \/ rest = <<"fill", "recount", "truncate", "write">>
    BY ShapeShort
  <2>4. <<>> \in Seq(Steps \ {"unlink", "count"})
    OBVIOUS
  <2> QED BY <2>1, <2>2, <2>3, <2>4, ShapeShort
<1> QED BY <1>1, <1>3, <1>4, <1>5, ShapeJoined

-----------------------------------------------------------------------------
(***************************************************************************)
(* Counts.                                                                 *)
(***************************************************************************)

\* An entry gives the count of its session; a session without one has none.
LEMMA CountFound ==
  ASSUME NEW list \in Seq(Session), Distinct(list), NEW i \in 1 .. Len(list)
  PROVE  list[i].id \in IdsOf(list) /\ Count(list, list[i].id) = list[i].count
<1> DEFINE s == list[i].id
<1>1. s \in IdsOf(list)
  BY DEF IdsOf
<1>2. Position(list, s) \in 1 .. Len(list) /\ list[Position(list, s)].id = s
  BY <1>1, PositionFound
<1>3. Position(list, s) = i
  BY <1>2 DEF Distinct
<1> QED BY <1>1, <1>3 DEF Count

LEMMA CountTyped ==
  ASSUME NEW list \in Seq(Session), NEW s
  PROVE  Count(list, s) \in Nat /\ (s \notin IdsOf(list) => Count(list, s) = 0)
<1>1. CASE s \in IdsOf(list)
  <2>1. Position(list, s) \in 1 .. Len(list)
    BY <1>1, PositionFound
  <2>2. list[Position(list, s)] \in Session
    BY <2>1
  <2> QED BY <1>1, <2>2 DEF Count, Session
<1>2. CASE s \notin IdsOf(list)
  BY <1>2 DEF Count
<1> QED BY <1>1, <1>2

\* The entry appended to a list is counted with it.
LEMMA CountAppended ==
  ASSUME NEW list, Bounded(list), NEW e \in Session, e.id \notin IdsOf(list),
         Len(list) < MaxSessions
  PROVE  /\ Count(Append(list, e), e.id) = e.count
         /\ IdsOf(Append(list, e)) = IdsOf(list) \cup {e.id}
<1>1. list \in Seq(Session) /\ Len(list) \in Nat
  BY DEF Bounded
<1>2. PICK new : new = Append(list, e)
  OBVIOUS
<1>3. /\ new \in Seq(Session) /\ Distinct(new)
      /\ Len(new) = Len(list) + 1 /\ new[Len(new)] = e
      /\ \A i \in 1 .. Len(list) : new[i] = list[i]
  BY <1>1, <1>2, AppendLonger DEF Bounded
<1>4. Len(new) \in 1 .. Len(new)
  BY <1>1, <1>3
<1>5. Count(new, e.id) = e.count /\ e.id \in IdsOf(new)
  BY <1>3, <1>4, CountFound
<1>6. IdsOf(new) = IdsOf(list) \cup {e.id}
  <2>1. \A i \in 1 .. Len(new) : i \in 1 .. Len(list) \/ i = Len(new)
    BY <1>1, <1>3
  <2>2. \A i \in 1 .. Len(list) : i \in 1 .. Len(new)
    BY <1>1, <1>3
  <2>3. \A s \in IdsOf(new) : s \in IdsOf(list) \cup {e.id}
    BY <1>3, <2>1 DEF IdsOf
  <2>4. \A s \in IdsOf(list) : s \in IdsOf(new)
    BY <1>3, <2>2 DEF IdsOf
  <2> QED BY <1>5, <2>3, <2>4
<1> QED BY <1>2, <1>5, <1>6

\* A session counted again is still listed, and no other is.
LEMMA CountRaised ==
  ASSUME NEW list, Bounded(list), NEW s \in IdsOf(list), NEW c \in Nat
  PROVE  LET new == Append(Without(list, s), [id |-> s, count |-> c])
         IN Count(new, s) = c /\ s \in IdsOf(new) /\ IdsOf(new) \subseteq IdsOf(list)
<1>1. PICK rest : rest = Without(list, s)
  OBVIOUS
<1>2. /\ Bounded(rest) /\ Len(rest) = Len(list) - 1 /\ s \notin IdsOf(rest)
      /\ list \in Seq(Session) /\ Len(list) \in Nat /\ Len(list) <= MaxSessions
  BY <1>1, WithoutShorter DEF Bounded
<1>3. IdsOf(rest) \subseteq IdsOf(list)
  <2>1. \A j \in 1 .. Len(rest) :
          /\ rest[j] = IF j < Position(list, s) THEN list[j] ELSE list[j + 1]
          /\ j \in 1 .. Len(list) /\ j + 1 \in 1 .. Len(list)
    BY <1>1, <1>2 DEF Without
  <2> QED BY <2>1 DEF IdsOf
<1>4. PICK e : e = [id |-> s, count |-> c]
  OBVIOUS
<1>5. s \in Ids
  <2>1. Position(list, s) \in 1 .. Len(list) /\ list[Position(list, s)].id = s
    BY <1>2, PositionFound
  <2>2. list[Position(list, s)] \in Session
    BY <1>2, <2>1
  <2> QED BY <2>1, <2>2 DEF Session
<1>6. e \in Session /\ e.id = s /\ e.count = c
  BY <1>4, <1>5 DEF Session
<1>7. Len(rest) < MaxSessions
  BY <1>2, JournalAssumption
<1>8. /\ Count(Append(rest, e), s) = c
      /\ IdsOf(Append(rest, e)) = IdsOf(rest) \cup {s}
  BY <1>2, <1>6, <1>7, CountAppended
<1> QED BY <1>1, <1>3, <1>4, <1>8

LEMMA CountSet ==
  ASSUME NEW list, Bounded(list), NEW s, NEW c \in Nat
  PROVE  LET new == [i \in 1 .. Len(list) |->
                       IF list[i].id = s THEN [list[i] EXCEPT !.count = c] ELSE list[i]]
         IN IdsOf(new) = IdsOf(list) /\ (s \in IdsOf(list) => Count(new, s) = c)
<1>1. PICK new : new = [i \in 1 .. Len(list) |->
                       IF list[i].id = s THEN [list[i] EXCEPT !.count = c] ELSE list[i]]
  OBVIOUS
<1>2. list \in Seq(Session) /\ Len(list) \in Nat /\ \A i \in 1 .. Len(list) : list[i] \in Session
  BY DEF Bounded
<1>3. \A i \in 1 .. Len(list) : /\ new[i] \in Session /\ new[i].id = list[i].id
                                /\ list[i].id = s => new[i].count = c
  BY <1>1, <1>2 DEF Session
<1>4. new \in Seq(Session) /\ Len(new) = Len(list)
  <2>1. new \in [1 .. Len(list) -> Session]
    BY <1>1, <1>3
  <2> QED BY <1>2, <2>1
<1>5. IdsOf(new) = IdsOf(list)
  BY <1>3, <1>4 DEF IdsOf
<1>6. Distinct(new)
  BY <1>3, <1>4 DEF Bounded, Distinct
<1>7. ASSUME s \in IdsOf(list) PROVE Count(new, s) = c
  <2>1. PICK i \in 1 .. Len(list) : list[i].id = s
    BY <1>7 DEF IdsOf
  <2>2. Count(new, new[i].id) = new[i].count
    BY <1>4, <1>6, CountFound
  <2> QED BY <1>3, <2>1, <2>2
<1> QED BY <1>1, <1>5, <1>7

\* The first session of a list is not one of the others.
LEMMA HeadRemoved ==
  ASSUME NEW list, Bounded(list), list # <<>>
  PROVE  Head(list).id \in Ids /\ Head(list).id \notin IdsOf(Tail(list))
<1>1. /\ list \in Seq(Session) /\ Len(list) \in Nat \ {0}
      /\ \A i, j \in 1 .. Len(list) : list[i].id = list[j].id => i = j
  BY DEF Bounded, Distinct
<1>2. Len(Tail(list)) = Len(list) - 1 /\ Head(list) = list[1] /\ 1 \in 1 .. Len(list)
  BY <1>1
<1>3. \A i \in 1 .. Len(Tail(list)) :
        Tail(list)[i] = list[i + 1] /\ i + 1 \in 1 .. Len(list) /\ i + 1 # 1
  <2>1. \A i \in 1 .. Len(Tail(list)) : Tail(list)[i] = list[i + 1]
    BY <1>1
  <2>2. \A i \in 1 .. Len(Tail(list)) : i + 1 \in 1 .. Len(list) /\ i + 1 # 1
    BY <1>1, <1>2
  <2> QED BY <2>1, <2>2
<1>4. list[1].id \in Ids
  <2>1. list[1] \in Session
    BY <1>1, <1>2
  <2> QED BY <2>1 DEF Session
<1> QED BY <1>1, <1>2, <1>3, <1>4 DEF IdsOf

-----------------------------------------------------------------------------
(***************************************************************************)
(* What makes the index right.  A session no process has died over or      *)
(* raced for is healthy; it may still lack the count of an append that a   *)
(* crash interrupted.                                                      *)
(***************************************************************************)
Healthy(s) == damaged[s] \subseteq {"append"}

\* The healthy session an operation adds to: no other operation does, and its
\* journal is what the operation has yet to count ahead of the manager's list.
Aims(m) ==
  LET s == target[m]
  IN s # NoId /\ Healthy(s) =>
       /\ plan[m] # <<>> /\ ~Has(plan[m], "unlink") /\ ~Has(plan[m], "create")
       /\ s \in IdsOf(sessions[m])
       /\ \A o \in Managers \ {m} : target[o] # s
       /\ Has(plan[m], "fill") => journal[s] = NoJournal
       /\ IF Has(plan[m], "recount") THEN Count(sessions[m], s) = 0
          ELSE IF Has(plan[m], "count") THEN Lines(s) = Count(sessions[m], s) + 1
          ELSE Lines(s) = Count(sessions[m], s)

\* The session an operation removes: out of its list at once, without journal
\* once that is unlinked.
Removes(m) ==
  LET s == victim[m]
  IN s # NoId =>
       /\ plan[m] # <<>> /\ s \notin IdsOf(sessions[m])
       /\ Healthy(s) /\ ~Has(plan[m], "unlink") =>
            journal[s] = NoJournal /\ \A o \in Managers : target[o] # s

\* An operation that creates has saved the removal before.
Removed(p) ==
  /\ p # <<>> /\ ~Has(p, "unlink")
  /\ Head(p) = "create" \/ (Has(p, "fill") /\ ~Has(p, "create"))
Gone(m) ==
  victim[m] # NoId /\ Healthy(victim[m]) /\ Removed(plan[m]) => victim[m] \notin IdsOf(saved)

Fits(m) ==
  /\ Shape(plan[m]) /\ Aims(m) /\ Removes(m)
  /\ ~loaded[m] => plan[m] = <<>> /\ victim[m] = NoId /\ target[m] = NoId

\* The last index written, for a session with or without an operation on it.
Whole(s) == Healthy(s) => journal[s] = NoJournal \/ ~journal[s].torn
Behind(s) == Healthy(s) /\ (\A m \in Managers : victim[m] # s) => Count(saved, s) <= Lines(s)
Right(s) ==
  damaged[s] = {} /\ ~Busy(s) =>
    Count(saved, s) = Lines(s) /\ (journal[s] # NoJournal => s \in IdsOf(saved))
Listed(s) == Whole(s) /\ Behind(s) /\ Right(s)

OnDisk == index = IF readable THEN saved ELSE <<>>

Exact ==
  /\ OnDisk
  /\ \A m \in Managers : Fits(m) /\ Gone(m)
  /\ \A s \in Ids : Listed(s)

LEMMA ExactIndex == Inv /\ Exact => IndexIsRight /\ NeverAhead
<1> SUFFICES ASSUME Inv, Exact PROVE IndexIsRight /\ NeverAhead
  OBVIOUS
<1>1. IndexIsRight
  BY DEF Exact, OnDisk, Listed, Right, IndexIsRight
<1>2. ASSUME NEW s \in Ids, Healthy(s), \A m \in Managers : victim[m] # s
      PROVE  Count(index, s) <= Lines(s)
  <2>1. Count(saved, s) <= Lines(s)
    BY <1>2 DEF Exact, Listed, Behind
  <2>2. Count(<<>>, s) = 0 /\ Lines(s) \in Nat
    BY DEF Count, IdsOf, Lines, Inv, TypeOK, Journal
  <2> QED BY <2>1, <2>2 DEF Exact, OnDisk
<1> QED BY <1>1, <1>2 DEF NeverAhead, Healthy

LEMMA ExactInit == Init => Exact
<1> SUFFICES ASSUME Init PROVE Exact
  OBVIOUS
<1>1. Shape(<<>>)
  BY ShapeShort
<1>2. \A m \in Managers : Fits(m) /\ Gone(m)
  BY <1>1 DEF Init, Fits, Gone, Aims, Removes
<1>3. \A s \in Ids : Lines(s) = 0 /\ Count(<<>>, s) = 0
  BY DEF Init, Lines, Count, IdsOf
<1>4. \A s \in Ids : Listed(s)
  BY <1>3 DEF Init, Listed, Whole, Behind, Right
<1> QED BY <1>2, <1>4 DEF Init, Exact, OnDisk

-----------------------------------------------------------------------------
(***************************************************************************)
(* What a step of one process leaves alone: everything of the others, and  *)
(* the journals and damage of all sessions but one.                        *)
(***************************************************************************)
Touches(m, x) ==
  /\ \A o \in Managers \ {m} :
       /\ plan'[o] = plan[o] /\ sessions'[o] = sessions[o] /\ loaded'[o] = loaded[o]
       /\ victim'[o] = victim[o] /\ target'[o] = target[o]
  /\ \A s \in Ids \ {x} : journal'[s] = journal[s] /\ damaged[s] \subseteq damaged'[s]
  /\ target'[m] \in {target[m], NoId, x}

\* The other processes' operations are as right as before, unless the session
\* touched is theirs and stays healthy.
LEMMA OthersFit ==
  ASSUME Inv, Exact, NEW m \in Managers, NEW x, Touches(m, x),
         x \in Ids /\ Healthy(x)' =>
           \A o \in Managers \ {m} :
             target[o] # x /\ (victim[o] = x => Has(plan[o], "unlink")),
         NEW o \in Managers \ {m}
  PROVE  Fits(o)'
<1>1. /\ plan'[o] = plan[o] /\ sessions'[o] = sessions[o] /\ loaded'[o] = loaded[o]
      /\ victim'[o] = victim[o] /\ target'[o] = target[o]
      /\ Fits(o) /\ victim[o] \in Ids \cup {NoId} /\ target[o] \in Ids \cup {NoId}
  BY DEF Touches, Exact, Inv, TypeOK
<1>2. \A p \in Managers : target'[p] \in {target[p], NoId, x}
  BY DEF Touches
<1>3. Aims(o)'
  <2>0. PICK s : s = target[o]
    OBVIOUS
  <2>1. SUFFICES ASSUME s # NoId, Healthy(s)'
                 PROVE  /\ plan[o] # <<>> /\ ~Has(plan[o], "unlink") /\ ~Has(plan[o], "create")
                        /\ s \in IdsOf(sessions[o])
                        /\ \A p \in Managers \ {o} : target'[p] # s
                        /\ Has(plan[o], "fill") => journal'[s] = NoJournal
                        /\ IF Has(plan[o], "recount") THEN Count(sessions[o], s) = 0
                           ELSE IF Has(plan[o], "count")
                             THEN Lines(s)' = Count(sessions[o], s) + 1
                           ELSE Lines(s)' = Count(sessions[o], s)
    BY <1>1, <2>0 DEF Aims, Healthy, Lines
  <2>2. s \in Ids /\ s # x
    BY <1>1, <2>0, <2>1
  <2>3. Healthy(s) /\ journal'[s] = journal[s]
    BY <2>1, <2>2 DEF Touches, Healthy
  <2>4. /\ plan[o] # <<>> /\ ~Has(plan[o], "unlink") /\ ~Has(plan[o], "create")
        /\ s \in IdsOf(sessions[o])
        /\ \A p \in Managers \ {o} : target[p] # s
        /\ Has(plan[o], "fill") => journal[s] = NoJournal
        /\ IF Has(plan[o], "recount") THEN Count(sessions[o], s) = 0
           ELSE IF Has(plan[o], "count") THEN Lines(s) = Count(sessions[o], s) + 1
           ELSE Lines(s) = Count(sessions[o], s)
    <3>1. Aims(o)
      BY <1>1 DEF Fits
    <3> QED BY <2>0, <2>1, <2>3, <3>1 DEF Aims
  <2>5. Lines(s)' = Lines(s)
    BY <2>3 DEF Lines
  <2>6. \A p \in Managers \ {o} : target'[p] # s
    BY <1>2, <2>1, <2>2, <2>4
  <2> QED BY <2>3, <2>4, <2>5, <2>6
<1>4. Removes(o)'
  <2>0. PICK s : s = victim[o]
    OBVIOUS
  <2>1. SUFFICES ASSUME s # NoId
                 PROVE  /\ plan[o] # <<>> /\ s \notin IdsOf(sessions[o])
                        /\ Healthy(s)' /\ ~Has(plan[o], "unlink") =>
                             journal'[s] = NoJournal /\ \A p \in Managers : target'[p] # s
    BY <1>1, <2>0 DEF Removes, Healthy
  <2>2. plan[o] # <<>> /\ s \notin IdsOf(sessions[o])
    BY <1>1, <2>0, <2>1 DEF Fits, Removes
  <2>3. ASSUME Healthy(s)', ~Has(plan[o], "unlink")
        PROVE  journal'[s] = NoJournal /\ \A p \in Managers : target'[p] # s
    <3>1. s \in Ids /\ s # x
      BY <1>1, <2>0, <2>1, <2>3
    <3>2. Healthy(s) /\ journal'[s] = journal[s]
      BY <2>3, <3>1 DEF Touches, Healthy
    <3>3. journal[s] = NoJournal /\ \A p \in Managers : target[p] # s
      BY <1>1, <2>0, <2>1, <2>3, <3>2 DEF Fits, Removes
    <3> QED BY <1>2, <2>1, <3>1, <3>2, <3>3
  <2> QED BY <2>2, <2>3
<1> QED BY <1>1, <1>3, <1>4 DEF Fits

\* What has been saved is as right as before of every session but the one
\* touched, where an operation that ends has damaged its sessions.
LEMMA OthersListed ==
  ASSUME Inv, Exact, NEW m \in Managers, NEW x, Touches(m, x), saved' = saved,
         NEW s \in Ids \ {x},
         s = victim[m] /\ victim'[m] # s => ~Healthy(s)',
         s = target[m] /\ target'[m] # s => damaged'[s] # {}
  PROVE  Listed(s)'
<1>1. Listed(s) /\ journal'[s] = journal[s] /\ damaged[s] \subseteq damaged'[s] /\ s # NoId
  BY JournalAssumption DEF Exact, Touches
<1>2. Lines(s)' = Lines(s)
  BY <1>1 DEF Lines
<1>3. Healthy(s)' => Healthy(s) /\ \A o \in Managers : victim[o] = s => victim'[o] = s
  BY <1>1 DEF Touches, Healthy
<1>4. damaged'[s] = {} => damaged[s] = {} /\ (Busy(s) => Busy(s)')
  <2> SUFFICES ASSUME damaged'[s] = {}
               PROVE  damaged[s] = {} /\ (Busy(s) => Busy(s)')
    OBVIOUS
  <2>1. damaged[s] = {} /\ Healthy(s)'
    BY <1>1 DEF Healthy
  <2>2. \A o \in Managers : target[o] = s => target'[o] = s
    BY <1>1 DEF Touches
  <2> QED BY <1>3, <2>1, <2>2 DEF Busy
<1>5. Whole(s)'
  BY <1>1, <1>3 DEF Listed, Whole
<1>6. Behind(s)'
  <2> SUFFICES ASSUME Healthy(s)', \A o \in Managers : victim'[o] # s
               PROVE  Count(saved, s) <= Lines(s)'
    BY DEF Behind, Healthy, Lines
  <2> QED BY <1>1, <1>2, <1>3 DEF Listed, Behind
<1>7. Right(s)'
  BY <1>1, <1>2, <1>4 DEF Listed, Right
<1> QED BY <1>5, <1>6, <1>7 DEF Listed

\* So are the removals under way.
LEMMA OthersGone ==
  ASSUME Inv, Exact, NEW m \in Managers, NEW x, Touches(m, x), saved' = saved,
         x \in Ids => Fresh(x) \/ damaged[x] \subseteq damaged'[x],
         NEW o \in Managers \ {m}
  PROVE  Gone(o)'
<1>1. /\ plan'[o] = plan[o] /\ victim'[o] = victim[o] /\ Gone(o)
      /\ victim[o] \in Ids \cup {NoId}
  BY DEF Touches, Exact, Inv, TypeOK
<1>2. victim[o] \in Ids /\ Healthy(victim[o])' => Healthy(victim[o])
  BY DEF Touches, Healthy, Fresh
<1> QED BY <1>1, <1>2 DEF Gone, Healthy

-----------------------------------------------------------------------------
(***************************************************************************)
(* The steps, one by one.                                                  *)
(***************************************************************************)

LEMMA ExactStep ==
  ASSUME Inv, Exact, NEW m \in Managers, NEW x, Touches(m, x), saved' = saved, OnDisk',
         Fits(m)', Gone(m)', \A s \in Ids : Listed(s)',
         x \in Ids => Fresh(x) \/ damaged[x] \subseteq damaged'[x],
         x \in Ids /\ Healthy(x)' =>
           \A o \in Managers \ {m} :
             target[o] # x /\ (victim[o] = x => Has(plan[o], "unlink"))
  PROVE  Exact'
<1>1. ASSUME NEW o \in Managers \ {m} PROVE Fits(o)' /\ Gone(o)'
  BY OthersFit, OthersGone
<1> QED BY <1>1 DEF Exact

\* A step that touches no session, of an operation that goes on.
LEMMA ExactQuiet ==
  ASSUME Inv, Exact, NEW m \in Managers, Touches(m, NoId), saved' = saved, OnDisk',
         Fits(m)', Gone(m)', target'[m] = target[m],
         victim[m] = NoId \/ victim'[m] = victim[m]
  PROVE  Exact'
<1>1. NoId \notin Ids
  BY JournalAssumption
<1>2. \A s \in Ids : Listed(s)'
  BY <1>1, OthersListed
<1> QED BY <1>1, <1>2, ExactStep

\* The next step of an operation.
LEMMA Taken ==
  ASSUME Inv, Exact, NEW m \in Managers, NEW step, Takes(m, step)
  PROVE  /\ plan[m] # <<>> /\ Head(plan[m]) = step /\ Has(plan[m], step)
         /\ plan[m] \in Seq(Steps) /\ plan'[m] = Tail(plan[m])
         /\ \A o \in Managers \ {m} : plan'[o] = plan[o]
         /\ Shape(plan'[m]) /\ loaded[m]
         /\ \A t : Has(plan'[m], t) => Has(plan[m], t)
         /\ \A t : Has(plan[m], t) => t = step \/ Has(plan'[m], t)
         /\ ~Has(plan'[m], "unlink") /\ ~Has(plan'[m], "count")
         /\ step # "write" => plan'[m] # <<>> /\ Head(plan'[m]) # "create"
         /\ step = "fill" =>
              Has(plan'[m], "recount") /\ ~Has(plan'[m], "fill") /\ ~Has(plan'[m], "create")
         /\ step \in {"recount", "count"} => ~Has(plan'[m], "fill") /\ ~Has(plan'[m], "recount")
         /\ Removed(plan'[m]) => step = "write" \/ step = "unlink" \/ Removed(plan[m])
         /\ ~(step = "unlink" /\ Removed(plan'[m]))
<1>1. /\ plan[m] \in Seq(Steps) /\ plan[m] # <<>> /\ Head(plan[m]) = step
      /\ plan' = [plan EXCEPT ![m] = Tail(@)] /\ plan \in [Managers -> Seq(Steps)]
  BY DEF Takes, Idle, Inv, TypeOK
<1>2. plan'[m] = Tail(plan[m]) /\ \A o \in Managers \ {m} : plan'[o] = plan[o]
  BY <1>1
<1>3. Shape(plan[m]) /\ loaded[m]
  BY <1>1 DEF Exact, Fits
<1>4. Has(plan[m], step)
  BY <1>1 DEF Has
<1>5. PICK p : p = plan[m]
  OBVIOUS
<1>6. PICK q : q = plan'[m]
  OBVIOUS
<1>7. /\ Shape(q) /\ \A t : Has(q, t) => Has(p, t)
      /\ \A t : Has(p, t) => t = step \/ Has(q, t)
      /\ ~Has(q, "unlink") /\ ~Has(q, "count")
      /\ step # "write" => q # <<>> /\ Head(q) # "create"
      /\ step = "fill" => Has(q, "recount") /\ ~Has(q, "fill") /\ ~Has(q, "create")
      /\ step \in {"recount", "count"} => ~Has(q, "fill") /\ ~Has(q, "recount")
  BY <1>1, <1>2, <1>3, <1>5, <1>6, ShapeTail
<1>8. Removed(q) => step = "write" \/ step = "unlink" \/ Removed(p)
  BY <1>1, <1>5, <1>7 DEF Removed
<1>9. ~(step = "unlink" /\ Removed(q))
  BY <1>1, <1>3, <1>4, <1>5, <1>7 DEF Removed, Shape
<1> QED BY <1>1, <1>2, <1>3, <1>4, <1>5, <1>6, <1>7, <1>8, <1>9

LEMMA Typing ==
  ASSUME Inv, NEW m \in Managers
  PROVE  /\ Bounded(sessions[m]) /\ sessions[m] \in Seq(Session)
         /\ victim[m] \in Ids \cup {NoId} /\ target[m] \in Ids \cup {NoId} /\ NoId \notin Ids
         /\ \A s \in Ids : /\ Lines(s) \in Nat /\ journal[s] \in Journal \cup {NoJournal}
                           /\ Count(saved, s) \in Nat /\ Count(sessions[m], s) \in Nat
                           /\ s \notin IdsOf(saved) => Count(saved, s) = 0
                           /\ s \notin IdsOf(sessions[m]) => Count(sessions[m], s) = 0
<1>1. Bounded(sessions[m]) /\ sessions[m] \in Seq(Session) /\ saved \in Seq(Session)
  BY DEF Inv, TypeOK
<1>2. \A s \in Ids : Lines(s) \in Nat /\ journal[s] \in Journal \cup {NoJournal}
  BY DEF Lines, Inv, TypeOK, Journal
<1> QED BY <1>1, <1>2, CountTyped, JournalAssumption DEF Inv, TypeOK

LEMMA ExactTruncate ==
  ASSUME Inv, Exact, NEW m \in Managers, TruncateIndex(m)
  PROVE  Exact'
<1>1. /\ Takes(m, "truncate") /\ readable' = FALSE /\ index' = <<>>
      /\ UNCHANGED <<journal, sessions, loaded, victim, target, saved, damaged>>
  BY DEF TruncateIndex, history
<1>2. Touches(m, NoId)
  BY <1>1, Taken DEF Touches
<1>3. OnDisk'
  BY <1>1 DEF OnDisk
<1>4. Aims(m) /\ Removes(m) /\ Gone(m)
  BY DEF Exact, Fits
<1>5. PICK q : q = plan'[m]
  OBVIOUS
<1>6. PICK p : p = plan[m]
  OBVIOUS
<1>7. /\ q # <<>> /\ Shape(q) /\ \A t : Has(q, t) => Has(p, t)
      /\ \A t : Has(p, t) => t = "truncate" \/ Has(q, t)
      /\ ~Has(q, "unlink") /\ (Removed(q) => Removed(p)) /\ loaded[m]
  BY <1>1, <1>5, <1>6, Taken
<1>8. Aims(m)'
  BY <1>1, <1>4, <1>5, <1>6, <1>7 DEF Aims, Healthy, Lines
<1>9. Removes(m)'
  BY <1>1, <1>4, <1>5, <1>6, <1>7 DEF Removes, Healthy
<1>10. Gone(m)'
  BY <1>1, <1>4, <1>5, <1>6, <1>7 DEF Gone, Healthy
<1>11. Fits(m)'
  BY <1>1, <1>5, <1>7, <1>8, <1>9 DEF Fits
<1> QED BY <1>1, <1>2, <1>3, <1>10, <1>11, ExactQuiet

LEMMA ExactCounts ==
  ASSUME Inv, Exact, NEW m \in Managers, CountEntry(m) \/ RecountEntries(m)
  PROVE  Exact'
<1>1. PICK step \in {"count", "recount"} :
        /\ Takes(m, step) /\ (step = "count" => CountEntry(m))
        /\ step = "recount" => RecountEntries(m)
  BY DEF CountEntry, RecountEntries
<1>2. UNCHANGED <<index, readable, journal, loaded, victim, target, saved, damaged>>
  BY DEF CountEntry, RecountEntries, files, history
<1>3. PICK s : s = target[m]
  OBVIOUS
<1>4. PICK list : list = sessions[m]
  OBVIOUS
<1>5. Bounded(list) /\ sessions \in [Managers -> Seq(Session)]
  BY <1>4 DEF Inv, TypeOK
<1>6. PICK new : new = sessions'[m]
  OBVIOUS
<1>7. s \in Ids \cup {NoId} /\ NoId \notin Ids /\ \A t \in Ids : Lines(t) \in Nat
  BY <1>3, Typing
<1>8. /\ \A o \in Managers \ {m} : sessions'[o] = sessions[o]
      /\ IdsOf(new) \subseteq IdsOf(list) /\ (s \in IdsOf(list) => s \in IdsOf(new))
      /\ step = "count" /\ s \in IdsOf(list) => Count(new, s) = Count(list, s) + 1
      /\ step = "recount" /\ s \in IdsOf(list) /\ s \in Ids => Count(new, s) = Lines(s)
  <2>1. CASE step = "count" /\ s \in IdsOf(list)
    <3>1. PICK c : c = Count(list, s) + 1
      OBVIOUS
    <3>2. PICK raised : raised = Append(Without(list, s), [id |-> s, count |-> c])
      OBVIOUS
    <3>3. sessions' = [sessions EXCEPT ![m] = raised]
      BY <1>1, <1>3, <1>4, <2>1, <3>1, <3>2 DEF CountEntry
    <3>4. c \in Nat
      BY <1>5, <3>1, CountTyped DEF Bounded
    <3>5. Count(raised, s) = c /\ s \in IdsOf(raised) /\ IdsOf(raised) \subseteq IdsOf(list)
      BY <1>5, <2>1, <3>2, <3>4, CountRaised
    <3>6. new = raised /\ \A o \in Managers \ {m} : sessions'[o] = sessions[o]
      BY <1>5, <1>6, <3>3
    <3> QED BY <2>1, <3>1, <3>5, <3>6
  <2>2. CASE step = "count" /\ s \notin IdsOf(list)
    BY <1>1, <1>3, <1>4, <1>5, <1>6, <2>2 DEF CountEntry
  <2>3. CASE step = "recount"
    <3>1. PICK c : c = Lines(s)
      OBVIOUS
    <3>2. PICK set : set = [i \in 1 .. Len(list) |->
                              IF list[i].id = s THEN [list[i] EXCEPT !.count = c] ELSE list[i]]
      OBVIOUS
    <3>3. sessions' = [sessions EXCEPT ![m] = set]
      BY <1>1, <1>3, <1>4, <2>3, <3>1, <3>2 DEF RecountEntries
    <3>4. new = set /\ \A o \in Managers \ {m} : sessions'[o] = sessions[o]
      BY <1>5, <1>6, <3>3
    <3>5. CASE s \in Ids
      <4>1. IdsOf(set) = IdsOf(list) /\ (s \in IdsOf(list) => Count(set, s) = c)
        BY <1>5, <1>7, <3>1, <3>2, <3>5, CountSet
      <4> QED BY <2>3, <3>1, <3>4, <4>1
    <3>6. CASE s \notin Ids
      <4>0. \A i \in 1 .. Len(list) : list[i] \in Session
        BY <1>5 DEF Bounded
      <4>1. \A i \in 1 .. Len(list) : list[i].id # s
        BY <3>6, <4>0 DEF Session
      <4>2. set = [i \in 1 .. Len(list) |-> list[i]]
        BY <3>2, <4>1
      <4>3. set = list
        BY <1>5, <4>2 DEF Bounded
      <4> QED BY <2>3, <3>4, <3>6, <4>3
    <3> QED BY <3>5, <3>6
  <2> QED BY <1>1, <2>1, <2>2, <2>3
<1>9. PICK p : p = plan[m]
  OBVIOUS
<1>10. PICK q : q = plan'[m]
  OBVIOUS
<1>11. /\ Has(p, step) /\ q # <<>> /\ Shape(q) /\ \A t : Has(q, t) => Has(p, t)
       /\ ~Has(q, "unlink") /\ ~Has(q, "count") /\ ~Has(q, "fill") /\ ~Has(q, "recount")
       /\ step = "count" => ~Has(p, "recount")
       /\ (Removed(q) => Removed(p)) /\ loaded[m] /\ \A o \in Managers \ {m} : plan'[o] = plan[o]
  <2>1. step = "count" /\ Has(p, "recount") => Has(q, "recount")
    BY <1>1, <1>9, <1>10, Taken
  <2> QED BY <1>1, <1>9, <1>10, <2>1, Taken
<1>12. Touches(m, NoId)
  BY <1>2, <1>8, <1>11 DEF Touches
<1>13. Aims(m) /\ Removes(m) /\ Gone(m) /\ OnDisk
  BY DEF Exact, Fits
<1>14. Aims(m)'
  <2>1. SUFFICES ASSUME s # NoId, Healthy(s)'
                 PROVE  /\ q # <<>> /\ ~Has(q, "unlink") /\ ~Has(q, "create") /\ s \in IdsOf(new)
                        /\ \A o \in Managers \ {m} : target[o] # s
                        /\ Lines(s) = Count(new, s)
    BY <1>2, <1>3, <1>6, <1>10, <1>11 DEF Aims, Healthy, Lines
  <2>2. Healthy(s)
    BY <1>2, <2>1 DEF Healthy
  <2>3. /\ ~Has(p, "create") /\ s \in IdsOf(list)
        /\ \A o \in Managers \ {m} : target[o] # s
        /\ step = "count" => Lines(s) = Count(list, s) + 1
    BY <1>1, <1>3, <1>4, <1>9, <1>11, <1>13, <2>1, <2>2 DEF Aims
  <2> QED BY <1>7, <1>8, <1>11, <2>1, <2>3
<1>15. Removes(m)'
  BY <1>2, <1>4, <1>6, <1>8, <1>9, <1>10, <1>11, <1>13, <1>1, Taken DEF Removes, Healthy
<1>16. Gone(m)'
  BY <1>2, <1>9, <1>10, <1>11, <1>13 DEF Gone, Healthy
<1>17. Fits(m)' /\ OnDisk'
  BY <1>2, <1>10, <1>11, <1>13, <1>14, <1>15 DEF Fits, OnDisk
<1> QED BY <1>2, <1>12, <1>16, <1>17, ExactQuiet

LEMMA ExactLoad ==
  ASSUME Inv, Exact, NEW m \in Managers, Load(m)
  PROVE  Exact'
<1>1. /\ ~loaded[m] /\ UNCHANGED <<index, readable, journal, plan, victim, target, saved, damaged>>
      /\ \A o \in Managers \ {m} : sessions'[o] = sessions[o] /\ loaded'[o] = loaded[o]
  BY DEF Load, files, history, Inv, TypeOK
<1>2. /\ plan[m] = <<>> /\ victim[m] = NoId /\ target[m] = NoId /\ Shape(plan[m]) /\ OnDisk
  BY <1>1 DEF Exact, Fits
<1>3. Touches(m, NoId)
  BY <1>1 DEF Touches
<1>4. Fits(m)' /\ Gone(m)'
  BY <1>1, <1>2 DEF Fits, Aims, Removes, Gone
<1>5. OnDisk'
  BY <1>1, <1>2 DEF OnDisk
<1> QED BY <1>1, <1>2, <1>3, <1>4, <1>5, ExactQuiet

\* A step that changes nothing of this.
LEMMA ExactSame ==
  ASSUME Inv, Exact,
         UNCHANGED <<index, readable, journal, sessions, loaded, plan, victim, target,
                     saved, damaged>>
  PROVE  Exact'
<1>1. OnDisk' /\ \A m \in Managers : Gone(m)'
  BY DEF Exact, OnDisk, Gone, Healthy
<1>2. ASSUME NEW m \in Managers PROVE Fits(m)'
  <2>1. Fits(m)
    BY DEF Exact
  <2>2. Aims(m)' /\ Removes(m)'
    BY <2>1 DEF Fits, Aims, Removes, Healthy, Lines
  <2> QED BY <2>1, <2>2 DEF Fits
<1>3. ASSUME NEW s \in Ids PROVE Listed(s)'
  BY DEF Exact, Listed, Whole, Behind, Right, Healthy, Lines, Busy
<1> QED BY <1>1, <1>2, <1>3 DEF Exact

LEMMA ExactExport ==
  ASSUME Inv, Exact, NEW m \in Managers, NEW s \in Ids, NEW suffix \in BOOLEAN,
         ExportSession(m, s, suffix)
  PROVE  Exact'
<1>1. UNCHANGED <<index, readable, journal, sessions, loaded, plan, victim, target,
                  created, crashes, history>>
  BY Zenon DEF ExportSession
<1>2. UNCHANGED <<index, readable, journal, sessions, loaded, plan, victim, target, saved, damaged>>
  BY <1>1 DEF history
<1> QED BY <1>2, ExactSame

\* A process that is idle adds to no healthy session and removes none.
LEMMA ExactIdle ==
  ASSUME Inv, Exact, NEW m \in Managers, Idle(m)
  PROVE  (target[m] # NoId => ~Healthy(target[m])) /\ victim[m] = NoId
  BY DEF Exact, Fits, Aims, Removes, Idle

\* An operation that begins by removing a session from its list.
LEMMA ExactRemoval ==
  ASSUME Inv, Exact, NEW m \in Managers, NEW p, Starts(m, p), Shape(p), p # <<>>,
         UNCHANGED <<index, readable, journal, loaded, target, saved, damaged>>,
         \A o \in Managers \ {m} : sessions'[o] = sessions[o] /\ victim'[o] = victim[o],
         \/ victim'[m] = victim[m]
         \/ /\ victim'[m] \in Ids /\ victim'[m] \notin IdsOf(sessions'[m])
            /\ Has(p, "unlink")
  PROVE  Exact'
<1>1. /\ Idle(m) /\ loaded[m] /\ plan'[m] = p /\ \A o \in Managers \ {m} : plan'[o] = plan[o]
  BY DEF Starts, Inv, TypeOK
<1>2. (target[m] # NoId => ~Healthy(target[m])) /\ victim[m] = NoId /\ OnDisk
  BY <1>1, ExactIdle DEF Exact
<1>3. Touches(m, NoId)
  BY <1>1 DEF Touches
<1>4. Aims(m)'
  BY <1>2 DEF Aims, Healthy
<1>5. Removes(m)'
  BY <1>1, <1>2 DEF Removes
<1>6. Gone(m)'
  BY <1>1, <1>2 DEF Gone, Removed
<1>7. Fits(m)' /\ OnDisk'
  BY <1>1, <1>2, <1>4, <1>5 DEF Fits, OnDisk
<1> QED BY <1>2, <1>3, <1>6, <1>7, ExactQuiet

LEMMA ExactCreation ==
  ASSUME Inv, Exact, NEW m \in Managers, NEW rest,
         rest \in {<<>>, <<"fill", "recount">> \o Save}, Creation(m, rest)
  PROVE  Exact'
<1>1. PICK full : full = (Len(sessions[m]) >= MaxSessions)
  OBVIOUS
<1>2. PICK p : p = (IF full THEN <<"unlink">> \o Save ELSE <<>>) \o <<"create">> \o Save \o rest
  OBVIOUS
<1>3. /\ Starts(m, p) /\ UNCHANGED <<index, readable, journal, loaded, target, saved, damaged>>
      /\ IF full THEN /\ sessions' = [sessions EXCEPT ![m] = Tail(@)]
                      /\ victim' = [victim EXCEPT ![m] = Head(sessions[m]).id]
                 ELSE UNCHANGED <<sessions, victim>>
  BY <1>1, <1>2 DEF Creation, files, history
<1>4. full \in BOOLEAN
  BY <1>1
<1>5. Shape(p) /\ p # <<>> /\ (full => Has(p, "unlink"))
  BY <1>2, <1>4, ShapeCreation
<1>6. full => Head(sessions[m]).id \in Ids /\ Head(sessions[m]).id \notin IdsOf(Tail(sessions[m]))
  <2> SUFFICES ASSUME full
               PROVE  Head(sessions[m]).id \in Ids
                      /\ Head(sessions[m]).id \notin IdsOf(Tail(sessions[m]))
    OBVIOUS
  <2>1. PICK list : list = sessions[m]
    OBVIOUS
  <2>2. Bounded(list) /\ Len(list) >= MaxSessions
    BY <1>1, <2>1, Typing
  <2>3. list # <<>>
    BY <2>2, JournalAssumption
  <2> QED BY <2>1, <2>2, <2>3, HeadRemoved
<1>7. /\ \A o \in Managers \ {m} : sessions'[o] = sessions[o] /\ victim'[o] = victim[o]
      /\ ~full => victim'[m] = victim[m]
      /\ full => sessions'[m] = Tail(sessions[m]) /\ victim'[m] = Head(sessions[m]).id
  BY <1>3 DEF Inv, TypeOK
<1>8. \/ victim'[m] = victim[m]
      \/ victim'[m] \in Ids /\ victim'[m] \notin IdsOf(sessions'[m]) /\ Has(p, "unlink")
  BY <1>4, <1>5, <1>6, <1>7
<1> QED BY <1>3, <1>5, <1>7, <1>8, ExactRemoval

LEMMA ExactDelete ==
  ASSUME Inv, Exact, NEW m \in Managers, NEW s \in Ids, DeleteSession(m, s)
  PROVE  Exact'
<1>1. PICK p : p = <<"unlink">> \o Save
  OBVIOUS
<1>2. /\ Starts(m, p) /\ UNCHANGED <<index, readable, journal, loaded, target, saved, damaged>>
      /\ s \in IdsOf(sessions[m]) /\ sessions' = [sessions EXCEPT ![m] = Without(@, s)]
      /\ victim' = [victim EXCEPT ![m] = s]
  BY <1>1 DEF DeleteSession, files, history
<1>3. p = <<"unlink", "truncate", "write">>
  BY <1>1, ShapeShort
<1>4. Shape(p) /\ p # <<>> /\ Has(p, "unlink")
  <2>1. Shape(<<"unlink", "truncate", "write">>) /\ Has(<<"unlink", "truncate", "write">>, "unlink")
    BY DEF Shape, Has
  <2> QED BY <1>3, <2>1
<1>5. PICK list : list = sessions[m]
  OBVIOUS
<1>6. s \notin IdsOf(Without(list, s))
  BY <1>2, <1>5, Typing, WithoutShorter
<1>7. /\ sessions'[m] = Without(list, s) /\ victim'[m] = s
      /\ \A o \in Managers \ {m} : sessions'[o] = sessions[o] /\ victim'[o] = victim[o]
  BY <1>2, <1>5 DEF Inv, TypeOK
<1> QED BY <1>2, <1>4, <1>6, <1>7, ExactRemoval

\* Blame only adds damage, and a session blamed for a race or a write cut off
\* is not healthy.
LEMMA Blamed ==
  ASSUME Inv, NEW x, NEW why \in {"stale", "torn"}, NEW blame \in BOOLEAN,
         IF blame THEN Blames({x}, why) ELSE UNCHANGED damaged
  PROVE  /\ \A s \in Ids : damaged[s] \subseteq damaged'[s]
         /\ x \in Ids /\ Healthy(x)' => ~blame
  BY DEF Blames, Healthy, Inv, TypeOK

LEMMA ExactAppend ==
  ASSUME Inv, Exact, NEW m \in Managers, NEW s \in Ids, AppendEntry(m, s)
  PROVE  Exact'
<1>1. PICK blame \in BOOLEAN : blame = (Outdated(m, s) \/ Contended(m, s))
  BY DEF Outdated, Contended
<1>2. PICK p : p = IF s \in IdsOf(sessions[m]) THEN <<"count">> \o Save ELSE <<>>
  OBVIOUS
<1>3. /\ Starts(m, p) /\ journal' = [journal EXCEPT ![s] = Appended(@)]
      /\ target' = [target EXCEPT ![m] = s]
      /\ IF blame THEN Blames({s}, "stale") ELSE UNCHANGED damaged
      /\ UNCHANGED <<index, readable, sessions, loaded, victim, saved>>
  BY <1>1, <1>2 DEF AppendEntry
<1>4. /\ Idle(m) /\ loaded[m] /\ plan'[m] = p /\ target'[m] = s
      /\ \A o \in Managers \ {m} : plan'[o] = plan[o] /\ target'[o] = target[o]
      /\ journal'[s] = Appended(journal[s]) /\ \A t \in Ids \ {s} : journal'[t] = journal[t]
  BY <1>3 DEF Starts, Inv, TypeOK
<1>5. (\A t \in Ids : damaged[t] \subseteq damaged'[t]) /\ (Healthy(s)' => ~blame)
  BY <1>3, Blamed
<1>6. Touches(m, s)
  BY <1>3, <1>4, <1>5 DEF Touches
<1>7. /\ (target[m] # NoId => ~Healthy(target[m])) /\ victim[m] = NoId /\ Listed(s) /\ OnDisk
      /\ NoId \notin Ids
  BY <1>4, ExactIdle, Typing DEF Exact
<1>8. Healthy(s)' =>
        /\ Healthy(s) /\ s \in IdsOf(sessions[m]) /\ Count(sessions[m], s) = Lines(s)
        /\ \A o \in Managers \ {m} : target[o] # s /\ victim[o] # s
  BY <1>1, <1>5 DEF Healthy, Outdated, Contended
<1>9. Whole(s)' /\ Lines(s)' \in Nat /\ Lines(s) \in Nat /\ (Healthy(s) => Lines(s)' = Lines(s) + 1)
  <2>1. /\ journal[s] \in Journal \cup {NoJournal} /\ NoJournal \notin Journal
        /\ Healthy(s) => journal[s] = NoJournal \/ ~journal[s].torn
    BY <1>7, Typing, JournalAssumption DEF Listed, Whole, Journal
  <2>2. /\ journal'[s] \in Journal /\ ~journal'[s].torn
        /\ journal'[s].lines = IF journal[s] = NoJournal THEN 1
                               ELSE IF journal[s].torn THEN journal[s].lines
                               ELSE journal[s].lines + 1
    BY <1>4, <2>1 DEF Appended, Journal
  <2>3. Lines(s)' = journal'[s].lines /\ Lines(s)' \in Nat
    BY <2>1, <2>2 DEF Lines, Journal
  <2>4. Lines(s) = IF journal[s] = NoJournal THEN 0 ELSE journal[s].lines
    BY DEF Lines
  <2>5. Lines(s) \in Nat
    BY Typing
  <2> QED BY <2>1, <2>2, <2>3, <2>4, <2>5 DEF Whole
<1>10. /\ Shape(p) /\ ~Has(p, "unlink") /\ ~Has(p, "create") /\ ~Has(p, "fill")
       /\ ~Has(p, "recount") /\ (s \in IdsOf(sessions[m]) => p # <<>> /\ Has(p, "count"))
  <2>1. PICK q : q = <<"count", "truncate", "write">>
    OBVIOUS
  <2>2. /\ Shape(q) /\ ~Has(q, "unlink") /\ ~Has(q, "create") /\ ~Has(q, "fill")
        /\ ~Has(q, "recount") /\ Has(q, "count") /\ q # <<>>
    BY <2>1 DEF Shape, Has
  <2>3. \A t : ~Has(<<>>, t)
    BY DEF Has
  <2> QED BY <1>2, <2>1, <2>2, <2>3, ShapeShort
<1>11. Aims(m)'
  BY <1>3, <1>4, <1>8, <1>9, <1>10 DEF Aims
<1>12. Fits(m)' /\ Gone(m)' /\ OnDisk'
  BY <1>3, <1>4, <1>7, <1>10, <1>11 DEF Fits, Removes, Gone, OnDisk
<1>13. Listed(s)'
  <2>1. Behind(s)'
    <3> SUFFICES ASSUME Healthy(s)', \A o \in Managers : victim'[o] # s
                 PROVE  Count(saved, s) <= Lines(s)'
      BY <1>3 DEF Behind
    <3>1. Count(saved, s) <= Lines(s) /\ Count(saved, s) \in Nat
      BY <1>3, <1>7, <1>8, Typing DEF Listed, Behind
    <3> QED BY <1>8, <1>9, <3>1
  <2>2. Right(s)'
    BY <1>4 DEF Right, Busy
  <2> QED BY <1>9, <2>1, <2>2 DEF Listed
<1>14. ASSUME NEW t \in Ids \ {s} PROVE Listed(t)'
  <2>1. t = target[m] => damaged'[t] # {}
    BY <1>5, <1>7 DEF Healthy
  <2> QED BY <1>3, <1>6, <2>1, OthersListed
<1>15. \A t \in Ids : Listed(t)'
  BY <1>13, <1>14
<1>16. /\ s \in Ids => Fresh(s) \/ damaged[s] \subseteq damaged'[s]
       /\ s \in Ids /\ Healthy(s)' =>
            \A o \in Managers \ {m} :
              target[o] # s /\ (victim[o] = s => Has(plan[o], "unlink"))
  BY <1>5, <1>8
<1> QED BY <1>3, <1>6, <1>12, <1>15, <1>16, ExactStep

LEMMA ExactUnlink ==
  ASSUME Inv, Exact, NEW m \in Managers, Unlink(m)
  PROVE  Exact'
<1>1. PICK x : x = victim[m]
  OBVIOUS
<1>2. PICK blame \in BOOLEAN : blame = Contended(m, x)
  BY DEF Contended
<1>3. /\ Takes(m, "unlink") /\ journal' = [journal EXCEPT ![x] = NoJournal]
      /\ IF blame THEN Blames({x}, "stale") ELSE UNCHANGED damaged
      /\ UNCHANGED <<index, readable, sessions, loaded, victim, target, saved>>
  BY <1>1, <1>2 DEF Unlink
<1>4. /\ x \in Ids => journal'[x] = NoJournal
      /\ \A t \in Ids \ {x} : journal'[t] = journal[t]
  BY <1>3 DEF Inv, TypeOK
<1>5. (\A t \in Ids : damaged[t] \subseteq damaged'[t]) /\ (x \in Ids /\ Healthy(x)' => ~blame)
  BY <1>3, Blamed
<1>6. PICK p : p = plan[m]
  OBVIOUS
<1>7. PICK q : q = plan'[m]
  OBVIOUS
<1>8. /\ Has(p, "unlink") /\ q # <<>> /\ Shape(q) /\ ~Removed(q) /\ loaded[m]
      /\ \A o \in Managers \ {m} : plan'[o] = plan[o]
  BY <1>3, <1>6, <1>7, Taken
<1>9. Touches(m, x)
  BY <1>3, <1>4, <1>5, <1>8 DEF Touches
<1>10. /\ Aims(m) /\ Removes(m) /\ OnDisk /\ x \in Ids \cup {NoId} /\ NoId \notin Ids
       /\ target[m] \in Ids \cup {NoId}
  BY <1>1, Typing DEF Exact, Fits
<1>11. target[m] = NoId \/ ~Healthy(target[m])
  BY <1>6, <1>8, <1>10 DEF Aims
<1>12. x \in Ids /\ Healthy(x)' =>
         Healthy(x) /\ \A o \in Managers \ {m} : target[o] # x /\ victim[o] # x
  BY <1>2, <1>5 DEF Healthy, Contended
<1>13. Aims(m)'
  BY <1>3, <1>5, <1>10, <1>11 DEF Aims, Healthy
<1>14. Removes(m)'
  <2>1. SUFFICES ASSUME x # NoId
                 PROVE  /\ q # <<>> /\ x \notin IdsOf(sessions[m])
                        /\ Healthy(x)' => /\ journal'[x] = NoJournal
                                          /\ \A o \in Managers : target[o] # x
    BY <1>1, <1>3, <1>7 DEF Removes, Healthy
  <2>2. x \notin IdsOf(sessions[m])
    BY <1>1, <1>10, <2>1 DEF Removes
  <2>3. Healthy(x)' => \A o \in Managers : target[o] # x
    BY <1>10, <1>11, <1>12, <2>1
  <2> QED BY <1>4, <1>8, <1>10, <2>1, <2>2, <2>3
<1>15. Gone(m)' /\ Fits(m)' /\ OnDisk'
  BY <1>3, <1>7, <1>8, <1>10, <1>13, <1>14 DEF Gone, Fits, OnDisk
<1>16. ASSUME x \in Ids PROVE Listed(x)'
  BY <1>1, <1>3, <1>4, <1>16 DEF Listed, Whole, Behind, Right, Busy
<1>17. ASSUME NEW t \in Ids \ {x} PROVE Listed(t)'
  BY <1>3, <1>9, OthersListed
<1>18. \A t \in Ids : Listed(t)'
  BY <1>16, <1>17
<1>19. /\ x \in Ids => Fresh(x) \/ damaged[x] \subseteq damaged'[x]
       /\ x \in Ids /\ Healthy(x)' =>
            \A o \in Managers \ {m} :
              target[o] # x /\ (victim[o] = x => Has(plan[o], "unlink"))
  BY <1>5, <1>12
<1> QED BY <1>3, <1>9, <1>15, <1>18, <1>19, ExactStep

LEMMA ExactCreate ==
  ASSUME Inv, Exact, NEW m \in Managers, NEW s \in Ids, CreateEntry(m, s)
  PROVE  Exact'
<1>1. PICK list : list = sessions[m]
  OBVIOUS
<1>2. PICK e : e = [id |-> s, count |-> 0]
  OBVIOUS
<1>3. PICK new : new = Append(list, e)
  OBVIOUS
<1>4. /\ Fresh(s) /\ Takes(m, "create") /\ target' = [target EXCEPT ![m] = s]
      /\ sessions' = [sessions EXCEPT ![m] = new]
      /\ damaged' = [damaged EXCEPT ![s] = {}]
      /\ UNCHANGED <<index, readable, journal, loaded, victim, saved>>
  BY <1>1, <1>2, <1>3 DEF CreateEntry, files
<1>5. /\ sessions'[m] = new /\ target'[m] = s /\ Healthy(s)'
      /\ \A o \in Managers \ {m} : sessions'[o] = sessions[o] /\ target'[o] = target[o]
      /\ \A t \in Ids \ {s} : damaged'[t] = damaged[t]
  BY <1>4 DEF Inv, TypeOK, Healthy
<1>6. PICK p : p = plan[m]
  OBVIOUS
<1>7. PICK q : q = plan'[m]
  OBVIOUS
<1>8. /\ Has(p, "create") /\ ~Has(q, "create")
      /\ q # <<>> /\ Shape(q) /\ loaded[m] /\ ~Has(q, "unlink") /\ ~Has(q, "count")
      /\ ~Has(p, "unlink") /\ (Removed(q) => Removed(p))
      /\ \A o \in Managers \ {m} : plan'[o] = plan[o]
  <2>1. Has(p, "create") /\ ~Has(q, "create")
    BY <1>4, <1>6, <1>7, StepTaken
  <2> QED BY <1>4, <1>6, <1>7, <2>1, Taken
<1>9. /\ journal[s] = NoJournal /\ s \notin IdsOf(saved) /\ s \notin IdsOf(list)
      /\ \A o \in Managers : s # victim[o] /\ s # target[o]
  BY <1>1, <1>4 DEF Fresh
<1>10. Count(new, s) = 0 /\ IdsOf(new) = IdsOf(list) \cup {s}
  <2>1. Bounded(list) /\ Len(list) < MaxSessions
    BY <1>1, <1>6, <1>8 DEF Inv
  <2>2. e \in Session /\ e.id = s /\ e.count = 0
    BY <1>2 DEF Session
  <2> QED BY <1>3, <1>9, <2>1, <2>2, CountAppended
<1>11. Touches(m, s)
  BY <1>4, <1>5, <1>8 DEF Touches
<1>12. /\ Aims(m) /\ Removes(m) /\ Gone(m) /\ OnDisk /\ NoId \notin Ids
       /\ victim[m] \in Ids \cup {NoId} /\ target[m] \in Ids \cup {NoId}
       /\ Count(saved, s) = 0 /\ Lines(s) \in Nat
  BY <1>9, Typing DEF Exact, Fits
<1>13. Lines(s)' = 0
  BY <1>4, <1>9 DEF Lines
<1>14. Aims(m)'
  BY <1>4, <1>5, <1>7, <1>8, <1>9, <1>10, <1>13 DEF Aims
<1>15. Removes(m)'
  <2>1. PICK v : v = victim[m]
    OBVIOUS
  <2>2. SUFFICES ASSUME v # NoId
                 PROVE  /\ q # <<>> /\ v \notin IdsOf(new)
                        /\ Healthy(v)' => /\ journal[v] = NoJournal
                                          /\ \A o \in Managers : target'[o] # v
    BY <1>4, <1>5, <1>7, <2>1 DEF Removes, Healthy
  <2>3. v \in Ids /\ v # s /\ v \notin IdsOf(list)
    BY <1>1, <1>9, <1>12, <2>1, <2>2 DEF Removes
  <2>4. Healthy(v)' => Healthy(v)
    BY <1>5, <2>3 DEF Healthy
  <2>5. Healthy(v) => journal[v] = NoJournal /\ \A o \in Managers : target[o] # v
    BY <1>6, <1>8, <1>12, <2>1, <2>2 DEF Removes
  <2> QED BY <1>5, <1>8, <1>10, <2>3, <2>4, <2>5
<1>16. Gone(m)'
  BY <1>4, <1>5, <1>6, <1>7, <1>8, <1>9, <1>12 DEF Gone, Healthy
<1>17. Fits(m)' /\ OnDisk'
  BY <1>4, <1>7, <1>8, <1>12, <1>14, <1>15 DEF Fits, OnDisk
<1>18. Listed(s)'
  BY <1>4, <1>5, <1>9, <1>12, <1>13 DEF Listed, Whole, Behind, Right, Busy
<1>19. ASSUME NEW t \in Ids \ {s} PROVE Listed(t)'
  <2>1. t = target[m] => damaged'[t] # {}
    BY <1>5, <1>6, <1>8, <1>12 DEF Aims, Healthy
  <2> QED BY <1>4, <1>11, <2>1, OthersListed
<1>20. \A t \in Ids : Listed(t)'
  BY <1>18, <1>19
<1>21. /\ s \in Ids => Fresh(s) \/ damaged[s] \subseteq damaged'[s]
       /\ s \in Ids /\ Healthy(s)' =>
            \A o \in Managers \ {m} :
              target[o] # s /\ (victim[o] = s => Has(plan[o], "unlink"))
  BY <1>4, <1>9
<1> QED BY <1>4, <1>11, <1>16, <1>17, <1>20, <1>21, ExactStep

LEMMA ExactFill ==
  ASSUME Inv, Exact, NEW m \in Managers, FillJournal(m)
  PROVE  Exact'
<1>1. PICK x : x = target[m]
  OBVIOUS
<1>2. PICK j : j = [lines |-> exported.lines, torn |-> FALSE]
  OBVIOUS
<1>3. /\ Takes(m, "fill") /\ journal' = [journal EXCEPT ![x] = j]
      /\ UNCHANGED <<index, readable, sessions, loaded, victim, target, saved, damaged>>
  BY <1>1, <1>2 DEF FillJournal, history
<1>4. /\ x \in Ids => journal'[x] = j
      /\ \A t \in Ids \ {x} : journal'[t] = journal[t]
  BY <1>3 DEF Inv, TypeOK
<1>5. j \in Journal /\ ~j.torn
  <2>1. exported \in Exported
    BY <1>3, StepTaken DEF Inv, TypeOK
  <2> QED BY <1>2, <2>1 DEF Exported, Journal
<1>6. PICK p : p = plan[m]
  OBVIOUS
<1>7. PICK q : q = plan'[m]
  OBVIOUS
<1>8. /\ Has(p, "fill") /\ Has(q, "recount") /\ ~Has(q, "fill") /\ ~Has(q, "create")
      /\ q # <<>> /\ Shape(q) /\ loaded[m] /\ ~Has(q, "unlink")
      /\ Has(p, "recount") /\ ~Has(p, "unlink") /\ (Removed(q) => Removed(p))
      /\ \A o \in Managers \ {m} : plan'[o] = plan[o]
  BY <1>3, <1>6, <1>7, Taken
<1>9. Touches(m, x)
  BY <1>3, <1>4, <1>8 DEF Touches
<1>10. /\ Aims(m) /\ Removes(m) /\ Gone(m) /\ OnDisk /\ NoId \notin Ids
       /\ victim[m] \in Ids \cup {NoId} /\ x \in Ids \cup {NoId}
  BY <1>1, Typing DEF Exact, Fits
<1>11. x \in Ids /\ Healthy(x) =>
         /\ x \in IdsOf(sessions[m]) /\ \A o \in Managers \ {m} : target[o] # x
         /\ journal[x] = NoJournal /\ Count(sessions[m], x) = 0
  BY <1>1, <1>6, <1>8, <1>10 DEF Aims
<1>12. ASSUME x \in Ids, Healthy(x), NEW o \in Managers, victim[o] = x
       PROVE  Has(plan[o], "unlink")
  <2>1. Removes(o)
    BY DEF Exact, Fits
  <2> QED BY <1>1, <1>10, <1>12, <2>1 DEF Removes
<1>13. Aims(m)'
  BY <1>1, <1>3, <1>7, <1>8, <1>10, <1>11 DEF Aims, Healthy
<1>14. Removes(m)'
  <2>1. PICK v : v = victim[m]
    OBVIOUS
  <2>2. SUFFICES ASSUME v # NoId
                 PROVE  /\ q # <<>> /\ v \notin IdsOf(sessions[m])
                        /\ Healthy(v) => /\ journal'[v] = NoJournal
                                         /\ \A o \in Managers : target[o] # v
    BY <1>3, <1>7, <2>1 DEF Removes, Healthy
  <2>3. /\ v \in Ids /\ v \notin IdsOf(sessions[m])
        /\ Healthy(v) => journal[v] = NoJournal /\ \A o \in Managers : target[o] # v
    BY <1>6, <1>8, <1>10, <2>1, <2>2 DEF Removes
  <2> QED BY <1>1, <1>4, <1>8, <2>3
<1>15. Gone(m)'
  BY <1>3, <1>6, <1>7, <1>8, <1>10 DEF Gone, Healthy
<1>16. Fits(m)' /\ OnDisk'
  BY <1>3, <1>7, <1>8, <1>10, <1>13, <1>14 DEF Fits, OnDisk
<1>17. ASSUME x \in Ids PROVE Listed(x)'
  <2>1. Whole(x)' /\ Right(x)'
    BY <1>1, <1>3, <1>4, <1>5, <1>17 DEF Whole, Right, Busy
  <2>2. Behind(x)'
    <3> SUFFICES ASSUME Healthy(x), \A o \in Managers : victim[o] # x
                 PROVE  Count(saved, x) <= Lines(x)'
      BY <1>3 DEF Behind, Healthy
    <3>1. Count(saved, x) <= Lines(x) /\ Count(saved, x) \in Nat
      BY <1>17, Typing DEF Exact, Listed, Behind
    <3>2. Lines(x) = 0
      BY <1>11, <1>17 DEF Lines
    <3>3. Lines(x)' \in Nat
      BY <1>4, <1>5, <1>17, JournalAssumption DEF Lines, Journal
    <3> QED BY <3>1, <3>2, <3>3
  <2> QED BY <2>1, <2>2 DEF Listed
<1>18. ASSUME NEW t \in Ids \ {x} PROVE Listed(t)'
  BY <1>3, <1>9, OthersListed
<1>19. \A t \in Ids : Listed(t)'
  BY <1>17, <1>18
<1>20. /\ x \in Ids => Fresh(x) \/ damaged[x] \subseteq damaged'[x]
       /\ x \in Ids /\ Healthy(x)' =>
            \A o \in Managers \ {m} :
              target[o] # x /\ (victim[o] = x => Has(plan[o], "unlink"))
  BY <1>3, <1>11, <1>12 DEF Healthy
<1> QED BY <1>3, <1>9, <1>15, <1>16, <1>19, <1>20, ExactStep

\* A process that dies leaves no operation, and its sessions not whole.
LEMMA Died ==
  ASSUME Inv, Exact, NEW m \in Managers, Dies(m), UNCHANGED <<index, readable>>,
         NEW x, x \in {NoId, target[m]} \/ x \in Ids,
         \A s \in Ids : damaged[s] \subseteq damaged'[s],
         \A s \in Ids \ {x} : journal'[s] = journal[s],
         x \in Ids => ~Healthy(x)',
         \A s \in Ids \ {x} :
           \/ Listed(s)'
           \/ /\ s = victim[m] => ~Healthy(s)'
              /\ s = target[m] => damaged'[s] # {}
  PROVE  Exact'
<1>1. /\ plan'[m] = <<>> /\ victim'[m] = NoId /\ target'[m] = NoId /\ ~loaded'[m]
      /\ \A o \in Managers \ {m} :
           /\ plan'[o] = plan[o] /\ sessions'[o] = sessions[o] /\ loaded'[o] = loaded[o]
           /\ victim'[o] = victim[o] /\ target'[o] = target[o]
      /\ saved' = saved
  BY DEF Dies, Inv, TypeOK
<1>2. Touches(m, x)
  BY <1>1 DEF Touches
<1>3. Fits(m)' /\ Gone(m)'
  BY <1>1, ShapeShort DEF Fits, Aims, Removes, Gone
<1>4. OnDisk'
  BY <1>1 DEF Exact, OnDisk
<1>5. ASSUME NEW s \in Ids PROVE Listed(s)'
  <2>1. CASE s = x
    BY <1>5, <2>1 DEF Listed, Whole, Behind, Right, Healthy
  <2>2. CASE s # x
    BY <1>1, <1>2, <2>2, OthersListed
  <2> QED BY <2>1, <2>2
<1> QED BY <1>1, <1>2, <1>3, <1>4, <1>5, ExactStep

LEMMA ExactCrash ==
  ASSUME Inv, Exact, NEW m \in Managers, Crash(m)
  PROVE  Exact'
<1>1. Dies(m) /\ UNCHANGED <<index, readable, journal>> /\ NoId \notin Ids
  BY JournalAssumption DEF Crash
<1>2. \A s \in Ids : /\ damaged[s] \subseteq damaged'[s]
                     /\ s = target[m] => "append" \in damaged'[s]
                     /\ s = victim[m] => "delete" \in damaged'[s]
  BY DEF Crash, Damage
<1>3. \A s \in Ids : /\ s = victim[m] => ~Healthy(s)'
                     /\ s = target[m] => damaged'[s] # {}
  BY <1>2 DEF Healthy
<1> QED BY <1>1, <1>2, <1>3, Died

LEMMA ExactCrashInAppend ==
  ASSUME Inv, Exact, NEW m \in Managers, NEW s \in Ids, CrashInAppend(m, s)
  PROVE  Exact'
<1>1. Dies(m) /\ Idle(m) /\ Blames({s}, "torn") /\ UNCHANGED <<index, readable>>
  BY DEF CrashInAppend
<1>2. \A t \in Ids \ {s} : journal'[t] = journal[t]
  BY DEF CrashInAppend, Inv, TypeOK
<1>3. (\A t \in Ids : damaged[t] \subseteq damaged'[t]) /\ ~Healthy(s)'
  BY <1>1 DEF Blames, Healthy, Inv, TypeOK
<1>4. (target[m] # NoId => ~Healthy(target[m])) /\ victim[m] = NoId /\ NoId \notin Ids
  BY <1>1, ExactIdle, JournalAssumption
<1>5. \A t \in Ids : t # victim[m] /\ (t = target[m] => damaged'[t] # {})
  BY <1>3, <1>4 DEF Healthy
<1> QED BY <1>1, <1>2, <1>3, <1>5, Died

\* The session an import removed is saved as removed by then.
LEMMA ExactCrashInImport ==
  ASSUME Inv, Exact, NEW m \in Managers, NEW written \in 0 .. MaxLines,
         CrashInImport(m, written)
  PROVE  Exact'
<1>1. PICK x : x = target[m]
  OBVIOUS
<1>2. PICK p : p = plan[m]
  OBVIOUS
<1>3. /\ Dies(m) /\ Blames({x}, "torn") /\ p # <<>> /\ Head(p) = "fill"
      /\ UNCHANGED <<index, readable>>
  BY <1>1, <1>2 DEF CrashInImport, Idle
<1>4. \A t \in Ids \ {x} : journal'[t] = journal[t]
  BY <1>1 DEF CrashInImport, Inv, TypeOK
<1>5. /\ \A t \in Ids : damaged[t] \subseteq damaged'[t]
      /\ x \in Ids => ~Healthy(x)'
      /\ \A t \in Ids \ {x} : damaged'[t] = damaged[t]
  BY <1>3 DEF Blames, Healthy, Inv, TypeOK
<1>6. ~Has(p, "unlink") /\ Removed(p)
  <2>1. p \in Seq(Steps) /\ Shape(p)
    BY <1>2 DEF Exact, Fits, Inv, TypeOK
  <2>2. /\ Len(p) \in Nat \ {0} /\ 1 \in 1 .. Len(p) /\ p[1] = "fill"
        /\ \A i \in 1 .. Len(p) : i = 1 \/ i \in 1 + 1 .. Len(p)
    BY <1>3, <2>1
  <2>3. ~Has(p, "unlink")
    BY <2>1, <2>2 DEF Shape, Has
  <2>4. ~Has(p, "create")
    BY <2>1, <2>2 DEF Shape, Has
  <2>5. Has(p, "fill")
    BY <2>2 DEF Has
  <2> QED BY <1>3, <2>3, <2>4, <2>5 DEF Removed
<1>7. ASSUME NEW s \in Ids \ {x}, s = victim[m], Healthy(s)'
      PROVE  Listed(s)'
  <2>1. Healthy(s) /\ Removes(m) /\ Gone(m) /\ NoId \notin Ids
    BY <1>5, <1>7, JournalAssumption DEF Healthy, Exact, Fits
  <2>2. journal[s] = NoJournal /\ s \notin IdsOf(saved)
    BY <1>2, <1>6, <1>7, <2>1 DEF Removes, Gone
  <2>3. Lines(s)' = 0 /\ Count(saved, s) = 0 /\ journal'[s] = NoJournal /\ saved' = saved
    BY <1>3, <1>4, <2>2, Typing DEF Lines, Dies
  <2> QED BY <2>2, <2>3 DEF Listed, Whole, Behind, Right
<1>8. \A s \in Ids \ {x} :
        Listed(s)' \/ ((s = victim[m] => ~Healthy(s)') /\ (s = target[m] => damaged'[s] # {}))
  BY <1>1, <1>7
<1> QED BY <1>1, <1>3, <1>4, <1>5, <1>8, Died

\* The manager's list becomes the index.  It is right about the sessions of
\* its own operation, and what it says of the others is what was saved, or
\* they are blamed for it.
LEMMA ExactWrite ==
  ASSUME Inv, Exact, NEW m \in Managers, WriteIndex(m)
  PROVE  Exact'
<1>1. PICK list : list = sessions[m]
  OBVIOUS
<1>2. PICK v : v = victim[m]
  OBVIOUS
<1>3. PICK x : x = target[m]
  OBVIOUS
<1>4. PICK p : p = plan[m]
  OBVIOUS
<1>5. PICK q : q = plan'[m]
  OBVIOUS
<1>6. /\ Takes(m, "write") /\ readable' = TRUE /\ index' = list /\ saved' = list
      /\ UNCHANGED <<journal, sessions, loaded>>
      /\ \A s \in Ids : /\ damaged[s] \subseteq damaged'[s]
                        /\ s \in Overwritten(m) => damaged'[s] # {} /\ ~Healthy(s)'
      /\ IF p = <<"write">>
           THEN victim' = [victim EXCEPT ![m] = NoId] /\ target' = [target EXCEPT ![m] = NoId]
           ELSE UNCHANGED <<victim, target>>
  BY <1>1, <1>4 DEF WriteIndex, Blames, Healthy
<1>7. /\ \A o \in Managers \ {m} : victim'[o] = victim[o] /\ target'[o] = target[o]
      /\ IF p = <<"write">> THEN victim'[m] = NoId /\ target'[m] = NoId
                            ELSE victim'[m] = v /\ target'[m] = x
  BY <1>2, <1>3, <1>6 DEF Inv, TypeOK
<1>8. /\ p # <<>> /\ Has(p, "write") /\ Shape(q) /\ loaded[m]
      /\ \A o \in Managers \ {m} : plan'[o] = plan[o]
      /\ \A t : Has(q, t) => Has(p, t)
      /\ \A t : Has(p, t) => t = "write" \/ Has(q, t)
      /\ ~Has(q, "unlink")
  BY <1>4, <1>5, <1>6, Taken
<1>9. (p = <<"write">> => \A t : ~Has(q, t)) /\ (p # <<"write">> => q # <<>>)
  <2>1. p \in Seq(Steps) /\ Head(p) = "write" /\ q = Tail(p)
    BY <1>4, <1>5, <1>6, Taken
  <2>2. p = <<"write">> => Len(q) = 0
    BY <2>1
  <2>3. ASSUME q = <<>> PROVE p = <<"write">>
    <3>1. /\ Len(p) \in Nat \ {0} /\ p[1] = "write" /\ Len(q) = Len(p) - 1
      BY <1>8, <2>1
    <3>2. Len(q) = 0
      BY <2>3
    <3>3. Len(p) = 1
      BY <3>1, <3>2
    <3> QED BY <2>1, <3>1, <3>3
  <2> QED BY <2>2, <2>3 DEF Has
<1>10. /\ Aims(m) /\ Removes(m) /\ NoId \notin Ids
       /\ v \in Ids \cup {NoId} /\ x \in Ids \cup {NoId}
       /\ \A s \in Ids : /\ Lines(s) \in Nat /\ Count(list, s) \in Nat
                         /\ s \notin IdsOf(list) => Count(list, s) = 0
  BY <1>1, <1>2, <1>3, Typing DEF Exact, Fits
<1>11. \A s \in Ids : Healthy(s)' => Healthy(s)
  BY <1>6 DEF Healthy
<1>12. /\ Touches(m, NoId)
       /\ OnDisk'
  BY <1>6, <1>7, <1>8 DEF Touches, OnDisk
<1>13. ASSUME x # NoId, Healthy(x)
       PROVE  /\ ~Has(p, "unlink") /\ ~Has(p, "create") /\ x \in IdsOf(list)
              /\ \A o \in Managers \ {m} : target[o] # x
              /\ Has(p, "fill") => journal[x] = NoJournal
              /\ IF Has(p, "recount") THEN Count(list, x) = 0
                 ELSE IF Has(p, "count") THEN Lines(x) = Count(list, x) + 1
                 ELSE Lines(x) = Count(list, x)
  BY <1>1, <1>3, <1>4, <1>10, <1>13 DEF Aims
<1>14. ASSUME v # NoId
       PROVE  /\ v \notin IdsOf(list)
              /\ Healthy(v) => journal[v] = NoJournal /\ \A o \in Managers : target[o] # v
  <2>1. ~Has(p, "unlink")
    BY <1>8
  <2> QED BY <1>1, <1>2, <1>4, <1>10, <1>14, <2>1 DEF Removes
<1>15. Aims(m)'
  <2>1. SUFFICES ASSUME p # <<"write">>, x # NoId, Healthy(x)'
                 PROVE  /\ q # <<>> /\ ~Has(q, "unlink") /\ ~Has(q, "create")
                        /\ x \in IdsOf(list) /\ \A o \in Managers \ {m} : target[o] # x
                        /\ Has(q, "fill") => journal[x] = NoJournal
                        /\ IF Has(q, "recount") THEN Count(list, x) = 0
                           ELSE IF Has(q, "count") THEN Lines(x) = Count(list, x) + 1
                           ELSE Lines(x) = Count(list, x)
    BY <1>1, <1>5, <1>6, <1>7 DEF Aims, Healthy, Lines
  <2>2. Healthy(x)
    BY <1>10, <1>11, <2>1
  <2> QED BY <1>8, <1>9, <1>13, <2>1, <2>2
<1>16. Removes(m)'
  <2>1. SUFFICES ASSUME p # <<"write">>, v # NoId
                 PROVE  /\ q # <<>> /\ v \notin IdsOf(list)
                        /\ Healthy(v)' => /\ journal[v] = NoJournal
                                          /\ \A o \in Managers : target[o] # v
    BY <1>1, <1>5, <1>6, <1>7 DEF Removes, Healthy
  <2>2. Healthy(v)' => Healthy(v)
    BY <1>10, <1>11, <2>1
  <2> QED BY <1>9, <1>14, <2>1, <2>2
<1>17. Fits(m)' /\ Gone(m)'
  BY <1>2, <1>5, <1>6, <1>7, <1>8, <1>14, <1>15, <1>16 DEF Fits, Gone
<1>18. ASSUME NEW s \in Ids, Healthy(s)', s # v, s # x
       PROVE  Same(list, saved, s)
  BY <1>1, <1>2, <1>3, <1>6, <1>18 DEF Overwritten
<1>19. ASSUME NEW o \in Managers \ {m} PROVE Fits(o)' /\ Gone(o)'
  <2>1. Fits(o)'
    BY <1>10, <1>12, OthersFit
  <2>2. PICK w : w = victim[o]
    OBVIOUS
  <2>3. SUFFICES ASSUME w # NoId, Healthy(w)', Removed(plan[o])
                 PROVE  w \notin IdsOf(list)
    BY <1>6, <1>7, <1>8, <2>1, <2>2 DEF Gone, Healthy
  <2>4. w \in Ids /\ Healthy(w) /\ Gone(o) /\ Removes(o)
    BY <1>11, <2>2, <2>3, Typing DEF Exact, Fits
  <2>5. w \notin IdsOf(saved) /\ \A r \in Managers : target[r] # w
    BY <2>2, <2>3, <2>4 DEF Gone, Removes, Removed
  <2>6. CASE w = v
    BY <1>14, <2>3, <2>6
  <2>7. CASE w # v
    <3>1. w # x
      BY <1>3, <2>5
    <3> QED BY <1>18, <2>3, <2>4, <2>5, <2>7, <3>1 DEF Same
  <2> QED BY <2>6, <2>7
<1>20. ASSUME NEW s \in Ids PROVE Listed(s)'
  <2>1. /\ Listed(s) /\ Lines(s)' = Lines(s) /\ journal'[s] = journal[s]
        /\ Healthy(s)' => Healthy(s)
    BY <1>6, <1>11, <1>20 DEF Exact, Lines
  <2>2. Whole(s)'
    BY <2>1 DEF Listed, Whole
  <2>3. ASSUME Healthy(s)', \A o \in Managers : victim'[o] # s
        PROVE  Count(list, s) <= Lines(s)
    <3>1. CASE s = v
      BY <1>10, <1>14, <3>1
    <3>2. CASE s = x
      BY <1>10, <1>13, <2>1, <2>3, <3>2
    <3>3. CASE s # v /\ s # x
      <4>1. Same(list, saved, s) /\ \A o \in Managers : victim[o] # s
        BY <1>2, <1>7, <1>18, <2>3, <3>3
      <4> QED BY <2>1, <2>3, <4>1 DEF Listed, Behind, Same
    <3> QED BY <3>1, <3>2, <3>3
  <2>4. ASSUME damaged'[s] = {}, ~Busy(s)'
        PROVE  Count(list, s) = Lines(s) /\ (journal[s] # NoJournal => s \in IdsOf(list))
    <3>1. Healthy(s)' /\ damaged[s] = {}
      BY <1>6, <2>4 DEF Healthy
    <3>2. CASE s = v
      <4>1. journal[s] = NoJournal /\ s \notin IdsOf(list)
        BY <1>10, <1>14, <2>1, <3>1, <3>2
      <4> QED BY <1>10, <4>1 DEF Lines
    <3>3. CASE s = x
      <4>1. p = <<"write">>
        BY <1>7, <2>4, <3>3 DEF Busy
      <4>2. ~Has(p, "recount") /\ ~Has(p, "count")
        BY <1>8, <1>9, <4>1
      <4> QED BY <1>10, <1>13, <2>1, <3>1, <3>3, <4>2
    <3>4. CASE s # v /\ s # x
      <4>1. Same(list, saved, s)
        BY <1>18, <3>1, <3>4
      <4>2. ~Busy(s)
        BY <1>2, <1>3, <1>7, <2>4, <3>4 DEF Busy
      <4> QED BY <2>1, <3>1, <4>1, <4>2 DEF Listed, Right, Same
    <3> QED BY <3>2, <3>3, <3>4
  <2>5. Behind(s)'
    BY <1>6, <2>3 DEF Behind, Healthy, Lines
  <2>6. Right(s)'
    BY <1>6, <2>4 DEF Right, Lines
  <2> QED BY <2>2, <2>5, <2>6 DEF Listed
<1> QED BY <1>12, <1>17, <1>19, <1>20 DEF Exact

LEMMA ExactNext == Inv /\ Exact /\ [Next]_vars => Exact'
<1> SUFFICES ASSUME Inv, Exact, [Next]_vars PROVE Exact'
  OBVIOUS
<1>1. CASE UNCHANGED vars
  BY <1>1, ExactSame DEF vars, files, history
<1>2. ASSUME NEW m \in Managers, NewSession(m) \/ ImportSession(m)
      PROVE  Exact'
  <2>1. PICK rest \in {<<>>, <<"fill", "recount">> \o Save} : Creation(m, rest)
    BY <1>2 DEF NewSession, ImportSession
  <2> QED BY <2>1, ExactCreation
<1>3. ASSUME NEW m \in Managers, NEW s \in Ids,
             DeleteSession(m, s) \/ AppendEntry(m, s) \/ CrashInAppend(m, s) \/ CreateEntry(m, s)
      PROVE  Exact'
  BY <1>3, ExactDelete, ExactAppend, ExactCrashInAppend, ExactCreate
<1>4. ASSUME NEW m \in Managers,
             \/ Unlink(m) \/ TruncateIndex(m) \/ WriteIndex(m) \/ CountEntry(m)
             \/ FillJournal(m) \/ RecountEntries(m) \/ Load(m) \/ Crash(m)
      PROVE  Exact'
  BY <1>4, ExactUnlink, ExactTruncate, ExactWrite, ExactCounts, ExactFill, ExactLoad, ExactCrash
<1>5. ASSUME NEW m \in Managers, NEW s \in Ids, NEW suffix \in BOOLEAN,
             ExportSession(m, s, suffix)
      PROVE  Exact'
  BY <1>5, ExactExport
<1>6. ASSUME NEW m \in Managers, NEW written \in 0 .. MaxLines, CrashInImport(m, written)
      PROVE  Exact'
  BY <1>6, ExactCrashInImport
<1> QED BY <1>1, <1>2, <1>3, <1>4, <1>5, <1>6 DEF Next

LEMMA AlwaysExact == Spec => [](Inv /\ Exact)
<1>1. Init => Inv /\ Exact
  BY InvInit, ExactInit
<1>2. Inv /\ Exact /\ [Next]_vars => (Inv /\ Exact)'
  BY InvNext, ExactNext
<1> QED BY <1>1, <1>2, PTL DEF Spec

\* The index is right between operations about every session that no process
\* died over, raced for or appended to without listing it (BackupManager._append,
\* delete_session, new_session, import_session), for any number of processes
\* and any sequence of crashes.
THEOREM IndexRight == Spec => []IndexIsRight
<1>1. Inv /\ Exact => IndexIsRight
  BY ExactIndex
<1> QED BY <1>1, AlwaysExact, PTL

\* The index never counts an entry that the journal does not have, also when a
\* process dies between the two writes (_append, import_session): the journal
\* is written first.
THEOREM NeverCountsAhead == Spec => []NeverAhead
<1>1. Inv /\ Exact => NeverAhead
  BY ExactIndex
<1> QED BY <1>1, AlwaysExact, PTL

=============================================================================
