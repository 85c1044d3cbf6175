--------------------------- MODULE AuditLogProofs ---------------------------
(***************************************************************************)
(* Proofs about AuditLog, for every size of the queue, the overflow list,  *)
(* the batches and the spool and for every bound on failures: its types,   *)
(* that it implements DecisionLog, and that heads are those of records.    *)
(***************************************************************************)
EXTENDS AuditLog, TLAPS

States == {"idle", "pending", "kept", "refused"}
AppendRecord == [events : SUBSET Events, state : States]

Saved == OnDisk \cup aside \cup table

\* A coroutine that waits for nothing has handed nothing over.
IdleIsEmpty == \A s \in Spillers : appends[s].state = "idle" => appends[s] = Idle

\* What the spool reported as kept is still safe when the coroutine resumes, though the
\* replay may have taken the file meanwhile.
KeptIsSaved == \A s \in Spillers : appends[s].state = "kept" => appends[s].events \subseteq Saved

\* The replay removes a file only when all of it is in the table.
ReplayedIsRecorded == replayed \subseteq table

\* Only the drain keeps events of its own.
OnlyDrainHolds == process # "draining" => left = {}

\* The events of the writer's append are those of its batch, also after the drain has
\* taken the batch over.
WriterAppend ==
  /\ process = "running" => appends["writer"] = Idle \/ appends["writer"].events = inflight
  /\ process = "draining" =>
       appends["writer"].events \subseteq
         left \cup appends["drain"].events \cup Saved \cup counted

\* Which coroutine may wait for an append.
Waiting ==
  /\ process = "running" => appends["drain"] = Idle
  /\ process = "draining" =>
       appends["writer"].state \in {"idle", "pending"} /\ appends["overflow"].state \in {"idle", "pending"}
  /\ process \in {"stopped", "crashed"} => \A s \in Spillers : appends[s] = Idle

IInv ==
  /\ TypeOK /\ ReplayedIsRecorded /\ OnlyDrainHolds
  /\ IdleIsEmpty /\ KeptIsSaved /\ WriterAppend /\ Waiting

-----------------------------------------------------------------------------
(* Sequences of files *)

FilesIn(s) == UNION {s[i] : i \in DOMAIN s}

\* What a new file adds.
LEMMA AppendFile ==
  ASSUME NEW s \in Seq(SUBSET Events), NEW b \in SUBSET Events
  PROVE  Append(s, b) \in Seq(SUBSET Events) /\ FilesIn(Append(s, b)) = FilesIn(s) \cup b
<1>1. /\ Append(s, b) \in Seq(SUBSET Events)
      /\ DOMAIN Append(s, b) = 1..(Len(s) + 1) /\ DOMAIN s = 1..Len(s) /\ Len(s) \in Nat
      /\ \A i \in 1..Len(s) : Append(s, b)[i] = s[i]
      /\ Append(s, b)[Len(s) + 1] = b
  OBVIOUS
<1>2. FilesIn(Append(s, b)) \subseteq FilesIn(s) \cup b
  <2>1. ASSUME NEW e, NEW i \in 1..(Len(s) + 1), e \in Append(s, b)[i]
        PROVE  e \in FilesIn(s) \cup b
    <3>1. CASE i = Len(s) + 1
      BY <3>1, <2>1, <1>1
    <3>2. CASE i \in 1..Len(s)
      BY <3>2, <2>1, <1>1 DEF FilesIn
    <3> QED BY <3>1, <3>2, <1>1
  <2> QED BY <2>1, <1>1 DEF FilesIn
<1>3. FilesIn(s) \subseteq FilesIn(Append(s, b))
  BY <1>1 DEF FilesIn
<1>4. b \subseteq FilesIn(Append(s, b))
  BY <1>1 DEF FilesIn
<1> QED BY <1>1, <1>2, <1>3, <1>4

\* What is left without the oldest file.
LEMMA RemoveOldest ==
  ASSUME NEW s \in Seq(SUBSET Events), s # <<>>
  PROVE  /\ Tail(s) \in Seq(SUBSET Events) /\ Head(s) \in SUBSET Events
         /\ FilesIn(s) = FilesIn(Tail(s)) \cup Head(s)
<1>1. /\ Tail(s) \in Seq(SUBSET Events) /\ Head(s) = s[1] /\ Head(s) \in SUBSET Events
      /\ Len(s) \in Nat \ {0} /\ DOMAIN s = 1..Len(s) /\ DOMAIN Tail(s) = 1..(Len(s) - 1)
      /\ \A i \in 1..(Len(s) - 1) : Tail(s)[i] = s[i + 1]
  OBVIOUS
<1>2. ASSUME NEW e, NEW i \in 1..Len(s), e \in s[i]
      PROVE  e \in FilesIn(Tail(s)) \cup Head(s)
  <2>1. CASE i = 1
    BY <2>1, <1>1, <1>2
  <2>2. CASE i # 1
    <3>1. i - 1 \in DOMAIN Tail(s) /\ Tail(s)[i - 1] = s[i]
      BY <2>2, <1>1
    <3> QED BY <3>1, <1>2 DEF FilesIn
  <2> QED BY <2>1, <2>2
<1>3. ASSUME NEW e, NEW i \in DOMAIN Tail(s), e \in Tail(s)[i]
      PROVE  e \in FilesIn(s)
  <2>1. i + 1 \in DOMAIN s /\ s[i + 1] = Tail(s)[i]
    BY <1>1
  <2> QED BY <2>1, <1>3 DEF FilesIn
<1>4. Head(s) \subseteq FilesIn(s)
  BY <1>1 DEF FilesIn
<1> QED BY <1>1, <1>2, <1>3, <1>4 DEF FilesIn

LEMMA OnDiskIsFiles == OnDisk = FilesIn(files) /\ OnDisk' = FilesIn(files')
BY DEF OnDisk, FilesIn

LEMMA NoFiles == FilesIn(<<>>) = {}
BY DEF FilesIn

-----------------------------------------------------------------------------
(* Types *)

LEMMA InitType == Init => TypeOK
<1> SUFFICES ASSUME Init PROVE TypeOK
  OBVIOUS
<1> USE BoundsAssumption
<1>1. files \in Seq(SUBSET Events) /\ life \in Lives
  BY DEF Init, Lives
<1> QED BY <1>1 DEF Init, TypeOK, Idle, Lives

\* The two ways a write can end.
WriteType == /\ table \subseteq Events /\ heads \in [Lives -> 0..MaxEvents]
             /\ up \in BOOLEAN /\ outages \in 0..MaxOutages

LEMMA WriteKeepsType ==
  ASSUME TypeOK, NEW batch \in SUBSET Events, Commit(batch) \/ Fail(batch)
  PROVE  WriteType' /\ table \subseteq table' /\ (Commit(batch) => batch \subseteq table')
<1>1. CASE Commit(batch)
  BY <1>1 DEF TypeOK, WriteType, Commit, HeadsAfter
<1>2. CASE Fail(batch)
  <2>1. heads' = heads /\ up' \in BOOLEAN /\ table \subseteq table' /\ table' \subseteq Events
    BY <1>2 DEF Fail, TypeOK
  <2>2. outages' \in 0..MaxOutages
    BY <1>2, BoundsAssumption DEF Fail, TypeOK
  <2> QED BY <2>1, <2>2, <1>1 DEF TypeOK, WriteType, Commit
<1> QED BY <1>1, <1>2

LEMMA PendingType ==
  ASSUME NEW events \in SUBSET Events
  PROVE  Pending(events) \in AppendRecord /\ Pending(events).events = events
         /\ Pending(events).state = "pending"
BY DEF Pending, AppendRecord, States

LEMMA IdleType == Idle \in AppendRecord /\ Idle.events = {} /\ Idle.state = "idle"
BY DEF Idle, AppendRecord, States

LEMMA BatchesType ==
  ASSUME NEW events \in SUBSET Events, NEW batch \in Batches(events)
  PROVE  batch \in SUBSET Events /\ batch \subseteq events
BY DEF Batches

\* The end of an append, in one of three ways.
EndsWith(s, state) ==
  /\ state \in {"idle", "kept", "refused"}
  /\ appends[s].state = "pending"
  /\ appends' \in [Spillers -> AppendRecord]
  /\ \A t \in Spillers \ {s} : appends'[t] = appends[t]
  /\ IF process = "draining" /\ s # "drain" THEN state = "idle" /\ appends'[s] = Idle
     ELSE /\ state \in {"kept", "refused"}
          /\ appends'[s] = [events |-> appends[s].events, state |-> state]
  /\ \/ /\ files' = Append(files, appends[s].events) /\ state # "refused"
        /\ UNCHANGED diskErrors
     \/ /\ UNCHANGED files /\ state # "kept"
        /\ diskErrors' \in 0..MaxDiskErrors
  /\ UNCHANGED <<process, life, born, queue, inflight, failures, overflow, left, replayed,
                 aside, database, counted>>

LEMMA AppendEnds ==
  ASSUME TypeOK, NEW s \in Spillers, RunAppend(s)
  PROVE  \E state : EndsWith(s, state)
<1> USE DEF TypeOK, AppendRecord, States
<1>1. CASE process = "draining" /\ s # "drain"
  <2>1. appends' = [appends EXCEPT ![s] = Idle]
    BY <1>1 DEF RunAppend
  <2>2. diskErrors' \in 0..MaxDiskErrors
    BY BoundsAssumption DEF RunAppend
  <2>3. appends' \in [Spillers -> AppendRecord]
    BY <2>1, IdleType
  <2> QED BY <1>1, <2>1, <2>2, <2>3 DEF RunAppend, EndsWith
<1>2. CASE ~(process = "draining" /\ s # "drain")
  <2>1. PICK state \in {"kept", "refused"} :
          /\ appends' = [appends EXCEPT ![s] = [@ EXCEPT !.state = state]]
          /\ \/ files' = Append(files, appends[s].events) /\ UNCHANGED diskErrors
                /\ (state # "refused")
             \/ UNCHANGED files /\ state # "kept"
    BY <1>2 DEF RunAppend
  <2>2. diskErrors' \in 0..MaxDiskErrors
    BY BoundsAssumption DEF RunAppend
  <2>3. /\ appends' \in [Spillers -> AppendRecord]
        /\ appends'[s] = [events |-> appends[s].events, state |-> state]
        /\ \A t \in Spillers \ {s} : appends'[t] = appends[t]
    BY <2>1
  <2> QED BY <1>2, <2>1, <2>2, <2>3 DEF RunAppend, EndsWith
<1> QED BY <1>1, <1>2

LEMMA NextType == TypeOK /\ [Next]_vars => TypeOK'
<1> SUFFICES ASSUME TypeOK, [Next]_vars PROVE TypeOK'
  OBVIOUS
<1> USE BoundsAssumption
<1>1. ASSUME NEW e \in Events, Enqueue(e) PROVE TypeOK'
  <2>1. born' \in [Events -> 0..MaxLives]
    BY <1>1 DEF Enqueue, Submit, TypeOK, Lives
  <2> QED BY <1>1, <2>1 DEF Enqueue, Submit, TypeOK, spool, database
<1>2. ASSUME NEW e \in Events, Overflow(e) PROVE TypeOK'
  <2>1. born' \in [Events -> 0..MaxLives]
    BY <1>2 DEF Overflow, Submit, TypeOK, Lives
  <2> QED BY <1>2, <2>1 DEF Overflow, Submit, TypeOK, spool, database
<1>3. ASSUME NEW e \in Events, DropAtSubmit(e) PROVE TypeOK'
  <2>1. born' \in [Events -> 0..MaxLives]
    BY <1>3 DEF DropAtSubmit, Submit, TypeOK, Lives
  <2> QED BY <1>3, <2>1 DEF DropAtSubmit, Submit, TypeOK, spool, database
<1>4. ASSUME NEW s \in Spillers, RunAppend(s) PROVE TypeOK'
  <2>1. PICK state : EndsWith(s, state)
    BY <1>4, AppendEnds
  <2>2. appends' \in [Spillers -> AppendRecord] /\ diskErrors' \in 0..MaxDiskErrors
    BY <2>1 DEF EndsWith, TypeOK
  <2>4. files' \in Seq(SUBSET Events)
    <3>1. appends[s].events \in SUBSET Events /\ files \in Seq(SUBSET Events)
      BY DEF TypeOK
    <3>2. files' = Append(files, appends[s].events) \/ UNCHANGED files
      BY <2>1 DEF EndsWith
    <3>3. Append(files, appends[s].events) \in Seq(SUBSET Events)
      BY <3>1
    <3> QED BY <3>1, <3>2, <3>3
  <2>3. UNCHANGED <<process, life, born, queue, inflight, failures, overflow, left,
                    replayed, aside, database, counted>>
    BY <1>4 DEF RunAppend
  <2> QED BY <2>2, <2>3, <2>4 DEF TypeOK, AppendRecord, States, database
<1>5. CASE Take
  BY <1>5 DEF Take, TypeOK, spool, database
<1>6. CASE WriteBatch
  <2>1. Commit(inflight) \/ Fail(inflight)
    BY <1>6 DEF WriteBatch
  <2>2. WriteType'
    BY <2>1, WriteKeepsType DEF TypeOK
  <2>3. appends' \in [Spillers -> AppendRecord]
    <3>1. UNCHANGED appends \/ appends' = [appends EXCEPT !["writer"] = Pending(inflight)]
      BY <1>6 DEF WriteBatch
    <3>2. Pending(inflight) \in AppendRecord
      BY PendingType DEF TypeOK
    <3>3. appends \in [Spillers -> AppendRecord]
      BY DEF TypeOK, AppendRecord, States
    <3> QED BY <3>1, <3>2, <3>3
  <2>4. inflight' \subseteq Events /\ failures' \in 0..2
    BY <1>6 DEF WriteBatch, TypeOK, LastFailed
  <2> QED BY <1>6, <2>2, <2>3, <2>4 DEF WriteBatch, WriteType, TypeOK, AppendRecord, States, spool
<1>7. ASSUME NEW s \in Spillers, Spilled(s)
      PROVE  /\ appends' \in [Spillers -> AppendRecord] /\ counted' \subseteq Events
             /\ UNCHANGED <<life, born, queue, overflow, left, replayed, spool, database>>
  BY <1>7, IdleType DEF Spilled, TypeOK, AppendRecord, States
<1>8. CASE BatchSpilled
  BY <1>7, <1>8 DEF BatchSpilled, Spilled, TypeOK, AppendRecord, States, spool, database, Spillers
<1>9. CASE FlushOverflow
  <2>1. appends' \in [Spillers -> AppendRecord]
    BY <1>9, PendingType DEF FlushOverflow, TypeOK, AppendRecord, States
  <2> QED BY <1>9, <2>1 DEF FlushOverflow, TypeOK, AppendRecord, States, spool, database
<1>10. CASE OverflowSpilled
  BY <1>7, <1>10 DEF OverflowSpilled, Spilled, TypeOK, AppendRecord, States, spool, database, Spillers
<1>11. CASE ReplayBatch
  <2>1. Head(files) \in SUBSET Events
    BY <1>11, RemoveOldest DEF ReplayBatch, TypeOK
  <2>2. PICK batch \in Batches(Head(files) \ replayed) :
          \/ Commit(batch) /\ replayed' = replayed \cup batch
          \/ Fail(batch) /\ replayed' = {}
    BY <1>11 DEF ReplayBatch
  <2>3. batch \in SUBSET Events
    BY <2>1, BatchesType
  <2>4. WriteType' /\ replayed' \subseteq Events
    BY <2>2, <2>3, WriteKeepsType DEF TypeOK
  <2> QED BY <1>11, <2>4 DEF ReplayBatch, WriteType, TypeOK, spool
<1>12. CASE RemoveFile
  BY <1>12, RemoveOldest DEF RemoveFile, TypeOK, database
<1>13. CASE SetAside
  <2>1. Head(files) \in SUBSET Events /\ files' \in Seq(SUBSET Events)
    BY <1>13, RemoveOldest DEF SetAside, TypeOK
  <2>2. diskErrors' \in 0..MaxDiskErrors
    BY <1>13 DEF SetAside, TypeOK
  <2> QED BY <1>13, <2>1, <2>2 DEF SetAside, TypeOK, memory, database
<1>14. CASE Stop
  <2>1. appends' \in [Spillers -> AppendRecord]
    BY <1>14, IdleType DEF Stop, TypeOK, AppendRecord, States
  <2> QED BY <1>14, <2>1 DEF Stop, Collected, TypeOK, AppendRecord, States, spool, database
<1>15. CASE DrainBatch
  <2>1. PICK batch \in Batches(left) :
          /\ left' = left \ batch
          /\ \/ Commit(batch) /\ UNCHANGED appends
             \/ Fail(batch) /\ appends' = [appends EXCEPT !["drain"] = Pending(batch)]
    BY <1>15 DEF DrainBatch
  <2>2. batch \in SUBSET Events
    BY <2>1, BatchesType DEF TypeOK
  <2>3. WriteType'
    BY <2>1, <2>2, WriteKeepsType
  <2>4. appends' \in [Spillers -> AppendRecord]
    BY <2>1, <2>2, PendingType DEF TypeOK, AppendRecord, States
  <2> QED BY <1>15, <2>1, <2>3, <2>4 DEF DrainBatch, WriteType, TypeOK, AppendRecord, States, spool
<1>16. CASE DrainSpilled
  BY <1>7, <1>16 DEF DrainSpilled, Spilled, TypeOK, AppendRecord, States, spool, database, Spillers
<1>17. CASE Exit
  BY <1>17 DEF Exit, TypeOK, memory, spool, database
<1>18. CASE Crash
  <2>1. appends' \in [Spillers -> AppendRecord]
    BY <1>18, IdleType DEF Crash
  <2> QED BY <1>18, <2>1 DEF Crash, TypeOK, AppendRecord, States, spool, database
<1>19. CASE Start
  <2>1. life' \in Lives /\ process' = "running"
    BY <1>19 DEF Start, TypeOK, Lives
  <2>2. heads' \in [Lives -> 0..MaxEvents]
    BY <1>19 DEF Start
  <2> QED BY <1>19, <2>1, <2>2 DEF Start, TypeOK, memory, spool
<1>20. CASE Outage
  <2>1. outages < MaxOutages /\ outages' = outages + 1 /\ up' \in BOOLEAN
    BY <1>20 DEF Outage
  <2>2. outages' \in 0..MaxOutages
    BY <2>1 DEF TypeOK
  <2> QED BY <1>20, <2>1, <2>2 DEF Outage, TypeOK, memory, spool
<1>21. CASE Recover
  BY <1>21 DEF Recover, TypeOK, memory, spool
<1>22. CASE UNCHANGED vars
  BY <1>22 DEF vars, TypeOK, memory, spool, database
<1> QED
  BY <1>1, <1>2, <1>3, <1>4, <1>5, <1>6, <1>8, <1>9, <1>10, <1>11, <1>12, <1>13, <1>14,
     <1>15, <1>16, <1>17, <1>18, <1>19, <1>20, <1>21, <1>22 DEF Next

\* The types of the audit writer's state hold throughout.
THEOREM TypeCorrect == Spec => []TypeOK
BY InitType, NextType, PTL DEF Spec

-----------------------------------------------------------------------------
(* The inductive invariant *)

LEMMA InitIInv == Init => IInv
<1> SUFFICES ASSUME Init PROVE IInv
  OBVIOUS
<1>1. TypeOK
  BY InitType
<1>2. \A s \in Spillers : appends[s] = Idle
  BY DEF Init
<1>3. IdleIsEmpty /\ KeptIsSaved
  BY <1>2, IdleType DEF IdleIsEmpty, KeptIsSaved
<1>4. ReplayedIsRecorded /\ OnlyDrainHolds /\ WriterAppend /\ Waiting
  BY <1>2 DEF Init, ReplayedIsRecorded, OnlyDrainHolds, WriterAppend, Waiting, Spillers
<1> QED BY <1>1, <1>3, <1>4 DEF IInv

\* Nothing leaves the disk but into the table or aside, and nothing leaves those.
SavedGrows ==
  /\ table \subseteq table' /\ aside \subseteq aside' /\ counted \subseteq counted'
  /\ OnDisk \ OnDisk' \subseteq table' \cup aside'

LEMMA NextSaved == TypeOK /\ ReplayedIsRecorded /\ [Next]_vars => SavedGrows
<1> SUFFICES ASSUME TypeOK, ReplayedIsRecorded, [Next]_vars PROVE SavedGrows
  OBVIOUS
<1> USE OnDiskIsFiles
<1>1. ASSUME NEW e \in Events, Enqueue(e) \/ Overflow(e) \/ DropAtSubmit(e) PROVE SavedGrows
  <2>1. UNCHANGED <<table, aside, files>> /\ counted \subseteq counted'
    BY <1>1 DEF Enqueue, Overflow, DropAtSubmit, Submit, spool, database
  <2> QED BY <2>1 DEF SavedGrows
<1>2. ASSUME NEW s \in Spillers, RunAppend(s) PROVE SavedGrows
  <2>1. PICK state : EndsWith(s, state)
    BY <1>2, AppendEnds
  <2>2. UNCHANGED <<table, aside, counted>>
    BY <1>2 DEF RunAppend, database
  <2>3. CASE UNCHANGED files
    BY <2>2, <2>3 DEF SavedGrows
  <2>4. CASE files' = Append(files, appends[s].events)
    <3>1. appends[s].events \in SUBSET Events /\ files \in Seq(SUBSET Events)
      BY DEF TypeOK
    <3>2. FilesIn(files') = FilesIn(files) \cup appends[s].events
      BY <2>4, <3>1, AppendFile
    <3> QED BY <2>2, <3>2 DEF SavedGrows
  <2> QED BY <2>1, <2>3, <2>4 DEF EndsWith
<1>3. CASE WriteBatch
  <2>1. (Commit(inflight) \/ Fail(inflight)) /\ UNCHANGED <<aside, files, counted>>
    BY <1>3 DEF WriteBatch, spool
  <2>2. table \subseteq table'
    BY <2>1, WriteKeepsType DEF TypeOK
  <2> QED BY <2>1, <2>2 DEF SavedGrows
<1>4. CASE ReplayBatch
  <2>1. UNCHANGED <<aside, files, counted>> /\ table \subseteq table'
    BY <1>4 DEF ReplayBatch, spool, Commit, Fail
  <2> QED BY <2>1 DEF SavedGrows
<1>5. CASE DrainBatch
  <2>1. UNCHANGED <<aside, files, counted>> /\ table \subseteq table'
    BY <1>5 DEF DrainBatch, spool, Commit, Fail
  <2> QED BY <2>1 DEF SavedGrows
<1>6. CASE RemoveFile
  <2>1. UNCHANGED <<table, aside, counted>> /\ files' = Tail(files)
        /\ files # <<>> /\ Head(files) \subseteq replayed
    BY <1>6 DEF RemoveFile, database
  <2>2. FilesIn(files) = FilesIn(files') \cup Head(files)
    BY <2>1, RemoveOldest DEF TypeOK
  <2> QED BY <2>1, <2>2 DEF SavedGrows, ReplayedIsRecorded
<1>7. CASE SetAside
  <2>1. UNCHANGED <<table, counted>> /\ files' = Tail(files)
        /\ files # <<>> /\ aside' = aside \cup Head(files)
    BY <1>7 DEF SetAside, database
  <2>2. FilesIn(files) = FilesIn(files') \cup Head(files)
    BY <2>1, RemoveOldest DEF TypeOK
  <2> QED BY <2>1, <2>2 DEF SavedGrows
<1>8. CASE BatchSpilled \/ OverflowSpilled \/ DrainSpilled
  <2>1. UNCHANGED <<table, aside, files>> /\ counted \subseteq counted'
    BY <1>8 DEF BatchSpilled, OverflowSpilled, DrainSpilled, Spilled, spool, database
  <2> QED BY <2>1 DEF SavedGrows
<1>9. CASE Take \/ FlushOverflow \/ Stop \/ Exit \/ Crash
  <2>1. UNCHANGED <<table, aside, files, counted>>
    BY <1>9 DEF Take, FlushOverflow, Stop, Exit, Crash, spool, database
  <2> QED BY <2>1 DEF SavedGrows
<1>10. CASE Start \/ Outage \/ Recover \/ UNCHANGED vars
  <2>1. UNCHANGED <<table, aside, files, counted>>
    BY <1>10 DEF Start, Outage, Recover, vars, spool, database
  <2> QED BY <2>1 DEF SavedGrows
<1> QED
  BY <1>1, <1>2, <1>3, <1>4, <1>5, <1>6, <1>7, <1>8, <1>9, <1>10 DEF Next

LEMMA NextReplayed == TypeOK /\ ReplayedIsRecorded /\ [Next]_vars => ReplayedIsRecorded'
<1> SUFFICES ASSUME TypeOK, ReplayedIsRecorded, [Next]_vars PROVE ReplayedIsRecorded'
  OBVIOUS
<1>1. table \subseteq table'
  BY NextSaved DEF SavedGrows
<1>2. CASE ReplayBatch
  <2>1. PICK batch \in Batches(Head(files) \ replayed) :
          \/ Commit(batch) /\ replayed' = replayed \cup batch
          \/ Fail(batch) /\ replayed' = {}
    BY <1>2 DEF ReplayBatch
  <2> QED BY <1>1, <2>1 DEF Commit, ReplayedIsRecorded
<1>3. CASE replayed' = replayed \/ replayed' = {}
  BY <1>1, <1>3 DEF ReplayedIsRecorded
<1>4. ASSUME ~ReplayBatch PROVE replayed' = replayed \/ replayed' = {}
  BY <1>4 DEF Next, vars, memory, Enqueue, Overflow, DropAtSubmit, Submit, RunAppend, Take,
     WriteBatch, BatchSpilled, OverflowSpilled, DrainSpilled, Spilled, FlushOverflow,
     RemoveFile, SetAside, Stop, DrainBatch, Exit, Crash, Start, Outage, Recover
<1> QED BY <1>2, <1>3, <1>4

LEMMA NextOnlyDrainHolds == OnlyDrainHolds /\ [Next]_vars => OnlyDrainHolds'
BY DEF OnlyDrainHolds, Next, vars, memory, Enqueue, Overflow, DropAtSubmit, Submit, RunAppend,
   Take, WriteBatch, BatchSpilled, OverflowSpilled, DrainSpilled, Spilled, FlushOverflow,
   ReplayBatch, RemoveFile, SetAside, Stop, DrainBatch, Exit, Crash, Start, Outage, Recover

\* What coroutines and threads hand to each other.
Handover == IdleIsEmpty /\ KeptIsSaved /\ WriterAppend /\ Waiting

LEMMA SavedStays == SavedGrows => Saved \subseteq Saved' /\ Saved \cup counted \subseteq (Saved \cup counted)'
BY DEF SavedGrows, Saved

\* An append that others leave alone keeps what holds of it.
LEMMA QuietHandover ==
  ASSUME Handover, SavedGrows, UNCHANGED <<appends, process>>,
         \/ UNCHANGED <<inflight, left>>
         \/ appends["writer"] = Idle
  PROVE  Handover'
<1> USE SavedStays, IdleType
<1>1. IdleIsEmpty' /\ Waiting'
  BY DEF Handover, IdleIsEmpty, Waiting
<1>2. KeptIsSaved'
  BY DEF Handover, KeptIsSaved
<1>3. WriterAppend'
  BY DEF Handover, WriterAppend
<1> QED BY <1>1, <1>2, <1>3 DEF Handover

LEMMA NextHandover ==
  ASSUME TypeOK, ReplayedIsRecorded, Handover, [Next]_vars
  PROVE  Handover'
<1> USE IdleType
<1>0. SavedGrows /\ Saved \subseteq Saved' /\ Saved \cup counted \subseteq (Saved \cup counted)'
  BY NextSaved, SavedStays
<1>1. ASSUME NEW e \in Events, Enqueue(e) \/ Overflow(e) \/ DropAtSubmit(e) PROVE Handover'
  <2>1. UNCHANGED <<appends, process, inflight, left>>
    BY <1>1 DEF Enqueue, Overflow, DropAtSubmit, Submit
  <2> QED BY <1>0, <2>1, QuietHandover
<1>2. ASSUME NEW s \in Spillers, RunAppend(s) PROVE Handover'
  <2>1. PICK state : EndsWith(s, state)
    BY <1>2, AppendEnds
  <2>2. \A t \in Spillers \ {s} : appends'[t] = appends[t]
    BY <2>1 DEF EndsWith
  <2>3. \/ process = "draining" /\ s # "drain" /\ appends'[s] = Idle
        \/ /\ appends'[s].events = appends[s].events
           /\ appends'[s].state = state /\ state # "idle"
           /\ ~(process = "draining" /\ s # "drain")
    BY <2>1 DEF EndsWith
  <2>4. process' = process /\ inflight' = inflight /\ left' = left /\ appends[s].state = "pending"
    BY <2>1 DEF EndsWith
  <2>5. IdleIsEmpty'
    BY <2>2, <2>3 DEF Handover, IdleIsEmpty
  <2>6. state = "kept" => appends[s].events \subseteq OnDisk'
    <3>1. SUFFICES ASSUME state = "kept" PROVE appends[s].events \subseteq OnDisk'
      OBVIOUS
    <3>2. files' = Append(files, appends[s].events)
      BY <2>1, <3>1 DEF EndsWith
    <3>3. appends[s].events \in SUBSET Events /\ files \in Seq(SUBSET Events)
      BY DEF TypeOK
    <3> QED BY <3>2, <3>3, AppendFile, OnDiskIsFiles
  <2>7. KeptIsSaved'
    BY <1>0, <2>2, <2>3, <2>6 DEF Handover, KeptIsSaved, Saved
  <2>8. Waiting'
    BY <2>2, <2>3, <2>4 DEF Handover, Waiting, Spillers
  <2>9. WriterAppend'
    <3>1. CASE process = "draining"
      <4>1. appends'["drain"].events = appends["drain"].events
        BY <2>2, <2>3 DEF Spillers
      <4>2. appends'["writer"].events \subseteq appends["writer"].events
        BY <2>2, <2>3 DEF Spillers
      <4> QED BY <1>0, <2>4, <3>1, <4>1, <4>2 DEF Handover, WriterAppend
    <3>2. CASE process = "running"
      <4>1. appends'["writer"].events = appends["writer"].events
            \/ appends'["writer"] = appends["writer"]
        BY <2>2, <2>3, <3>2 DEF Spillers
      <4>2. s = "writer" => appends["writer"] # Idle
        BY <2>4
      <4> QED BY <2>2, <2>4, <3>2, <4>1, <4>2 DEF Handover, WriterAppend, Spillers
    <3> QED BY <2>4, <3>1, <3>2 DEF WriterAppend
  <2> QED BY <2>5, <2>7, <2>8, <2>9 DEF Handover
<1>3. CASE Take
  BY <1>0, <1>3, QuietHandover DEF Take
<1>4. CASE WriteBatch
  <2>1. process = "running" /\ process' = "running" /\ appends["writer"] = Idle
    BY <1>4 DEF WriteBatch
  <2>2. CASE UNCHANGED appends
    BY <1>0, <2>1, <2>2, QuietHandover
  <2>3. CASE appends' = [appends EXCEPT !["writer"] = Pending(inflight)] /\ inflight' = inflight
    <3>1. /\ \A t \in Spillers \ {"writer"} : appends'[t] = appends[t]
          /\ appends'["writer"].events = inflight /\ appends'["writer"].state = "pending"
      BY <2>3, PendingType DEF TypeOK, Spillers
    <3>2. IdleIsEmpty' /\ Waiting'
      BY <2>1, <3>1 DEF Handover, IdleIsEmpty, Waiting, Spillers
    <3>3. KeptIsSaved'
      BY <1>0, <3>1 DEF Handover, KeptIsSaved
    <3>4. WriterAppend'
      BY <2>1, <2>3, <3>1 DEF WriterAppend
    <3> QED BY <3>2, <3>3, <3>4 DEF Handover
  <2> QED BY <1>4, <2>2, <2>3 DEF WriteBatch
<1>5. ASSUME NEW s \in Spillers, Spilled(s),
             \/ s = "writer" /\ process = "running" /\ inflight' = {}
             \/ s = "overflow" /\ process = "running" /\ inflight' = inflight
             \/ s = "drain" /\ process = "draining"
      PROVE  Handover'
  <2>1. /\ \A t \in Spillers \ {s} : appends'[t] = appends[t]
        /\ appends'[s] = Idle
        /\ process' = process /\ left' = left
        /\ appends[s].state = "kept" \/ appends[s].events \subseteq counted'
    BY <1>5 DEF Spilled, Finished, TypeOK
  <2>2. IdleIsEmpty' /\ Waiting'
    BY <1>5, <2>1 DEF Handover, IdleIsEmpty, Waiting, Spillers
  <2>3. KeptIsSaved'
    BY <1>0, <2>1 DEF Handover, KeptIsSaved
  <2>4. appends[s].events \subseteq (Saved \cup counted)'
    BY <1>0, <2>1 DEF Handover, KeptIsSaved
  <2>5. WriterAppend'
    BY <1>0, <1>5, <2>1, <2>4 DEF Handover, WriterAppend, Spillers
  <2> QED BY <2>2, <2>3, <2>5 DEF Handover
<1>6. CASE BatchSpilled \/ OverflowSpilled \/ DrainSpilled
  BY <1>5, <1>6 DEF BatchSpilled, OverflowSpilled, DrainSpilled, Spillers
<1>7. CASE FlushOverflow
  <2>1. /\ \A t \in Spillers \ {"overflow"} : appends'[t] = appends[t]
        /\ appends'["overflow"].state = "pending"
        /\ process = "running" /\ process' = process /\ inflight' = inflight
    BY <1>7, PendingType DEF FlushOverflow, TypeOK, Spillers
  <2>2. IdleIsEmpty' /\ Waiting'
    BY <2>1 DEF Handover, IdleIsEmpty, Waiting, Spillers
  <2>3. KeptIsSaved'
    BY <1>0, <2>1 DEF Handover, KeptIsSaved
  <2>4. WriterAppend'
    BY <2>1 DEF Handover, WriterAppend, Spillers
  <2> QED BY <2>2, <2>3, <2>4 DEF Handover
<1>8. CASE ReplayBatch \/ RemoveFile \/ SetAside
  <2>1. UNCHANGED <<appends, process, inflight, left>>
    BY <1>8 DEF ReplayBatch, RemoveFile, SetAside, memory
  <2> QED BY <1>0, <2>1, QuietHandover
<1>9. CASE Stop
  <2>1. /\ process = "running" /\ process' = "draining"
        /\ left' = inflight \cup overflow \cup queue
        /\ \A s \in Spillers : \/ appends'[s] = Idle
                               \/ appends'[s] = appends[s] /\ appends[s].state = "pending"
    BY <1>9 DEF Stop, Collected
  <2>2. IdleIsEmpty' /\ KeptIsSaved'
    BY <2>1 DEF Handover, IdleIsEmpty, KeptIsSaved
  <2>3. Waiting'
    BY <2>1 DEF Handover, Waiting, Spillers
  <2>4. WriterAppend'
    BY <2>1 DEF Handover, WriterAppend, Spillers
  <2> QED BY <2>2, <2>3, <2>4 DEF Handover
<1>10. CASE DrainBatch
  <2>1. PICK batch \in Batches(left) :
          /\ left' = left \ batch
          /\ \/ Commit(batch) /\ UNCHANGED appends
             \/ appends' = [appends EXCEPT !["drain"] = Pending(batch)]
    BY <1>10 DEF DrainBatch
  <2>2. process = "draining" /\ process' = process /\ appends["drain"] = Idle
    BY <1>10 DEF DrainBatch
  <2>3. CASE Commit(batch) /\ UNCHANGED appends
    <3>1. batch \subseteq Saved'
      BY <2>3 DEF Commit, Saved
    <3>2. IdleIsEmpty' /\ Waiting'
      BY <2>2, <2>3 DEF Handover, IdleIsEmpty, Waiting
    <3>3. KeptIsSaved'
      BY <1>0, <2>3 DEF Handover, KeptIsSaved
    <3>4. WriterAppend'
      BY <1>0, <2>1, <2>2, <2>3, <3>1 DEF Handover, WriterAppend
    <3> QED BY <3>2, <3>3, <3>4 DEF Handover
  <2>4. CASE appends' = [appends EXCEPT !["drain"] = Pending(batch)]
    <3>0. batch \in SUBSET Events
      BY BatchesType DEF TypeOK
    <3>1. /\ \A t \in Spillers \ {"drain"} : appends'[t] = appends[t]
          /\ appends'["drain"].events = batch /\ appends'["drain"].state = "pending"
      BY <2>4, <3>0, PendingType DEF TypeOK, Spillers
    <3>2. IdleIsEmpty' /\ Waiting'
      BY <2>2, <3>1 DEF Handover, IdleIsEmpty, Waiting, Spillers
    <3>3. KeptIsSaved'
      BY <1>0, <3>1 DEF Handover, KeptIsSaved
    <3>4. WriterAppend'
      BY <1>0, <2>1, <2>2, <3>1 DEF Handover, WriterAppend, Spillers
    <3> QED BY <3>2, <3>3, <3>4 DEF Handover
  <2> QED BY <2>1, <2>3, <2>4
<1>11. CASE Exit
  BY <1>0, <1>11 DEF Exit, memory, Handover, IdleIsEmpty, KeptIsSaved, WriterAppend, Waiting
<1>12. CASE Crash
  <2>1. process' = "crashed" /\ \A s \in Spillers : appends'[s] = Idle
    BY <1>12 DEF Crash
  <2> QED BY <2>1 DEF Handover, IdleIsEmpty, KeptIsSaved, WriterAppend, Waiting
<1>13. CASE Start
  <2>1. /\ process' = "running" /\ UNCHANGED appends
        /\ \A s \in Spillers : appends[s] = Idle
    BY <1>13 DEF Start, memory, Handover, Waiting
  <2> QED BY <2>1 DEF Handover, IdleIsEmpty, KeptIsSaved, WriterAppend, Waiting, Spillers
<1>14. CASE Outage \/ Recover \/ UNCHANGED vars
  <2>1. UNCHANGED <<appends, process, inflight, left>>
    BY <1>14 DEF Outage, Recover, vars, memory
  <2> QED BY <1>0, <2>1, QuietHandover
<1> QED
  BY <1>1, <1>2, <1>3, <1>4, <1>6, <1>7, <1>8, <1>9, <1>10, <1>11, <1>12, <1>13, <1>14
  DEF Next

LEMMA NextIInv == IInv /\ [Next]_vars => IInv'
BY NextType, NextReplayed, NextOnlyDrainHolds, NextHandover DEF IInv, Handover

\* The invariant holds throughout; the theorem below rests on it.
THEOREM Inductive == Spec => []IInv
BY InitIInv, NextIInv, PTL DEF Spec

-----------------------------------------------------------------------------
(* The writer implements the log *)

LEMMA Places ==
  /\ InMemory = queue \cup inflight \cup overflow \cup left \cup appends["writer"].events
                  \cup appends["overflow"].events \cup appends["drain"].events
  /\ InMemory' = queue' \cup inflight' \cup overflow' \cup left' \cup appends'["writer"].events
                  \cup appends'["overflow"].events \cup appends'["drain"].events
BY DEF InMemory, Spillers

LEMMA InitLog == Init => Log!Init
<1> SUFFICES ASSUME Init PROVE Log!Init
  OBVIOUS
<1>1. InMemory = {} /\ appends["overflow"].events = {}
  BY Places, IdleType DEF Init, Spillers
<1>2. OnDisk = {} /\ Submitted = {}
  BY OnDiskIsFiles, NoFiles DEF Init, Submitted
<1> QED BY <1>1, <1>2 DEF Init, Log!Init

\* submit() takes an event into memory or counts it.
LEMMA NextAccepts == TypeOK /\ [Next]_vars => Log!Accept
<1> SUFFICES ASSUME TypeOK, [Next]_vars PROVE Log!Accept
  OBVIOUS
<1>1. ASSUME NEW e \in Events, Submit(e), e \in InMemory' \cup counted' PROVE Log!Accept
  <2>1. born' = [born EXCEPT ![e] = life] /\ life # 0
    BY <1>1 DEF Submit, TypeOK, Lives
  <2>2. Submitted' = Submitted \cup {e}
    BY <2>1 DEF Submitted, TypeOK
  <2> QED BY <1>1, <2>2 DEF Log!Accept, Submitted
<1>2. ASSUME NEW e \in Events, Enqueue(e) \/ Overflow(e) \/ DropAtSubmit(e) PROVE Log!Accept
  BY <1>1, <1>2, Places DEF Enqueue, Overflow, DropAtSubmit
<1>3. ASSUME born' = born PROVE Log!Accept
  BY <1>3 DEF Log!Accept, Submitted
<1>4. \/ \E e \in Events : Enqueue(e) \/ Overflow(e) \/ DropAtSubmit(e)
      \/ born' = born
  BY DEF Next, vars, memory, RunAppend, Take, WriteBatch, BatchSpilled, OverflowSpilled,
     DrainSpilled, Spilled, FlushOverflow, ReplayBatch, RemoveFile, SetAside, Stop,
     DrainBatch, Exit, Crash, Start, Outage, Recover
<1> QED BY <1>2, <1>3, <1>4

LEMMA NextPhase == [Next]_vars => Log!Phase
BY DEF Log!Phase, Next, vars, memory, Enqueue, Overflow, DropAtSubmit, Submit, RunAppend, Take,
   WriteBatch, BatchSpilled, OverflowSpilled, DrainSpilled, Spilled, FlushOverflow, ReplayBatch,
   RemoveFile, SetAside, Stop, DrainBatch, Exit, Crash, Start, Outage, Recover

SafeAfter == (OnDisk \cup aside \cup table \cup counted)'

\* An event leaves memory for a safe place; only a crash, or a stop for the overflow that
\* is being flushed, loses it.
KeptSafe ==
  \/ InMemory \ InMemory' \subseteq SafeAfter
  \/ process' = "crashed"
  \/ /\ process' = "draining"
     /\ InMemory \ InMemory' \subseteq SafeAfter \cup appends["overflow"].events

LEMMA NextKeptSafe ==
  ASSUME IInv, [Next]_vars
  PROVE  KeptSafe
<1> USE Places, IdleType
<1>0. /\ TypeOK /\ IdleIsEmpty /\ KeptIsSaved /\ WriterAppend /\ Waiting
      /\ OnlyDrainHolds /\ SavedGrows /\ Saved \cup counted \subseteq SafeAfter
  BY NextSaved, SavedStays DEF IInv, Saved, SafeAfter
<1>1. ASSUME InMemory \subseteq InMemory' PROVE KeptSafe
  BY <1>1 DEF KeptSafe
<1>2. ASSUME NEW e \in Events, Enqueue(e) \/ Overflow(e) \/ DropAtSubmit(e) PROVE KeptSafe
  <2>1. /\ queue \subseteq queue' /\ overflow \subseteq overflow'
        /\ UNCHANGED <<inflight, left, appends>>
    BY <1>2 DEF Enqueue, Overflow, DropAtSubmit, Submit
  <2> QED BY <1>1, <2>1
<1>3. ASSUME NEW s \in Spillers, RunAppend(s) PROVE KeptSafe
  <2>1. PICK state : EndsWith(s, state)
    BY <1>0, <1>3, AppendEnds
  <2>2. /\ UNCHANGED <<queue, inflight, overflow, left, process>>
        /\ \A t \in Spillers \ {s} : appends'[t] = appends[t]
    BY <2>1 DEF EndsWith
  <2>3. CASE appends'[s].events = appends[s].events
    <3>1. \A t \in Spillers : appends'[t].events = appends[t].events
      BY <2>2, <2>3
    <3> QED BY <1>1, <2>2, <3>1 DEF Spillers
  <2>4. CASE process = "draining" /\ s = "writer"
    <3>1. /\ appends'["overflow"] = appends["overflow"] /\ appends'["drain"] = appends["drain"]
      BY <2>2, <2>4 DEF Spillers
    <3>2. appends["writer"].events \subseteq left \cup appends["drain"].events \cup SafeAfter
      BY <1>0, <2>4 DEF WriterAppend
    <3>3. InMemory \ InMemory' \subseteq SafeAfter
      BY <2>2, <3>1, <3>2
    <3> QED BY <3>3 DEF KeptSafe
  <2>5. CASE process = "draining" /\ s = "overflow"
    <3>1. /\ appends'["writer"] = appends["writer"] /\ appends'["drain"] = appends["drain"]
      BY <2>2, <2>5 DEF Spillers
    <3>2. InMemory \ InMemory' \subseteq appends["overflow"].events
      BY <2>2, <3>1
    <3> QED BY <2>2, <2>5, <3>2 DEF KeptSafe
  <2> QED BY <2>1, <2>3, <2>4, <2>5 DEF EndsWith, Spillers
<1>4. CASE Take
  <2>1. /\ queue' \cup inflight' = queue \cup inflight
        /\ UNCHANGED <<overflow, left, appends>>
    BY <1>4 DEF Take
  <2> QED BY <1>1, <2>1
<1>5. CASE WriteBatch
  <2>1. UNCHANGED <<queue, overflow, left>> /\ appends["writer"] = Idle
    BY <1>5 DEF WriteBatch
  <2>2. CASE Commit(inflight) /\ UNCHANGED appends
    <3>1. inflight \subseteq SafeAfter
      BY <2>2 DEF Commit, SafeAfter
    <3>2. InMemory \ InMemory' \subseteq SafeAfter
      BY <2>1, <2>2, <3>1
    <3> QED BY <3>2 DEF KeptSafe
  <2>3. CASE UNCHANGED inflight /\ (\/ UNCHANGED appends
                                    \/ appends' = [appends EXCEPT !["writer"] = Pending(inflight)])
    <3>1. \A t \in Spillers \ {"writer"} : appends'[t] = appends[t]
      BY <1>0, <2>3 DEF TypeOK, Spillers
    <3> QED BY <1>1, <2>1, <2>3, <3>1 DEF Spillers
  <2> QED BY <1>5, <2>2, <2>3 DEF WriteBatch
<1>6. ASSUME NEW s \in Spillers, Spilled(s)
      PROVE  /\ \A t \in Spillers \ {s} : appends'[t] = appends[t]
             /\ appends[s].events \subseteq SafeAfter
             /\ UNCHANGED <<queue, overflow, left>>
  <2>1. CASE appends[s].state = "kept"
    BY <1>0, <1>6, <2>1 DEF KeptIsSaved, Spilled, TypeOK
  <2>2. CASE appends[s].state = "refused"
    BY <1>0, <1>6, <2>2 DEF Spilled, TypeOK, SafeAfter
  <2> QED BY <1>6, <2>1, <2>2 DEF Spilled, Finished
<1>7. CASE BatchSpilled
  <2>1. /\ process = "running" /\ Spilled("writer")
    BY <1>7 DEF BatchSpilled
  <2>2. inflight \subseteq SafeAfter
    <3>1. appends["writer"].events = inflight
      BY <1>0, <2>1 DEF WriterAppend, Spilled, Finished
    <3> QED BY <1>6, <2>1, <3>1 DEF Spillers
  <2>3. InMemory \ InMemory' \subseteq SafeAfter
    BY <1>6, <2>1, <2>2 DEF Spillers
  <2> QED BY <2>3 DEF KeptSafe
<1>8. CASE OverflowSpilled
  <2>1. Spilled("overflow") /\ UNCHANGED inflight
    BY <1>8 DEF OverflowSpilled
  <2>2. InMemory \ InMemory' \subseteq SafeAfter
    BY <1>6, <2>1 DEF Spillers
  <2> QED BY <2>2 DEF KeptSafe
<1>9. CASE DrainSpilled
  <2>1. Spilled("drain") /\ UNCHANGED inflight
    BY <1>9 DEF DrainSpilled
  <2>2. InMemory \ InMemory' \subseteq SafeAfter
    BY <1>6, <2>1 DEF Spillers
  <2> QED BY <2>2 DEF KeptSafe
<1>10. CASE FlushOverflow
  <2>1. /\ UNCHANGED <<queue, inflight, left>> /\ appends["overflow"] = Idle
        /\ appends' = [appends EXCEPT !["overflow"] = Pending(overflow)]
    BY <1>10 DEF FlushOverflow
  <2>2. /\ \A t \in Spillers \ {"overflow"} : appends'[t] = appends[t]
        /\ appends'["overflow"].events = overflow
    BY <1>0, <2>1, PendingType DEF TypeOK, Spillers
  <2> QED BY <1>1, <2>1, <2>2 DEF Spillers
<1>11. CASE ReplayBatch \/ RemoveFile \/ SetAside \/ Start \/ Exit \/ Outage \/ Recover
              \/ UNCHANGED vars
  <2>1. UNCHANGED <<queue, inflight, overflow, left, appends>>
    BY <1>11 DEF ReplayBatch, RemoveFile, SetAside, Start, Exit, Outage, Recover, vars, memory
  <2> QED BY <1>1, <2>1
<1>12. CASE Stop
  <2>1. /\ process = "running" /\ process' = "draining"
        /\ left' = inflight \cup overflow \cup queue
    BY <1>12 DEF Stop, Collected
  <2>2. appends["drain"].events = {}
    BY <1>0, <2>1 DEF Waiting
  <2>3. appends["writer"].events \subseteq inflight
    BY <1>0, <2>1 DEF WriterAppend
  <2>4. left = {}
    BY <1>0, <2>1 DEF OnlyDrainHolds
  <2>5. InMemory \ InMemory' \subseteq appends["overflow"].events
    BY <2>1, <2>2, <2>3, <2>4
  <2> QED BY <2>1, <2>5 DEF KeptSafe
<1>13. CASE DrainBatch
  <2>1. PICK batch \in Batches(left) :
          /\ left' = left \ batch
          /\ \/ Commit(batch) /\ UNCHANGED appends
             \/ appends' = [appends EXCEPT !["drain"] = Pending(batch)]
    BY <1>13 DEF DrainBatch
  <2>2. UNCHANGED <<queue, inflight, overflow>> /\ appends["drain"] = Idle
    BY <1>13 DEF DrainBatch
  <2>3. CASE Commit(batch) /\ UNCHANGED appends
    <3>1. batch \subseteq SafeAfter
      BY <2>3 DEF Commit, SafeAfter
    <3>2. InMemory \ InMemory' \subseteq SafeAfter
      BY <2>1, <2>2, <2>3, <3>1
    <3> QED BY <3>2 DEF KeptSafe
  <2>4. CASE appends' = [appends EXCEPT !["drain"] = Pending(batch)]
    <3>1. batch \in SUBSET Events
      BY <1>0, BatchesType DEF TypeOK
    <3>2. /\ \A t \in Spillers \ {"drain"} : appends'[t] = appends[t]
          /\ appends'["drain"].events = batch
      BY <1>0, <2>4, <3>1, PendingType DEF TypeOK, Spillers
    <3> QED BY <1>1, <2>1, <2>2, <3>2 DEF Spillers
  <2> QED BY <2>1, <2>3, <2>4
<1>14. CASE Crash
  BY <1>14 DEF Crash, KeptSafe
<1> QED
  BY <1>2, <1>3, <1>4, <1>5, <1>7, <1>8, <1>9, <1>10, <1>11, <1>12, <1>13, <1>14 DEF Next

LEMMA NextImplements == IInv /\ [Next]_vars => Log!Next
<1> SUFFICES ASSUME IInv, [Next]_vars PROVE Log!Next
  OBVIOUS
<1>1. SavedGrows
  BY NextSaved DEF IInv
<1>2. Log!Final /\ Log!LeaveDisk
  BY <1>1 DEF SavedGrows, Log!Final, Log!LeaveDisk
<1>3. Log!LeaveMemory
  BY NextKeptSafe DEF KeptSafe, Log!LeaveMemory, Log!Safe, Log!MayBeLost, SafeAfter
<1> QED BY <1>2, <1>3, NextAccepts, NextPhase DEF Log!Next, IInv

\* The audit writer implements the log: no event vanishes while the process runs, whatever
\* the sizes of queue, overflow, batches and spool and however often the database, the disk
\* and the process fail.
THEOREM KeepsItsPromise == Spec => Promise
<1>1. Init => Log!Init
  BY InitLog
<1>2. IInv /\ [Next]_vars => [Log!Next]_<<Log!places, process>>
  BY NextImplements
<1> QED BY <1>1, <1>2, Inductive, PTL DEF Spec, Promise, Log!Spec

-----------------------------------------------------------------------------
(* The heads of the chains *)

\* Only a write whose commit was acknowledged moves a head, and only on to an event of its
\* batch; a new process starts with new chains.
LEMMA NextHeads == TypeOK /\ HeadsRecorded /\ [Next]_vars => HeadsRecorded'
<1> SUFFICES ASSUME TypeOK, HeadsRecorded, [Next]_vars PROVE HeadsRecorded'
  OBVIOUS
<1>0. \A c \in Lives : heads[c] # 0 => heads[c] \in Events
  BY BoundsAssumption DEF TypeOK, Events
<1>1. ASSUME NEW e \in Events, Submit(e) PROVE HeadsRecorded'
  <2>1. UNCHANGED <<table, heads>> /\ \A x \in Events \ {e} : born'[x] = born[x]
    BY <1>1 DEF Submit, database, TypeOK
  <2>2. \A c \in Lives : heads[c] # e
    <3>1. born[e] = 0 /\ \A c \in Lives : c # 0
      BY <1>1 DEF Submit, Submitted, Lives
    <3>2. 0 \notin Events
      BY DEF Events
    <3> QED BY <3>1, <3>2 DEF HeadsRecorded
  <2> QED BY <1>0, <2>1, <2>2 DEF HeadsRecorded
<1>2. ASSUME NEW batch, Commit(batch) \/ Fail(batch), UNCHANGED born PROVE HeadsRecorded'
  <2>1. CASE Commit(batch)
    <3>1. /\ table' = table \cup batch
          /\ \A c \in Lives : heads'[c] \in {heads[c]} \cup {e \in batch : born[e] = c}
      BY <2>1 DEF Commit, HeadsAfter
    <3> QED BY <1>2, <3>1 DEF HeadsRecorded
  <2>2. CASE Fail(batch)
    <3>1. table \subseteq table' /\ UNCHANGED heads
      BY <2>2 DEF Fail
    <3> QED BY <1>2, <3>1 DEF HeadsRecorded
  <2> QED BY <1>2, <2>1, <2>2
<1>3. CASE Start
  <2>1. \A c \in Lives : heads'[c] = 0
    BY <1>3 DEF Start
  <2> QED BY <2>1 DEF HeadsRecorded
<1>4. ASSUME UNCHANGED <<born, heads, table>> PROVE HeadsRecorded'
  BY <1>4 DEF HeadsRecorded
<1>5. \/ \E e \in Events : Submit(e)
      \/ \E batch : (Commit(batch) \/ Fail(batch)) /\ UNCHANGED born
      \/ Start
      \/ UNCHANGED <<born, heads, table>>
  <2>1. CASE \E e \in Events : Enqueue(e) \/ Overflow(e) \/ DropAtSubmit(e)
    BY <2>1 DEF Enqueue, Overflow, DropAtSubmit
  <2>2. CASE WriteBatch \/ ReplayBatch \/ DrainBatch
    BY <2>2 DEF WriteBatch, ReplayBatch, DrainBatch
  <2>3. CASE \E s \in Spillers : RunAppend(s)
    BY <2>3 DEF RunAppend, database
  <2>4. CASE Take \/ FlushOverflow \/ RemoveFile \/ SetAside \/ Stop \/ Exit \/ Crash
               \/ Outage \/ Recover \/ UNCHANGED vars
    BY <2>4 DEF Take, FlushOverflow, RemoveFile, SetAside, Stop, Exit, Crash, Outage, Recover,
       vars, database
  <2>5. CASE BatchSpilled \/ OverflowSpilled \/ DrainSpilled
    BY <2>5 DEF BatchSpilled, OverflowSpilled, DrainSpilled, Spilled, database
  <2> QED BY <2>1, <2>2, <2>3, <2>4, <2>5 DEF Next
<1> QED BY <1>1, <1>2, <1>3, <1>4, <1>5

\* "an exported head always exists in the database": whatever order the writer, the replay
\* and the drain commit in, and however their writes end, a head that is reported is that
\* of a record of its chain.
THEOREM HeadsAreRecorded == Spec => []HeadsRecorded
<1>1. Init => HeadsRecorded
  BY DEF Init, HeadsRecorded
<1> QED BY <1>1, NextHeads, TypeCorrect, PTL DEF Spec
=============================================================================
