------------------------------ MODULE AuditLog ------------------------------
(***************************************************************************)
(* The audit writer of one gateway with its disk spool: audit/writer.py    *)
(* and audit/spool.py, with the chain heads it reports (audit/chain.py).   *)
(*                                                                         *)
(* One event loop runs the writer, the overflow loop, the replay loop and, *)
(* at shutdown, the drain; a step ends where one of them awaits.  Appends  *)
(* to the spool run in worker threads: they finish whatever happens to the *)
(* coroutine that waits for them.  The database may be down, or lose the   *)
(* acknowledgement of a commit; the process may stop, crash and start      *)
(* again, and its spool files stay.                                        *)
(*                                                                         *)
(* Events are numbered in the order they are submitted, which is the order *)
(* of the queue and of a hash chain; a batch is a set of them.             *)
(***************************************************************************)
EXTENDS Integers, FiniteSets, Sequences, SequencesExt

CONSTANTS
  MaxEvents,      \* bound on the events submitted
  QueueSize,      \* audit_queue_size
  OverflowMax,    \* _overflow_max
  BatchSize,      \* audit_batch_size
  SpoolMax,       \* audit_spool_max_mb, in events
  MaxOutages,     \* bound on the database's outages
  MaxDiskErrors,  \* bound on appends and reads that fail
  MaxLives        \* bound on the starts of the process

ASSUME BoundsAssumption ==
  /\ MaxEvents \in Nat /\ QueueSize \in Nat \ {0} /\ OverflowMax \in Nat
  /\ BatchSize \in Nat \ {0} /\ SpoolMax \in Nat
  /\ MaxOutages \in Nat /\ MaxDiskErrors \in Nat /\ MaxLives \in Nat \ {0}

Events == 1..MaxEvents
Lives == 1..MaxLives
Spillers == {"writer", "overflow", "drain"}

VARIABLES
  process,     \* running, draining (in stop()), stopped or crashed
  life,        \* number of this process
  born,        \* the process, and so the chain, of each event; 0: not submitted
  queue,       \* _queue
  inflight,    \* _inflight
  failures,    \* failed attempts to write _inflight
  overflow,    \* _overflow
  left,        \* the local "pending" of _drain()
  appends,     \* the append each coroutine waits for, or has left behind
  files,       \* spool files, oldest first
  replayed,    \* events of the oldest file written in this pass of the replay
  aside,       \* events in .bad files
  table,       \* audit.audit_events
  heads,       \* _written_heads: newest event of each chain known to be committed
  counted,     \* the events audit_events_dropped_total stands for
  up,          \* the database answers
  outages, diskErrors

memory == <<queue, inflight, failures, overflow, left, appends, replayed>>
spool == <<files, aside, diskErrors>>
database == <<table, heads, up, outages>>
vars == <<process, life, born, memory, spool, database, counted>>

Submitted == {e \in Events : born[e] # 0}
OnDisk == UNION {files[i] : i \in DOMAIN files}
InMemory ==
  queue \cup inflight \cup overflow \cup left \cup UNION {appends[s].events : s \in Spillers}

\* size_bytes(), in events.
SpoolSize == FoldSeq(LAMBDA file, n : Cardinality(file) + n, 0, files)

Idle == [events |-> {}, state |-> "idle"]
Pending(events) == [events |-> events, state |-> "pending"]
Finished(s) == appends[s].state \in {"kept", "refused"}

\* The next batch of a set; in which order the set is cut into batches is left open.
Batches(events) ==
  {b \in SUBSET events :
     Cardinality(b) = IF Cardinality(events) < BatchSize THEN Cardinality(events) ELSE BatchSize}

-----------------------------------------------------------------------------
(* _write(): audit rows and outbox rows in one transaction. *)

\* The head of a chain is its newest event, of those written and the head so far.
HeadsAfter(batch) ==
  {h \in [Lives -> 0..MaxEvents] :
     \A c \in Lives :
       LET chain == {heads[c]} \cup {e \in batch : born[e] = c}
       IN h[c] \in chain /\ \A e \in chain : e <= h[c]}

Commit(batch) ==
  /\ up
  /\ table' = table \cup batch
  /\ heads' \in HeadsAfter(batch)
  /\ UNCHANGED <<up, outages>>

\* Mutation: the heads move on before the commit is acknowledged.
FailWithHeads(batch) ==
  /\ \/ up /\ outages < MaxOutages
        /\ up' = FALSE /\ outages' = outages + 1 /\ table' = table \cup batch
     \/ ~up /\ UNCHANGED <<up, outages, table>>
  /\ heads' \in HeadsAfter(batch)

\* The database is down, or it goes down after the commit and before it is acknowledged.
\* A timeout and a cancelled write look the same.
Fail(batch) ==
  /\ \/ up /\ outages < MaxOutages
        /\ up' = FALSE /\ outages' = outages + 1 /\ table' = table \cup batch
     \/ ~up /\ UNCHANGED <<up, outages, table>>
  /\ UNCHANGED heads

Outage ==
  /\ up /\ outages < MaxOutages
  /\ up' = FALSE /\ outages' = outages + 1
  /\ UNCHANGED <<process, life, born, memory, spool, table, heads, counted>>

Recover ==
  /\ ~up /\ up' = TRUE
  /\ UNCHANGED <<process, life, born, memory, spool, table, heads, outages, counted>>

-----------------------------------------------------------------------------
(* submit(), called by the request path: never waits. *)

Submit(e) ==
  /\ process = "running"
  /\ e \notin Submitted /\ \A f \in Events : f < e => f \in Submitted
  /\ born' = [born EXCEPT ![e] = life]
  /\ UNCHANGED <<process, life, inflight, failures, left, appends, replayed, spool, database>>

Enqueue(e) ==
  /\ Cardinality(queue) < QueueSize
  /\ queue' = queue \cup {e}
  /\ Submit(e)
  /\ UNCHANGED <<overflow, counted>>

Overflow(e) ==
  /\ Cardinality(queue) >= QueueSize /\ Cardinality(overflow) < OverflowMax
  /\ overflow' = overflow \cup {e}
  /\ Submit(e)
  /\ UNCHANGED <<queue, counted>>

DropAtSubmit(e) ==
  /\ Cardinality(queue) >= QueueSize /\ Cardinality(overflow) >= OverflowMax
  /\ counted' = counted \cup {e}
  /\ Submit(e)
  /\ UNCHANGED <<queue, overflow>>

-----------------------------------------------------------------------------
(* The spool's threads. *)

\* append(): a file of its own for each call, all of it or nothing.  When the coroutine
\* that asked was cancelled, nobody learns the result.
RunAppend(s) ==
  /\ appends[s].state = "pending"
  /\ LET fits == SpoolSize + Cardinality(appends[s].events) <= SpoolMax
         end(state) ==
           appends' = [appends EXCEPT ![s] =
             IF process = "draining" /\ s # "drain" THEN Idle ELSE [@ EXCEPT !.state = state]]
     IN \/ /\ fits
           /\ files' = Append(files, appends[s].events)
           /\ end("kept")
           /\ UNCHANGED diskErrors
        \/ /\ ~fits
           /\ end("refused")
           /\ UNCHANGED <<files, diskErrors>>
        \/ /\ fits /\ diskErrors < MaxDiskErrors
           /\ diskErrors' = diskErrors + 1
           /\ end("refused")
           /\ UNCHANGED files
  /\ UNCHANGED <<process, life, born, queue, inflight, failures, overflow, left, replayed,
                 aside, database, counted>>

\* _spill() after its append: what the spool refused is counted.
Spilled(s) ==
  /\ Finished(s)
  /\ appends' = [appends EXCEPT ![s] = Idle]
  /\ counted' = IF appends[s].state = "refused" THEN counted \cup appends[s].events
                ELSE counted
  /\ UNCHANGED <<process, life, born, queue, overflow, left, replayed, spool, database>>

-----------------------------------------------------------------------------
(* _run(): the writer. *)

\* _take_batch(), one event; the batch is written when it is full or flush_seconds old.
Take ==
  /\ process = "running"
  /\ failures = 0 /\ appends["writer"] = Idle
  /\ Cardinality(inflight) < BatchSize
  /\ \E e \in queue :
       /\ \A f \in queue : e <= f
       /\ queue' = queue \ {e}
       /\ inflight' = inflight \cup {e}
  /\ UNCHANGED <<process, life, born, failures, overflow, left, appends, replayed, spool,
                 database, counted>>

\* for attempt in range(3).
LastFailed == failures = 2

WriteBatch ==
  /\ process = "running"
  /\ inflight # {} /\ appends["writer"] = Idle
  /\ \/ /\ Commit(inflight)
        /\ inflight' = {} /\ failures' = 0
        /\ UNCHANGED appends
     \/ /\ Fail(inflight)
        /\ IF LastFailed
           THEN appends' = [appends EXCEPT !["writer"] = Pending(inflight)] /\ UNCHANGED failures
           ELSE failures' = failures + 1 /\ UNCHANGED appends
        /\ UNCHANGED inflight
  /\ UNCHANGED <<process, life, born, queue, overflow, left, replayed, spool, counted>>

BatchSpilled ==
  /\ process = "running"
  /\ Spilled("writer")
  /\ inflight' = {} /\ failures' = 0

-----------------------------------------------------------------------------
(* The overflow loop and the replay loop. *)

\* Mutation: waits until there is no room.
OnlyWhenFull == Cardinality(overflow) >= OverflowMax

AnyOverflow == overflow # {}

FlushOverflow ==
  /\ process = "running"
  /\ AnyOverflow /\ appends["overflow"] = Idle
  /\ appends' = [appends EXCEPT !["overflow"] = Pending(overflow)]
  /\ overflow' = {}
  /\ UNCHANGED <<process, life, born, queue, inflight, failures, left, replayed, spool,
                 database, counted>>

OverflowSpilled ==
  /\ process = "running"
  /\ Spilled("overflow")
  /\ UNCHANGED <<inflight, failures>>

\* replay_spool(): a failure ends the pass, and the next one starts the file again.
ReplayBatch ==
  /\ process = "running"
  /\ files # <<>> /\ Head(files) \ replayed # {}
  /\ \E batch \in Batches(Head(files) \ replayed) :
       \/ Commit(batch) /\ replayed' = replayed \cup batch
       \/ Fail(batch) /\ replayed' = {}
  /\ UNCHANGED <<process, life, born, queue, inflight, failures, overflow, left, appends,
                 spool, counted>>

RemoveFile ==
  /\ process = "running"
  /\ files # <<>> /\ Head(files) \subseteq replayed
  /\ files' = Tail(files) /\ replayed' = {}
  /\ UNCHANGED <<process, life, born, queue, inflight, failures, overflow, left, appends,
                 aside, diskErrors, database, counted>>

\* quarantine() of a file that cannot be read.
SetAside ==
  /\ process = "running"
  /\ files # <<>> /\ replayed = {} /\ diskErrors < MaxDiskErrors
  /\ diskErrors' = diskErrors + 1
  /\ files' = Tail(files) /\ aside' = aside \cup Head(files)
  /\ UNCHANGED <<process, life, born, memory, database, counted>>

-----------------------------------------------------------------------------
(* Shutdown, crash and restart. *)

\* stop(): the loops are cancelled where they await, then _drain() collects what they
\* left.  An append may be cancelled before its thread starts; one that runs goes on.
\* Mutation: the batch in flight is forgotten.
CollectedWithoutInflight == overflow \cup queue

Collected == inflight \cup overflow \cup queue

Stop ==
  /\ process = "running" /\ life < MaxLives
  /\ process' = "draining"
  /\ left' = Collected
  /\ queue' = {} /\ inflight' = {} /\ overflow' = {} /\ failures' = 0 /\ replayed' = {}
  /\ \E running \in SUBSET {s \in Spillers : appends[s].state = "pending"} :
       appends' = [s \in Spillers |-> IF s \in running THEN appends[s] ELSE Idle]
  /\ UNCHANGED <<life, born, spool, database, counted>>

\* _safe_write().
DrainBatch ==
  /\ process = "draining"
  /\ left # {} /\ appends["drain"] = Idle
  /\ \E batch \in Batches(left) :
       /\ left' = left \ batch
       /\ \/ Commit(batch) /\ UNCHANGED appends
          \/ Fail(batch) /\ appends' = [appends EXCEPT !["drain"] = Pending(batch)]
  /\ UNCHANGED <<process, life, born, queue, inflight, failures, overflow, replayed, spool,
                 counted>>

DrainSpilled ==
  /\ process = "draining"
  /\ Spilled("drain")
  /\ UNCHANGED <<inflight, failures>>

\* The interpreter waits for its worker threads.
Exit ==
  /\ process = "draining"
  /\ left = {} /\ \A s \in Spillers : appends[s] = Idle
  /\ process' = "stopped"
  /\ UNCHANGED <<life, born, memory, spool, database, counted>>

Crash ==
  /\ process \in {"running", "draining"} /\ life < MaxLives
  /\ process' = "crashed"
  /\ queue' = {} /\ inflight' = {} /\ overflow' = {} /\ left' = {} /\ replayed' = {}
  /\ failures' = 0
  /\ appends' = [s \in Spillers |-> Idle]
  /\ UNCHANGED <<life, born, spool, database, counted>>

\* A new AuditSpool finds the files of earlier processes; the chain is a new one.
Start ==
  /\ process \in {"stopped", "crashed"}
  /\ process' = "running" /\ life' = life + 1
  /\ heads' = [c \in Lives |-> 0]
  /\ UNCHANGED <<born, memory, spool, table, up, outages, counted>>

-----------------------------------------------------------------------------
Init ==
  /\ process = "running" /\ life = 1
  /\ born = [e \in Events |-> 0]
  /\ queue = {} /\ inflight = {} /\ failures = 0 /\ overflow = {} /\ left = {}
  /\ appends = [s \in Spillers |-> Idle]
  /\ files = <<>> /\ replayed = {} /\ aside = {}
  /\ table = {} /\ heads = [c \in Lives |-> 0] /\ counted = {}
  /\ up = TRUE /\ outages = 0 /\ diskErrors = 0

Next ==
  \/ \E e \in Events : Enqueue(e) \/ Overflow(e) \/ DropAtSubmit(e)
  \/ \E s \in Spillers : RunAppend(s)
  \/ Take \/ WriteBatch \/ BatchSpilled
  \/ FlushOverflow \/ OverflowSpilled
  \/ ReplayBatch \/ RemoveFile \/ SetAside
  \/ Stop \/ DrainBatch \/ DrainSpilled \/ Exit \/ Crash \/ Start
  \/ Outage \/ Recover

\* Every loop runs again, a thread ends, a process that ended is started again by its
\* orchestrator, and an outage of the database ends.
Fairness ==
  /\ WF_vars(Take \/ WriteBatch \/ BatchSpilled)
  /\ WF_vars(FlushOverflow \/ OverflowSpilled)
  /\ WF_vars(ReplayBatch \/ RemoveFile)
  /\ WF_vars(DrainBatch \/ DrainSpilled \/ Exit)
  /\ \A s \in Spillers : WF_vars(RunAppend(s))
  /\ WF_vars(Start) /\ WF_vars(Recover)

Spec == Init /\ [][Next]_vars
FairSpec == Spec /\ Fairness

-----------------------------------------------------------------------------
TypeOK ==
  /\ process \in {"running", "draining", "stopped", "crashed"}
  /\ life \in Lives /\ (process # "running" => life < MaxLives)
  /\ born \in [Events -> 0..MaxLives]
  /\ queue \subseteq Events /\ inflight \subseteq Events /\ overflow \subseteq Events
  /\ failures \in 0..2 /\ left \subseteq Events /\ replayed \subseteq Events
  /\ appends \in [Spillers -> [events : SUBSET Events,
                               state : {"idle", "pending", "kept", "refused"}]]
  /\ files \in Seq(SUBSET Events) /\ aside \subseteq Events
  /\ table \subseteq Events /\ heads \in [Lives -> 0..MaxEvents] /\ counted \subseteq Events
  /\ up \in BOOLEAN /\ outages \in 0..MaxOutages /\ diskErrors \in 0..MaxDiskErrors

\* The writer keeps what the audit log promises: no event vanishes while the process runs,
\* and an orderly stop can lose only what the overflow loop was writing to disk
\* (writer.py:118-137, 172-183, 219-248; spool.py:71-102).
Log == INSTANCE DecisionLog WITH
  accepted <- Submitted, memory <- InMemory, flushing <- appends["overflow"].events,
  disk <- OnDisk, recorded <- table, phase <- process
Promise == Log!Spec

\* With a database that comes back, every event leaves memory and the spool in the end:
\* full queue, retries, refused appends, failed replays and restarts included
\* (writer.py:139-170).
NothingStuck == Log!Live

\* "an exported head always exists in the database" (writer.py:72-74): a head is reported
\* only for a record whose commit was acknowledged.
HeadsRecorded == \A c \in Lives : heads[c] # 0 => heads[c] \in table /\ born[heads[c]] = c
=============================================================================
