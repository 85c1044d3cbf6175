---------------------------- MODULE OutboxRelay ----------------------------
(***************************************************************************)
(* The transactional outbox: audit records are stamped into a hash chain   *)
(* (audit/chain.py), written with their event rows in one transaction      *)
(* (writer.py), and relayed by every gateway to every sink                 *)
(* (events/relay.py, events/sinks.py); chain heads are exported the same   *)
(* way (writer.py).                                                        *)
(*                                                                         *)
(* A process is one life of a gateway, with a chain of its own: a replica, *)
(* or the successor of one that stopped.  AuditLog has the writer's queue  *)
(* and spool in full; here a record waits in "held" until it is written.   *)
(***************************************************************************)
EXTENDS Integers, FiniteSets, Sequences, SequencesExt

CONSTANTS
  Processes,     \* lives of gateways
  MaxRecords,    \* bound on the records stamped
  SinkCount,     \* the sinks, in the order they are called, are 1..SinkCount
  RelayBatch,    \* batch_size of the relay
  MaxFailures,   \* bound on failed publications and lost acknowledgements
  MaxExports     \* bound on exports of chain heads

ASSUME RelayAssumption ==
  /\ IsFiniteSet(Processes)
  /\ MaxRecords \in Nat \ {0} /\ SinkCount \in Nat \ {0} /\ RelayBatch \in Nat \ {0}
  /\ MaxFailures \in Nat /\ MaxExports \in Nat

Sinks == 1..SinkCount

\* A record is the seq-th of its chain; its event has the record's id, so export = 0.
\* A chain-heads event names a record too, with an id of its own: the export's number.
Events == [chain : Processes, seq : 1..MaxRecords, export : 0..MaxExports]
Records == {e \in Events : e.export = 0}
Record(p, n) == [chain |-> p, seq |-> n, export |-> 0]

VARIABLES
  phase,       \* unborn, running, draining, last, stopped or crashed
  stamped,     \* AuditChain._heads: the newest seq of each chain
  held,        \* records in queues and spools
  table,       \* audit.audit_events
  heads,       \* _written_heads of each process, by chain
  rows,        \* guardrail.outbox by id: its event, and new, published or pruned
  relay,       \* publish_once(): the rows it has locked, the sinks that took them
  received,    \* what each sink was sent
  again,       \* events some sink was sent more than once
  excused,     \* events of a batch rolled back, or inserted again after they were pruned
  failures, exports

vars == <<phase, stamped, held, table, heads, rows, relay, received, again, excused,
          failures, exports>>

NoBatch == [ids |-> {}, sent |-> 0]
Alive(p) == phase[p] \in {"running", "draining"}
EventsOf(ids) == {rows[i].event : i \in ids}
Present == {rows[i].event : i \in {j \in DOMAIN rows : rows[j].state # "pruned"}}
Row(e) == [event |-> e, state |-> "new"]

-----------------------------------------------------------------------------
Start(p) ==
  /\ phase[p] = "unborn"
  /\ phase' = [phase EXCEPT ![p] = "running"]
  /\ UNCHANGED <<stamped, held, table, heads, rows, relay, received, again, excused,
                 failures, exports>>

Stamped == {r \in Processes \X (1..MaxRecords) : r[2] <= stamped[r[1]]}

\* submit(): the record is stamped before anyone knows whether there is room for it.
Decide(p) ==
  /\ phase[p] = "running" /\ Cardinality(Stamped) < MaxRecords
  /\ stamped' = [stamped EXCEPT ![p] = @ + 1]
  /\ \/ held' = held \cup {Record(p, stamped'[p])}
     \/ UNCHANGED held
  /\ UNCHANGED <<phase, table, heads, rows, relay, received, again, excused, failures, exports>>

\* _write(), of its own record or one of an earlier process from the spool.  When the
\* acknowledgement is lost the record is still held.
\* on_conflict_do_nothing(index_elements=["event_id"]).
Inserted(e) == IF e \in Present THEN rows ELSE Append(rows, Row(e))

HeadAfter(p, e) == IF e.seq > heads[p][e.chain] THEN e.seq ELSE heads[p][e.chain]

Write(p, e) ==
  /\ Alive(p) /\ e \in held
  /\ e.chain = p \/ ~Alive(e.chain)
  /\ table' = table \cup {e}
  /\ rows' = Inserted(e)
  /\ excused' = IF e \in table /\ e \notin Present THEN excused \cup {e} ELSE excused
  /\ \/ /\ held' = held \ {e}
        /\ heads' = [heads EXCEPT ![p][e.chain] = HeadAfter(p, e)]
        /\ UNCHANGED failures
     \/ /\ failures < MaxFailures /\ failures' = failures + 1
        /\ UNCHANGED <<held, heads>>
  /\ UNCHANGED <<phase, stamped, relay, received, again, exports>>

-----------------------------------------------------------------------------
(* publish_once() *)

\* ... WHERE published_at IS NULL ORDER BY id LIMIT n FOR UPDATE SKIP LOCKED
Locked == UNION {relay[p].ids : p \in Processes}
Unpublished == {i \in DOMAIN rows : rows[i].state = "new"}

\* Mutation: waits for a full batch.
OldestFull(ids) ==
  IF Cardinality(ids) < RelayBatch THEN {}
  ELSE {i \in ids : Cardinality({j \in ids : j < i}) < RelayBatch}

Oldest(ids) == {i \in ids : Cardinality({j \in ids : j < i}) < RelayBatch}

Selectable == Unpublished \ Locked

Select(p) ==
  /\ Alive(p) \/ phase[p] = "last"
  /\ relay[p] = NoBatch /\ Selectable # {}
  /\ relay' = [relay EXCEPT ![p].ids = Oldest(Selectable)]
  /\ UNCHANGED <<phase, stamped, held, table, heads, rows, received, again, excused,
                 failures, exports>>

Sent(p, events) ==
  LET sink == relay[p].sent + 1 IN
  /\ received' = [received EXCEPT ![sink] = @ \cup events]
  /\ again' = again \cup (received[sink] \cap events)

Publish(p) ==
  /\ relay[p].ids # {} /\ relay[p].sent < SinkCount
  /\ Sent(p, EventsOf(relay[p].ids))
  /\ relay' = [relay EXCEPT ![p].sent = @ + 1]
  /\ UNCHANGED <<phase, stamped, held, table, heads, rows, excused, failures, exports>>

\* The transaction ends without a commit: the rows are unlocked, and what the sinks have
\* they have.
RollBack(p) ==
  /\ relay' = [relay EXCEPT ![p] = NoBatch]
  /\ excused' = excused \cup EventsOf(relay[p].ids)

\* A sink raises, having taken some of the batch or none, or the commit fails.
PublishFails(p) ==
  /\ relay[p].ids # {}
  /\ failures < MaxFailures /\ failures' = failures + 1
  /\ RollBack(p)
  /\ \/ UNCHANGED <<received, again>>
     \/ relay[p].sent < SinkCount
        /\ \E some \in SUBSET EventsOf(relay[p].ids) : Sent(p, some)
  /\ UNCHANGED <<phase, stamped, held, table, heads, rows, exports>>

\* Mutation: one sink is enough.
FirstSinkTook(p) == relay[p].sent > 0

\* UPDATE ... SET published_at, then COMMIT.
AllSinksTook(p) == relay[p].sent = SinkCount

MarkPublished(p) ==
  /\ relay[p].ids # {} /\ AllSinksTook(p)
  /\ rows' = [i \in DOMAIN rows |->
                IF i \in relay[p].ids THEN [rows[i] EXCEPT !.state = "published"] ELSE rows[i]]
  /\ relay' = [relay EXCEPT ![p] = NoBatch]
  /\ phase' = IF phase[p] = "last" THEN [phase EXCEPT ![p] = "stopped"] ELSE phase
  /\ UNCHANGED <<stamped, held, table, heads, received, again, excused, failures, exports>>

-----------------------------------------------------------------------------
(* Housekeeping, shutdown and crash *)

\* published_at < now() - retention; the rows of one DELETE go one by one.
Expired == {i \in DOMAIN rows : rows[i].state = "published"}

Prune(p) ==
  /\ Alive(p)
  /\ \E i \in Expired : rows' = [rows EXCEPT ![i].state = "pruned"]
  /\ UNCHANGED <<phase, stamped, held, table, heads, relay, received, again, excused,
                 failures, exports>>

\* One event for each chain this process wrote records of.
HeadEvents(p) ==
  {[chain |-> c, seq |-> heads[p][c], export |-> exports + 1] :
     c \in {d \in Processes : heads[p][d] > 0}}

ExportHeads(p) ==
  /\ exports < MaxExports /\ exports' = exports + 1
  /\ \E s \in SetToSeqs(HeadEvents(p)) : rows' = rows \o [i \in DOMAIN s |-> Row(s[i])]

ExportHourly(p) ==
  /\ phase[p] = "running" /\ HeadEvents(p) # {}
  /\ ExportHeads(p)
  /\ UNCHANGED <<phase, stamped, held, table, heads, relay, received, again, excused, failures>>

\* Another process goes on or will be started: one is always left to relay.
Replaceable(p) == \E q \in Processes \ {p} : phase[q] \in {"running", "unborn"}

\* audit.stop(), then relay.stop(): cancel the loops, export the final heads, publish one
\* batch.
Drain(p) ==
  /\ phase[p] = "running" /\ Replaceable(p)
  /\ phase' = [phase EXCEPT ![p] = "draining"]
  /\ UNCHANGED <<stamped, held, table, heads, rows, relay, received, again, excused,
                 failures, exports>>

StopRelay(p) ==
  /\ phase[p] = "draining"
  /\ phase' = [phase EXCEPT ![p] = "last"]
  /\ RollBack(p)
  /\ \/ HeadEvents(p) # {} /\ ExportHeads(p)
     \/ /\ HeadEvents(p) = {} \/ exports = MaxExports
        /\ UNCHANGED <<rows, exports>>
  /\ UNCHANGED <<stamped, held, table, heads, received, again, failures>>

\* Nothing to publish, or the last publication takes too long.
GiveUp(p) ==
  /\ phase[p] = "last"
  /\ phase' = [phase EXCEPT ![p] = "stopped"]
  /\ RollBack(p)
  /\ UNCHANGED <<stamped, held, table, heads, rows, received, again, failures, exports>>

\* What the process held in memory is gone; what it had spooled stays.
Crash(p) ==
  /\ phase[p] \in {"running", "draining", "last"} /\ Replaceable(p)
  /\ phase' = [phase EXCEPT ![p] = "crashed"]
  /\ RollBack(p)
  /\ \E lost \in SUBSET {e \in held : e.chain = p} : held' = held \ lost
  /\ UNCHANGED <<stamped, table, heads, rows, received, again, failures, exports>>

-----------------------------------------------------------------------------
Init ==
  /\ phase = [p \in Processes |-> "unborn"]
  /\ stamped = [p \in Processes |-> 0]
  /\ held = {} /\ table = {} /\ rows = <<>>
  /\ heads = [p \in Processes |-> [c \in Processes |-> 0]]
  /\ relay = [p \in Processes |-> NoBatch]
  /\ received = [s \in Sinks |-> {}]
  /\ again = {} /\ excused = {} /\ failures = 0 /\ exports = 0

Next ==
  \E p \in Processes :
    \/ Start(p) \/ Decide(p)
    \/ \E e \in Records : Write(p, e)
    \/ Select(p) \/ Publish(p) \/ PublishFails(p) \/ MarkPublished(p)
    \/ Prune(p) \/ ExportHourly(p)
    \/ Drain(p) \/ StopRelay(p) \/ GiveUp(p) \/ Crash(p)

\* A stopped process is replaced; the relay's loop goes on; what a process held is written
\* or dropped by AuditLog's fairness.
Fairness ==
  \A p \in Processes :
    WF_vars(Start(p)) /\ WF_vars(Select(p) \/ Publish(p) \/ MarkPublished(p))

Spec == Init /\ [][Next]_vars
FairSpec == Spec /\ Fairness

-----------------------------------------------------------------------------
TypeOK ==
  /\ phase \in [Processes -> {"unborn", "running", "draining", "last",
                              "stopped", "crashed"}]
  /\ stamped \in [Processes -> 0..MaxRecords]
  /\ held \subseteq Records /\ table \subseteq Records
  /\ heads \in [Processes -> [Processes -> 0..MaxRecords]]
  /\ rows \in Seq([event : Events, state : {"new", "published", "pruned"}])
  /\ relay \in [Processes -> [ids : SUBSET Nat, sent : 0..SinkCount]]
  /\ \A p \in Processes : relay[p].ids \subseteq DOMAIN rows
  /\ received \in [Sinks -> SUBSET Events]
  /\ again \subseteq Events /\ excused \subseteq Events
  /\ failures \in 0..MaxFailures /\ exports \in 0..MaxExports

ToSend == EventsOf(Unpublished)
Known == EventsOf(DOMAIN rows)

\* "an event exists if and only if the decision was recorded" and "unpublished rows are
\* never deleted" (outbox.py:3-4, relay.py:13): a record's event waits in the outbox or every
\* sink has it, whatever failed, crashed or was pruned in between; and what is announced, also as
\* an exported head of a chain that another process replays (writer.py:72-74), is in the table.
RecordedIsAnnounced ==
  /\ \A e \in table : e \in ToSend \/ \A s \in Sinks : e \in received[s]
  /\ \A e \in Known : Record(e.chain, e.seq) \in table

\* "SKIP LOCKED lets every gateway replica run a relay without double work" (relay.py:12):
\* a sink is sent an event again only after a batch was rolled back, or after a record was
\* written again long after its row was pruned.
AgainOnlyAfterFailure == again \subseteq excused

\* "Nothing is lost while the receiver is down" (docs/decisions.md:284): through failures,
\* rollbacks, crashes and restarts the backlog is worked off, down to the last row
\* (relay.py:66-92).
BacklogDrains == <>[](Unpublished = {})

\* Decisions, rows and announcements agree (the two above), whatever is rolled back, sent twice,
\* crashes or is pruned in between.
AnnouncedAsRecorded == TypeOK /\ RecordedIsAnnounced /\ AgainOnlyAfterFailure
=============================================================================
