--------------------------- MODULE ServicesProofs ---------------------------
(***************************************************************************)
(* What the outbox and its relay guarantee, and of the services' parts the *)
(* catalog and the redaction service's cached projects, each by itself and *)
(* as a part of the composition.                                           *)
(***************************************************************************)
EXTENDS MCServices, OutboxRelay, FiniteSetTheorems, SequenceTheorems, TLAPS

-----------------------------------------------------------------------------
(* OutboxRelay: decisions, outbox rows and announcements agree, for any    *)
(* number of processes, records, sinks, failures and exports, and any      *)
(* batch size.                                                             *)
RowStates == [event : Events, state : {"new", "published", "pruned"}]

IsNew(i) == rows[i].state = "new"
Has(s, e) == e \in received[s]

\* A row is locked by a relay that has passed its batch to sink s.
PassedOn(i, s) == \E p \in Processes : i \in relay[p].ids /\ s <= relay[p].sent

-----------------------------------------------------------------------------
(* The invariant *)

\* One row for an event, of those not deleted (the unique index on event_id).
OneRowEach ==
  \A i, j \in DOMAIN rows :
    /\ rows[i].event = rows[j].event
    /\ rows[i].state # "pruned" /\ rows[j].state # "pruned"
    => i = j

\* Relays lock different rows (SKIP LOCKED), which nobody has published, and a batch is with
\* every sink it was passed to.
LocksApart ==
  \A p, q \in Processes : p # q => relay[p].ids \cap relay[q].ids = {}
LocksHold ==
  \A p \in Processes : \A i \in relay[p].ids :
    IsNew(i) /\ \A s \in Sinks : s <= relay[p].sent => Has(s, rows[i].event)

\* What was published every sink has.
PublishedIsSent == \A i \in DOMAIN rows : ~IsNew(i) => \A s \in Sinks : Has(s, rows[i].event)

\* A row is there if and only if its record is; exports are numbered.
RowsRecorded ==
  \A i \in DOMAIN rows : /\ Record(rows[i].event.chain, rows[i].event.seq) \in table
                         /\ rows[i].event.export <= exports
TableHasRows == table \subseteq Known
HeadsInTable == \A p, c \in Processes : heads[p][c] > 0 => Record(c, heads[p][c]) \in table

\* An event that a sink has, and that is not excused, waits in no row but those being passed on.
SentOnce ==
  \A s \in Sinks : \A e \in received[s] :
    /\ e \in Known
    /\ e \in excused \/ \A i \in DOMAIN rows : IsNew(i) /\ rows[i].event = e => PassedOn(i, s)

RowInv == OneRowEach /\ LocksApart /\ LocksHold /\ PublishedIsSent
SendInv == SentOnce /\ AgainOnlyAfterFailure
RecordInv == RowsRecorded /\ TableHasRows /\ HeadsInTable
OutboxInv == RowInv /\ SendInv /\ RecordInv

-----------------------------------------------------------------------------
(* What rows are added and what a step sends *)

\* The bound on records holds for each chain.
LEMMA OneMoreFits ==
  ASSUME TypeOK, NEW p \in Processes, Cardinality(Stamped) < MaxRecords
  PROVE  stamped[p] < MaxRecords
  <1>0. stamped[p] \in 0..MaxRecords /\ MaxRecords \in Nat /\ IsFiniteSet(Processes)
    BY RelayAssumption DEF TypeOK
  <1> DEFINE stampable == Processes \X (1..MaxRecords)
             own == {p} \X (1..MaxRecords)
  <1>1. IsFiniteSet(1..MaxRecords) /\ Cardinality(1..MaxRecords) = MaxRecords
    BY <1>0, FS_Interval
  <1>2. IsFiniteSet(stampable) BY <1>0, <1>1, FS_Product
  <1>3. IsFiniteSet(Stamped)
    <2>1. Stamped \in SUBSET stampable BY DEF Stamped
    <2> QED BY <1>2, <2>1, FS_Subset
  <1>4. Cardinality(own) = MaxRecords
    <2>1. IsFiniteSet({p}) /\ Cardinality({p}) = 1 BY FS_Singleton
    <2>2. Cardinality(own) = 1 * MaxRecords BY <1>1, <2>1, FS_Product
    <2> QED BY <1>0, <2>2
  <1>5. SUFFICES ASSUME stamped[p] = MaxRecords PROVE FALSE BY <1>0
  <1>6. own \in SUBSET Stamped BY <1>0, <1>5 DEF Stamped
  <1>7. Cardinality(own) <= Cardinality(Stamped) /\ Cardinality(Stamped) \in Nat
    BY <1>3, <1>6, FS_Subset, FS_CardinalityType
  <1> QED BY <1>0, <1>4, <1>7

\* New rows, each for an event nobody has a row of, at the end of the outbox.
AddedRow(i) == i \in DOMAIN rows' \ DOMAIN rows
RowsAdded ==
  /\ rows' \in Seq(RowStates)
  /\ DOMAIN rows \subseteq DOMAIN rows'
  /\ \A i \in DOMAIN rows : rows'[i] = rows[i]
  /\ \A i : AddedRow(i) => rows'[i].state = "new" /\ rows'[i].event \notin Present
  /\ \A i, j : AddedRow(i) /\ AddedRow(j) /\ rows'[i].event = rows'[j].event => i = j

LEMMA RowsType == ASSUME TypeOK PROVE rows \in Seq(RowStates)
  BY DEF TypeOK, RowStates

LEMMA RowIsState == ASSUME NEW e \in Events PROVE Row(e) \in RowStates
  BY DEF Row, RowStates

\* A record is inserted, or its row is there.
LEMMA InsertedRows ==
  ASSUME TypeOK, NEW e \in Events, rows' = Inserted(e)
  PROVE  /\ RowsAdded
         /\ \A i : AddedRow(i) => rows'[i].event = e
         /\ \E i \in DOMAIN rows' : rows'[i].event = e
  <1>1. rows \in Seq(RowStates) BY RowsType
  <1>2. CASE e \in Present
    <2>1. rows' = rows BY <1>2 DEF Inserted
    <2>2. \E i \in DOMAIN rows : rows[i].event = e BY <1>2 DEF Present
    <2> QED BY <1>1, <2>1, <2>2 DEF RowsAdded, AddedRow
  <1>3. CASE e \notin Present
    <2>1. rows' = Append(rows, Row(e)) BY <1>3 DEF Inserted
    <2>2. Row(e) \in RowStates BY RowIsState
    <2>3. /\ rows' \in Seq(RowStates) /\ Len(rows') = Len(rows) + 1
          /\ \A i \in 1..Len(rows) : rows'[i] = rows[i]
          /\ rows'[Len(rows) + 1] = Row(e)
      BY <1>1, <2>1, <2>2, AppendProperties
    <2>4. Len(rows) \in Nat /\ DOMAIN rows = 1..Len(rows) /\ DOMAIN rows' = 1..Len(rows')
      BY <1>1, <2>3, LenProperties
    <2>5. \A i : AddedRow(i) <=> i = Len(rows) + 1 BY <2>3, <2>4 DEF AddedRow
    <2>6. Row(e).event = e /\ Row(e).state = "new" BY DEF Row
    <2>7. DOMAIN rows \subseteq DOMAIN rows' BY <2>3, <2>4
    <2>8. RowsAdded BY <1>3, <2>3, <2>4, <2>5, <2>6, <2>7 DEF RowsAdded
    <2>9. Len(rows) + 1 \in DOMAIN rows' BY <2>3, <2>4
    <2> QED BY <2>3, <2>5, <2>6, <2>8, <2>9
  <1> QED BY <1>2, <1>3

\* An export adds one row for each head, with the number of the export.
LEMMA ExportedRows ==
  ASSUME TypeOK, RowsRecorded, NEW p \in Processes, ExportHeads(p)
  PROVE  /\ RowsAdded
         /\ \A i : AddedRow(i) => rows'[i].event \in HeadEvents(p)
         /\ exports' = exports + 1 /\ exports' \in 0..MaxExports
  <1>1. rows \in Seq(RowStates) BY RowsType
  <1>2. exports' = exports + 1 /\ exports' \in 0..MaxExports /\ exports \in Nat
    BY RelayAssumption DEF ExportHeads, TypeOK
  <1>3. HeadEvents(p) \subseteq Events
    BY <1>2 DEF HeadEvents, Events, TypeOK
  <1>4. IsFiniteSet(HeadEvents(p))
    <2>1. IsFiniteSet(Processes) BY RelayAssumption
    <2>2. {d \in Processes : heads[p][d] > 0} \in SUBSET Processes OBVIOUS
    <2>3. IsFiniteSet({d \in Processes : heads[p][d] > 0}) BY <2>1, <2>2, FS_Subset
    <2> DEFINE S == {d \in Processes : heads[p][d] > 0}
               f == [c \in S |-> [chain |-> c, seq |-> heads[p][c], export |-> exports + 1]]
    <2>4. f \in [S -> HeadEvents(p)] /\ \A e \in HeadEvents(p) : \E c \in S : f[c] = e
      BY DEF HeadEvents
    <2>5. f \in Surjection(S, HeadEvents(p)) BY <2>4 DEF Surjection
    <2> QED BY <2>3, <2>5, FS_Surjection
  <1> DEFINE count == Cardinality(HeadEvents(p))
  <1>5. count \in Nat BY <1>4, FS_CardinalityType
  <1>6. PICK s \in SetToSeqs(HeadEvents(p)) : rows' = rows \o [i \in DOMAIN s |-> Row(s[i])]
    BY DEF ExportHeads
  <1>7. s \in [1..count -> HeadEvents(p)] /\ \A i, j \in 1..count : i # j => s[i] # s[j]
    BY <1>6 DEF SetToSeqs
  <1> DEFINE new == [i \in DOMAIN s |-> Row(s[i])]
  <1>8. /\ new \in Seq(RowStates) /\ Len(new) = count
        /\ \A i \in 1..count : new[i] = Row(s[i])
    <2>1. DOMAIN new = 1..count /\ \A i \in 1..count : new[i] = Row(s[i]) BY <1>7
    <2>2. \A i \in 1..count : new[i] \in RowStates BY <1>3, <1>7, <2>1, RowIsState
    <2>3. new \in [1..count -> RowStates] BY <2>1, <2>2
    <2> HIDE DEF new
    <2>4. new \in Seq(RowStates) BY <1>5, <2>3, SeqDef
    <2>5. Len(new) = count BY <1>5, <2>3, <2>4, LenProperties
    <2> QED BY <2>1, <2>4, <2>5
  <1>9. rows' = rows \o new BY <1>6
  <1> HIDE DEF new, count
  <1>10. /\ rows' \in Seq(RowStates) /\ Len(rows') = Len(rows) + count
         /\ \A i \in 1..Len(rows) + count :
              rows'[i] = IF i <= Len(rows) THEN rows[i] ELSE new[i - Len(rows)]
    BY <1>1, <1>8, <1>9, ConcatProperties
  <1>11. Len(rows) \in Nat /\ DOMAIN rows = 1..Len(rows) /\ DOMAIN rows' = 1..Len(rows')
    BY <1>1, <1>10, LenProperties
  <1>12. DOMAIN rows \subseteq DOMAIN rows' /\ \A i \in DOMAIN rows : rows'[i] = rows[i]
    BY <1>5, <1>10, <1>11
  <1>13. ASSUME NEW i, AddedRow(i)
         PROVE  i \in Int /\ i - Len(rows) \in 1..count /\ rows'[i] = Row(s[i - Len(rows)])
    <2>1. i \in 1..Len(rows) + count /\ i \notin 1..Len(rows)
      BY <1>10, <1>11, <1>13 DEF AddedRow
    <2>2. i \in Int /\ i - Len(rows) \in 1..count /\ ~(i <= Len(rows)) BY <1>5, <1>11, <2>1
    <2> QED BY <1>8, <1>10, <2>1, <2>2
  <1>14. \A e : Row(e).event = e /\ Row(e).state = "new" BY DEF Row
  <1>15. \A i : AddedRow(i) => rows'[i].event \in HeadEvents(p) /\ rows'[i].state = "new"
    BY <1>7, <1>13, <1>14
  <1>16. \A e \in HeadEvents(p) : e \notin Present
    <2>1. \A e \in HeadEvents(p) : e.export = exports + 1 BY DEF HeadEvents
    <2>2. \A e \in Present : e.export <= exports BY DEF Present, RowsRecorded
    <2>3. \A i \in DOMAIN rows : rows[i] \in RowStates
      BY <1>1, <1>11, ElementOfSeq
    <2>4. \A i \in DOMAIN rows : rows[i].event.export \in Int
      BY <2>3, <1>2, RelayAssumption DEF RowStates, Events
    <2>5. \A e \in Present : e.export \in Int BY <2>4 DEF Present
    <2> QED BY <1>2, <2>1, <2>2, <2>5
  <1>17. \A i, j : AddedRow(i) /\ AddedRow(j) /\ rows'[i].event = rows'[j].event => i = j
    <2> SUFFICES ASSUME NEW i, NEW j, AddedRow(i), AddedRow(j), rows'[i].event = rows'[j].event
                 PROVE  i = j
      OBVIOUS
    <2>1. s[i - Len(rows)] = s[j - Len(rows)] BY <1>13, <1>14
    <2>2. i - Len(rows) = j - Len(rows) BY <1>7, <1>13, <2>1
    <2> QED BY <1>11, <1>13, <2>2
  <1> QED BY <1>2, <1>10, <1>12, <1>15, <1>16, <1>17 DEF RowsAdded

LEMMA RowsAreSeq ==
  ASSUME TypeOK
  PROVE  /\ Len(rows) \in Nat /\ DOMAIN rows = 1..Len(rows)
         /\ \A i \in DOMAIN rows : rows[i] \in RowStates /\ rows[i].event \in Events
  <1>1. rows \in Seq(RowStates) BY RowsType
  <1>2. Len(rows) \in Nat /\ DOMAIN rows = 1..Len(rows) BY <1>1, LenProperties
  <1>3. \A i \in DOMAIN rows : rows[i] \in RowStates BY <1>1, <1>2, ElementOfSeq
  <1> QED BY <1>2, <1>3 DEF RowStates

LEMMA EventsOfType ==
  ASSUME TypeOK, NEW ids \in SUBSET DOMAIN rows PROVE EventsOf(ids) \subseteq Events
  BY RowsAreSeq DEF EventsOf

\* Rows change state in place.
LEMMA ChangedRows ==
  ASSUME TypeOK, DOMAIN rows' = DOMAIN rows, rows' = [i \in DOMAIN rows |-> rows'[i]],
         \A i \in DOMAIN rows : \/ rows'[i] = rows[i]
                                \/ \E st \in {"published", "pruned"} :
                                     rows'[i] = [rows[i] EXCEPT !.state = st]
  PROVE  rows' \in Seq(RowStates)
  <1>1. \A i \in DOMAIN rows : rows'[i] \in RowStates BY RowsAreSeq DEF RowStates
  <1>2. Len(rows) \in Nat /\ DOMAIN rows = 1..Len(rows) BY RowsAreSeq
  <1>3. rows' \in [1..Len(rows) -> RowStates] BY <1>1, <1>2
  <1> QED BY <1>2, <1>3, SeqDef

\* A sink is sent events.
LEMMA SentAll ==
  ASSUME TypeOK, NEW p \in Processes, NEW events \in SUBSET Events,
         relay[p].sent < SinkCount, Sent(p, events)
  PROVE  /\ relay[p].sent + 1 \in Sinks
         /\ received' \in [Sinks -> SUBSET Events] /\ again' \subseteq Events
         /\ \A s \in Sinks \ {relay[p].sent + 1} : received'[s] = received[s]
         /\ received'[relay[p].sent + 1] = received[relay[p].sent + 1] \cup events
         /\ again' = again \cup (received[relay[p].sent + 1] \cap events)
  <1>1. relay[p].sent \in 0..SinkCount /\ SinkCount \in Nat BY RelayAssumption DEF TypeOK
  <1>2. relay[p].sent + 1 \in Sinks BY <1>1 DEF Sinks
  <1> QED BY <1>2 DEF Sent, TypeOK

\* A batch is given up.
LEMMA RolledBack ==
  ASSUME TypeOK, NEW p \in Processes, RollBack(p), DOMAIN rows \subseteq DOMAIN rows'
  PROVE  /\ relay' \in [Processes -> [ids : SUBSET Nat, sent : 0..SinkCount]]
         /\ \A q \in Processes : relay'[q].ids \subseteq DOMAIN rows'
         /\ excused' \subseteq Events
         /\ relay'[p].ids = {} /\ \A q \in Processes \ {p} : relay'[q] = relay[q]
         /\ excused' = excused \cup EventsOf(relay[p].ids)
  <1>1. NoBatch \in [ids : SUBSET Nat, sent : 0..SinkCount] /\ NoBatch.ids = {}
    BY RelayAssumption DEF NoBatch
  <1>2. relay' = [relay EXCEPT ![p] = NoBatch] BY DEF RollBack
  <1>3. relay' \in [Processes -> [ids : SUBSET Nat, sent : 0..SinkCount]]
    BY <1>1, <1>2 DEF TypeOK
  <1>4. relay'[p].ids = {} /\ \A q \in Processes \ {p} : relay'[q] = relay[q]
    BY <1>1, <1>2 DEF TypeOK
  <1>5. \A q \in Processes : relay'[q].ids \subseteq DOMAIN rows' BY <1>4 DEF TypeOK
  <1>6. EventsOf(relay[p].ids) \subseteq Events BY EventsOfType DEF TypeOK
  <1> QED BY <1>3, <1>4, <1>5, <1>6 DEF RollBack, TypeOK

-----------------------------------------------------------------------------
(* The types *)

LEMMA WriterTypes ==
  ASSUME TypeOK, NEW p \in Processes,
         Start(p) \/ Decide(p) \/ (\E e \in Records : Write(p, e)) \/ Drain(p)
  PROVE  TypeOK'
  <1>1. CASE Start(p) BY <1>1 DEF Start, TypeOK
  <1>2. CASE Decide(p)
    <2>1. stamped[p] \in 0..MaxRecords /\ stamped[p] < MaxRecords /\ MaxRecords \in Nat
      BY <1>2, OneMoreFits, RelayAssumption DEF Decide, TypeOK
    <2>2. stamped' = [stamped EXCEPT ![p] = stamped[p] + 1] /\ stamped' \in [Processes -> 0..MaxRecords]
      BY <1>2, <2>1 DEF Decide, TypeOK
    <2>3. stamped'[p] \in 1..MaxRecords BY <2>1, <2>2 DEF TypeOK
    <2>4. Record(p, stamped'[p]) \in Records
      BY <2>3, RelayAssumption DEF Record, Records, Events
    <2>5. held' \subseteq Records BY <1>2, <2>4 DEF Decide, TypeOK
    <2> QED BY <1>2, <2>2, <2>5 DEF Decide, TypeOK
  <1>3. ASSUME NEW e \in Records, Write(p, e) PROVE TypeOK'
    <2>1. e \in Events /\ e.chain \in Processes /\ e.seq \in 1..MaxRecords
      BY DEF Records, Events
    <2>2. rows' \in Seq(RowStates) /\ DOMAIN rows \subseteq DOMAIN rows'
      BY <1>3, <2>1, InsertedRows DEF Write, RowsAdded
    <2>3. heads[p][e.chain] \in 0..MaxRecords BY <2>1 DEF TypeOK
    <2>4. HeadAfter(p, e) \in 0..MaxRecords BY <2>1, <2>3, RelayAssumption DEF HeadAfter
    <2>5. heads' = heads \/ heads' = [heads EXCEPT ![p][e.chain] = HeadAfter(p, e)]
      BY <1>3 DEF Write
    <2>6. heads' \in [Processes -> [Processes -> 0..MaxRecords]]
      <3>1. heads[p] \in [Processes -> 0..MaxRecords] BY DEF TypeOK
      <3>2. [heads[p] EXCEPT ![e.chain] = HeadAfter(p, e)] \in [Processes -> 0..MaxRecords]
        BY <2>4, <3>1
      <3>3. heads' = heads \/ heads' = [heads EXCEPT ![p] = [heads[p] EXCEPT ![e.chain] = HeadAfter(p, e)]]
        BY <2>5 DEF TypeOK
      <3> QED BY <3>2, <3>3 DEF TypeOK
    <2>7. failures' \in 0..MaxFailures BY <1>3, RelayAssumption DEF Write, TypeOK
    <2>8. held' \subseteq Records /\ table' \subseteq Records /\ excused' \subseteq Events
      BY <1>3, <2>1 DEF Write, TypeOK
    <2>9. \A q \in Processes : relay'[q].ids \subseteq DOMAIN rows'
      BY <1>3, <2>2 DEF Write, TypeOK
    <2> QED BY <1>3, <2>2, <2>6, <2>7, <2>8, <2>9 DEF Write, TypeOK, RowStates
  <1>4. CASE Drain(p) BY <1>4 DEF Drain, TypeOK
  <1> QED BY <1>1, <1>2, <1>3, <1>4

LEMMA RelayTypes ==
  ASSUME TypeOK, NEW p \in Processes,
         Select(p) \/ Publish(p) \/ PublishFails(p) \/ MarkPublished(p) \/ Prune(p)
  PROVE  TypeOK'
  <1>0. /\ relay[p].ids \in SUBSET DOMAIN rows /\ relay[p].ids \in SUBSET Nat
        /\ relay[p].sent \in 0..SinkCount /\ SinkCount \in Nat
        /\ DOMAIN rows \subseteq Nat
    BY RowsAreSeq, RelayAssumption DEF TypeOK
  <1>1. CASE Select(p)
    <2>1. Oldest(Selectable) \subseteq DOMAIN rows BY DEF Oldest, Selectable, Unpublished
    <2>2. relay' = [relay EXCEPT ![p] = [relay[p] EXCEPT !.ids = Oldest(Selectable)]]
      BY <1>1 DEF Select, TypeOK
    <2>3. [relay[p] EXCEPT !.ids = Oldest(Selectable)] \in [ids : SUBSET Nat, sent : 0..SinkCount]
      BY <1>0, <2>1 DEF TypeOK
    <2>4. relay' \in [Processes -> [ids : SUBSET Nat, sent : 0..SinkCount]]
      BY <2>2, <2>3 DEF TypeOK
    <2>5. \A q \in Processes : relay'[q].ids \subseteq DOMAIN rows
      BY <2>1, <2>2 DEF TypeOK
    <2> QED BY <1>1, <2>4, <2>5 DEF Select, TypeOK
  <1>2. CASE Publish(p)
    <2>1. relay' = [relay EXCEPT ![p] = [relay[p] EXCEPT !.sent = relay[p].sent + 1]]
      BY <1>2 DEF Publish, TypeOK
    <2>2. [relay[p] EXCEPT !.sent = relay[p].sent + 1] \in [ids : SUBSET Nat, sent : 0..SinkCount]
      <3>1. relay[p] \in [ids : SUBSET Nat, sent : 0..SinkCount] BY DEF TypeOK
      <3>2. relay[p].sent + 1 \in 0..SinkCount BY <1>0, <1>2 DEF Publish
      <3> QED BY <3>1, <3>2
    <2>3. relay' \in [Processes -> [ids : SUBSET Nat, sent : 0..SinkCount]]
      BY <2>1, <2>2 DEF TypeOK
    <2>4. \A q \in Processes : relay'[q].ids \subseteq DOMAIN rows
      BY <2>1 DEF TypeOK
    <2>5. received' \in [Sinks -> SUBSET Events] /\ again' \subseteq Events
      BY <1>0, <1>2, EventsOfType, SentAll DEF Publish
    <2> QED BY <1>2, <2>3, <2>4, <2>5 DEF Publish, TypeOK
  <1>3. CASE PublishFails(p)
    <2>1. /\ relay' \in [Processes -> [ids : SUBSET Nat, sent : 0..SinkCount]]
          /\ \A q \in Processes : relay'[q].ids \subseteq DOMAIN rows'
          /\ excused' \subseteq Events
      BY <1>3, RolledBack DEF PublishFails
    <2>2. received' \in [Sinks -> SUBSET Events] /\ again' \subseteq Events
      <3>1. CASE UNCHANGED <<received, again>> BY <3>1 DEF TypeOK
      <3>2. ASSUME relay[p].sent < SinkCount, NEW some \in SUBSET EventsOf(relay[p].ids),
                   Sent(p, some)
            PROVE  received' \in [Sinks -> SUBSET Events] /\ again' \subseteq Events
        <4>1. some \in SUBSET Events BY <1>0, EventsOfType
        <4> QED BY <3>2, <4>1, SentAll
      <3> QED BY <1>3, <3>1, <3>2 DEF PublishFails
    <2>3. failures' \in 0..MaxFailures BY <1>3, RelayAssumption DEF PublishFails, TypeOK
    <2> QED BY <1>3, <2>1, <2>2, <2>3 DEF PublishFails, TypeOK
  <1>4. CASE MarkPublished(p)
    <2>1. rows' = [i \in DOMAIN rows |->
                     IF i \in relay[p].ids THEN [rows[i] EXCEPT !.state = "published"] ELSE rows[i]]
      BY <1>4 DEF MarkPublished
    <2>2. DOMAIN rows' = DOMAIN rows BY <2>1
    <2>3. rows' \in Seq(RowStates) BY <2>1, <2>2, ChangedRows
    <2>4. NoBatch \in [ids : SUBSET Nat, sent : 0..SinkCount] /\ NoBatch.ids = {}
      BY RelayAssumption DEF NoBatch
    <2>5. relay' \in [Processes -> [ids : SUBSET Nat, sent : 0..SinkCount]]
      BY <1>4, <2>4 DEF MarkPublished, TypeOK
    <2>6. \A q \in Processes : relay'[q].ids \subseteq DOMAIN rows'
      BY <1>4, <2>2, <2>4 DEF MarkPublished, TypeOK
    <2>7. phase' \in [Processes -> {"unborn", "running", "draining", "last", "stopped", "crashed"}]
      BY <1>4 DEF MarkPublished, TypeOK
    <2> QED BY <1>4, <2>3, <2>5, <2>6, <2>7 DEF MarkPublished, TypeOK, RowStates
  <1>5. CASE Prune(p)
    <2>1. PICK i \in Expired : rows' = [rows EXCEPT ![i].state = "pruned"]
      BY <1>5 DEF Prune
    <2>2. rows' = [rows EXCEPT ![i] = [rows[i] EXCEPT !.state = "pruned"]]
      BY <2>1 DEF Expired
    <2>3. DOMAIN rows' = DOMAIN rows /\ rows' = [j \in DOMAIN rows |-> rows'[j]] BY <2>2
    <2>4. \A j \in DOMAIN rows : \/ rows'[j] = rows[j]
                                 \/ rows'[j] = [rows[j] EXCEPT !.state = "pruned"]
      BY <2>2 DEF Expired
    <2>5. rows' \in Seq(RowStates) BY <2>3, <2>4, ChangedRows
    <2> QED BY <1>5, <2>3, <2>5 DEF Prune, TypeOK, RowStates
  <1> QED BY <1>1, <1>2, <1>3, <1>4, <1>5

LEMMA EndTypes ==
  ASSUME TypeOK, RowsRecorded, NEW p \in Processes,
         ExportHourly(p) \/ StopRelay(p) \/ GiveUp(p) \/ Crash(p)
  PROVE  TypeOK'
  <1>1. CASE ExportHourly(p)
    <2>1. rows' \in Seq(RowStates) /\ DOMAIN rows \subseteq DOMAIN rows' /\ exports' \in 0..MaxExports
      BY <1>1, ExportedRows DEF ExportHourly, RowsAdded
    <2>2. \A q \in Processes : relay'[q].ids \subseteq DOMAIN rows'
      BY <1>1, <2>1 DEF ExportHourly, TypeOK
    <2> QED BY <1>1, <2>1, <2>2 DEF ExportHourly, TypeOK, RowStates
  <1>2. CASE StopRelay(p)
    <2>1. rows' \in Seq(RowStates) /\ DOMAIN rows \subseteq DOMAIN rows' /\ exports' \in 0..MaxExports
      BY <1>2, ExportedRows, RowsType DEF StopRelay, RowsAdded, TypeOK
    <2>2. /\ relay' \in [Processes -> [ids : SUBSET Nat, sent : 0..SinkCount]]
          /\ \A q \in Processes : relay'[q].ids \subseteq DOMAIN rows'
          /\ excused' \subseteq Events
      BY <1>2, <2>1, RolledBack DEF StopRelay
    <2> QED BY <1>2, <2>1, <2>2 DEF StopRelay, TypeOK, RowStates
  <1>3. CASE GiveUp(p)
    <2>1. /\ relay' \in [Processes -> [ids : SUBSET Nat, sent : 0..SinkCount]]
          /\ \A q \in Processes : relay'[q].ids \subseteq DOMAIN rows'
          /\ excused' \subseteq Events
      BY <1>3, RolledBack DEF GiveUp
    <2> QED BY <1>3, <2>1 DEF GiveUp, TypeOK
  <1>4. CASE Crash(p)
    <2>1. /\ relay' \in [Processes -> [ids : SUBSET Nat, sent : 0..SinkCount]]
          /\ \A q \in Processes : relay'[q].ids \subseteq DOMAIN rows'
          /\ excused' \subseteq Events
      BY <1>4, RolledBack DEF Crash
    <2>2. held' \subseteq Records BY <1>4 DEF Crash, TypeOK
    <2> QED BY <1>4, <2>1, <2>2 DEF Crash, TypeOK
  <1> QED BY <1>1, <1>2, <1>3, <1>4

LEMMA NextTypes == ASSUME TypeOK, OutboxInv, [Next]_vars PROVE TypeOK'
  <1>1. RowsRecorded BY DEF OutboxInv, RecordInv
  <1>2. CASE UNCHANGED vars BY <1>2 DEF vars, TypeOK
  <1> QED BY <1>1, <1>2, WriterTypes, RelayTypes, EndTypes DEF Next

LEMMA InitTypes == Init => TypeOK
  <1> SUFFICES ASSUME Init PROVE TypeOK OBVIOUS
  <1>1. relay \in [Processes -> [ids : SUBSET Nat, sent : 0..SinkCount]]
    BY RelayAssumption DEF Init, NoBatch
  <1>2. \A p \in Processes : relay[p].ids \subseteq DOMAIN rows BY DEF Init, NoBatch
  <1>3. rows \in Seq(RowStates) BY EmptySeq DEF Init
  <1>4. heads \in [Processes -> [Processes -> 0..MaxRecords]] BY RelayAssumption DEF Init
  <1>5. failures \in 0..MaxFailures /\ exports \in 0..MaxExports BY RelayAssumption DEF Init
  <1>6. stamped \in [Processes -> 0..MaxRecords] BY RelayAssumption DEF Init
  <1>7. received \in [Sinks -> SUBSET Events] BY DEF Init
  <1>8. phase \in [Processes -> {"unborn", "running", "draining", "last", "stopped", "crashed"}]
    BY DEF Init
  <1>9. /\ held \subseteq Records /\ table \subseteq Records
        /\ again \subseteq Events /\ excused \subseteq Events
    BY DEF Init
  <1> QED BY <1>1, <1>2, <1>3, <1>4, <1>5, <1>6, <1>7, <1>8, <1>9 DEF TypeOK, RowStates

-----------------------------------------------------------------------------
(* What a step has to respect *)

ReceivedGrows == \A s \in Sinks : received[s] \subseteq received'[s]

RowsStay ==
  /\ DOMAIN rows' = DOMAIN rows
  /\ \A i \in DOMAIN rows : /\ rows'[i].event = rows[i].event
                            /\ rows[i].state = "pruned" => rows'[i].state = "pruned"

\* A relay keeps its batch, whose rows do not change, or has none.
LocksStay ==
  \A p \in Processes : \A i \in relay'[p].ids :
    relay'[p] = relay[p] /\ i \in DOMAIN rows /\ rows'[i] = rows[i]

\* A row is taken from the backlog when every sink has its event.
TakenIsSent ==
  \A i \in DOMAIN rows : IsNew(i) /\ ~IsNew(i)' => \A s \in Sinks : Has(s, rows[i].event)

LEMMA RowsKept ==
  ASSUME TypeOK, RowInv, ReceivedGrows, RowsAdded \/ RowsStay, LocksStay, TakenIsSent
  PROVE  RowInv'
  <1>1. \A i \in DOMAIN rows : i \in DOMAIN rows' /\ rows'[i].event = rows[i].event
    BY DEF RowsAdded, RowsStay
  <1>2. OneRowEach'
    <2>1. CASE RowsStay BY <2>1 DEF RowsStay, RowInv, OneRowEach
    <2>2. CASE RowsAdded
      <3> SUFFICES ASSUME NEW i \in DOMAIN rows', NEW j \in DOMAIN rows',
                          rows'[i].event = rows'[j].event,
                          rows'[i].state # "pruned", rows'[j].state # "pruned"
                   PROVE  i = j
        BY DEF OneRowEach
      <3>1. ASSUME NEW k \in DOMAIN rows', NEW l \in DOMAIN rows', AddedRow(k), ~AddedRow(l),
                   rows'[k].event = rows'[l].event, rows'[l].state # "pruned"
            PROVE  FALSE
        BY <2>2, <3>1 DEF RowsAdded, AddedRow, Present
      <3>2. CASE AddedRow(i) /\ AddedRow(j) BY <2>2, <3>2 DEF RowsAdded
      <3>3. CASE ~AddedRow(i) /\ ~AddedRow(j)
        BY <2>2, <3>3 DEF RowsAdded, AddedRow, RowInv, OneRowEach
      <3> QED BY <3>1, <3>2, <3>3
    <2> QED BY <2>1, <2>2
  <1>3. LocksApart' BY DEF LocksStay, RowInv, LocksApart
  <1>4. LocksHold'
    BY DEF LocksStay, RowInv, LocksHold, IsNew, Has, ReceivedGrows
  <1>5. PublishedIsSent'
    <2> SUFFICES ASSUME NEW i \in DOMAIN rows', ~IsNew(i)', NEW s \in Sinks
                 PROVE  rows'[i].event \in received'[s]
      BY DEF PublishedIsSent, Has
    <2>1. i \in DOMAIN rows BY DEF RowsAdded, RowsStay, AddedRow, IsNew
    <2>2. Has(s, rows[i].event) BY <2>1 DEF TakenIsSent, RowInv, PublishedIsSent
    <2> QED BY <1>1, <2>1, <2>2 DEF Has, ReceivedGrows
  <1> QED BY <1>2, <1>3, <1>4, <1>5 DEF RowInv

\* Rows, heads and exports are of what is in the table.
AddedIsRecorded ==
  \A i : AddedRow(i) => /\ Record(rows'[i].event.chain, rows'[i].event.seq) \in table'
                        /\ rows'[i].event.export <= exports'
HeadsFollow ==
  \A p, c \in Processes : heads'[p][c] = heads[p][c] \/ Record(c, heads'[p][c]) \in table'

LEMMA RecordsKept ==
  ASSUME TypeOK, RecordInv, RowsAdded \/ RowsStay, AddedIsRecorded, HeadsFollow,
         table \subseteq table', exports' = exports \/ exports' = exports + 1,
         \A e \in table' \ table : \E i \in DOMAIN rows' : rows'[i].event = e
  PROVE  RecordInv'
  <1>1. \A i \in DOMAIN rows : i \in DOMAIN rows' /\ rows'[i].event = rows[i].event
    BY DEF RowsAdded, RowsStay
  <1>2. \A i \in DOMAIN rows : rows[i].event.export \in Int /\ exports \in Int
    <2>1. MaxExports \in Nat /\ exports \in 0..MaxExports BY RelayAssumption DEF TypeOK
    <2>2. \A i \in DOMAIN rows : rows[i].event \in Events BY RowsAreSeq
    <2>3. \A e \in Events : e.export \in 0..MaxExports BY DEF Events
    <2> QED BY <2>1, <2>2, <2>3
  <1>3. \A i \in DOMAIN rows' : i \in DOMAIN rows \/ AddedRow(i) BY DEF AddedRow
  <1>4. RowsRecorded'
    <2> SUFFICES ASSUME NEW i \in DOMAIN rows'
                 PROVE  /\ Record(rows'[i].event.chain, rows'[i].event.seq) \in table'
                        /\ rows'[i].event.export <= exports'
      BY DEF RowsRecorded, Record
    <2>1. CASE AddedRow(i) BY <2>1 DEF AddedIsRecorded
    <2>2. CASE i \in DOMAIN rows
      <3>1. Record(rows[i].event.chain, rows[i].event.seq) \in table /\ rows[i].event.export <= exports
        BY <2>2 DEF RecordInv, RowsRecorded
      <3> QED BY <1>1, <1>2, <2>2, <3>1
    <2> QED BY <1>3, <2>1, <2>2
  <1>5. TableHasRows'
    <2>1. \A e \in table : \E i \in DOMAIN rows : rows[i].event = e
      BY DEF RecordInv, TableHasRows, Known, EventsOf
    <2>2. \A e \in table' : \E i \in DOMAIN rows' : rows'[i].event = e BY <1>1, <2>1
    <2> QED BY <2>2 DEF TableHasRows, Known, EventsOf
  <1>6. HeadsInTable' BY DEF HeadsInTable, HeadsFollow, RecordInv, Record
  <1> QED BY <1>4, <1>5, <1>6 DEF RecordInv

\* Nobody has an event before its row, or the event is excused; a batch goes on to the next sink,
\* or its rows are published or excused; what a sink gets is passed on, or excused.
AddedIsNew == \A i : AddedRow(i) =>
                rows'[i].event \in excused' \/ \A s \in Sinks : ~Has(s, rows'[i].event)
LocksGoOn ==
  \A p \in Processes : \A i \in relay[p].ids :
    IsNew(i)' => \/ rows[i].event \in excused'
                 \/ i \in relay'[p].ids /\ relay'[p].sent \in {relay[p].sent, relay[p].sent + 1}
GotIsPassedOn ==
  \A s \in Sinks : \A e \in received'[s] \ received[s] :
    /\ e \in Known
    /\ \/ e \in excused'
       \/ \A i \in DOMAIN rows' : rows'[i].event = e /\ IsNew(i)' => PassedOn(i, s)'

LEMMA SentKept ==
  ASSUME TypeOK, TypeOK', SentOnce, RowsAdded \/ RowsStay, AddedIsNew, LocksGoOn, GotIsPassedOn,
         \A i \in DOMAIN rows : IsNew(i)' => IsNew(i), excused \subseteq excused'
  PROVE  SentOnce'
  <1>1. \A i \in DOMAIN rows : i \in DOMAIN rows' /\ rows'[i].event = rows[i].event
    BY DEF RowsAdded, RowsStay
  <1>2. Known \subseteq Known' BY <1>1 DEF Known, EventsOf
  <1> SUFFICES ASSUME NEW s \in Sinks, NEW e \in received'[s]
               PROVE  /\ e \in Known'
                      /\ e \in excused' \/ \A i \in DOMAIN rows' : IsNew(i)' /\ rows'[i].event = e => PassedOn(i, s)'
    BY DEF SentOnce
  <1>3. CASE e \notin received[s] BY <1>2, <1>3 DEF GotIsPassedOn
  <1>4. CASE e \in received[s]
    <2>1. e \in Known BY <1>4 DEF SentOnce
    <2> SUFFICES ASSUME e \notin excused', NEW i \in DOMAIN rows', IsNew(i)', rows'[i].event = e
                 PROVE  PassedOn(i, s)'
      BY <1>2, <2>1
    <2>2. i \in DOMAIN rows BY <1>4 DEF AddedIsNew, AddedRow, Has
    <2>3. IsNew(i) /\ rows[i].event = e BY <1>1, <2>2
    <2>4. PassedOn(i, s) BY <1>4, <2>2, <2>3 DEF SentOnce
    <2>5. PICK p \in Processes : i \in relay[p].ids /\ s <= relay[p].sent BY <2>4 DEF PassedOn
    <2>6. i \in relay'[p].ids /\ relay'[p].sent \in {relay[p].sent, relay[p].sent + 1}
      BY <2>3, <2>5 DEF LocksGoOn
    <2>7. relay[p].sent \in Int /\ s \in Int BY DEF TypeOK, Sinks
    <2>8. s <= relay'[p].sent BY <2>5, <2>6, <2>7
    <2> QED BY <2>6, <2>8 DEF PassedOn
  <1> QED BY <1>3, <1>4

-----------------------------------------------------------------------------
(* Every step *)

LEMMA InitHolds == Init => OutboxInv
  <1> SUFFICES ASSUME Init PROVE OutboxInv OBVIOUS
  <1>1. rows = <<>> /\ DOMAIN rows = {} BY DEF Init
  <1>2. \A p \in Processes : relay[p].ids = {} BY DEF Init, NoBatch
  <1>3. RowInv
    BY <1>1, <1>2 DEF RowInv, OneRowEach, LocksApart, LocksHold, PublishedIsSent
  <1>4. SendInv BY DEF Init, SendInv, SentOnce, AgainOnlyAfterFailure
  <1>5. RecordInv BY <1>1 DEF Init, RecordInv, RowsRecorded, TableHasRows, HeadsInTable
  <1> QED BY <1>3, <1>4, <1>5 DEF OutboxInv

LEMMA SameRows == ASSUME rows' = rows PROVE RowsStay /\ \A i : ~AddedRow(i)
  BY DEF RowsStay, AddedRow

\* Nothing of the outbox or the relays changes.
LEMMA CalmHolds ==
  ASSUME TypeOK, TypeOK', OutboxInv,
         UNCHANGED <<table, heads, rows, relay, received, again, excused, exports>>
  PROVE  OutboxInv'
  <1>1. RowsStay /\ \A i : ~AddedRow(i) BY SameRows
  <1>2. \A p \in Processes : \A i \in relay[p].ids : i \in DOMAIN rows BY DEF TypeOK
  <1>3. RowInv'
    BY <1>1, <1>2, RowsKept DEF OutboxInv, ReceivedGrows, LocksStay, TakenIsSent, IsNew
  <1>4. RecordInv'
    BY <1>1, RecordsKept DEF OutboxInv, AddedIsRecorded, HeadsFollow
  <1>5. SentOnce'
    BY <1>1, SentKept DEF OutboxInv, SendInv, AddedIsNew, LocksGoOn, GotIsPassedOn, IsNew
  <1> QED BY <1>3, <1>4, <1>5 DEF OutboxInv, SendInv, AgainOnlyAfterFailure

LEMMA WriteHolds ==
  ASSUME TypeOK, TypeOK', OutboxInv, NEW p \in Processes, NEW e \in Records, Write(p, e)
  PROVE  OutboxInv'
  <1>0. /\ e \in Events /\ e.chain \in Processes /\ e = Record(e.chain, e.seq) /\ e.export = 0
    BY DEF Records, Events, Record
  <1>1. RowInv /\ SentOnce /\ AgainOnlyAfterFailure /\ RecordInv BY DEF OutboxInv, SendInv
  <1>2. /\ RowsAdded /\ \A i : AddedRow(i) => rows'[i].event = e
        /\ \E i \in DOMAIN rows' : rows'[i].event = e
    BY <1>0, InsertedRows DEF Write
  <1>3. UNCHANGED <<relay, received, again, exports>> BY DEF Write
  <1>4. table' = table \cup {e} BY DEF Write
  <1>5. \A i \in DOMAIN rows : rows'[i] = rows[i] BY <1>2 DEF RowsAdded
  <1>6. \A q \in Processes : \A i \in relay[q].ids : i \in DOMAIN rows BY DEF TypeOK
  <1>7. RowInv'
    BY <1>1, <1>2, <1>3, <1>5, <1>6, RowsKept DEF ReceivedGrows, LocksStay, TakenIsSent, IsNew
  <1>8. HeadsFollow
    <2>1. heads' = heads \/ heads' = [heads EXCEPT ![p][e.chain] = HeadAfter(p, e)]
      BY DEF Write
    <2>2. HeadAfter(p, e) = e.seq \/ HeadAfter(p, e) = heads[p][e.chain] BY DEF HeadAfter
    <2> SUFFICES ASSUME NEW q \in Processes, NEW c \in Processes, heads'[q][c] # heads[q][c]
                 PROVE  Record(c, heads'[q][c]) \in table'
      BY DEF HeadsFollow
    <2>3. heads \in [Processes -> [Processes -> 0..MaxRecords]] BY DEF TypeOK
    <2>4. heads' = [heads EXCEPT ![p][e.chain] = HeadAfter(p, e)] BY <2>1
    <2>5. q = p BY <2>3, <2>4
    <2>6. heads'[p] = [heads[p] EXCEPT ![e.chain] = HeadAfter(p, e)] BY <2>3, <2>4
    <2>7. heads[p] \in [Processes -> 0..MaxRecords] BY <2>3
    <2>8. c = e.chain /\ heads'[p][c] = HeadAfter(p, e) BY <1>0, <2>5, <2>6, <2>7
    <2>9. heads'[q][c] = e.seq BY <2>2, <2>5, <2>8
    <2> QED BY <1>0, <1>4, <2>8, <2>9
  <1>9. exports \in Nat BY RelayAssumption DEF TypeOK
  <1>10. AddedIsRecorded BY <1>0, <1>2, <1>3, <1>4, <1>9 DEF AddedIsRecorded
  <1>11. RecordInv' BY <1>1, <1>2, <1>3, <1>4, <1>8, <1>10, RecordsKept
  <1>12. excused \subseteq excused' BY DEF Write
  <1>13. AddedIsNew
    <2> SUFFICES ASSUME NEW i, AddedRow(i), NEW s \in Sinks, e \in received[s] PROVE e \in excused'
      BY <1>2 DEF AddedIsNew, Has
    <2>1. e \notin Present BY <1>2 DEF RowsAdded
    <2>2. e \in Known BY <1>1 DEF SentOnce
    <2>3. e \in table BY <1>0, <1>1, <2>2 DEF RecordInv, RowsRecorded, Known, EventsOf
    <2> QED BY <2>1, <2>3 DEF Write
  <1>14. LocksGoOn /\ GotIsPassedOn BY <1>3 DEF LocksGoOn, GotIsPassedOn
  <1>15. \A i \in DOMAIN rows : IsNew(i)' => IsNew(i) BY <1>5 DEF IsNew
  <1>16. SentOnce' BY <1>1, <1>2, <1>12, <1>13, <1>14, <1>15, SentKept
  <1>17. AgainOnlyAfterFailure' BY <1>1, <1>3, <1>12 DEF AgainOnlyAfterFailure
  <1> QED BY <1>7, <1>11, <1>16, <1>17 DEF OutboxInv, SendInv

\* The oldest rows that no relay has locked.
LEMMA SelectHolds ==
  ASSUME TypeOK, TypeOK', OutboxInv, NEW p \in Processes, Select(p) PROVE OutboxInv'
  <1>1. RowInv /\ SentOnce /\ AgainOnlyAfterFailure /\ RecordInv BY DEF OutboxInv, SendInv
  <1>2. UNCHANGED <<table, heads, rows, received, again, excused, exports>> BY DEF Select
  <1>3. RowsStay /\ \A i : ~AddedRow(i) BY <1>2, SameRows
  <1>4. relay[p].ids = {} /\ relay[p].sent = 0 BY DEF Select, NoBatch
  <1>5. relay'[p].ids = Oldest(Selectable) /\ relay'[p].sent = 0
    BY <1>4 DEF Select, TypeOK
  <1>6. \A q \in Processes \ {p} : relay'[q] = relay[q] BY DEF Select, TypeOK
  <1>7. \A i \in relay'[p].ids : IsNew(i) /\ \A q \in Processes : i \notin relay[q].ids
    BY <1>5 DEF Oldest, Selectable, Unpublished, Locked, IsNew
  <1>8. OneRowEach' /\ PublishedIsSent'
    BY <1>1, <1>2 DEF RowInv, OneRowEach, PublishedIsSent, IsNew, Has
  <1>9. LocksApart' BY <1>1, <1>6, <1>7 DEF RowInv, LocksApart
  <1>10. LocksHold'
    <2>1. \A s \in Sinks : ~(s <= 0) BY RelayAssumption DEF Sinks
    <2> QED BY <1>1, <1>2, <1>5, <1>6, <1>7, <2>1 DEF RowInv, LocksHold, IsNew, Has
  <1>11. RecordInv' BY <1>1, <1>2, <1>3, RecordsKept DEF AddedIsRecorded, HeadsFollow
  <1>12. LocksGoOn BY <1>4, <1>6 DEF LocksGoOn
  <1>13. SentOnce'
    BY <1>1, <1>2, <1>3, <1>12, SentKept DEF AddedIsNew, GotIsPassedOn, IsNew
  <1> QED BY <1>1, <1>2, <1>8, <1>9, <1>10, <1>11, <1>13
      DEF OutboxInv, SendInv, RowInv, AgainOnlyAfterFailure

\* What the next sink has of a batch already is excused.
LEMMA SentBefore ==
  ASSUME TypeOK, RowInv, SentOnce, NEW p \in Processes, relay[p].sent + 1 \in Sinks,
         NEW e \in EventsOf(relay[p].ids), e \in received[relay[p].sent + 1]
  PROVE  e \in excused
  <1>1. PICK i \in relay[p].ids : rows[i].event = e BY DEF EventsOf
  <1>2. i \in DOMAIN rows /\ IsNew(i) BY <1>1 DEF TypeOK, RowInv, LocksHold
  <1>3. SUFFICES ASSUME PassedOn(i, relay[p].sent + 1) PROVE FALSE
    BY <1>1, <1>2 DEF SentOnce
  <1>4. PICK q \in Processes : i \in relay[q].ids /\ relay[p].sent + 1 <= relay[q].sent
    BY <1>3 DEF PassedOn
  <1>5. q = p BY <1>1, <1>4 DEF RowInv, LocksApart
  <1>6. relay[p].sent \in Int BY DEF TypeOK
  <1> QED BY <1>4, <1>5, <1>6

LEMMA PublishHolds ==
  ASSUME TypeOK, TypeOK', OutboxInv, NEW p \in Processes, Publish(p) PROVE OutboxInv'
  <1>1. RowInv /\ SentOnce /\ AgainOnlyAfterFailure /\ RecordInv BY DEF OutboxInv, SendInv
  <1>2. UNCHANGED <<table, heads, rows, excused, exports>> BY DEF Publish
  <1>3. RowsStay /\ \A i : ~AddedRow(i) BY <1>2, SameRows
  <1> DEFINE sink == relay[p].sent + 1
             events == EventsOf(relay[p].ids)
  <1>4. relay[p].ids \subseteq DOMAIN rows /\ relay[p].sent \in Int BY DEF TypeOK
  <1>5. events \subseteq Events BY <1>4, EventsOfType
  <1>6. /\ sink \in Sinks /\ \A s \in Sinks \ {sink} : received'[s] = received[s]
        /\ received'[sink] = received[sink] \cup events
        /\ again' = again \cup (received[sink] \cap events)
    BY <1>5, SentAll DEF Publish
  <1>7. relay'[p].ids = relay[p].ids /\ relay'[p].sent = sink
    BY DEF Publish, TypeOK
  <1>8. \A q \in Processes \ {p} : relay'[q] = relay[q] BY DEF Publish, TypeOK
  <1>9. \A i \in relay[p].ids : rows[i].event \in events BY DEF EventsOf
  <1> HIDE DEF events
  <1>10. ReceivedGrows BY <1>6 DEF ReceivedGrows
  <1>11. OneRowEach' /\ PublishedIsSent'
    BY <1>1, <1>2, <1>10 DEF RowInv, OneRowEach, PublishedIsSent, IsNew, Has, ReceivedGrows
  <1>12. LocksApart' BY <1>1, <1>7, <1>8 DEF RowInv, LocksApart
  <1>13. LocksHold'
    <2> SUFFICES ASSUME NEW q \in Processes, NEW i \in relay'[q].ids
                 PROVE  /\ IsNew(i)
                        /\ \A s \in Sinks : s <= relay'[q].sent => rows[i].event \in received'[s]
      BY <1>2 DEF LocksHold, IsNew, Has
    <2>1. i \in relay[q].ids BY <1>7, <1>8
    <2>2. IsNew(i) /\ \A s \in Sinks : s <= relay[q].sent => rows[i].event \in received'[s]
      BY <1>1, <1>10, <2>1 DEF RowInv, LocksHold, Has, ReceivedGrows
    <2>3. CASE q # p BY <1>8, <2>2, <2>3
    <2>4. CASE q = p
      <3>1. \A s \in Sinks : s <= sink => s <= relay[p].sent \/ s = sink BY <1>4 DEF Sinks
      <3> QED BY <1>6, <1>7, <1>9, <2>1, <2>2, <2>4, <3>1
    <2> QED BY <2>3, <2>4
  <1>14. RecordInv' BY <1>1, <1>2, <1>3, RecordsKept DEF AddedIsRecorded, HeadsFollow
  <1>15. LocksGoOn BY <1>7, <1>8 DEF LocksGoOn
  <1>16. GotIsPassedOn
    <2> SUFFICES ASSUME NEW s \in Sinks, NEW e \in received'[s] \ received[s]
                 PROVE  /\ e \in Known
                        /\ \A i \in DOMAIN rows : rows[i].event = e /\ IsNew(i) => PassedOn(i, s)'
      BY <1>2 DEF GotIsPassedOn, IsNew
    <2>1. s = sink /\ e \in events BY <1>6
    <2>2. PICK j \in relay[p].ids : rows[j].event = e BY <2>1 DEF events, EventsOf
    <2>3. j \in DOMAIN rows /\ IsNew(j) BY <1>1, <1>4, <2>2 DEF RowInv, LocksHold
    <2>4. e \in Known BY <2>2, <2>3 DEF Known, EventsOf
    <2>5. \A i \in DOMAIN rows : rows[i].event = e /\ IsNew(i) => i = j
      BY <1>1, <2>2, <2>3 DEF RowInv, OneRowEach, IsNew
    <2>6. j \in relay'[p].ids /\ s <= relay'[p].sent BY <1>4, <1>7, <2>1, <2>2
    <2> QED BY <2>4, <2>5, <2>6 DEF PassedOn
  <1>17. SentOnce'
    BY <1>1, <1>2, <1>3, <1>15, <1>16, SentKept DEF AddedIsNew, IsNew
  <1>18. again' \subseteq excused'
    <2>1. \A e \in events : e \in received[sink] => e \in excused
      BY <1>1, <1>6, SentBefore DEF events
    <2> QED BY <1>1, <1>2, <1>6, <2>1 DEF AgainOnlyAfterFailure
  <1> QED BY <1>11, <1>12, <1>13, <1>14, <1>17, <1>18
      DEF OutboxInv, SendInv, RowInv, AgainOnlyAfterFailure

\* A batch is rolled back: its rows are free again, and a sink that has them may get them twice.
LEMMA RollBackHolds ==
  ASSUME TypeOK, TypeOK', OutboxInv, NEW p \in Processes, RollBack(p),
         RowsAdded \/ rows' = rows, AddedIsRecorded,
         \A i : AddedRow(i) => rows'[i].event.export = exports + 1,
         UNCHANGED <<table, heads>>, exports' = exports \/ exports' = exports + 1,
         \/ UNCHANGED <<received, again>>
         \/ /\ rows' = rows
            /\ relay[p].sent < SinkCount
            /\ \E some \in SUBSET EventsOf(relay[p].ids) : Sent(p, some)
  PROVE  OutboxInv'
  <1>1. RowInv /\ SentOnce /\ AgainOnlyAfterFailure /\ RecordInv BY DEF OutboxInv, SendInv
  <1>2. RowsAdded \/ RowsStay BY SameRows
  <1>3. DOMAIN rows \subseteq DOMAIN rows' /\ \A i \in DOMAIN rows : rows'[i] = rows[i]
    BY DEF RowsAdded
  <1>4. /\ relay'[p].ids = {} /\ \A q \in Processes \ {p} : relay'[q] = relay[q]
        /\ excused' = excused \cup EventsOf(relay[p].ids)
    BY <1>3, RolledBack
  <1>5. relay[p].ids \in SUBSET DOMAIN rows BY DEF TypeOK
  <1>6. EventsOf(relay[p].ids) \subseteq Events /\ EventsOf(relay[p].ids) \subseteq Known
    BY <1>5, EventsOfType DEF EventsOf, Known
  \* What a sink took before it raised is of the batch.
  <1>7. /\ ReceivedGrows
        /\ \A s \in Sinks : received'[s] \subseteq received[s] \cup EventsOf(relay[p].ids)
        /\ again' \subseteq again \cup EventsOf(relay[p].ids)
    <2>1. CASE UNCHANGED <<received, again>> BY <2>1 DEF ReceivedGrows
    <2>2. ASSUME relay[p].sent < SinkCount, NEW some \in SUBSET EventsOf(relay[p].ids), Sent(p, some)
          PROVE  /\ ReceivedGrows
                 /\ \A s \in Sinks : received'[s] \subseteq received[s] \cup EventsOf(relay[p].ids)
                 /\ again' \subseteq again \cup EventsOf(relay[p].ids)
      <3>1. some \in SUBSET Events BY <1>6
      <3>2. /\ relay[p].sent + 1 \in Sinks
            /\ \A s \in Sinks \ {relay[p].sent + 1} : received'[s] = received[s]
            /\ received'[relay[p].sent + 1] = received[relay[p].sent + 1] \cup some
            /\ again' = again \cup (received[relay[p].sent + 1] \cap some)
        BY <2>2, <3>1, SentAll
      <3> QED BY <3>2 DEF ReceivedGrows
    <2> QED BY <2>1, <2>2
  <1>8. LocksStay BY <1>3, <1>4 DEF LocksStay, TypeOK
  <1>9. TakenIsSent BY <1>3 DEF TakenIsSent, IsNew
  <1>10. RowInv' BY <1>1, <1>2, <1>7, <1>8, <1>9, RowsKept
  <1>11. RecordInv' BY <1>1, <1>2, RecordsKept DEF HeadsFollow
  <1>12. AddedIsNew
    <2> SUFFICES ASSUME NEW i, AddedRow(i), NEW s \in Sinks, rows'[i].event \in received[s]
                 PROVE  FALSE
      BY DEF AddedIsNew, Has
    <2>1. rows'[i].event \in Known BY <1>1 DEF SentOnce
    <2>2. rows'[i].event.export <= exports BY <1>1, <2>1 DEF RecordInv, RowsRecorded, Known, EventsOf
    <2>3. exports \in Int BY DEF TypeOK
    <2> QED BY <2>2, <2>3
  <1>13. LocksGoOn
    <2> SUFFICES ASSUME NEW q \in Processes, NEW i \in relay[q].ids
                 PROVE  \/ rows[i].event \in excused'
                        \/ i \in relay'[q].ids /\ relay'[q].sent = relay[q].sent
      BY DEF LocksGoOn
    <2>1. CASE q = p BY <1>4, <2>1 DEF EventsOf
    <2>2. CASE q # p BY <1>4, <2>2
    <2> QED BY <2>1, <2>2
  <1>14. GotIsPassedOn BY <1>4, <1>6, <1>7 DEF GotIsPassedOn
  <1>15. \A i \in DOMAIN rows : IsNew(i)' => IsNew(i) BY <1>3 DEF IsNew
  <1>16. excused \subseteq excused' BY <1>4
  <1>17. SentOnce' BY <1>1, <1>2, <1>12, <1>13, <1>14, <1>15, <1>16, SentKept
  <1>18. AgainOnlyAfterFailure' BY <1>1, <1>4, <1>7 DEF AgainOnlyAfterFailure
  <1> QED BY <1>10, <1>11, <1>17, <1>18 DEF OutboxInv, SendInv

\* An export names records that are written.
LEMMA ExportIsRecorded ==
  ASSUME TypeOK, OutboxInv, NEW p \in Processes, ExportHeads(p), table' = table
  PROVE  /\ RowsAdded /\ AddedIsRecorded /\ exports' = exports + 1
         /\ \A i : AddedRow(i) => rows'[i].event.export = exports + 1
  <1>1. RowsRecorded /\ HeadsInTable BY DEF OutboxInv, RecordInv
  <1>2. /\ RowsAdded /\ exports' = exports + 1 /\ exports' \in Int
        /\ \A i : AddedRow(i) => rows'[i].event \in HeadEvents(p)
    BY <1>1, ExportedRows
  <1>3. \A e \in HeadEvents(p) : Record(e.chain, e.seq) \in table /\ e.export = exports + 1
    BY <1>1 DEF HeadEvents, HeadsInTable
  <1> QED BY <1>2, <1>3 DEF AddedIsRecorded

LEMMA MarkHolds ==
  ASSUME TypeOK, TypeOK', OutboxInv, NEW p \in Processes, MarkPublished(p) PROVE OutboxInv'
  <1>1. RowInv /\ SentOnce /\ AgainOnlyAfterFailure /\ RecordInv BY DEF OutboxInv, SendInv
  <1>2. UNCHANGED <<table, heads, received, again, excused, exports>> BY DEF MarkPublished
  <1>3. rows' = [i \in DOMAIN rows |->
                   IF i \in relay[p].ids THEN [rows[i] EXCEPT !.state = "published"] ELSE rows[i]]
    BY DEF MarkPublished
  <1>4. \A i \in DOMAIN rows : rows[i] \in RowStates BY RowsAreSeq
  <1>5. DOMAIN rows' = DOMAIN rows BY <1>3
  <1>6. \A i \in DOMAIN rows : i \notin relay[p].ids => rows'[i] = rows[i] BY <1>3
  <1>7. \A i \in relay[p].ids :
          /\ i \in DOMAIN rows /\ IsNew(i) /\ ~IsNew(i)' /\ rows'[i].event = rows[i].event
          /\ \A s \in Sinks : Has(s, rows[i].event)
    <2> SUFFICES ASSUME NEW i \in relay[p].ids
                 PROVE  /\ i \in DOMAIN rows /\ IsNew(i) /\ ~IsNew(i)'
                        /\ rows'[i].event = rows[i].event
                        /\ \A s \in Sinks : Has(s, rows[i].event)
      OBVIOUS
    <2>1. i \in DOMAIN rows BY DEF TypeOK
    <2>2. rows'[i] = [rows[i] EXCEPT !.state = "published"] BY <1>3, <2>1
    <2>3. ~IsNew(i)' /\ rows'[i].event = rows[i].event BY <1>4, <2>1, <2>2 DEF IsNew, RowStates
    <2>4. relay[p].sent = SinkCount BY DEF MarkPublished, AllSinksTook
    <2>5. IsNew(i) /\ \A s \in Sinks : Has(s, rows[i].event)
      BY <1>1, <2>4, RelayAssumption DEF RowInv, LocksHold, Sinks
    <2> QED BY <2>1, <2>3, <2>5
  <1>8. RowsStay BY <1>5, <1>6, <1>7 DEF RowsStay, IsNew
  <1>9. \A i : ~AddedRow(i) BY <1>5 DEF AddedRow
  <1>10. relay'[p].ids = {} /\ \A q \in Processes \ {p} : relay'[q] = relay[q]
    BY DEF MarkPublished, NoBatch, TypeOK
  <1>11. LocksStay
    <2> SUFFICES ASSUME NEW q \in Processes, NEW i \in relay'[q].ids
                 PROVE  relay'[q] = relay[q] /\ i \in DOMAIN rows /\ rows'[i] = rows[i]
      BY DEF LocksStay
    <2>1. q # p /\ relay'[q] = relay[q] /\ i \in relay[q].ids BY <1>10
    <2>2. i \in DOMAIN rows /\ i \notin relay[p].ids
      BY <1>1, <2>1 DEF RowInv, LocksApart, TypeOK
    <2> QED BY <1>6, <2>1, <2>2
  <1>12. TakenIsSent BY <1>6, <1>7 DEF TakenIsSent, IsNew
  <1>13. ReceivedGrows BY <1>2 DEF ReceivedGrows
  <1>14. RowInv' BY <1>1, <1>8, <1>11, <1>12, <1>13, RowsKept
  <1>15. RecordInv' BY <1>1, <1>2, <1>8, <1>9, RecordsKept DEF AddedIsRecorded, HeadsFollow
  <1>16. LocksGoOn
    <2> SUFFICES ASSUME NEW q \in Processes, NEW i \in relay[q].ids, IsNew(i)'
                 PROVE  i \in relay'[q].ids /\ relay'[q].sent = relay[q].sent
      BY DEF LocksGoOn
    <2>1. q # p BY <1>7
    <2> QED BY <1>10, <2>1
  <1>17. \A i \in DOMAIN rows : IsNew(i)' => IsNew(i) BY <1>6, <1>7 DEF IsNew
  <1>18. SentOnce'
    BY <1>1, <1>2, <1>8, <1>9, <1>16, <1>17, SentKept DEF AddedIsNew, GotIsPassedOn
  <1> QED BY <1>1, <1>2, <1>14, <1>15, <1>18 DEF OutboxInv, SendInv, AgainOnlyAfterFailure

LEMMA PruneHolds ==
  ASSUME TypeOK, TypeOK', OutboxInv, NEW p \in Processes, Prune(p) PROVE OutboxInv'
  <1>1. RowInv /\ SentOnce /\ AgainOnlyAfterFailure /\ RecordInv BY DEF OutboxInv, SendInv
  <1>2. UNCHANGED <<table, heads, relay, received, again, excused, exports>> BY DEF Prune
  <1>3. PICK i \in Expired : rows' = [rows EXCEPT ![i].state = "pruned"] BY DEF Prune
  <1>4. i \in DOMAIN rows /\ rows[i].state = "published" BY <1>3 DEF Expired
  <1>5. rows[i] \in RowStates BY <1>4, RowsAreSeq
  <1>6. DOMAIN rows' = DOMAIN rows /\ \A j \in DOMAIN rows \ {i} : rows'[j] = rows[j]
    BY <1>3
  <1>7. rows'[i] = [rows[i] EXCEPT !.state = "pruned"] BY <1>3, <1>4
  <1>8. rows'[i].event = rows[i].event /\ rows'[i].state = "pruned" BY <1>5, <1>7 DEF RowStates
  <1>9. RowsStay BY <1>6, <1>8 DEF RowsStay
  <1>10. \A j : ~AddedRow(j) BY <1>6 DEF AddedRow
  <1>11. \A q \in Processes : i \notin relay[q].ids BY <1>1, <1>4 DEF RowInv, LocksHold, IsNew
  <1>12. LocksStay BY <1>2, <1>6, <1>11 DEF LocksStay, TypeOK
  <1>13. \A j \in DOMAIN rows : IsNew(j)' <=> IsNew(j) BY <1>4, <1>6, <1>8 DEF IsNew
  <1>14. RowInv'
    BY <1>1, <1>2, <1>9, <1>12, <1>13, RowsKept DEF ReceivedGrows, TakenIsSent
  <1>15. RecordInv' BY <1>1, <1>2, <1>9, <1>10, RecordsKept DEF AddedIsRecorded, HeadsFollow
  <1>16. SentOnce'
    BY <1>1, <1>2, <1>9, <1>10, <1>13, SentKept DEF AddedIsNew, LocksGoOn, GotIsPassedOn
  <1> QED BY <1>1, <1>2, <1>14, <1>15, <1>16 DEF OutboxInv, SendInv, AgainOnlyAfterFailure

LEMMA NextHolds == ASSUME TypeOK, OutboxInv, [Next]_vars PROVE OutboxInv'
  <1>1. TypeOK' BY NextTypes
  <1>2. ASSUME NEW p \in Processes, Start(p) \/ Decide(p) \/ Drain(p) PROVE OutboxInv'
    BY <1>1, <1>2, CalmHolds DEF Start, Decide, Drain
  <1>3. ASSUME NEW p \in Processes, PublishFails(p) PROVE OutboxInv'
    <2>1. /\ RollBack(p) /\ UNCHANGED <<table, heads, rows, exports>>
          /\ \/ UNCHANGED <<received, again>>
             \/ /\ relay[p].sent < SinkCount
                /\ \E some \in SUBSET EventsOf(relay[p].ids) : Sent(p, some)
      BY <1>3 DEF PublishFails
    <2>2. \A i : ~AddedRow(i) BY <2>1, SameRows
    <2> QED BY <1>1, <2>1, <2>2, RollBackHolds DEF AddedIsRecorded
  <1>4. ASSUME NEW p \in Processes, ExportHourly(p) PROVE OutboxInv'
    <2>1. UNCHANGED <<table, heads, relay, received, again, excused>> /\ ExportHeads(p)
      BY <1>4 DEF ExportHourly
    <2>2. /\ RowsAdded /\ AddedIsRecorded /\ exports' = exports + 1
          /\ \A i : AddedRow(i) => rows'[i].event.export = exports + 1
      BY <2>1, ExportIsRecorded
    <2>3. RowInv /\ SentOnce /\ AgainOnlyAfterFailure /\ RecordInv BY DEF OutboxInv, SendInv
    <2>4. \A i \in DOMAIN rows : rows'[i] = rows[i] BY <2>2 DEF RowsAdded
    <2>5. RowInv'
      BY <2>1, <2>2, <2>3, <2>4, RowsKept DEF ReceivedGrows, LocksStay, TakenIsSent, IsNew, TypeOK
    <2>6. RecordInv' BY <2>1, <2>2, <2>3, RecordsKept DEF HeadsFollow
    <2>7. AddedIsNew
      <3> SUFFICES ASSUME NEW i, AddedRow(i), NEW s \in Sinks, rows'[i].event \in received[s]
                   PROVE  FALSE
        BY DEF AddedIsNew, Has
      <3>1. rows'[i].event \in Known BY <2>3 DEF SentOnce
      <3>2. rows'[i].event.export <= exports
        BY <2>3, <3>1 DEF RecordInv, RowsRecorded, Known, EventsOf
      <3>3. exports \in Int BY DEF TypeOK
      <3> QED BY <2>2, <3>2, <3>3
    <2>8. LocksGoOn /\ GotIsPassedOn BY <2>1 DEF LocksGoOn, GotIsPassedOn
    <2>9. SentOnce' BY <1>1, <2>1, <2>2, <2>3, <2>4, <2>7, <2>8, SentKept DEF IsNew
    <2> QED BY <2>1, <2>3, <2>5, <2>6, <2>9 DEF OutboxInv, SendInv, AgainOnlyAfterFailure
  <1>5. ASSUME NEW p \in Processes, StopRelay(p) PROVE OutboxInv'
    <2>1. RollBack(p) /\ UNCHANGED <<table, heads, received, again>> BY <1>5 DEF StopRelay
    <2>2. ExportHeads(p) \/ UNCHANGED <<rows, exports>> BY <1>5 DEF StopRelay
    <2>3. CASE ExportHeads(p) BY <1>1, <2>1, <2>3, ExportIsRecorded, RollBackHolds
    <2>4. CASE UNCHANGED <<rows, exports>>
      <3>1. \A i : ~AddedRow(i) BY <2>4, SameRows
      <3> QED BY <1>1, <2>1, <2>4, <3>1, RollBackHolds DEF AddedIsRecorded
    <2> QED BY <2>2, <2>3, <2>4
  <1>6. ASSUME NEW p \in Processes, GiveUp(p) \/ Crash(p) PROVE OutboxInv'
    <2>1. RollBack(p) /\ UNCHANGED <<table, heads, rows, received, again, exports>>
      BY <1>6 DEF GiveUp, Crash
    <2>2. \A i : ~AddedRow(i) BY <2>1, SameRows
    <2> QED BY <1>1, <2>1, <2>2, RollBackHolds DEF AddedIsRecorded
  <1>7. CASE UNCHANGED vars BY <1>1, <1>7, CalmHolds DEF vars
  <1>8. ASSUME NEW p \in Processes,
               \/ \E e \in Records : Write(p, e)
               \/ Select(p) \/ Publish(p) \/ MarkPublished(p) \/ Prune(p)
        PROVE  OutboxInv'
    BY <1>1, <1>8, WriteHolds, SelectHolds, PublishHolds, MarkHolds, PruneHolds
  <1> QED BY <1>2, <1>3, <1>4, <1>5, <1>6, <1>7, <1>8 DEF Next

\* The invariant is what the property says, and more.
LEMMA OutboxIsEnough == ASSUME TypeOK, OutboxInv PROVE AnnouncedAsRecorded
  <1>1. \A e \in table : e \in ToSend \/ \A s \in Sinks : e \in received[s]
    BY DEF OutboxInv, RowInv, PublishedIsSent, RecordInv, TableHasRows, Known, ToSend, EventsOf,
           Unpublished, IsNew, Has
  <1>2. \A e \in Known : Record(e.chain, e.seq) \in table
    BY DEF OutboxInv, RecordInv, RowsRecorded, Known, EventsOf
  <1> QED BY <1>1, <1>2 DEF AnnouncedAsRecorded, RecordedIsAnnounced, OutboxInv, SendInv

\* "An event exists if and only if the decision was recorded" and "SKIP LOCKED lets every gateway
\* replica run a relay without double work" (outbox.py:3-4, relay.py:12-13): for any number of
\* replicas, records and sinks, and whatever fails, crashes, is written again, exported or pruned, a
\* record's event waits or is with every sink, what is announced is recorded, and a sink gets an
\* event twice only after a batch was rolled back or a record written again.
THEOREM AnnouncedAndRecorded == Spec => []AnnouncedAsRecorded
  <1>1. Init => TypeOK /\ OutboxInv BY InitTypes, InitHolds
  <1>2. TypeOK /\ OutboxInv /\ [Next]_vars => (TypeOK /\ OutboxInv)' BY NextTypes, NextHolds
  <1>3. TypeOK /\ OutboxInv => AnnouncedAsRecorded BY OutboxIsEnough
  <1> QED BY <1>1, <1>2, <1>3, PTL DEF Spec

-----------------------------------------------------------------------------
(* Catalog: what the catalog document guarantees, for any requests at a    *)
(* time, keys, agents and failures.                                        *)
tenant == v1
keys == v2
agents == v3
fleet == v4
catalog == v5
job == v6
revoked == v7
clean == v8
requests == v9
failed == v10
USE DEF tenant, keys, agents, fleet, catalog, job, revoked, clean, requests, failed


KeyOps == {"create", "revoke", "limit", "bind"}

\* What publish() has read so far is what the tables say.
DocSoFar(j) ==
  LET doc == j.doc IN
  /\ j.step \in {"keys", "agents", "fleet", "compare", "add"} =>
       doc.status = tenant.status /\ doc.advisors = tenant.advisors
  /\ j.step \in {"agents", "fleet", "compare", "add"} =>
       doc.keys = {<<k, keys[k].limit, keys[k].agent>> : k \in {q \in Keys : keys[q].active}}
  /\ j.step \in {"fleet", "compare", "add"} => doc.agents = agents
  /\ j.step \in {"compare", "add"} => (doc.flags => ~Catalog!OldGatewayLive)

\* A request writes the row of a key, and a revocation an inactive one.
JobHolds(j) ==
  /\ j.step \in {"check", "put"} /\ j.op \in KeyOps => j.key \in Keys /\ j.row.limit # "none"
  /\ j.op = "revoke" => j.key \in Keys /\ ~j.row.active /\ j.step # "check"
JobsHold == \A h \in Handlers : JobHolds(job[h])

\* A request that nothing overlapped is the only one, and what it read and wrote is still so.
SoloHolds(h) ==
  job[h].solo =>
    /\ \A g \in Handlers : g # h => job[g] = Catalog!NoJob
    /\ DocSoFar(job[h])
    /\ job[h].op = "revoke" /\ job[h].step \notin {"check", "put"} =>
         ~keys[job[h].key].active /\ keys[job[h].key].limit # "none"
SolosHold == \A h \in Handlers : SoloHolds(h)

KeysWhole == \A k \in Keys : keys[k].limit = "none" => keys[k] = Catalog!NoKey

Quiet == clean => \A h \in Handlers : job[h] = Catalog!NoJob

\* No row and no document under way brings back a key whose revocation ran alone.
RevokedKept ==
  \A r \in revoked : r.solo =>
    /\ keys[r.key].limit # "none" /\ ~keys[r.key].active
    /\ \A entry \in catalog.keys : entry[1] # r.key
    /\ \A h \in Handlers : /\ job[h].key = r.key => ~job[h].row.active
                           /\ \A entry \in job[h].doc.keys : entry[1] # r.key

CatalogInv == /\ Catalog!TypeOK /\ JobsHold /\ SolosHold /\ KeysWhole /\ Quiet /\ RevokedKept
              /\ Catalog!QuietCatalogIsCurrent

-----------------------------------------------------------------------------
LEMMA NoJobHolds ==
  /\ Catalog!NoJob \in Catalog!Jobs /\ JobHolds(Catalog!NoJob)
  /\ Catalog!NoJob.key = None /\ ~Catalog!NoJob.solo /\ Catalog!NoJob.doc.keys = {} /\ ~Catalog!NoJob.row.active
  /\ Catalog!NoJob.step = "idle" /\ Catalog!NoJob.op = "none"
BY DEF Catalog!NoJob, Catalog!NoDoc, Catalog!NoKey, Catalog!Jobs, Catalog!Docs, Catalog!KeyRows, Catalog!TenantRows, JobHolds, KeyOps

\* A step of a request that leaves the tables, the catalog and what is remembered alone.
LEMMA MovesKeep ==
  ASSUME CatalogInv, NEW h \in Handlers, NEW j \in Catalog!Jobs, Catalog!Busy(h),
         job' = [job EXCEPT ![h] = j],
         UNCHANGED <<Catalog!tables, catalog, Catalog!ghosts>>,
         requests' \in 0..MaxRequests, failed' \in 0..CatalogFailures,
         JobHolds(j),
         j.solo => job[h].solo /\ DocSoFar(j),
         j.op = "revoke" => /\ job[h].op = "revoke" /\ j.key = job[h].key
                            /\ job[h].step \notin {"check", "put"},
         \A r \in revoked : r.solo => /\ j.key = r.key => ~j.row.active
                                      /\ \A entry \in j.doc.keys : entry[1] # r.key
  PROVE  CatalogInv'
<1>1. /\ UNCHANGED <<tenant, keys, agents, fleet, catalog, revoked, clean>>
      /\ job \in [Handlers -> Catalog!Jobs] /\ job'[h] = j
      /\ \A g \in Handlers : g # h => job'[g] = job[g]
  BY DEF CatalogInv, Catalog!TypeOK, Catalog!tables, Catalog!ghosts
<1>2. Catalog!TypeOK'
  BY <1>1 DEF CatalogInv, Catalog!TypeOK
<1>3. JobsHold'
  BY <1>1 DEF CatalogInv, JobsHold, JobHolds
<1>4. SolosHold'
  <2> SUFFICES ASSUME NEW g \in Handlers, job'[g].solo
               PROVE  SoloHolds(g)'
    BY DEF SolosHold, SoloHolds
  <2>1. CASE g # h
    BY <1>1, <2>1, NoJobHolds DEF CatalogInv, SolosHold, SoloHolds, Catalog!Busy
  <2>2. CASE g = h
    <3>1. SoloHolds(h) /\ job[h].solo
      BY <1>1, <2>2 DEF CatalogInv, SolosHold
    <3>2. \A f \in Handlers : f # g => job'[f] = Catalog!NoJob
      BY <1>1, <2>2, <3>1 DEF SoloHolds
    <3>3. DocSoFar(job[g])'
      BY <1>1, <2>2, <3>1 DEF DocSoFar, Catalog!OldGatewayLive
    <3> QED BY <1>1, <2>2, <3>1, <3>2, <3>3 DEF SoloHolds
  <2> QED BY <2>1, <2>2
<1>5. KeysWhole' /\ Quiet' /\ Catalog!QuietCatalogIsCurrent'
  BY <1>1 DEF CatalogInv, KeysWhole, Quiet, Catalog!QuietCatalogIsCurrent, Catalog!OldGatewayLive, Catalog!Busy
<1>6. RevokedKept'
  <2> SUFFICES ASSUME NEW r \in revoked, r.solo
               PROVE  /\ keys[r.key].limit # "none" /\ ~keys[r.key].active
                      /\ \A entry \in catalog.keys : entry[1] # r.key
                      /\ \A g \in Handlers : /\ job'[g].key = r.key => ~job'[g].row.active
                                             /\ \A entry \in job'[g].doc.keys : entry[1] # r.key
    BY <1>1 DEF RevokedKept
  <2>1. \A g \in Handlers : g # h => /\ job'[g].key = r.key => ~job'[g].row.active
                                     /\ \A entry \in job'[g].doc.keys : entry[1] # r.key
    BY <1>1 DEF CatalogInv, RevokedKept
  <2> QED BY <1>1, <2>1 DEF CatalogInv, RevokedKept
<1> QED BY <1>2, <1>3, <1>4, <1>5, <1>6 DEF CatalogInv

\* A request that begins: alone if nothing else runs, and then all know.
LEMMA BeginsKeep ==
  ASSUME CatalogInv, NEW h \in Handlers, NEW q \in Catalog!Jobs, Catalog!Begin(h, q), MaxRequests \in Nat,
         JobHolds(q), q.doc = Catalog!NoDoc, q.step \in {"check", "put", "tenants"},
         q.op = "revoke" => q.step = "put",
         \A r \in revoked : r.solo /\ q.key = r.key => ~q.row.active
  PROVE  CatalogInv'
<1> DEFINE others == {g \in Handlers : Catalog!Busy(g)}
           alone == others = {}
           j == [q EXCEPT !.solo = alone]
<1>1. /\ UNCHANGED <<tenant, keys, agents, fleet, catalog, revoked, failed>>
      /\ clean' = FALSE /\ requests' = requests + 1 /\ requests < MaxRequests /\ ~Catalog!Busy(h)
      /\ job' = [g \in Handlers |-> IF g = h THEN j
                                    ELSE IF g \in others THEN [job[g] EXCEPT !.solo = FALSE]
                                    ELSE Catalog!NoJob]
  BY DEF Catalog!Begin, Catalog!tables
<1>2. /\ j \in Catalog!Jobs /\ j.doc = Catalog!NoDoc /\ j.step = q.step /\ j.op = q.op /\ j.key = q.key
      /\ j.row = q.row /\ (j.solo <=> alone) /\ j.doc.keys = {}
  <2>1. ASSUME NEW b \in BOOLEAN
        PROVE  LET e == [q EXCEPT !.solo = b] IN
               /\ e \in Catalog!Jobs /\ e.doc = Catalog!NoDoc /\ e.step = q.step /\ e.op = q.op /\ e.key = q.key
               /\ e.row = q.row /\ e.solo = b /\ e.doc.keys = {}
    BY DEF Catalog!Jobs, Catalog!NoDoc
  <2>2. alone \in BOOLEAN
    OBVIOUS
  <2> HIDE DEF alone
  <2> QED BY <2>1, <2>2
<1>3. ASSUME NEW g \in Handlers, g # h
      PROVE  /\ job'[g] \in Catalog!Jobs /\ ~job'[g].solo /\ job'[g].doc = job[g].doc
             /\ job'[g].step = job[g].step /\ job'[g].op = job[g].op
             /\ job'[g].key = job[g].key /\ job'[g].row = job[g].row
             /\ (alone => job'[g] = Catalog!NoJob)
  <2>1. job[g] \in Catalog!Jobs
    BY DEF CatalogInv, Catalog!TypeOK
  <2>2. CASE g \in others
    <3>1. job'[g] = [job[g] EXCEPT !.solo = FALSE]
      BY <1>1, <1>3, <2>2
    <3> QED BY <2>1, <2>2, <3>1 DEF Catalog!Jobs
  <2>3. CASE g \notin others
    <3>1. job'[g] = Catalog!NoJob /\ job[g] = Catalog!NoJob
      BY <1>1, <1>3, <2>3 DEF Catalog!Busy
    <3> QED BY <3>1, NoJobHolds
  <2> QED BY <2>2, <2>3
<1>4. job'[h] = j
  BY <1>1
<1> HIDE DEF j, alone, others
<1>5. Catalog!TypeOK'
  <2>1. job' \in [Handlers -> Catalog!Jobs]
    BY <1>1, <1>2, <1>3, <1>4
  <2>2. requests' \in 0..MaxRequests
    BY <1>1 DEF CatalogInv, Catalog!TypeOK
  <2> QED BY <1>1, <2>1, <2>2 DEF CatalogInv, Catalog!TypeOK
<1>6. JobsHold'
  BY <1>2, <1>3, <1>4 DEF CatalogInv, JobsHold, JobHolds
<1>7. SolosHold'
  <2> SUFFICES ASSUME NEW g \in Handlers, job'[g].solo
               PROVE  SoloHolds(g)'
    BY DEF SolosHold, SoloHolds
  <2>1. g = h /\ alone
    BY <1>2, <1>3, <1>4
  <2>2. job'[g].step \in {"check", "put", "tenants"} /\ (job'[g].op = "revoke" => job'[g].step = "put")
    BY <1>2, <1>4, <2>1
  <2> QED BY <1>3, <2>1, <2>2 DEF SoloHolds, DocSoFar
<1>8. KeysWhole' /\ Quiet' /\ Catalog!QuietCatalogIsCurrent'
  BY <1>1 DEF CatalogInv, KeysWhole, Quiet, Catalog!QuietCatalogIsCurrent
<1>9. RevokedKept'
  <2> SUFFICES ASSUME NEW r \in revoked, r.solo, NEW g \in Handlers
               PROVE  /\ keys[r.key].limit # "none" /\ ~keys[r.key].active
                      /\ \A entry \in catalog.keys : entry[1] # r.key
                      /\ job'[g].key = r.key => ~job'[g].row.active
                      /\ \A entry \in job'[g].doc.keys : entry[1] # r.key
    BY <1>1 DEF RevokedKept
  <2>1. CASE g # h
    BY <1>3, <2>1 DEF CatalogInv, RevokedKept
  <2>2. CASE g = h
    BY <1>2, <1>4, <2>2 DEF CatalogInv, RevokedKept
  <2> QED BY <2>1, <2>2
<1> QED BY <1>5, <1>6, <1>7, <1>8, <1>9 DEF CatalogInv

-----------------------------------------------------------------------------
(* Requests *)

LEMMA RequestIs ==
  ASSUME NEW op \in {"create", "revoke", "limit", "bind", "tenant", "agents", "gateway", "publish"},
         NEW step \in {"check", "put", "tenants"}, NEW k \in Keys \cup {None}, NEW line \in Catalog!KeyRows
  PROVE  LET q == Catalog!Request(op, step, k, line) IN
         /\ q \in Catalog!Jobs /\ q.op = op /\ q.step = step /\ q.key = k /\ q.row = line /\ q.doc = Catalog!NoDoc
BY NoJobHolds DEF Catalog!Request, Catalog!NoJob, Catalog!Jobs

\* A request on a key: what it is to write has the key's limit, and is active only if the key is or is new.
LEMMA KeyRequestKeeps ==
  ASSUME CatalogInv, MaxRequests \in Nat, NEW h \in Handlers, NEW op \in KeyOps,
         NEW step \in {"check", "put"}, NEW k \in Keys, NEW line \in Catalog!KeyRows,
         Catalog!Begin(h, Catalog!Request(op, step, k, line)), line.limit # "none",
         line.active => keys[k].active \/ keys[k] = Catalog!NoKey,
         op = "revoke" => step = "put" /\ ~line.active
  PROVE  CatalogInv'
<1> DEFINE q == Catalog!Request(op, step, k, line)
<1>1. q \in Catalog!Jobs /\ q.op = op /\ q.step = step /\ q.key = k /\ q.row = line /\ q.doc = Catalog!NoDoc
  BY RequestIs DEF KeyOps
<1>2. JobHolds(q)
  BY <1>1 DEF JobHolds
<1>3. \A r \in revoked : r.solo /\ q.key = r.key => ~q.row.active
  BY <1>1 DEF CatalogInv, RevokedKept, Catalog!NoKey
<1> HIDE DEF q
<1> QED BY <1>1, <1>2, <1>3, BeginsKeep DEF q

LEMMA KeyRow ==
  ASSUME CatalogInv, NEW k \in Keys
  PROVE  /\ keys[k] \in Catalog!KeyRows /\ (Catalog!Exists(k) => keys[k].limit # "none")
         /\ keys[k].active \in BOOLEAN
BY DEF CatalogInv, Catalog!TypeOK, KeysWhole, Catalog!Exists, Catalog!KeyRows

LEMMA KeyRequestsKeep ==
  ASSUME CatalogInv, MaxRequests \in Nat, NEW h \in Handlers,
         Catalog!CreateKey(h) \/ Catalog!RevokeKey(h) \/ Catalog!SetRateLimit(h) \/ Catalog!BindKey(h)
  PROVE  CatalogInv'
<1>1. CASE Catalog!CreateKey(h)
  <2>1. PICK k \in Keys, a \in Agents \cup {None} :
          /\ keys[k] = Catalog!NoKey
          /\ Catalog!Begin(h, Catalog!Request("create", IF a = None THEN "put" ELSE "check", k, [Catalog!NewKey EXCEPT !.agent = a]))
    BY <1>1 DEF Catalog!CreateKey, Catalog!Exists
  <2> DEFINE line == [Catalog!NewKey EXCEPT !.agent = a]
             step == IF a = None THEN "put" ELSE "check"
  <2>2. line \in Catalog!KeyRows /\ line.limit # "none" /\ step \in {"check", "put"}
    BY DEF Catalog!NewKey, Catalog!KeyRows
  <2> HIDE DEF line, step
  <2> QED BY <2>1, <2>2, KeyRequestKeeps DEF KeyOps, line, step
<1>2. CASE Catalog!RevokeKey(h)
  <2>1. PICK k \in Keys : Catalog!Exists(k) /\ Catalog!Begin(h, Catalog!Request("revoke", "put", k, [keys[k] EXCEPT !.active = FALSE]))
    BY <1>2 DEF Catalog!RevokeKey
  <2> DEFINE line == [keys[k] EXCEPT !.active = FALSE]
  <2>2. line \in Catalog!KeyRows /\ line.limit # "none" /\ ~line.active
    BY <2>1, KeyRow DEF Catalog!KeyRows
  <2> HIDE DEF line
  <2> QED BY <2>1, <2>2, KeyRequestKeeps DEF KeyOps, line
<1>3. CASE Catalog!SetRateLimit(h)
  <2>1. PICK k \in Keys, limit \in {"default", "low"} :
          Catalog!Exists(k) /\ Catalog!Begin(h, Catalog!Request("limit", "put", k, [keys[k] EXCEPT !.limit = limit]))
    BY <1>3 DEF Catalog!SetRateLimit
  <2> DEFINE line == [keys[k] EXCEPT !.limit = limit]
  <2>2. line \in Catalog!KeyRows /\ line.limit # "none" /\ line.active = keys[k].active
    BY KeyRow DEF Catalog!KeyRows
  <2> HIDE DEF line
  <2> QED BY <2>1, <2>2, KeyRequestKeeps DEF KeyOps, line
<1>4. CASE Catalog!BindKey(h)
  <2>1. PICK k \in Keys, a \in Agents \cup {None} :
          /\ Catalog!Exists(k) /\ keys[k].active
          /\ Catalog!Begin(h, Catalog!Request("bind", IF a = None THEN "put" ELSE "check", k, [keys[k] EXCEPT !.agent = a]))
    BY <1>4 DEF Catalog!BindKey
  <2> DEFINE line == [keys[k] EXCEPT !.agent = a]
             step == IF a = None THEN "put" ELSE "check"
  <2>2. line \in Catalog!KeyRows /\ line.limit # "none" /\ step \in {"check", "put"}
    BY <2>1, KeyRow DEF Catalog!KeyRows
  <2> HIDE DEF line, step
  <2> QED BY <2>1, <2>2, KeyRequestKeeps DEF KeyOps, line, step
<1> QED BY <1>1, <1>2, <1>3, <1>4

\* A request on anything else writes no key.
LEMMA OtherRequestKeeps ==
  ASSUME CatalogInv, MaxRequests \in Nat, NEW h \in Handlers, NEW q \in Catalog!Jobs, Catalog!Begin(h, q),
         q.op \in {"tenant", "agents", "gateway", "publish"}, q.row = Catalog!NoKey, q.doc = Catalog!NoDoc,
         q.step \in {"check", "put", "tenants"}
  PROVE  CatalogInv'
<1>1. JobHolds(q) /\ ~q.row.active
  BY DEF JobHolds, KeyOps, Catalog!NoKey
<1> QED BY <1>1, BeginsKeep

LEMMA OtherRequestsKeep ==
  ASSUME CatalogInv, MaxRequests \in Nat, NEW h \in Handlers,
         \/ Catalog!SetTenantStatus(h) \/ Catalog!SetAdvisorPolicy(h) \/ Catalog!PutOrDeleteAgents(h)
         \/ Catalog!Heartbeat(h) \/ Catalog!FirstFetch(h)
  PROVE  CatalogInv'
<1>0. /\ tenant \in Catalog!TenantRows /\ Catalog!NoKey \in Catalog!KeyRows
      /\ tenant.advisors \in BOOLEAN
  BY DEF CatalogInv, Catalog!TypeOK, Catalog!NoKey, Catalog!KeyRows, Catalog!TenantRows
<1> DEFINE Like(q, op, step) ==
             q \in Catalog!Jobs /\ q.op = op /\ q.step = step /\ q.row = Catalog!NoKey /\ q.doc = Catalog!NoDoc
<1>1. CASE Catalog!SetTenantStatus(h)
  <2>1. PICK status \in {"active", "suspended"} :
          Catalog!Begin(h, [Catalog!Request("tenant", "put", None, Catalog!NoKey) EXCEPT !.tenant = [tenant EXCEPT !.status = status]])
    BY <1>1 DEF Catalog!SetTenantStatus
  <2> DEFINE q == [Catalog!Request("tenant", "put", None, Catalog!NoKey) EXCEPT !.tenant = [tenant EXCEPT !.status = status]]
  <2>2. Like(q, "tenant", "put")
    <3>1. [tenant EXCEPT !.status = status] \in Catalog!TenantRows
      BY <1>0 DEF Catalog!TenantRows
    <3>2. Like(Catalog!Request("tenant", "put", None, Catalog!NoKey), "tenant", "put")
      BY <1>0, RequestIs
    <3> QED BY <3>1, <3>2 DEF Catalog!Jobs
  <2> HIDE DEF q
  <2> QED BY <2>1, <2>2, OtherRequestKeeps DEF q
<1>2. CASE Catalog!SetAdvisorPolicy(h)
  <2>1. PICK allowed \in BOOLEAN :
          Catalog!Begin(h, [Catalog!Request("tenant", IF allowed /\ ~tenant.advisors THEN "check" ELSE "put", None, Catalog!NoKey)
                      EXCEPT !.tenant = [tenant EXCEPT !.advisors = allowed]])
    BY <1>2 DEF Catalog!SetAdvisorPolicy
  <2> DEFINE step == IF allowed /\ ~tenant.advisors THEN "check" ELSE "put"
             q == [Catalog!Request("tenant", step, None, Catalog!NoKey) EXCEPT !.tenant = [tenant EXCEPT !.advisors = allowed]]
  <2>2. step \in {"check", "put"}
    OBVIOUS
  <2>3. Catalog!Begin(h, q)
    BY <2>1
  <2> HIDE DEF step
  <2>4. Like(q, "tenant", step)
    <3>1. [tenant EXCEPT !.advisors = allowed] \in Catalog!TenantRows
      BY <1>0 DEF Catalog!TenantRows
    <3>2. Like(Catalog!Request("tenant", step, None, Catalog!NoKey), "tenant", step)
      BY <1>0, <2>2, RequestIs
    <3> QED BY <3>1, <3>2 DEF Catalog!Jobs
  <2> HIDE DEF q
  <2> QED BY <2>2, <2>3, <2>4, OtherRequestKeeps
<1>3. CASE Catalog!PutOrDeleteAgents(h)
  <2>1. PICK after \in SUBSET Agents :
          Catalog!Begin(h, [Catalog!Request("agents", "put", None, Catalog!NoKey) EXCEPT !.agents = after])
    BY <1>3 DEF Catalog!PutOrDeleteAgents
  <2> DEFINE q == [Catalog!Request("agents", "put", None, Catalog!NoKey) EXCEPT !.agents = after]
  <2>2. Like(q, "agents", "put")
    <3>1. Like(Catalog!Request("agents", "put", None, Catalog!NoKey), "agents", "put")
      BY <1>0, RequestIs
    <3> QED BY <3>1 DEF Catalog!Jobs
  <2> HIDE DEF q
  <2> QED BY <2>1, <2>2, OtherRequestKeeps DEF q
<1>4. CASE Catalog!Heartbeat(h)
  <2>1. PICK reads \in {"old", "new"} :
          Catalog!Begin(h, [Catalog!Request("gateway", "put", None, Catalog!NoKey) EXCEPT !.reads = reads])
    BY <1>4 DEF Catalog!Heartbeat
  <2> DEFINE q == [Catalog!Request("gateway", "put", None, Catalog!NoKey) EXCEPT !.reads = reads]
  <2>2. Like(q, "gateway", "put")
    <3>1. Like(Catalog!Request("gateway", "put", None, Catalog!NoKey), "gateway", "put")
      BY <1>0, RequestIs
    <3> QED BY <3>1 DEF Catalog!Jobs
  <2> HIDE DEF q
  <2> QED BY <2>1, <2>2, OtherRequestKeeps DEF q
<1>5. CASE Catalog!FirstFetch(h)
  <2> DEFINE q == Catalog!Request("publish", "tenants", None, Catalog!NoKey)
  <2>1. Catalog!Begin(h, q) /\ Like(q, "publish", "tenants")
    BY <1>0, <1>5, RequestIs DEF Catalog!FirstFetch
  <2> HIDE DEF q
  <2> QED BY <2>1, OtherRequestKeeps
<1> QED BY <1>1, <1>2, <1>3, <1>4, <1>5

-----------------------------------------------------------------------------
(* The steps of a request *)

LEMMA JobIs ==
  ASSUME CatalogInv, NEW h \in Handlers
  PROVE  /\ job[h] \in Catalog!Jobs /\ JobHolds(job[h]) /\ SoloHolds(h)
         /\ \A r \in revoked : r.solo => /\ job[h].key = r.key => ~job[h].row.active
                                         /\ \A entry \in job[h].doc.keys : entry[1] # r.key
         /\ job[h].step # "idle" => Catalog!Busy(h)
         /\ requests \in 0..MaxRequests /\ failed \in 0..CatalogFailures
BY NoJobHolds DEF CatalogInv, Catalog!TypeOK, JobsHold, SolosHold, RevokedKept, Catalog!Busy

LEMMA EndKeeps ==
  ASSUME CatalogInv, NEW h \in Handlers, Catalog!Busy(h), Catalog!EndJob(h), UNCHANGED <<Catalog!tables, catalog, Catalog!ghosts>>,
         requests' \in 0..MaxRequests, failed' \in 0..CatalogFailures
  PROVE  CatalogInv'
BY NoJobHolds, MovesKeep DEF Catalog!EndJob

LEMMA CheckKeeps ==
  ASSUME CatalogInv, NEW h \in Handlers, Catalog!Check(h)
  PROVE  CatalogInv'
<1>1. /\ job[h].step = "check" /\ Catalog!Busy(h) /\ UNCHANGED <<Catalog!tables, catalog, Catalog!ghosts>>
      /\ requests' \in 0..MaxRequests /\ failed' \in 0..CatalogFailures
  BY JobIs DEF Catalog!Check
<1>2. CASE Catalog!EndJob(h)
  BY <1>1, <1>2, EndKeeps
<1>3. CASE Catalog!Goto(h, "put")
  <2> DEFINE j == [job[h] EXCEPT !.step = "put"]
  <2>1. job' = [job EXCEPT ![h] = j]
    BY <1>3 DEF Catalog!Goto
  <2>2. /\ j \in Catalog!Jobs /\ j.step = "put" /\ j.op = job[h].op /\ j.key = job[h].key
        /\ j.row = job[h].row /\ j.doc = job[h].doc /\ j.solo = job[h].solo
    BY JobIs DEF Catalog!Jobs
  <2> HIDE DEF j
  <2>3. JobHolds(j)
    BY <1>1, <2>2, JobIs DEF JobHolds
  <2>4. DocSoFar(j)
    BY <2>2 DEF DocSoFar
  <2>5. j.op # "revoke"
    BY <1>1, <2>2, JobIs DEF JobHolds
  <2>6. \A r \in revoked : r.solo => /\ j.key = r.key => ~j.row.active
                                     /\ \A entry \in j.doc.keys : entry[1] # r.key
    BY <2>2, JobIs
  <2>7. j.solo => job[h].solo /\ DocSoFar(j)
    BY <2>2, <2>4
  <2> QED BY <1>1, <2>1, <2>2, <2>3, <2>5, <2>6, <2>7, MovesKeep
<1> QED BY <1>2, <1>3 DEF Catalog!Check

\* One read of publish(): the document grows by what the tables say now.
LEMMA ReadKeeps ==
  ASSUME CatalogInv, NEW h \in Handlers,
         NEW from \in {"tenants", "keys", "agents", "fleet"},
         NEW to \in {"keys", "agents", "fleet", "compare"}, NEW doc \in Catalog!Docs,
         Catalog!Read(h, from, to, doc),
         job[h].solo => DocSoFar([job[h] EXCEPT !.step = to, !.doc = doc]),
         \A r \in revoked : r.solo => \A entry \in doc.keys : entry[1] # r.key
  PROVE  CatalogInv'
<1> DEFINE j == [job[h] EXCEPT !.step = to, !.doc = doc]
<1>1. /\ job[h].step = from /\ UNCHANGED <<Catalog!tables, catalog, Catalog!ghosts, requests, failed>>
      /\ job' = [job EXCEPT ![h].step = to, ![h].doc = doc]
  BY DEF Catalog!Read
<1>2. job' = [job EXCEPT ![h] = j]
  BY <1>1 DEF CatalogInv, Catalog!TypeOK
<1>3. /\ j \in Catalog!Jobs /\ j.step = to /\ j.op = job[h].op /\ j.key = job[h].key
      /\ j.row = job[h].row /\ j.doc = doc /\ j.solo = job[h].solo
  BY JobIs DEF Catalog!Jobs
<1>4. j.solo => DocSoFar(j)
  BY <1>3
<1> HIDE DEF j
<1>5. JobHolds(j)
  BY <1>3, JobIs DEF JobHolds
<1>6. Catalog!Busy(h) /\ requests' \in 0..MaxRequests /\ failed' \in 0..CatalogFailures
  BY <1>1, JobIs
<1>7. UNCHANGED <<Catalog!tables, catalog, Catalog!ghosts>>
  BY <1>1
<1>8. \A r \in revoked : r.solo => /\ j.key = r.key => ~j.row.active
                                   /\ \A entry \in j.doc.keys : entry[1] # r.key
  BY <1>3, JobIs
<1>9. j.op = "revoke" => /\ job[h].op = "revoke" /\ j.key = job[h].key
                         /\ job[h].step \notin {"check", "put"}
  BY <1>1, <1>3
<1>10. j.solo => job[h].solo
  BY <1>3
<1> QED BY <1>2, <1>3, <1>4, <1>5, <1>6, <1>7, <1>8, <1>9, <1>10, MovesKeep

LEMMA ReadsKeep ==
  ASSUME CatalogInv, NEW h \in Handlers,
         Catalog!ReadTenants(h) \/ Catalog!ReadKeys(h) \/ Catalog!ReadAgents(h) \/ Catalog!ReadFleet(h)
  PROVE  CatalogInv'
<1>0. /\ job[h] \in Catalog!Jobs /\ job[h].doc \in Catalog!Docs /\ Catalog!NoDoc \in Catalog!Docs /\ tenant \in Catalog!TenantRows
      /\ agents \subseteq Agents /\ keys \in [Keys -> Catalog!KeyRows]
  BY JobIs DEF CatalogInv, Catalog!TypeOK, Catalog!Jobs, Catalog!NoDoc, Catalog!Docs
<1> DEFINE After(to, doc) == [job[h] EXCEPT !.step = to, !.doc = doc]
<1>1. ASSUME NEW to, NEW doc
      PROVE  After(to, doc).step = to /\ After(to, doc).doc = doc
  BY <1>0 DEF Catalog!Jobs
<1>2. CASE Catalog!ReadTenants(h)
  <2> DEFINE doc == [Catalog!NoDoc EXCEPT !.status = tenant.status, !.advisors = tenant.advisors]
  <2>1. /\ doc \in Catalog!Docs /\ doc.status = tenant.status /\ doc.advisors = tenant.advisors /\ doc.keys = {}
    BY <1>0 DEF Catalog!NoDoc, Catalog!Docs, Catalog!TenantRows
  <2>2. Catalog!Read(h, "tenants", "keys", doc)
    BY <1>2 DEF Catalog!ReadTenants
  <2> HIDE DEF doc
  <2>3. DocSoFar(After("keys", doc))
    BY <1>1, <2>1 DEF DocSoFar
  <2> QED BY <2>1, <2>2, <2>3, ReadKeeps
<1>3. CASE Catalog!ReadKeys(h)
  <2> DEFINE newest == {<<k, keys[k].limit, keys[k].agent>> : k \in Catalog!Published}
             doc == [job[h].doc EXCEPT !.keys = newest]
  <2>1. newest \subseteq Keys \X {"none", "default", "low"} \X (Agents \cup {None})
    BY <1>0 DEF Catalog!KeyRows, Catalog!Published
  <2>2. newest = {<<k, keys[k].limit, keys[k].agent>> : k \in {q \in Keys : keys[q].active}}
    BY DEF Catalog!Published
  <2>3. \A r \in revoked : r.solo => \A entry \in newest : entry[1] # r.key
    BY DEF CatalogInv, RevokedKept, Catalog!Published
  <2> HIDE DEF newest
  <2>4. /\ doc \in Catalog!Docs /\ doc.status = job[h].doc.status /\ doc.advisors = job[h].doc.advisors
        /\ doc.keys = newest
    BY <1>0, <2>1 DEF Catalog!Docs
  <2>5. Catalog!Read(h, "keys", "agents", doc)
    BY <1>3 DEF Catalog!ReadKeys, newest
  <2> HIDE DEF doc
  <2>6. job[h].solo => DocSoFar(After("agents", doc))
    BY <1>1, <2>2, <2>4, <2>5, JobIs DEF DocSoFar, SoloHolds, Catalog!Read
  <2> QED BY <2>3, <2>4, <2>5, <2>6, ReadKeeps
<1>4. CASE Catalog!ReadAgents(h)
  <2> DEFINE doc == [job[h].doc EXCEPT !.agents = agents]
  <2>1. /\ doc \in Catalog!Docs /\ doc.status = job[h].doc.status /\ doc.advisors = job[h].doc.advisors
        /\ doc.keys = job[h].doc.keys /\ doc.agents = agents
    BY <1>0 DEF Catalog!Docs
  <2>2. Catalog!Read(h, "agents", "fleet", doc)
    BY <1>4 DEF Catalog!ReadAgents
  <2> HIDE DEF doc
  <2>3. job[h].solo => DocSoFar(After("fleet", doc))
    BY <1>1, <2>1, <2>2, JobIs DEF DocSoFar, SoloHolds, Catalog!Read
  <2>4. \A r \in revoked : r.solo => \A entry \in doc.keys : entry[1] # r.key
    BY <2>1, JobIs
  <2> QED BY <2>1, <2>2, <2>3, <2>4, ReadKeeps
<1>5. CASE Catalog!ReadFleet(h)
  <2> DEFINE readable == ~Catalog!OldGatewayLive
             doc == [job[h].doc EXCEPT !.flags = readable]
  <2>0. readable \in BOOLEAN
    BY DEF Catalog!OldGatewayLive
  <2> HIDE DEF readable
  <2>1. /\ doc \in Catalog!Docs /\ doc.status = job[h].doc.status /\ doc.advisors = job[h].doc.advisors
        /\ doc.keys = job[h].doc.keys /\ doc.agents = job[h].doc.agents /\ doc.flags = readable
    BY <1>0, <2>0 DEF Catalog!Docs
  <2>2. Catalog!Read(h, "fleet", "compare", doc)
    BY <1>5 DEF Catalog!ReadFleet, readable
  <2> HIDE DEF doc
  <2>3. job[h].solo => DocSoFar(After("compare", doc))
    <3>1. job[h].step = "fleet" /\ (job[h].solo => DocSoFar(job[h]))
      BY <2>2, JobIs DEF Catalog!Read, SoloHolds
    <3>2. After("compare", doc).step = "compare" /\ After("compare", doc).doc = doc
      BY <1>1
    <3> HIDE DEF After
    <3> QED BY <2>1, <3>1, <3>2 DEF DocSoFar, readable
  <2>4. \A r \in revoked : r.solo => \A entry \in doc.keys : entry[1] # r.key
    BY <2>1, JobIs
  <2> QED BY <2>1, <2>2, <2>3, <2>4, ReadKeeps
<1> QED BY <1>2, <1>3, <1>4, <1>5

LEMMA CompareKeeps ==
  ASSUME CatalogInv, NEW h \in Handlers, Catalog!Compare(h)
  PROVE  CatalogInv'
<1> DEFINE j == [job[h] EXCEPT !.step = "add"]
<1>1. /\ job[h].step = "compare" /\ UNCHANGED <<Catalog!tables, catalog, Catalog!ghosts>>
      /\ job' = [job EXCEPT ![h] = j] /\ Catalog!Busy(h)
      /\ requests' \in 0..MaxRequests /\ failed' \in 0..CatalogFailures
  BY JobIs DEF Catalog!Compare, Catalog!Goto
<1>2. /\ j \in Catalog!Jobs /\ j.step = "add" /\ j.op = job[h].op /\ j.key = job[h].key
      /\ j.row = job[h].row /\ j.doc = job[h].doc /\ j.solo = job[h].solo
  BY JobIs DEF Catalog!Jobs
<1> HIDE DEF j
<1>3. JobHolds(j)
  BY <1>2, JobIs DEF JobHolds
<1>4. j.solo => job[h].solo /\ DocSoFar(j)
  BY <1>1, <1>2, JobIs DEF DocSoFar, SoloHolds
<1>5. \A r \in revoked : r.solo => /\ j.key = r.key => ~j.row.active
                                   /\ \A entry \in j.doc.keys : entry[1] # r.key
  BY <1>2, JobIs
<1>6. j.op = "revoke" => /\ job[h].op = "revoke" /\ j.key = job[h].key
                         /\ job[h].step \notin {"check", "put"}
  BY <1>1, <1>2
<1> QED BY <1>1, <1>2, <1>3, <1>4, <1>5, <1>6, MovesKeep

LEMMA FailKeeps ==
  ASSUME CatalogInv, CatalogFailures \in Nat, NEW h \in Handlers, Catalog!Fail(h)
  PROVE  CatalogInv'
<1>1. requests' \in 0..MaxRequests /\ failed' \in 0..CatalogFailures
  BY JobIs DEF Catalog!Fail
<1> QED BY <1>1, EndKeeps DEF Catalog!Fail

-----------------------------------------------------------------------------
(* The write of a row, the answer, and a gateway that is not heard from *)

LEMMA PublishIs ==
  ASSUME NEW j \in Catalog!Jobs, JobHolds(j)
  PROVE  /\ Catalog!Publish(j) \in Catalog!Jobs /\ JobHolds(Catalog!Publish(j)) /\ Catalog!Publish(j).step = "tenants"
         /\ Catalog!Publish(j).solo = j.solo /\ ~Catalog!Publish(j).row.active /\ Catalog!Publish(j).doc.keys = {}
         /\ Catalog!Publish(j).op = "revoke" => j.op = "revoke" /\ Catalog!Publish(j).key = j.key
<1>1. j.solo \in BOOLEAN /\ (j.op = "revoke" => j.key \in Keys)
  BY DEF Catalog!Jobs, JobHolds
<1> DEFINE p == Catalog!Publish(j)
<1>2. /\ p.step = "tenants" /\ p.solo = j.solo /\ p.row = Catalog!NoJob.row /\ p.doc = Catalog!NoJob.doc
      /\ p.key = IF j.op = "revoke" THEN j.key ELSE None
      /\ p.op = IF j.op = "revoke" THEN "revoke" ELSE "publish"
  BY DEF Catalog!Publish, Catalog!NoJob
<1>3. p \in Catalog!Jobs
  BY <1>1, NoJobHolds DEF Catalog!Publish, Catalog!Jobs
<1> HIDE DEF p
<1>4. ~p.row.active /\ p.doc.keys = {}
  BY <1>2, NoJobHolds
<1>5. JobHolds(p)
  BY <1>1, <1>2, <1>4 DEF JobHolds, KeyOps
<1>6. p.op = "revoke" => j.op = "revoke" /\ p.key = j.key
  BY <1>2
<1> QED BY <1>2, <1>3, <1>4, <1>5, <1>6 DEF p

LEMMA PutKeeps ==
  ASSUME CatalogInv, NEW h \in Handlers, Catalog!Put(h)
  PROVE  CatalogInv'
<1> DEFINE j == job[h]
<1>1. /\ j.step = "put"
      /\ tenant' = IF j.op = "tenant" THEN j.tenant ELSE tenant
      /\ keys' = IF j.op \in KeyOps THEN [keys EXCEPT ![j.key] = j.row] ELSE keys
      /\ agents' = IF j.op = "agents" THEN j.agents ELSE agents
      /\ fleet' = IF j.op = "gateway" THEN [reads |-> j.reads, live |-> TRUE] ELSE fleet
      /\ job' = [job EXCEPT ![h] = Catalog!Publish(j)]
      /\ UNCHANGED <<catalog, revoked, clean, requests, failed>>
  BY DEF Catalog!Put, KeyOps
<1>2. /\ j \in Catalog!Jobs /\ JobHolds(j) /\ SoloHolds(h) /\ Catalog!Busy(h)
      /\ \A r \in revoked : r.solo /\ j.key = r.key => ~j.row.active
  BY <1>1, JobIs
<1>3. /\ Catalog!Publish(j) \in Catalog!Jobs /\ JobHolds(Catalog!Publish(j)) /\ Catalog!Publish(j).step = "tenants"
      /\ Catalog!Publish(j).solo = j.solo /\ ~Catalog!Publish(j).row.active /\ Catalog!Publish(j).doc.keys = {}
      /\ Catalog!Publish(j).op = "revoke" => j.op = "revoke" /\ Catalog!Publish(j).key = j.key
  BY <1>2, PublishIs
<1>4. /\ job \in [Handlers -> Catalog!Jobs] /\ job'[h] = Catalog!Publish(j)
      /\ \A g \in Handlers : g # h => job'[g] = job[g]
  BY <1>1 DEF CatalogInv, Catalog!TypeOK
<1>5. /\ j.op \in KeyOps => j.key \in Keys /\ j.row.limit # "none"
      /\ j.tenant \in Catalog!TenantRows /\ j.row \in Catalog!KeyRows /\ j.agents \subseteq Agents
      /\ j.reads \in {"old", "new"}
  BY <1>1, <1>2 DEF JobHolds, Catalog!Jobs
<1>6. keys \in [Keys -> Catalog!KeyRows] /\ keys' \in [Keys -> Catalog!KeyRows]
  BY <1>1, <1>5 DEF CatalogInv, Catalog!TypeOK
<1>7. Catalog!TypeOK'
  <2>1. tenant' \in Catalog!TenantRows /\ agents' \subseteq Agents
        /\ fleet' \in [reads : {"old", "new"}, live : BOOLEAN]
    BY <1>1, <1>5 DEF CatalogInv, Catalog!TypeOK
  <2>2. job' \in [Handlers -> Catalog!Jobs]
    BY <1>1, <1>3, <1>4
  <2> QED BY <1>1, <1>6, <2>1, <2>2 DEF CatalogInv, Catalog!TypeOK
<1>8. JobsHold'
  <2> SUFFICES ASSUME NEW g \in Handlers
               PROVE  JobHolds(job'[g])
    BY DEF JobsHold, JobHolds
  <2> QED BY <1>3, <1>4, JobIs
<1>9. SolosHold'
  <2> SUFFICES ASSUME NEW g \in Handlers, job'[g].solo
               PROVE  SoloHolds(g)'
    BY DEF SolosHold, SoloHolds
  <2>1. g = h /\ j.solo
    BY <1>2, <1>3, <1>4, JobIs, NoJobHolds DEF SoloHolds, Catalog!Busy
  <2>2. \A f \in Handlers : f # h => job'[f] = Catalog!NoJob
    BY <1>2, <1>4, <2>1 DEF SoloHolds
  <2>3. job'[h].op = "revoke" => ~keys'[job'[h].key].active /\ keys'[job'[h].key].limit # "none"
    BY <1>1, <1>2, <1>3, <1>4, <1>5, <1>6 DEF JobHolds, KeyOps
  <2> QED BY <1>3, <1>4, <2>1, <2>2, <2>3 DEF SoloHolds, DocSoFar
<1>10. KeysWhole'
  <2> SUFFICES ASSUME NEW k \in Keys, keys'[k].limit = "none"
               PROVE  keys'[k] = Catalog!NoKey
    BY DEF KeysWhole
  <2> QED BY <1>1, <1>5, <1>6 DEF CatalogInv, KeysWhole
<1>11. ~clean /\ ~clean'
  BY <1>1, <1>2 DEF CatalogInv, Quiet, Catalog!Busy
<1>12. RevokedKept'
  <2> SUFFICES ASSUME NEW r \in revoked, r.solo, NEW g \in Handlers
               PROVE  /\ keys'[r.key].limit # "none" /\ ~keys'[r.key].active
                      /\ \A entry \in catalog.keys : entry[1] # r.key
                      /\ job'[g].key = r.key => ~job'[g].row.active
                      /\ \A entry \in job'[g].doc.keys : entry[1] # r.key
    BY <1>1 DEF RevokedKept
  <2>1. r.key \in Keys /\ keys[r.key].limit # "none" /\ ~keys[r.key].active
        /\ \A entry \in catalog.keys : entry[1] # r.key
    BY DEF CatalogInv, Catalog!TypeOK, RevokedKept
  <2>2. keys'[r.key].limit # "none" /\ ~keys'[r.key].active
    BY <1>1, <1>2, <1>5, <1>6, <2>1
  <2>3. /\ job'[g].key = r.key => ~job'[g].row.active
        /\ \A entry \in job'[g].doc.keys : entry[1] # r.key
    BY <1>3, <1>4, JobIs
  <2> QED BY <2>1, <2>2, <2>3
<1> QED BY <1>7, <1>8, <1>9, <1>10, <1>11, <1>12 DEF CatalogInv, Quiet, Catalog!QuietCatalogIsCurrent

\* The answer, with the document that is current then.
LEMMA AnswerKeeps ==
  ASSUME CatalogInv, NEW h \in Handlers, Catalog!Answer(h), catalog' = job[h].doc,
         job[h].step \in {"compare", "add"}
  PROVE  CatalogInv'
<1> DEFINE j == job[h]
<1>1. /\ revoked' = IF j.op = "revoke" THEN revoked \cup {[key |-> j.key, solo |-> j.solo]} ELSE revoked
      /\ clean' = j.solo /\ job' = [job EXCEPT ![h] = Catalog!NoJob]
      /\ UNCHANGED <<tenant, keys, agents, fleet, requests, failed>>
  BY DEF Catalog!Answer, Catalog!EndJob, Catalog!tables
<1>2. /\ j \in Catalog!Jobs /\ JobHolds(j) /\ SoloHolds(h)
      /\ \A r \in revoked : r.solo => \A entry \in j.doc.keys : entry[1] # r.key
  BY JobIs
<1>3. /\ job \in [Handlers -> Catalog!Jobs] /\ job'[h] = Catalog!NoJob
      /\ \A g \in Handlers : g # h => job'[g] = job[g]
  BY <1>1 DEF CatalogInv, Catalog!TypeOK
<1>4. Catalog!TypeOK'
  <2>1. job' \in [Handlers -> Catalog!Jobs] /\ catalog' \in Catalog!Docs /\ clean' \in BOOLEAN
    BY <1>1, <1>2, <1>3, NoJobHolds DEF Catalog!Jobs
  <2>2. revoked' \subseteq [key : Keys, solo : BOOLEAN]
    BY <1>1, <1>2 DEF CatalogInv, Catalog!TypeOK, JobHolds, Catalog!Jobs
  <2> QED BY <1>1, <2>1, <2>2 DEF CatalogInv, Catalog!TypeOK
<1>5. JobsHold'
  <2> SUFFICES ASSUME NEW g \in Handlers
               PROVE  JobHolds(job'[g])
    BY DEF JobsHold, JobHolds
  <2> QED BY <1>3, JobIs, NoJobHolds
<1>6. SolosHold'
  <2> SUFFICES ASSUME NEW g \in Handlers, job'[g].solo
               PROVE  SoloHolds(g)'
    BY DEF SolosHold, SoloHolds
  <2>1. g # h /\ job'[g] = job[g] /\ SoloHolds(g)
    BY <1>3, NoJobHolds, JobIs
  <2>2. job[h] = Catalog!NoJob
    BY <2>1 DEF SoloHolds
  <2> QED BY <2>2, NoJobHolds
<1>7. KeysWhole'
  BY <1>1 DEF CatalogInv, KeysWhole
<1>8. Quiet' /\ Catalog!QuietCatalogIsCurrent'
  <2> SUFFICES ASSUME j.solo
               PROVE  Quiet' /\ Catalog!QuietCatalogIsCurrent'
    BY <1>1 DEF Quiet, Catalog!QuietCatalogIsCurrent
  <2>1. Quiet'
    BY <1>2, <1>3 DEF Quiet, SoloHolds
  <2>2. DocSoFar(j)
    BY <1>2 DEF SoloHolds
  <2> QED BY <1>1, <2>1, <2>2 DEF DocSoFar, Catalog!QuietCatalogIsCurrent, Catalog!OldGatewayLive
<1>9. RevokedKept'
  <2> SUFFICES ASSUME NEW r \in revoked', r.solo
               PROVE  /\ keys[r.key].limit # "none" /\ ~keys[r.key].active
                      /\ \A entry \in j.doc.keys : entry[1] # r.key
                      /\ \A g \in Handlers : /\ job'[g].key = r.key => ~job'[g].row.active
                                             /\ \A entry \in job'[g].doc.keys : entry[1] # r.key
    BY <1>1 DEF RevokedKept
  <2>1. CASE r \in revoked
    <3>1. keys[r.key].limit # "none" /\ ~keys[r.key].active
      BY <2>1 DEF CatalogInv, RevokedKept
    <3>2. \A g \in Handlers : /\ job'[g].key = r.key => ~job'[g].row.active
                              /\ \A entry \in job'[g].doc.keys : entry[1] # r.key
      BY <1>3, <2>1, JobIs, NoJobHolds
    <3> QED BY <1>2, <2>1, <3>1, <3>2
  <2>2. CASE r \notin revoked
    <3>1. r.key = j.key /\ j.solo /\ j.op = "revoke" /\ j.key \in Keys
      BY <1>1, <1>2, <2>2 DEF JobHolds
    <3>2. keys[r.key].limit # "none" /\ ~keys[r.key].active
      BY <1>2, <3>1 DEF SoloHolds
    <3>3. \A entry \in j.doc.keys : entry[1] # r.key
      BY <1>2, <3>1, <3>2 DEF SoloHolds, DocSoFar
    <3>4. \A g \in Handlers : job'[g] = Catalog!NoJob
      BY <1>2, <1>3, <3>1 DEF SoloHolds
    <3> QED BY <3>2, <3>3, <3>4, NoJobHolds
  <2> QED BY <2>1, <2>2
<1> QED BY <1>4, <1>5, <1>6, <1>7, <1>8, <1>9 DEF CatalogInv

LEMMA AnswersKeep ==
  ASSUME CatalogInv, NEW h \in Handlers, Catalog!Unchanged(h) \/ Catalog!AddCatalog(h)
  PROVE  CatalogInv'
BY AnswerKeeps DEF Catalog!Unchanged, Catalog!AddCatalog, Catalog!SameAsCurrent

LEMMA LostKeeps ==
  ASSUME CatalogInv, Catalog!GatewayLost
  PROVE  CatalogInv'
<1>1. /\ fleet' = [fleet EXCEPT !.live = FALSE]
      /\ UNCHANGED <<tenant, keys, agents, catalog, job, revoked, clean, requests, failed>>
  BY DEF Catalog!GatewayLost
<1>2. fleet' \in [reads : {"old", "new"}, live : BOOLEAN] /\ ~Catalog!OldGatewayLive'
  BY <1>1 DEF CatalogInv, Catalog!TypeOK, Catalog!OldGatewayLive
<1>3. Catalog!TypeOK'
  BY <1>1, <1>2 DEF CatalogInv, Catalog!TypeOK
<1>4. SolosHold'
  <2> SUFFICES ASSUME NEW g \in Handlers
               PROVE  SoloHolds(g)'
    BY DEF SolosHold, SoloHolds
  <2> QED BY <1>1, <1>2, JobIs DEF SoloHolds, DocSoFar
<1> QED BY <1>1, <1>2, <1>3, <1>4
        DEF CatalogInv, JobsHold, JobHolds, KeysWhole, Quiet, RevokedKept, Catalog!QuietCatalogIsCurrent

-----------------------------------------------------------------------------
LEMMA CatalogInitHolds == Catalog!CatalogAssumption /\ Catalog!Init => CatalogInv
<1> SUFFICES ASSUME Catalog!CatalogAssumption, Catalog!Init
             PROVE  CatalogInv
  OBVIOUS
<1>1. Catalog!TypeOK
  <2>1. tenant \in Catalog!TenantRows /\ fleet \in [reads : {"old", "new"}, live : BOOLEAN]
    BY DEF Catalog!Init, Catalog!TenantRows
  <2>2. Catalog!NoKey \in Catalog!KeyRows /\ Catalog!NoDoc \in Catalog!Docs
    BY DEF Catalog!NoKey, Catalog!KeyRows, Catalog!NoDoc, Catalog!Docs
  <2>3. keys \in [Keys -> Catalog!KeyRows] /\ job \in [Handlers -> Catalog!Jobs] /\ catalog \in Catalog!Docs
    BY <2>2, NoJobHolds DEF Catalog!Init
  <2>4. requests \in 0..MaxRequests /\ failed \in 0..CatalogFailures
    BY DEF Catalog!CatalogAssumption, Catalog!Init
  <2> QED BY <2>1, <2>3, <2>4 DEF Catalog!Init, Catalog!TypeOK
<1> QED BY <1>1, NoJobHolds DEF Catalog!Init, CatalogInv, JobsHold, SolosHold, SoloHolds, KeysWhole, Quiet,
                                RevokedKept, Catalog!QuietCatalogIsCurrent

LEMMA CatalogNextKeeps == Catalog!CatalogAssumption /\ CatalogInv /\ [Catalog!Next]_(Catalog!vars) => CatalogInv'
<1> SUFFICES ASSUME Catalog!CatalogAssumption, CatalogInv, [Catalog!Next]_(Catalog!vars)
             PROVE  CatalogInv'
  OBVIOUS
<1>0. MaxRequests \in Nat /\ CatalogFailures \in Nat
  BY DEF Catalog!CatalogAssumption
<1>1. CASE UNCHANGED Catalog!vars
  BY <1>1 DEF Catalog!vars, CatalogInv, Catalog!TypeOK, JobsHold, JobHolds, SolosHold, SoloHolds, DocSoFar, KeysWhole,
              Quiet, RevokedKept, Catalog!QuietCatalogIsCurrent, Catalog!OldGatewayLive
<1>2. CASE Catalog!Next
  BY <1>0, <1>2, KeyRequestsKeep, OtherRequestsKeep, CheckKeeps, PutKeeps, ReadsKeep,
     AnswersKeep, CompareKeeps, FailKeeps, LostKeeps DEF Catalog!Next
<1> QED BY <1>1, <1>2

LEMMA CatalogIsEnough == CatalogInv => Catalog!CatalogIsCurrent
BY DEF CatalogInv, Catalog!CatalogIsCurrent, RevokedKept, Catalog!RevokedAloneStaysRevoked

\* catalog.py:3-4, 255-339: for any requests, keys and agents, whichever requests race and fail,
\* the current catalog is what the tables say after a request that nothing overlapped, and a key
\* whose revocation ran alone is never in it again.
THEOREM CatalogHolds == Catalog!CatalogAssumption /\ Catalog!Spec => []Catalog!CatalogIsCurrent
<1>1. CatalogInv => Catalog!CatalogIsCurrent
  BY CatalogIsEnough
<1> SUFFICES ASSUME Catalog!CatalogAssumption
             PROVE  Catalog!Spec => []Catalog!CatalogIsCurrent
  OBVIOUS
<1>2. Catalog!Init => CatalogInv
  BY CatalogInitHolds
<1>3. CatalogInv /\ [Catalog!Next]_(Catalog!vars) => CatalogInv'
  BY CatalogNextKeeps
<1> QED BY <1>1, <1>2, <1>3, PTL DEF Catalog!Spec

HIDE DEF tenant, keys, agents, fleet, catalog, job, revoked, clean, requests, failed

-----------------------------------------------------------------------------
(* RedactionProjects: the projects that the redaction service caches.      *)
row == v1
editors == v2
listening == v3
channel == v4
missed == v5
entry == v6
fetches == v7
since == v8
USE DEF row, editors, listening, channel, missed, entry, fetches, since


\* Only what was replaced ages.
CurrentIsNew == \A v \in Projects!Versions : v >= row.version => since[v] = 0

\* What a fetch brought, or the cache has, is as old as the time it has left allows.
FetchHolds(r) ==
  fetches[r].pc = "back" =>
    fetches[r].version \in Projects!Versions /\ since[fetches[r].version] + fetches[r].left <= FetchTime
ProjectFetchesHold == \A r \in Redactions : FetchHolds(r)

CacheHolds == Projects!Hit => entry.version \in Projects!Versions /\ since[entry.version] + entry.left <= Ttl + FetchTime

ProjectInv == Projects!TypeOK /\ CurrentIsNew /\ ProjectFetchesHold /\ CacheHolds

-----------------------------------------------------------------------------
Rows == [entities : BOOLEAN, custom : BOOLEAN, version : Projects!Versions, deleted : BOOLEAN]
Edit == [pc : {"idle", "write", "publish"}, change : Projects!Changes \cup {"none"}]
ProjectFetch == [pc : {"idle", "sent", "back"}, version : Projects!Versions \cup {0}, left : 0..FetchTime]
Entry == [version : Projects!Versions \cup {0}, left : 0..Ttl]

LEMMA ProjectNumbers ==
  ASSUME Projects!BoundsAssumption
  PROVE  /\ Ttl \in Nat /\ FetchTime \in Nat /\ MaxVersions \in Nat
         /\ Ttl > 0 /\ FetchTime > 0 /\ MaxVersions > 0
         /\ Projects!Versions \subseteq Nat /\ 1 \in Projects!Versions /\ 0 \notin Projects!Versions
<1>1. /\ Ttl \in Nat /\ FetchTime \in Nat /\ MaxVersions \in Nat
      /\ Ttl > 0 /\ FetchTime > 0 /\ MaxVersions > 0
  BY DEF Projects!BoundsAssumption
<1> QED BY <1>1 DEF Projects!Versions

LEMMA ProjectStateIs ==
  ASSUME Projects!BoundsAssumption, ProjectInv
  PROVE  /\ row \in Rows /\ editors \in [Editors -> Edit] /\ entry \in Entry
         /\ fetches \in [Redactions -> ProjectFetch] /\ since \in [Projects!Versions -> 0..Ttl + FetchTime + 1]
         /\ row.version \in Nat /\ entry.left \in Nat /\ entry.left <= Ttl
         /\ \A v \in Projects!Versions : since[v] \in Nat
         /\ \A r \in Redactions : fetches[r] \in ProjectFetch /\ fetches[r].left \in Nat /\ fetches[r].left <= FetchTime
<1>1. /\ row \in Rows /\ editors \in [Editors -> Edit] /\ entry \in Entry
      /\ fetches \in [Redactions -> ProjectFetch] /\ since \in [Projects!Versions -> 0..Ttl + FetchTime + 1]
  BY DEF ProjectInv, Projects!TypeOK, Rows, Edit, ProjectFetch, Entry
<1>2. row.version \in Nat
  BY <1>1, ProjectNumbers DEF Rows
<1>3. entry.left \in Nat /\ entry.left <= Ttl
  BY <1>1, ProjectNumbers DEF Entry
<1>4. \A r \in Redactions : fetches[r] \in ProjectFetch /\ fetches[r].left \in Nat /\ fetches[r].left <= FetchTime
  BY <1>1, ProjectNumbers DEF ProjectFetch
<1> QED BY <1>1, <1>2, <1>3, <1>4, ProjectNumbers

LEMMA NothingIs ==
  ASSUME Projects!BoundsAssumption
  PROVE  /\ Projects!NoEntry \in Entry /\ Projects!NoEntry.version = 0 /\ Projects!NoFetch \in ProjectFetch /\ Projects!NoFetch.pc = "idle"
         /\ Projects!NotEditing \in Edit
BY ProjectNumbers DEF Projects!NoEntry, Entry, Projects!NoFetch, ProjectFetch, Projects!NotEditing, Edit

-----------------------------------------------------------------------------
(* project-service and the listener *)

LEMMA EditKeeps ==
  ASSUME Projects!BoundsAssumption, ProjectInv, NEW e \in Editors, Projects!ReadProject(e) \/ Projects!Publish(e)
  PROVE  ProjectInv'
<1>1. UNCHANGED <<row, listening, entry, fetches, since>>
  BY DEF Projects!ReadProject, Projects!Publish
<1>2. /\ \E d \in Edit : editors' = [editors EXCEPT ![e] = d]
      /\ channel' \in Nat /\ missed' \in BOOLEAN
  <2>1. CASE Projects!ReadProject(e)
    <3>1. PICK change \in Projects!Changes : editors' = [editors EXCEPT ![e] = [pc |-> "write", change |-> change]]
      BY <2>1 DEF Projects!ReadProject
    <3>2. [pc |-> "write", change |-> change] \in Edit
      BY DEF Edit
    <3> QED BY <2>1, <3>1, <3>2 DEF Projects!ReadProject, ProjectInv, Projects!TypeOK
  <2>2. CASE Projects!Publish(e)
    <3>1. editors' = [editors EXCEPT ![e] = Projects!NotEditing]
      BY <2>2 DEF Projects!Publish
    <3>2. channel' \in {channel, channel + 1} /\ missed' \in {missed, TRUE}
      BY <2>2 DEF Projects!Publish
    <3>3. channel' \in Nat
      <4>1. channel \in Nat
        BY DEF ProjectInv, Projects!TypeOK
      <4> QED BY <3>2, <4>1
    <3>4. missed' \in BOOLEAN
      <4>1. missed \in BOOLEAN
        BY DEF ProjectInv, Projects!TypeOK
      <4> QED BY <3>2, <4>1, Zenon
    <3> QED BY <3>1, <3>3, <3>4, NothingIs
  <2> QED BY <2>1, <2>2
<1>3. editors' \in [Editors -> Edit]
  BY <1>2, ProjectStateIs
<1> QED BY <1>1, <1>2, <1>3
        DEF ProjectInv, Projects!TypeOK, Edit, CurrentIsNew, ProjectFetchesHold, FetchHolds, CacheHolds, Projects!Hit

LEMMA CommitKeeps ==
  ASSUME Projects!BoundsAssumption, ProjectInv, NEW e \in Editors, Projects!Commit(e)
  PROVE  ProjectInv'
<1>1. /\ row.version <= MaxVersions
      /\ UNCHANGED <<listening, channel, missed, entry, fetches, since>>
  BY DEF Projects!Commit
<1>2. editors' \in [Editors -> Edit]
  <2>1. [pc |-> "publish", change |-> "none"] \in Edit
    BY DEF Edit
  <2> QED BY <2>1, NothingIs, ProjectStateIs DEF Projects!Commit
<1>3. row' \in Rows /\ row.version <= row'.version
  <2>1. CASE row.deleted
    BY <2>1, ProjectStateIs DEF Projects!Commit
  <2>2. CASE ~row.deleted
    <3> DEFINE left == Projects!Merged(row, editors[e].change)
    <3>1. row' = [entities |-> left.entities, custom |-> left.custom,
                  version |-> row.version + 1, deleted |-> editors[e].change = "delete"]
      BY <2>2 DEF Projects!Commit
    <3>2. left.entities \in BOOLEAN /\ left.custom \in BOOLEAN
      BY ProjectStateIs DEF Projects!Merged, Rows
    <3>3. row.version + 1 \in Projects!Versions
      BY <1>1, ProjectStateIs, ProjectNumbers DEF Projects!Versions
    <3> HIDE DEF left
    <3> QED BY <3>1, <3>2, <3>3, ProjectStateIs DEF Rows
  <2> QED BY <2>1, <2>2
<1>4. CurrentIsNew'
  BY <1>1, <1>3, ProjectStateIs, ProjectNumbers DEF ProjectInv, CurrentIsNew, Rows
<1> QED BY <1>1, <1>2, <1>3, <1>4
        DEF ProjectInv, Projects!TypeOK, Edit, Rows, ProjectFetchesHold, FetchHolds, CacheHolds, Projects!Hit

LEMMA ListenerKeeps ==
  ASSUME Projects!BoundsAssumption, ProjectInv, Projects!Handle \/ Projects!ListenerFails \/ Projects!Resubscribe
  PROVE  ProjectInv'
<1>1. /\ UNCHANGED <<row, editors, fetches, since>>
      /\ entry' \in {entry, Projects!NoEntry} /\ listening' \in BOOLEAN /\ missed' \in BOOLEAN
  BY DEF Projects!Handle, Projects!ListenerFails, Projects!Resubscribe, ProjectInv, Projects!TypeOK
<1>2. channel' \in Nat
  BY DEF Projects!Handle, Projects!ListenerFails, Projects!Resubscribe, ProjectInv, Projects!TypeOK
<1>3. entry' \in Entry /\ (Projects!Hit' => entry' = entry)
  BY <1>1, NothingIs, ProjectStateIs DEF Projects!Hit
<1> QED BY <1>1, <1>2, <1>3
        DEF ProjectInv, Projects!TypeOK, Entry, CurrentIsNew, ProjectFetchesHold, FetchHolds, CacheHolds, Projects!Hit

-----------------------------------------------------------------------------
(* The redaction service *)

\* A lookup or a fetch goes on, and what it brought is as it has to be.
LEMMA FetchMoves ==
  ASSUME Projects!BoundsAssumption, ProjectInv, NEW r \in Redactions, NEW f \in ProjectFetch,
         fetches' = [fetches EXCEPT ![r] = f],
         UNCHANGED <<row, editors, listening, channel, missed, since>>,
         f.pc = "back" => f.version \in Projects!Versions /\ since[f.version] + f.left <= FetchTime,
         entry' \in Entry, CacheHolds'
  PROVE  ProjectInv'
<1>1. /\ fetches' \in [Redactions -> ProjectFetch] /\ fetches'[r] = f
      /\ \A q \in Redactions : q # r => fetches'[q] = fetches[q]
  BY ProjectStateIs
<1>2. ProjectFetchesHold'
  BY <1>1 DEF ProjectInv, ProjectFetchesHold, FetchHolds
<1> QED BY <1>1, <1>2 DEF ProjectInv, Projects!TypeOK, Entry, ProjectFetch, CurrentIsNew

LEMMA ProjectLookupKeeps ==
  ASSUME Projects!BoundsAssumption, ProjectInv, NEW r \in Redactions, Projects!Lookup(r)
  PROVE  ProjectInv'
<1>1. UNCHANGED <<row, editors, listening, channel, missed, since, entry>>
  BY DEF Projects!Lookup, Projects!AfterHit
<1>2. CacheHolds' /\ entry' \in Entry
  BY <1>1, ProjectStateIs DEF ProjectInv, CacheHolds, Projects!Hit
<1>3. CASE UNCHANGED fetches
  BY <1>1, <1>2, <1>3 DEF ProjectInv, Projects!TypeOK, CurrentIsNew, ProjectFetchesHold, FetchHolds
<1>4. CASE ~UNCHANGED fetches
  <2> DEFINE f == [pc |-> "sent", version |-> 0, left |-> FetchTime]
  <2>1. fetches' = [fetches EXCEPT ![r] = f]
    BY <1>4 DEF Projects!Lookup
  <2>2. f \in ProjectFetch /\ f.pc = "sent"
    BY ProjectNumbers DEF ProjectFetch
  <2> HIDE DEF f
  <2> QED BY <1>1, <1>2, <2>1, <2>2, FetchMoves
<1> QED BY <1>3, <1>4

LEMMA ServedKeeps ==
  ASSUME Projects!BoundsAssumption, ProjectInv, NEW r \in Redactions, Projects!Served(r)
  PROVE  ProjectInv'
<1> DEFINE f == IF row.deleted THEN Projects!NoFetch
                ELSE [fetches[r] EXCEPT !.pc = "back", !.version = row.version]
<1>1. /\ fetches' = [fetches EXCEPT ![r] = f]
      /\ UNCHANGED <<row, editors, listening, channel, missed, entry, since>>
  BY ProjectStateIs DEF Projects!Served
<1>2. row.version \in Projects!Versions /\ since[row.version] = 0
  BY ProjectStateIs DEF ProjectInv, CurrentIsNew, Rows
<1>3. f \in ProjectFetch /\ (f.pc = "back" => f.version = row.version /\ f.left = fetches[r].left)
  BY <1>2, ProjectStateIs, NothingIs DEF ProjectFetch
<1> HIDE DEF f
<1>4. f.pc = "back" => f.version \in Projects!Versions /\ since[f.version] + f.left <= FetchTime
  BY <1>2, <1>3, ProjectStateIs, ProjectNumbers
<1>5. CacheHolds' /\ entry' \in Entry
  BY <1>1, ProjectStateIs DEF ProjectInv, CacheHolds, Projects!Hit
<1> QED BY <1>1, <1>3, <1>4, <1>5, FetchMoves

LEMMA StoreKeeps ==
  ASSUME Projects!BoundsAssumption, ProjectInv, NEW r \in Redactions, Projects!Store(r)
  PROVE  ProjectInv'
<1>1. /\ fetches[r].pc = "back" /\ fetches' = [fetches EXCEPT ![r] = Projects!NoFetch]
      /\ entry' = [version |-> fetches[r].version, left |-> Ttl]
      /\ UNCHANGED <<row, editors, listening, channel, missed, since>>
  BY DEF Projects!Store, Projects!Lifetime
<1>2. fetches[r].version \in Projects!Versions /\ since[fetches[r].version] + fetches[r].left <= FetchTime
  BY <1>1 DEF ProjectInv, ProjectFetchesHold, FetchHolds
<1>3. entry' \in Entry
  BY <1>1, <1>2, ProjectNumbers DEF Entry
<1>4. CacheHolds'
  BY <1>1, <1>2, ProjectStateIs, ProjectNumbers DEF CacheHolds
<1> QED BY <1>1, <1>3, <1>4, NothingIs, FetchMoves

LEMMA ProjectFetchFailsKeeps ==
  ASSUME Projects!BoundsAssumption, ProjectInv, NEW r \in Redactions, Projects!FetchFails(r)
  PROVE  ProjectInv'
<1>1. CacheHolds' /\ entry' \in Entry
  BY ProjectStateIs DEF Projects!FetchFails, ProjectInv, CacheHolds, Projects!Hit
<1> QED BY <1>1, NothingIs, FetchMoves DEF Projects!FetchFails

LEMMA ProjectTickKeeps ==
  ASSUME Projects!BoundsAssumption, ProjectInv, Projects!Tick
  PROVE  ProjectInv'
<1>1. /\ \A r \in Redactions : fetches[r].pc # "idle" => fetches[r].left > 0
      /\ entry' = [entry EXCEPT !.left = Projects!Less(entry.left)]
      /\ fetches' = [r \in Redactions |-> [fetches[r] EXCEPT !.left = Projects!Less(fetches[r].left)]]
      /\ since' = [v \in Projects!Versions |-> IF v < row.version /\ since[v] <= Ttl + FetchTime
                                      THEN since[v] + 1 ELSE since[v]]
      /\ UNCHANGED <<row, editors, listening, channel, missed>>
  BY DEF Projects!Tick
<1>2. \A n \in Nat : Projects!Less(n) \in Nat /\ Projects!Less(n) <= n /\ (n > 0 => Projects!Less(n) + 1 = n)
  BY DEF Projects!Less
<1>3. ASSUME NEW v \in Projects!Versions
      PROVE  /\ since'[v] \in 0..Ttl + FetchTime + 1
             /\ since'[v] <= since[v] + 1 /\ (v >= row.version => since'[v] = since[v])
  BY <1>1, ProjectStateIs, ProjectNumbers
<1>4. /\ entry' \in Entry /\ entry'.version = entry.version /\ entry'.left = Projects!Less(entry.left)
  BY <1>1, <1>2, ProjectStateIs, ProjectNumbers DEF Entry
<1>5. ASSUME NEW r \in Redactions
      PROVE  /\ fetches'[r] \in ProjectFetch /\ fetches'[r].pc = fetches[r].pc
             /\ fetches'[r].version = fetches[r].version /\ fetches'[r].left = Projects!Less(fetches[r].left)
  <2>1. fetches'[r] = [fetches[r] EXCEPT !.left = Projects!Less(fetches[r].left)]
    BY <1>1
  <2>2. Projects!Less(fetches[r].left) \in 0..FetchTime
    BY <1>2, ProjectStateIs, ProjectNumbers
  <2> QED BY <2>1, <2>2, ProjectStateIs DEF ProjectFetch
<1>6. Projects!TypeOK'
  <2>1. fetches' \in [Redactions -> ProjectFetch] /\ since' \in [Projects!Versions -> 0..Ttl + FetchTime + 1]
    BY <1>1, <1>3, <1>5
  <2> QED BY <1>1, <1>4, <2>1 DEF ProjectInv, Projects!TypeOK, Entry, ProjectFetch
<1>7. CurrentIsNew'
  BY <1>1, <1>3 DEF ProjectInv, CurrentIsNew
<1>8. ProjectFetchesHold'
  <2> SUFFICES ASSUME NEW r \in Redactions, fetches'[r].pc = "back"
               PROVE  /\ fetches'[r].version \in Projects!Versions
                      /\ since'[fetches'[r].version] + fetches'[r].left <= FetchTime
    BY DEF ProjectFetchesHold, FetchHolds
  <2> DEFINE v == fetches[r].version
  <2>1. v \in Projects!Versions /\ since[v] + fetches[r].left <= FetchTime /\ fetches[r].left > 0
    BY <1>1, <1>5 DEF ProjectInv, ProjectFetchesHold, FetchHolds
  <2>2. since'[v] \in Nat /\ since'[v] <= since[v] + 1
    BY <1>3, <2>1, ProjectNumbers
  <2>3. Projects!Less(fetches[r].left) \in Nat /\ Projects!Less(fetches[r].left) + 1 = fetches[r].left
    BY <1>2, <2>1, ProjectStateIs
  <2>4. fetches'[r].version = v /\ fetches'[r].left = Projects!Less(fetches[r].left)
    BY <1>5
  <2> HIDE DEF v
  <2> QED BY <2>1, <2>2, <2>3, <2>4, ProjectStateIs, ProjectNumbers
<1>9. CacheHolds'
  <2> SUFFICES ASSUME Projects!Hit'
               PROVE  entry.version \in Projects!Versions /\ since'[entry.version] + Projects!Less(entry.left) <= Ttl + FetchTime
    BY <1>4 DEF CacheHolds
  <2>1. Projects!Hit /\ entry.left > 0
    BY <1>2, <1>4, ProjectStateIs DEF Projects!Hit
  <2>2. entry.version \in Projects!Versions /\ since[entry.version] + entry.left <= Ttl + FetchTime
    BY <2>1 DEF ProjectInv, CacheHolds
  <2>3. since'[entry.version] \in Nat /\ since'[entry.version] <= since[entry.version] + 1
    BY <1>3, <2>2, ProjectNumbers
  <2>4. Projects!Less(entry.left) \in Nat /\ Projects!Less(entry.left) + 1 = entry.left
    BY <1>2, <2>1, ProjectStateIs
  <2> QED BY <2>2, <2>3, <2>4, ProjectStateIs, ProjectNumbers
<1> QED BY <1>6, <1>7, <1>8, <1>9 DEF ProjectInv

-----------------------------------------------------------------------------
LEMMA ProjectInitHolds == Projects!BoundsAssumption /\ Projects!Init => ProjectInv
<1> SUFFICES ASSUME Projects!BoundsAssumption, Projects!Init
             PROVE  ProjectInv
  OBVIOUS
<1>1. Projects!TypeOK
  <2>1. row \in Rows
    BY ProjectNumbers DEF Projects!Init, Rows
  <2>2. since \in [Projects!Versions -> 0..Ttl + FetchTime + 1]
    BY ProjectNumbers DEF Projects!Init
  <2> QED BY <2>1, <2>2, NothingIs DEF Projects!Init, Projects!TypeOK, Rows, Edit, ProjectFetch, Entry
<1> QED BY <1>1, NothingIs DEF Projects!Init, ProjectInv, CurrentIsNew, ProjectFetchesHold, FetchHolds, CacheHolds, Projects!Hit

LEMMA ProjectNextKeeps == Projects!BoundsAssumption /\ ProjectInv /\ [Projects!Next]_(Projects!vars) => ProjectInv'
<1> SUFFICES ASSUME Projects!BoundsAssumption, ProjectInv, [Projects!Next]_(Projects!vars)
             PROVE  ProjectInv'
  OBVIOUS
<1>1. CASE UNCHANGED Projects!vars
  BY <1>1 DEF Projects!vars, ProjectInv, Projects!TypeOK, CurrentIsNew, ProjectFetchesHold, FetchHolds, CacheHolds, Projects!Hit
<1>2. CASE Projects!Next
  BY <1>2, EditKeeps, CommitKeeps, ListenerKeeps, ProjectLookupKeeps, ServedKeeps, StoreKeeps,
     ProjectFetchFailsKeeps, ProjectTickKeeps DEF Projects!Next
<1> QED BY <1>1, <1>2

LEMMA ProjectIsEnough == Projects!BoundsAssumption /\ ProjectInv => Projects!ProjectIsRecent
<1> SUFFICES ASSUME Projects!BoundsAssumption, ProjectInv
             PROVE  Projects!UsedIsRecent
  BY DEF ProjectInv, Projects!ProjectIsRecent
<1>1. Projects!Hit => since[entry.version] < Ttl + FetchTime
  BY ProjectStateIs, ProjectNumbers DEF ProjectInv, CacheHolds, Projects!Hit
<1>2. ASSUME NEW r \in Redactions, fetches[r].pc = "back"
      PROVE  since[fetches[r].version] <= FetchTime
  BY <1>2, ProjectStateIs, ProjectNumbers DEF ProjectInv, ProjectFetchesHold, FetchHolds
<1> QED BY <1>1, <1>2 DEF Projects!UsedIsRecent

\* project_client.py:31-39: for any editors, requests and times, whatever announcements are lost and
\* however late answers come: no request is redacted under a project that was replaced longer ago
\* than the time to live and one timeout.
THEOREM ProjectsHold == Projects!BoundsAssumption /\ Projects!Spec => []Projects!ProjectIsRecent
<1> SUFFICES ASSUME Projects!BoundsAssumption
             PROVE  Projects!Spec => []Projects!ProjectIsRecent
  OBVIOUS
<1>1. Projects!Init => ProjectInv
  BY ProjectInitHolds
<1>2. ProjectInv /\ [Projects!Next]_(Projects!vars) => ProjectInv'
  BY ProjectNextKeeps
<1>3. ProjectInv => Projects!ProjectIsRecent
  BY ProjectIsEnough
<1> QED BY <1>1, <1>2, <1>3, PTL DEF Projects!Spec

HIDE DEF row, editors, listening, channel, missed, entry, fetches, since

-----------------------------------------------------------------------------
(* What holds of a component holds of the services' parts.                 *)

\* catalog.py:3-4, 255-339: the catalog says what the tables say after a request that ran alone, and
\* a revoked key does not come back, when the catalog is the part that runs.
THEOREM CatalogInServices == ServicesSpec => []CatalogIsCurrent
<1> DEFINE I == part = "catalog" => CatalogInv
<1>1. ServicesInit => I
  BY PartsAssumption, CatalogInitHolds DEF ServicesInit
<1>2. I /\ [ServicesNext]_all => I'
  <2> SUFFICES ASSUME I, [ServicesNext]_all, part' = "catalog"
               PROVE  CatalogInv'
    OBVIOUS
  <2>1. part = "catalog"
    BY DEF ServicesNext, all
  <2>2. [Catalog!Next]_(Catalog!vars)
    BY <2>1 DEF ServicesNext, all, Catalog!vars
  <2> QED BY <2>1, <2>2, PartsAssumption, CatalogNextKeeps
<1>3. I => CatalogIsCurrent
  BY CatalogIsEnough DEF CatalogIsCurrent
<1> QED BY <1>1, <1>2, <1>3, PTL DEF ServicesSpec

\* project_client.py:31-39: no request is redacted under a project that was replaced too long ago,
\* when the project cache is the part that runs.
THEOREM ProjectsInServices == ServicesSpec => []ProjectIsRecent
<1> DEFINE I == part = "projects" => ProjectInv
<1>1. ServicesInit => I
  BY PartsAssumption, ProjectInitHolds DEF ServicesInit
<1>2. I /\ [ServicesNext]_all => I'
  <2> SUFFICES ASSUME I, [ServicesNext]_all, part' = "projects"
               PROVE  ProjectInv'
    OBVIOUS
  <2>1. part = "projects"
    BY DEF ServicesNext, all
  <2>2. [Projects!Next]_(Projects!vars)
    BY <2>1 DEF ServicesNext, all, Projects!vars
  <2> QED BY <2>1, <2>2, PartsAssumption, ProjectNextKeeps
<1>3. I => ProjectIsRecent
  BY PartsAssumption, ProjectIsEnough DEF ProjectIsRecent
<1> QED BY <1>1, <1>2, <1>3, PTL DEF ServicesSpec
=============================================================================
