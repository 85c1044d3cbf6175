--------------------------- MODULE InventoryProofs ---------------------------
(***************************************************************************)
(* What the inventory guarantees: the reconciles and runs of Discovery by  *)
(* itself, and in the composition the runs of its connectors, what becomes *)
(* of a program and of a machine.                                          *)
(***************************************************************************)
EXTENDS MCInventory, Discovery, FiniteSetTheorems, SequenceTheorems, WellFoundedInduction, TLAPS

-----------------------------------------------------------------------------
(* Discovery: what reconciles leave and what runs remove, for any runs,    *)
(* definitions, changes, decisions and faults.                             *)
Said == Hashes \cup {"direct", "gateway", Nothing}

\* A tool and an agent share no key, and what the registry adds has the agent's.
EntityIs(i, e) ==
  e # Absent => /\ e.keys # {}
                /\ i = "tool" => e.keys = {"mcp#tool"}
                /\ i # "tool" => "mcp#tool" \notin e.keys
                /\ i = "entry" => "agent" \in e.keys
EntitiesAre(es) == es \in [Ids -> Entities] /\ \A i \in Ids : EntityIs(i, es[i])

\* Only the tool's definition changes.
Whole == {f \in Findings : IF f.kind \in AutoFindings THEN f.new = Nothing ELSE f.of = "tool"}

RunStates ==
  [at : {"idle", "claimed", "collected", "resolved", "saved", "synced", "applied"}, claimed : BOOLEAN,
   saw : Said, clean : BOOLEAN, mem : [Ids -> Entities], seen : Seq(Whole), reg : BOOLEAN]
Locks(x) == x.at \in {"resolved", "saved", "synced"}

\* A working set has what its run saw.
RunIs(x) ==
  /\ EntitiesAre(x.mem) /\ (x.at \notin {"resolved", "synced"} => x.mem = NoEntities)
  /\ x.at = "resolved" => IF x.saw = Nothing THEN x.mem = NoEntities ELSE \E i \in Ids : x.mem[i].said # Nothing
RunsHold == \A r \in Runs : RunIs(runs[r]) /\ (Locks(runs[r]) <=> lock = r)

DeskStates == [at : {"none", "load", "pin", "record"}, n : Nat, to : {"open", "accepted", "resolved"},
               row : Whole, ent : Entities]
DeskHolds ==
  /\ desk.at \in {"load", "pin"} => desk.row.of = "tool"
  /\ desk.at = "pin" => desk.ent # Absent /\ EntityIs("tool", desk.ent)

TypesHold ==
  /\ source \in [subject : {"tool", "workload"}, said : Said]
  /\ source.said \in Says(source.subject) /\ registered \in BOOLEAN /\ faults \in Nat
  /\ EntitiesAre(entities) /\ findings \in Seq(Whole)
  /\ lease \in Runs \cup {Free} /\ lock \in Runs \cup {Free}
  /\ runs \in [Runs -> RunStates] /\ desk \in DeskStates

\* An agent has one entity, registered or not.
OneEntity(es, reg) ==
  /\ es["work"].keys \cap es["entry"].keys = {}
  /\ reg => Carriers(es, {"agent"}) # {}

\* A reconcile under way that nothing crossed has read what is there.
SyncedHolds ==
  settled /\ lock # Free =>
    /\ runs[lock].at = "synced"
    /\ runs[lock].mem = entities /\ runs[lock].seen = findings /\ runs[lock].reg = registered
    /\ OneEntity(entities, registered)

InventoryInv == TypesHold /\ RunsHold /\ DeskHolds /\ SyncedHolds /\ ReconciledIsRight

-----------------------------------------------------------------------------
LEMMA Constants ==
  /\ Free \notin Runs /\ Hashes # {}
  /\ MaxChanges \in Nat /\ MaxDecisions \in Nat /\ MaxFaults \in Nat
  /\ Absent \in Entities /\ \A i \in Ids : EntityIs(i, Absent)
  /\ NoEntities \in [Ids -> Entities] /\ EntitiesAre(NoEntities)
<1>1. Absent \in Entities
  BY DEF Absent, Entities
<1> QED BY <1>1, DiscoveryAssumption DEF EntityIs, NoEntities, EntitiesAre

\* A sequence whose elements are changed stays one.
LEMMA Mapped ==
  ASSUME NEW S, NEW fs \in Seq(S), NEW gs, DOMAIN gs = DOMAIN fs, \A n \in DOMAIN fs : gs[n] \in S,
         gs = [n \in DOMAIN fs |-> gs[n]]
  PROVE  gs \in Seq(S)
<1>1. DOMAIN fs = 1..Len(fs) /\ Len(fs) \in Nat
  BY LenProperties
<1>2. gs \in [1..Len(fs) -> S]
  BY <1>1
<1> QED BY <1>1, <1>2, SeqDef

LEMMA SetInSeq ==
  ASSUME NEW S, IsFiniteSet(S)
  PROVE  /\ SetToSeq(S) \in Seq(S)
         /\ \A x \in S : \E n \in 1..Len(SetToSeq(S)) : SetToSeq(S)[n] = x
<1> DEFINE N == Cardinality(S)
<1>1. N \in Nat /\ \E f \in [1..N -> S] : IsInjective(f)
  BY FS_CardinalityType DEF ExistsBijection, Bijection, Injection
<1>2. SetToSeq(S) \in [1..N -> S] /\ IsInjective(SetToSeq(S))
  BY <1>1 DEF SetToSeq
<1>3. SetToSeq(S) \in Seq(S)
  BY <1>1, <1>2, SeqDef
<1>4. Len(SetToSeq(S)) = N
  BY <1>1, <1>2, <1>3, LenProperties
<1>5. IsFiniteSet(1..N) /\ Cardinality(1..N) = N
  <2>1. 1 \in Int /\ N \in Int /\ (1 > N => N = 0)
    BY <1>1
  <2> HIDE DEF N
  <2> QED BY <1>1, <2>1, FS_Interval
<1>6. SetToSeq(S) \in Surjection(1..N, S)
  <2>1. SetToSeq(S) \in Injection(1..N, S)
    BY <1>2 DEF Injection
  <2> HIDE DEF N
  <2> QED BY <1>5, <2>1, FS_Injection DEF N
<1> QED BY <1>3, <1>4, <1>6 DEF Surjection

-----------------------------------------------------------------------------
(* The inventory's operators *)

LEMMA OldestIs ==
  ASSUME NEW es \in [Ids -> Entities], NEW is \in SUBSET Ids, is # {}
  PROVE  Oldest(es, is) \in is
<1>1. \A i \in is : es[i].first \in 0..1
  BY DEF Entities
<1>2. \E i \in is : \A j \in is : es[i].first <= es[j].first
  <2>1. CASE \E i \in is : es[i].first = 0
    BY <1>1, <2>1
  <2>2. CASE ~\E i \in is : es[i].first = 0
    <3>1. \A i \in is : es[i].first = 1
      BY <1>1, <2>2
    <3> QED BY <3>1
  <2> QED BY <2>1, <2>2
<1> QED BY <1>2 DEF Oldest

LEMMA MergeIs ==
  ASSUME NEW keep \in Entities, NEW other \in Entities
  PROVE  /\ MergeInto(keep, other) \in Entities
         /\ MergeInto(keep, other).keys = keep.keys \cup other.keys
         /\ MergeInto(keep, other).said = IF keep.said = Nothing THEN other.said ELSE keep.said
BY DEF MergeInto, Entities

LEMMA NewIs ==
  ASSUME NEW es \in [Ids -> Entities], NEW keys \in SUBSET {"mcp#tool", "workload", "agent"}, NEW said \in Said
  PROVE  /\ NewEntity(es, keys, said) \in Entities
         /\ NewEntity(es, keys, said).keys = keys /\ NewEntity(es, keys, said).said = said
BY DEF NewEntity, Entities, Said

\* A fact is kept by the tool, or by one of the agents, which nothing else is merged into.
LEMMA KeptIs ==
  ASSUME NEW es, EntitiesAre(es), NEW said \in Said \ {Nothing}
  PROVE  /\ FactKeys(said) \in SUBSET {"mcp#tool", "workload", "agent"} /\ FactKeys(said) # {}
         /\ Kept(es, said) \in Ids
         /\ said \in Hashes => /\ Kept(es, said) = "tool" /\ FactKeys(said) = {"mcp#tool"}
                               /\ Carriers(es, FactKeys(said)) \subseteq {"tool"}
         /\ said \notin Hashes => /\ Kept(es, said) \in {"work", "entry"} /\ "mcp#tool" \notin FactKeys(said)
                                  /\ Carriers(es, FactKeys(said)) \subseteq {"work", "entry"}
         /\ Kept(es, said) = "entry" => es["entry"] # Absent
         /\ Kept(es, said) \notin Carriers(es, FactKeys(said)) => Carriers(es, FactKeys(said)) = {}
<1> DEFINE found == Carriers(es, FactKeys(said))
<1>1. /\ FactKeys(said) \in SUBSET {"mcp#tool", "workload", "agent"} /\ FactKeys(said) # {}
      /\ said \in Hashes => FactKeys(said) = {"mcp#tool"}
      /\ said \notin Hashes => "mcp#tool" \notin FactKeys(said)
  BY DEF FactKeys, Said
<1>2. found \in SUBSET Ids /\ \A i \in found : es[i].keys \cap FactKeys(said) # {} /\ es[i] # Absent
  BY DEF Carriers, Absent
<1>3. said \in Hashes => found \subseteq {"tool"}
  BY <1>1, <1>2 DEF EntitiesAre, EntityIs, Ids
<1>4. said \notin Hashes => found \subseteq {"work", "entry"}
  <2> SUFFICES ASSUME said \notin Hashes, "tool" \in found PROVE FALSE
    BY <1>2 DEF Ids
  <2>1. es["tool"].keys = {"mcp#tool"}
    BY <1>2 DEF EntitiesAre, EntityIs, Ids
  <2> QED BY <1>1, <1>2, <2>1
<1>5. CASE found = {}
  BY <1>1, <1>3, <1>4, <1>5 DEF Kept, Ids
<1>6. CASE found # {}
  <2>1. Kept(es, said) = Oldest(es, found) /\ es \in [Ids -> Entities]
    BY <1>6 DEF Kept, EntitiesAre
  <2>2. Kept(es, said) \in found
    BY <1>2, <1>6, <2>1, OldestIs
  <2> QED BY <1>1, <1>2, <1>3, <1>4, <2>2
<1> QED BY <1>5, <1>6

\* What keeps a fact has its keys and says it.
LEMMA ResolvedIs ==
  ASSUME NEW es, EntitiesAre(es), NEW said \in Said \ {Nothing}
  PROVE  /\ Resolved(es, said) \in Entities /\ EntityIs(Kept(es, said), Resolved(es, said))
         /\ Resolved(es, said).said = said /\ Resolved(es, said) # Absent
<1> DEFINE keys == FactKeys(said)
           keep == Kept(es, said)
           gone == Carriers(es, keys) \ {keep}
           other == CHOOSE i \in gone : TRUE
           base == IF es[keep] = Absent THEN NewEntity(es, keys, said)
                   ELSE IF gone = {} THEN es[keep] ELSE MergeInto(es[keep], es[other])
<1>1. /\ es \in [Ids -> Entities] /\ \A i \in Ids : EntityIs(i, es[i])
      /\ keep \in Ids /\ keys \in SUBSET {"mcp#tool", "workload", "agent"} /\ keys # {}
      /\ said \in Hashes => keep = "tool" /\ keys = {"mcp#tool"} /\ gone = {}
      /\ said \notin Hashes => keep \in {"work", "entry"} /\ gone \subseteq {"work", "entry"} /\ "mcp#tool" \notin keys
      /\ keep = "entry" => es["entry"] # Absent
  BY KeptIs DEF EntitiesAre
<1>2. gone # {} => other \in gone /\ other \in Ids /\ es[other] # Absent
  <2>1. \A i \in Carriers(es, keys) : i \in Ids /\ es[i].keys \cap keys # {}
    <3> HIDE DEF keys
    <3> QED BY DEF Carriers
  <2>2. Absent.keys = {}
    BY DEF Absent
  <2>3. gone \subseteq Carriers(es, keys)
    OBVIOUS
  <2>4. gone # {} => other \in gone
    <3> HIDE DEF gone
    <3> QED OBVIOUS
  <2> HIDE DEF gone, other, keys, keep
  <2> QED BY <2>1, <2>2, <2>3, <2>4
<1> HIDE DEF gone, other, keys, keep
<1>3. /\ base \in Entities
      /\ said \in Hashes => base.keys = {"mcp#tool"}
      /\ said \notin Hashes => "mcp#tool" \notin base.keys
      /\ keep = "entry" => "agent" \in base.keys
  <2>1. CASE es[keep] = Absent
    BY <1>1, <2>1, NewIs
  <2>2. CASE es[keep] # Absent /\ gone = {}
    BY <1>1, <2>2 DEF EntityIs
  <2>3. CASE es[keep] # Absent /\ gone # {}
    <3>1. es[other] \in Entities /\ es[keep] \in Entities /\ EntityIs(other, es[other]) /\ EntityIs(keep, es[keep])
          /\ said \notin Hashes /\ other # "tool" /\ keep # "tool"
      BY <1>1, <1>2, <2>3
    <3>2. "mcp#tool" \notin es[other].keys /\ "mcp#tool" \notin es[keep].keys
          /\ (keep = "entry" => "agent" \in es[keep].keys)
      BY <1>2, <2>3, <3>1 DEF EntityIs
    <3> QED BY <2>3, <3>1, <3>2, MergeIs
  <2> QED BY <2>1, <2>2, <2>3
<1>4. Resolved(es, said) = [base EXCEPT !.keys = @ \cup keys, !.said = said]
  BY DEF Resolved, keys, keep, gone, other
<1> HIDE DEF base
<1>5. /\ Resolved(es, said) \in Entities /\ Resolved(es, said).said = said
      /\ Resolved(es, said).keys = base.keys \cup keys
  BY <1>1, <1>3, <1>4 DEF Entities, Said
<1>6. EntityIs(keep, Resolved(es, said)) /\ Resolved(es, said) # Absent
  BY <1>1, <1>3, <1>5 DEF EntityIs, Absent
<1> QED BY <1>5, <1>6 DEF keep

\* An agent's findings go to the one it is merged into, and no others change hands.
LEMMA MovedIs ==
  ASSUME NEW fs \in Seq(Whole), NEW keep \in {"work", "entry"}, NEW other \in {"work", "entry"}
  PROVE  Moved(fs, keep, other) \in Seq(Whole)
<1> DEFINE gs == Moved(fs, keep, other)
<1>1. DOMAIN gs = DOMAIN fs /\ gs = [n \in DOMAIN fs |-> gs[n]]
  BY DEF Moved
<1>2. ASSUME NEW n \in DOMAIN fs PROVE gs[n] \in Whole
  <2>1. fs[n] \in Whole
    BY LenProperties, ElementOfSeq
  <2>2. gs[n] = fs[n] \/ (fs[n].of = other /\ \E st \in {fs[n].status, "resolved"} : gs[n] = [fs[n] EXCEPT !.of = keep, !.status = st])
    BY DEF Moved
  <2> QED BY <2>1, <2>2 DEF Whole, Findings, Ids
<1> QED BY <1>1, <1>2, Mapped

LEMMA ClosedIs ==
  ASSUME NEW fs \in Seq(Whole), NEW ns
  PROVE  Closed(fs, ns) \in Seq(Whole)
<1> DEFINE gs == Closed(fs, ns)
<1>1. DOMAIN gs = DOMAIN fs /\ gs = [n \in DOMAIN fs |-> gs[n]]
  BY DEF Closed
<1>2. ASSUME NEW n \in DOMAIN fs PROVE gs[n] \in Whole
  <2>1. fs[n] \in Whole
    BY LenProperties, ElementOfSeq
  <2> QED BY <2>1 DEF Closed, Whole, Findings
<1> QED BY <1>1, <1>2, Mapped

LEMMA CheckedIs ==
  ASSUME NEW fs \in Seq(Whole), NEW pin, NEW hash \in Hashes
  PROVE  Checked(fs, "tool", pin, hash) \in Seq(Whole)
<1> DEFINE open == OpenOf(fs, "tool", "tool_definition_changed")
<1>1. Closed(fs, open) \in Seq(Whole)
  BY ClosedIs
<1>2. Finding("tool", "tool_definition_changed", hash) \in Whole
  BY DEF Finding, Whole, Findings, Ids, Kinds, AutoFindings
<1>3. Append(Closed(fs, open), Finding("tool", "tool_definition_changed", hash)) \in Seq(Whole)
  BY <1>1, <1>2, AppendProperties
<1> QED BY <1>1, <1>3 DEF Checked

\* After a merge of those that share a key nobody does, and nothing that was said or known is lost.
LEMMA DedupedIs ==
  ASSUME NEW es, EntitiesAre(es), NEW fs \in Seq(Whole)
  PROVE  LET one == Deduped(es, fs).entities
         IN  /\ EntitiesAre(one) /\ Deduped(es, fs).findings \in Seq(Whole)
             /\ one["work"].keys \cap one["entry"].keys = {}
             /\ Carriers(es, {"agent"}) # {} => Carriers(one, {"agent"}) # {}
             /\ (\E i \in Ids : es[i].said # Nothing) => \E i \in Ids : one[i].said # Nothing
<1> DEFINE keep == Oldest(es, {"work", "entry"})
           other == IF keep = "work" THEN "entry" ELSE "work"
           one == [es EXCEPT ![keep] = MergeInto(@, es[other]), ![other] = Absent]
<1>1. es \in [Ids -> Entities] /\ \A i \in Ids : EntityIs(i, es[i])
  BY DEF EntitiesAre
<1>2. CASE es["work"].keys \cap es["entry"].keys = {}
  BY <1>1, <1>2 DEF Deduped
<1>3. CASE es["work"].keys \cap es["entry"].keys # {}
  <2>1. keep \in {"work", "entry"} /\ other \in {"work", "entry"} /\ other # keep
    BY <1>1, OldestIs DEF Ids
  <2>2. Deduped(es, fs) = [entities |-> one, findings |-> Moved(fs, keep, other)]
    BY <1>3 DEF Deduped
  <2> HIDE DEF keep, other
  <2>3. keep \in Ids /\ other \in Ids /\ es[keep] \in Entities /\ es[other] \in Entities
        /\ EntityIs(keep, es[keep]) /\ EntityIs(other, es[other])
    BY <1>1, <2>1 DEF Ids
  <2>4. /\ one \in [Ids -> Entities] /\ one[other] = Absent /\ one[keep] = MergeInto(es[keep], es[other])
        /\ \A i \in Ids \ {keep, other} : one[i] = es[i]
    BY <1>1, <2>1, <2>3, MergeIs, Constants
  <2>5. /\ one[keep].keys = es[keep].keys \cup es[other].keys
        /\ one[keep].said = IF es[keep].said = Nothing THEN es[other].said ELSE es[keep].said
    BY <2>3, <2>4, MergeIs
  <2>6. es[keep] # Absent /\ es[other] # Absent
    BY <1>3, <2>1 DEF Absent
  <2>7. EntityIs(keep, one[keep])
    BY <2>1, <2>3, <2>5, <2>6 DEF EntityIs
  <2> HIDE DEF one
  <2>8. EntitiesAre(one)
    BY <1>1, <2>3, <2>4, <2>7, Constants DEF EntitiesAre
  <2>9. one["work"].keys \cap one["entry"].keys = {}
    BY <2>1, <2>4 DEF Absent
  <2>10. Carriers(es, {"agent"}) # {} => Carriers(one, {"agent"}) # {}
    BY <2>3, <2>4, <2>5 DEF Carriers
  <2>11. (\E i \in Ids : es[i].said # Nothing) => \E i \in Ids : one[i].said # Nothing
    BY <2>3, <2>4, <2>5
  <2>12. Moved(fs, keep, other) \in Seq(Whole)
    BY <2>1, MovedIs
  <2> QED BY <2>2, <2>8, <2>9, <2>10, <2>11, <2>12
<1> QED BY <1>2, <1>3

\* The registry adds an entity only where there is none.
LEMMA WithRegistryIs ==
  ASSUME NEW es, EntitiesAre(es), NEW reg \in BOOLEAN
  PROVE  LET full == WithRegistry(es, reg)
         IN  /\ EntitiesAre(full)
             /\ reg => Carriers(full, {"agent"}) # {}
             /\ \A i \in Ids : es[i].said # Nothing => full[i].said # Nothing
<1> DEFINE new == NewEntity(es, {"agent"}, Nothing)
           with == [es EXCEPT !["entry"] = new]
<1>1. es \in [Ids -> Entities] /\ \A i \in Ids : EntityIs(i, es[i])
  BY DEF EntitiesAre
<1>2. CASE ~(reg /\ Carriers(es, {"agent"}) = {})
  BY <1>2 DEF WithRegistry
<1>3. CASE reg /\ Carriers(es, {"agent"}) = {}
  <2>1. new \in Entities /\ new.keys = {"agent"}
    <3>1. {"agent"} \in SUBSET {"mcp#tool", "workload", "agent"} /\ Nothing \in Said
      BY DEF Said
    <3> QED BY <1>1, <3>1, NewIs
  <2>2. "entry" \in Ids /\ es["entry"] = Absent
    <3>1. "entry" \in Ids /\ "agent" \notin es["entry"].keys
      BY <1>3 DEF Carriers, Ids
    <3> QED BY <1>1, <3>1 DEF EntityIs
  <2> HIDE DEF new
  <2>3. with \in [Ids -> Entities] /\ with["entry"] = new /\ \A i \in Ids \ {"entry"} : with[i] = es[i]
    BY <1>1, <2>1, <2>2
  <2>4. EntityIs("entry", new)
    BY <2>1 DEF EntityIs
  <2>5. WithRegistry(es, reg) = with
    BY <1>3 DEF WithRegistry, new
  <2> HIDE DEF with
  <2>6. EntitiesAre(with)
    BY <1>1, <2>3, <2>4 DEF EntitiesAre
  <2>7. Carriers(with, {"agent"}) # {}
    BY <2>1, <2>2, <2>3 DEF Carriers
  <2> QED BY <2>2, <2>3, <2>5, <2>6, <2>7 DEF Absent
<1> QED BY <1>2, <1>3

-----------------------------------------------------------------------------
(* What a step may not touch *)

\* A step of one run keeps what the others have.
LEMMA OneRun ==
  ASSUME TypesHold, RunsHold, NEW r \in Runs, NEW x \in RunStates, runs' = [runs EXCEPT ![r] = x],
         RunIs(x), Locks(x) <=> lock' = r, \/ lock' = lock
                                           \/ lock \in {r, Free} /\ lock' \in {r, Free}
  PROVE  /\ runs' \in [Runs -> RunStates] /\ RunsHold' /\ lock' \in Runs \cup {Free}
         /\ runs'[r] = x /\ \A q \in Runs \ {r} : runs'[q] = runs[q]
<1>1. /\ runs' \in [Runs -> RunStates] /\ runs'[r] = x
      /\ \A q \in Runs \ {r} : runs'[q] = runs[q]
  BY DEF TypesHold
<1>2. lock' \in Runs \cup {Free}
  BY DEF TypesHold
<1>3. ASSUME NEW q \in Runs PROVE RunIs(runs'[q]) /\ (Locks(runs'[q]) <=> lock' = q)
  <2>1. CASE q = r
    BY <1>1, <2>1
  <2>2. CASE q # r
    <3>1. RunIs(runs[q]) /\ (Locks(runs[q]) <=> lock = q)
      BY DEF RunsHold
    <3>2. lock = q <=> lock' = q
      BY <2>2, Constants
    <3> QED BY <1>1, <2>2, <3>1, <3>2
  <2> QED BY <2>1, <2>2
<1>4. RunsHold'
  BY <1>3 DEF RunsHold
<1> QED BY <1>1, <1>2, <1>4

\* Nothing that a reconcile goes by has changed.
LEMMA Undisturbed ==
  ASSUME SyncedHolds, ReconciledIsRight, UNCHANGED <<registered, entities, findings, lock, settled>>,
         lock # Free => runs'[lock] = runs[lock]
  PROVE  SyncedHolds' /\ ReconciledIsRight'
BY DEF SyncedHolds, ReconciledIsRight, OneEntity, Carriers, OpenOf, Wanted, Linked

LEMMA Unsettled ==
  ASSUME settled' = FALSE
  PROVE  SyncedHolds' /\ ReconciledIsRight'
BY DEF SyncedHolds, ReconciledIsRight

LEMMA IdleIs ==
  /\ Idle \in RunStates /\ RunIs(Idle) /\ ~Locks(Idle)
  /\ \A at \in {"idle", "claimed", "applied"}, claimed \in BOOLEAN :
       LET x == [Idle EXCEPT !.at = at, !.claimed = claimed]
       IN  x \in RunStates /\ RunIs(x) /\ ~Locks(x)
  /\ NoDecision \in DeskStates /\ NoDecision.at = "none"
<1>1. <<>> \in Seq(Whole)
  BY EmptySeq
<1>2. NoEntities \in [Ids -> Entities] /\ EntitiesAre(NoEntities) /\ Absent \in Entities
  BY Constants
<1>3. Finding("tool", "shadow_agent", Nothing) \in Whole
  BY DEF Finding, Whole, Findings, Ids, Kinds, AutoFindings
<1>4. NoDecision \in DeskStates /\ NoDecision.at = "none"
  BY <1>2, <1>3 DEF NoDecision, DeskStates
<1>5. Idle \in RunStates
  BY <1>1, <1>2 DEF Idle, RunStates, Said
<1>6. RunIs(Idle) /\ ~Locks(Idle)
  BY <1>2 DEF Idle, RunIs, Locks
<1>7. ASSUME NEW at \in {"idle", "claimed", "applied"}, NEW claimed \in BOOLEAN
      PROVE LET x == [Idle EXCEPT !.at = at, !.claimed = claimed]
            IN  x \in RunStates /\ RunIs(x) /\ ~Locks(x)
  <2> DEFINE x == [Idle EXCEPT !.at = at, !.claimed = claimed]
  <2>1. x \in RunStates
    BY <1>5 DEF RunStates
  <2>2. x.at = at /\ x.mem = NoEntities
    BY DEF Idle
  <2> HIDE DEF x
  <2>3. RunIs(x) /\ ~Locks(x)
    BY <1>2, <2>2 DEF RunIs, Locks
  <2> QED BY <2>1, <2>3 DEF x
<1> QED BY <1>4, <1>5, <1>6, <1>7

\* A run that holds no lock does not touch the one that does.
LEMMA OtherHolds ==
  ASSUME TypesHold, RunsHold, NEW r \in Runs, ~Locks(runs[r])
  PROVE  lock # r /\ (lock # Free => lock \in Runs \ {r})
BY DEF TypesHold, RunsHold

-----------------------------------------------------------------------------
(* The steps *)

LEMMA WorldKeeps ==
  ASSUME InventoryInv, Change \/ Register
  PROVE  InventoryInv'
<1>1. UNCHANGED <<entities, findings, lease, lock, runs, desk, faults>>
  BY DEF Change, Register
<1>2. RunsHold' /\ DeskHolds'
  BY <1>1 DEF InventoryInv, RunsHold, DeskHolds
<1>3. CASE Change
  <2>1. /\ source' \in [subject : {"tool", "workload"}, said : Said] /\ source'.said \in Says(source'.subject)
        /\ registered' = registered /\ settled' = settled
    <3>1. \E said \in Says(source.subject) : source' = [source EXCEPT !.said = said]
      BY <1>3 DEF Change
    <3>2. PICK said \in Says(source.subject) : source' = [source EXCEPT !.said = said]
      BY <3>1
    <3>3. source \in [subject : {"tool", "workload"}, said : Said]
      BY DEF InventoryInv, TypesHold
    <3>4. source'.said = said /\ source'.subject = source.subject /\ source' \in [subject : {"tool", "workload"}, said : Said]
      BY <3>2, <3>3 DEF Says, Said
    <3> QED BY <1>3, <3>4 DEF Change
  <2>2. TypesHold'
    BY <1>1, <2>1 DEF InventoryInv, TypesHold
  <2>3. SyncedHolds' /\ ReconciledIsRight'
    BY <1>1, <2>1, Undisturbed DEF InventoryInv
  <2> QED BY <1>2, <2>2, <2>3 DEF InventoryInv
<1>4. CASE Register
  <2>1. source' = source /\ registered' \in BOOLEAN /\ settled' = FALSE
    BY <1>4 DEF Register
  <2>2. TypesHold'
    BY <1>1, <2>1 DEF InventoryInv, TypesHold
  <2> QED BY <1>2, <2>1, <2>2, Unsettled DEF InventoryInv
<1> QED BY <1>3, <1>4

LEMMA LeaseKeeps ==
  ASSUME InventoryInv, LeaseExpires
  PROVE  InventoryInv'
<1>1. /\ UNCHANGED <<source, registered, entities, findings, lock, runs, desk, settled>>
      /\ lease' = Free /\ faults' \in {faults, faults + 1}
  BY DEF LeaseExpires, world
<1>2. TypesHold' /\ RunsHold' /\ DeskHolds'
  BY <1>1 DEF InventoryInv, TypesHold, RunsHold, DeskHolds
<1>3. SyncedHolds' /\ ReconciledIsRight'
  BY <1>1, Undisturbed DEF InventoryInv
<1> QED BY <1>2, <1>3 DEF InventoryInv

\* Claim, the two ends of a collection and Release.
LEMMA ClaimKeeps ==
  ASSUME InventoryInv, NEW r \in Runs,
         Claim(r) \/ Release(r) \/ CollectAll(r) \/ CollectSome(r)
  PROVE  InventoryInv'
<1> DEFINE x == runs'[r]
<1>1. /\ UNCHANGED <<source, registered, entities, findings, lock, desk, settled, faults>>
      /\ lease' \in {r, Free, lease}
      /\ TypesHold /\ RunsHold /\ SyncedHolds /\ ReconciledIsRight
  BY DEF Claim, Release, CollectAll, CollectSome, Collected, world, InventoryInv
<1>2. /\ runs' = [runs EXCEPT ![r] = x] /\ x \in RunStates /\ RunIs(x) /\ ~Locks(x) /\ ~Locks(runs[r])
  <2>1. CASE Claim(r)
    <3>1. runs[r].at = "idle" /\ runs' = [runs EXCEPT ![r] = [Idle EXCEPT !.at = "claimed", !.claimed = TRUE]]
      BY <2>1 DEF Claim
    <3>2. x = [Idle EXCEPT !.at = "claimed", !.claimed = TRUE]
      BY <1>1, <3>1 DEF TypesHold
    <3> QED BY <3>1, <3>2, IdleIs DEF Locks
  <2>2. CASE Release(r)
    <3>1. runs[r].at = "applied" /\ runs' = [runs EXCEPT ![r] = Idle]
      BY <2>2 DEF Release
    <3>2. x = Idle
      BY <1>1, <3>1 DEF TypesHold
    <3> QED BY <3>1, <3>2, IdleIs DEF Locks
  <2>3. ASSUME NEW saw \in Said, NEW clean \in BOOLEAN, Collected(r, saw, clean)
        PROVE  /\ runs' = [runs EXCEPT ![r] = x] /\ x \in RunStates /\ RunIs(x) /\ ~Locks(x) /\ ~Locks(runs[r])
    <3>1. runs[r].at = "claimed" /\ runs[r] \in RunStates /\ RunIs(runs[r])
          /\ runs' = [runs EXCEPT ![r].at = "collected", ![r].saw = saw, ![r].clean = clean]
      BY <1>1, <2>3 DEF Collected, TypesHold, RunsHold
    <3>2. x = [runs[r] EXCEPT !.at = "collected", !.saw = saw, !.clean = clean] /\ runs' = [runs EXCEPT ![r] = x]
      BY <1>1, <3>1 DEF TypesHold
    <3> HIDE DEF x
    <3>3. x \in RunStates /\ x.at = "collected" /\ x.mem = runs[r].mem
      BY <3>1, <3>2 DEF RunStates
    <3> QED BY <3>1, <3>2, <3>3 DEF RunIs, Locks
  <2>4. source.said \in Said /\ Nothing \in Said
    BY <1>1 DEF TypesHold, Says, Said
  <2> QED BY <2>1, <2>2, <2>3, <2>4 DEF CollectAll, CollectSome
<1>3. lock # r /\ lock' = lock /\ (lock # Free => lock \in Runs \ {r})
  BY <1>1, <1>2, OtherHolds
<1> HIDE DEF x
<1>4. /\ runs' \in [Runs -> RunStates] /\ RunsHold' /\ lock' \in Runs \cup {Free}
      /\ \A q \in Runs \ {r} : runs'[q] = runs[q]
  BY <1>1, <1>2, <1>3, OneRun
<1>5. TypesHold' /\ DeskHolds'
  BY <1>1, <1>4 DEF InventoryInv, TypesHold, DeskHolds
<1>6. SyncedHolds' /\ ReconciledIsRight'
  BY <1>1, <1>3, <1>4, Undisturbed
<1> QED BY <1>4, <1>5, <1>6 DEF InventoryInv

\* What a run sees goes into its working set, and the agents it brings together become one.
LEMMA ResolveKeeps ==
  ASSUME InventoryInv, NEW r \in Runs, Resolve(r)
  PROVE  /\ InventoryInv'
         /\ runs[r].saw = Nothing => entities' = entities
         /\ runs[r].saw # Nothing => lock' = r /\ runs'[r].at = "resolved" /\ runs'[r].mem # NoEntities
<1> DEFINE said == runs[r].saw
           keep == Kept(entities, said)
           gone == Carriers(entities, FactKeys(said)) \ {keep}
           other == CHOOSE i \in gone : TRUE
           moved == IF gone = {} THEN findings ELSE Moved(findings, keep, other)
           x == runs'[r]
<1>1. /\ UNCHANGED <<source, registered, lease, desk, faults>> /\ settled' = FALSE
      /\ lock = Free /\ lock' = r /\ runs[r].at = "collected"
      /\ TypesHold /\ RunsHold /\ DeskHolds
  BY DEF Resolve, world, InventoryInv
<1>2. runs[r] \in RunStates /\ RunIs(runs[r]) /\ runs[r].mem = NoEntities /\ said \in Said
  BY <1>1 DEF TypesHold, RunsHold, RunIs, RunStates
<1>3. CASE said = Nothing
  <2>1. runs' = [runs EXCEPT ![r].at = "resolved"] /\ UNCHANGED <<entities, findings>>
    BY <1>3 DEF Resolve
  <2>2. x = [runs[r] EXCEPT !.at = "resolved"] /\ runs' = [runs EXCEPT ![r] = x]
    BY <1>1, <2>1 DEF TypesHold
  <2>3. x \in RunStates /\ x.at = "resolved" /\ x.mem = runs[r].mem /\ x.saw = Nothing
    BY <1>2, <1>3, <2>2 DEF RunStates
  <2> HIDE DEF x
  <2>4. RunIs(x) /\ Locks(x)
    BY <1>2, <2>3 DEF RunIs, Locks
  <2>5. runs' \in [Runs -> RunStates] /\ RunsHold'
    BY <1>1, <2>2, <2>3, <2>4, OneRun
  <2>6. TypesHold' /\ DeskHolds'
    BY <1>1, <2>1, <2>5 DEF TypesHold, DeskHolds
  <2> QED BY <1>1, <1>3, <2>1, <2>5, <2>6, Unsettled DEF InventoryInv
<1>4. CASE said # Nothing
  <2>1. /\ runs' = [runs EXCEPT ![r].at = "resolved", ![r].mem[keep] = Resolved(entities, said)]
        /\ entities' = [i \in Ids |-> IF i \in gone THEN Absent ELSE entities[i]]
        /\ findings' = IF said \in Hashes /\ entities[keep] # Absent
                       THEN Checked(findings, keep, entities[keep].pin, said) ELSE moved
    BY <1>4 DEF Resolve
  <2>2. /\ keep \in Ids /\ EntitiesAre(entities) /\ findings \in Seq(Whole)
        /\ said \in Hashes => keep = "tool" /\ gone = {}
        /\ said \notin Hashes => keep \in {"work", "entry"} /\ gone \subseteq {"work", "entry"}
    BY <1>1, <1>2, <1>4, KeptIs DEF TypesHold
  <2> DEFINE ent == Resolved(entities, said)
  <2>3. /\ ent \in Entities /\ EntityIs(keep, ent) /\ ent.said = said /\ ent # Absent
    BY <1>2, <1>4, <2>2, ResolvedIs
  <2> HIDE DEF ent, keep, said
  <2>4. /\ x = [runs[r] EXCEPT !.at = "resolved", !.mem = [NoEntities EXCEPT ![keep] = ent]]
        /\ runs' = [runs EXCEPT ![r] = x]
    <3>1. x = [runs[r] EXCEPT !.at = "resolved", !.mem[keep] = ent] /\ runs' = [runs EXCEPT ![r] = x]
      BY <1>1, <2>1 DEF TypesHold, ent
    <3> QED BY <1>2, <3>1
  <2>5. /\ x \in RunStates /\ x.at = "resolved" /\ x.saw = said
        /\ x.mem = [NoEntities EXCEPT ![keep] = ent]
    <3>1. [NoEntities EXCEPT ![keep] = ent] \in [Ids -> Entities]
      BY <2>2, <2>3, Constants
    <3> QED BY <1>2, <2>4, <3>1 DEF RunStates, said
  <2>6. /\ EntitiesAre(x.mem) /\ x.mem[keep].said # Nothing /\ x.mem # NoEntities
    <3>1. NoEntities \in [Ids -> Entities] /\ \A i \in Ids : EntityIs(i, NoEntities[i]) /\ NoEntities[i] = Absent
      BY Constants DEF NoEntities
    <3>2. x.mem \in [Ids -> Entities] /\ x.mem[keep] = ent /\ \A i \in Ids \ {keep} : x.mem[i] = NoEntities[i]
      BY <2>2, <2>3, <2>5, <3>1
    <3> QED BY <1>4, <2>2, <2>3, <3>1, <3>2 DEF EntitiesAre
  <2> HIDE DEF x
  <2>7. RunIs(x) /\ Locks(x)
    BY <1>4, <2>2, <2>5, <2>6 DEF RunIs, Locks
  <2>8. runs' \in [Runs -> RunStates] /\ RunsHold'
    BY <1>1, <2>4, <2>5, <2>7, OneRun
  <2>9. EntitiesAre(entities')
    <3> HIDE DEF gone
    <3> QED BY <2>1, <2>2, Constants DEF EntitiesAre
  <2>10. moved \in Seq(Whole)
    <3>1. gone # {} => keep \in {"work", "entry"} /\ other \in {"work", "entry"}
      BY <2>2
    <3> HIDE DEF gone, other
    <3> QED BY <2>2, <3>1, MovedIs
  <2>11. findings' \in Seq(Whole)
    <3>1. said \in Hashes => Checked(findings, keep, entities[keep].pin, said) \in Seq(Whole)
      BY <2>2, CheckedIs
    <3> HIDE DEF moved, gone
    <3> QED BY <2>1, <2>10, <3>1
  <2>12. TypesHold' /\ DeskHolds'
    BY <1>1, <2>8, <2>9, <2>11 DEF TypesHold, DeskHolds
  <2>13. InventoryInv'
    BY <1>1, <2>8, <2>12, Unsettled DEF InventoryInv
  <2>14. runs'[r].at = "resolved" /\ runs'[r].mem # NoEntities
    BY <2>5, <2>6 DEF x
  <2> QED BY <1>1, <1>4, <2>13, <2>14 DEF said
<1> QED BY <1>3, <1>4

\* What was seen is written, or what a clean run did not see is dropped; a partial run drops nothing.
LEMMA SaveKeeps ==
  ASSUME InventoryInv, NEW r \in Runs, Save(r)
  PROVE  /\ InventoryInv' /\ lock = r
         /\ runs[r].saw # Nothing => \E i \in Ids : entities'[i].said # Nothing
         /\ runs[r].saw = Nothing => /\ runs[r].mem = NoEntities
                                     /\ runs[r].clean \/ entities' = entities
<1> DEFINE x == [runs[r] EXCEPT !.at = "saved", !.mem = NoEntities, !.saw = Nothing, !.clean = FALSE]
           mem == runs[r].mem
           kept(i) == IF Drops(runs[r]) THEN DropUnseen(entities[i]) ELSE entities[i]
<1>1. /\ UNCHANGED <<source, registered, findings, lease, lock, desk, faults>> /\ settled' = FALSE
      /\ runs[r].at = "resolved"
      /\ TypesHold /\ RunsHold /\ DeskHolds
  BY DEF Save, world, InventoryInv
<1>2. runs[r] \in RunStates /\ RunIs(runs[r]) /\ Locks(runs[r]) /\ lock = r
  BY <1>1 DEF TypesHold, RunsHold, Locks
<1>3. runs' = [runs EXCEPT ![r] = x]
  BY <1>1 DEF Save, TypesHold
<1>4. x \in RunStates /\ x.at = "saved" /\ x.mem = NoEntities
  BY <1>2, Constants DEF RunStates, Said
<1>5. /\ entities' = [i \in Ids |-> IF mem[i] # Absent THEN mem[i] ELSE kept(i)]
      /\ EntitiesAre(entities) /\ EntitiesAre(mem)
      /\ runs[r].saw = Nothing => mem = NoEntities
      /\ runs[r].saw # Nothing => \E i \in Ids : mem[i].said # Nothing
  BY <1>1, <1>2 DEF Save, TypesHold, RunIs
<1>6. ASSUME NEW i \in Ids PROVE kept(i) \in Entities /\ EntityIs(i, kept(i))
  <2>1. entities[i] \in Entities /\ EntityIs(i, entities[i])
    BY <1>5 DEF EntitiesAre
  <2>2. /\ DropUnseen(entities[i]) \in Entities /\ DropUnseen(entities[i]).keys = entities[i].keys
        /\ entities[i] = Absent => DropUnseen(entities[i]) = Absent
    BY <2>1 DEF DropUnseen, Entities, Absent
  <2>3. EntityIs(i, DropUnseen(entities[i]))
    BY <2>1, <2>2 DEF EntityIs
  <2> QED BY <2>1, <2>2, <2>3
<1>7. runs[r].saw = Nothing /\ ~runs[r].clean => entities' = entities
  <2>1. entities = [i \in Ids |-> entities[i]]
    BY <1>5 DEF EntitiesAre
  <2>2. \A i \in Ids : NoEntities[i] = Absent
    BY DEF NoEntities
  <2> QED BY <1>5, <2>1, <2>2 DEF Drops
<1> HIDE DEF x, mem, kept
<1>8. EntitiesAre(entities')
  BY <1>5, <1>6 DEF EntitiesAre
<1>9. runs[r].saw # Nothing => \E i \in Ids : entities'[i].said # Nothing
  BY <1>5 DEF Absent
<1>10. RunIs(x) /\ Locks(x)
  BY <1>4, Constants DEF RunIs, Locks
<1>11. runs' \in [Runs -> RunStates] /\ RunsHold'
  BY <1>1, <1>2, <1>3, <1>4, <1>10, OneRun
<1>12. TypesHold' /\ DeskHolds'
  BY <1>1, <1>8, <1>11 DEF TypesHold, DeskHolds
<1>13. InventoryInv'
  BY <1>1, <1>11, <1>12, Unsettled DEF InventoryInv
<1> QED BY <1>2, <1>5, <1>7, <1>9, <1>13 DEF mem

LEMMA SyncKeeps ==
  ASSUME InventoryInv, NEW r \in Runs, Sync(r)
  PROVE  /\ InventoryInv' /\ lock = r /\ runs[r].at = "saved"
         /\ (\E i \in Ids : entities[i].said # Nothing) => \E i \in Ids : entities'[i].said # Nothing
<1> DEFINE full == WithRegistry(entities, registered)
           one == Deduped(full, findings)
           x == [runs[r] EXCEPT !.at = "synced", !.mem = one.entities,
                                !.seen = ListedFindings(findings, one.findings), !.reg = registered]
<1>1. /\ UNCHANGED <<source, registered, lease, lock, desk, faults>> /\ settled' = TRUE
      /\ runs[r].at = "saved" /\ entities' = one.entities /\ findings' = one.findings
      /\ TypesHold /\ RunsHold /\ DeskHolds
  BY DEF Sync, world, InventoryInv
<1>2. runs[r] \in RunStates /\ RunIs(runs[r]) /\ Locks(runs[r]) /\ lock = r /\ r # Free
  BY <1>1, Constants DEF TypesHold, RunsHold, Locks
<1>3. runs' = [runs EXCEPT ![r] = x]
  BY <1>1 DEF Sync, TypesHold
<1>4. EntitiesAre(entities) /\ findings \in Seq(Whole) /\ registered \in BOOLEAN
  BY <1>1 DEF TypesHold
<1>5. /\ EntitiesAre(full) /\ (registered => Carriers(full, {"agent"}) # {})
      /\ \A i \in Ids : entities[i].said # Nothing => full[i].said # Nothing
  BY <1>4, WithRegistryIs
<1> HIDE DEF full
<1>6. /\ EntitiesAre(one.entities) /\ one.findings \in Seq(Whole)
      /\ one.entities["work"].keys \cap one.entities["entry"].keys = {}
      /\ Carriers(full, {"agent"}) # {} => Carriers(one.entities, {"agent"}) # {}
      /\ (\E i \in Ids : full[i].said # Nothing) => \E i \in Ids : one.entities[i].said # Nothing
  BY <1>4, <1>5, DedupedIs
<1> HIDE DEF one
<1>7. x \in RunStates /\ x.at = "synced" /\ x.mem = one.entities /\ x.seen = one.findings /\ x.reg = registered
  BY <1>2, <1>4, <1>6 DEF RunStates, ListedFindings, EntitiesAre
<1> HIDE DEF x
<1>8. RunIs(x) /\ Locks(x)
  BY <1>6, <1>7 DEF RunIs, Locks
<1>9. runs' \in [Runs -> RunStates] /\ RunsHold' /\ runs'[r] = x
  BY <1>1, <1>2, <1>3, <1>7, <1>8, OneRun
<1>10. TypesHold' /\ DeskHolds'
  BY <1>1, <1>6, <1>9 DEF TypesHold, DeskHolds
<1>11. OneEntity(entities, registered)'
  BY <1>1, <1>5, <1>6 DEF OneEntity, Carriers
<1>12. SyncedHolds'
  BY <1>1, <1>2, <1>7, <1>9, <1>11 DEF SyncedHolds
<1>13. ReconciledIsRight'
  BY <1>1, <1>2 DEF ReconciledIsRight
<1> QED BY <1>1, <1>2, <1>5, <1>6, <1>9, <1>10, <1>12, <1>13 DEF InventoryInv

\* The findings after a settle: those of before, less those that ended, and the missing ones.
LEMMA SettleKeeps ==
  ASSUME InventoryInv, NEW r \in Runs, Settle(r)
  PROVE  InventoryInv' /\ entities' = entities /\ lock = r /\ runs[r].at = "synced"
<1> DEFINE es == runs[r].mem
           seen == runs[r].seen
           reg == runs[r].reg
           ended == Ended(es, seen, reg)
           missing == Missing(es, seen, reg)
           known(i, kind) == \E n \in DOMAIN seen : seen[n].of = i /\ seen[n].kind = kind /\ seen[n].status \in Live
           full == {Finding(i, kind, Nothing) : i \in {"work", "entry"}, kind \in AutoFindings}
           old == [n \in DOMAIN findings |-> IF n \in ended THEN [seen[n] EXCEPT !.status = "resolved"] ELSE findings[n]]
           new == SetToSeq(missing)
           x == [Idle EXCEPT !.at = IF runs[r].claimed THEN "applied" ELSE "idle", !.claimed = runs[r].claimed]
<1>1. /\ UNCHANGED <<source, registered, entities, lease, desk, settled, faults>> /\ lock' = Free
      /\ runs[r].at = "synced" /\ findings' = old \o new /\ runs' = [runs EXCEPT ![r] = x]
      /\ TypesHold /\ RunsHold /\ DeskHolds /\ SyncedHolds
  <2>1. findings' = old \o new
    BY DEF Settle
  <2> HIDE DEF old, new
  <2>2. /\ UNCHANGED <<source, registered, entities, lease, desk, settled, faults>> /\ lock' = Free
        /\ runs[r].at = "synced" /\ runs' = [runs EXCEPT ![r] = x]
    BY DEF Settle, world
  <2> QED BY <2>1, <2>2 DEF InventoryInv
<1>2. runs[r] \in RunStates /\ RunIs(runs[r]) /\ Locks(runs[r]) /\ lock = r /\ r # Free
      /\ findings \in Seq(Whole) /\ seen \in Seq(Whole)
  BY <1>1, Constants DEF TypesHold, RunsHold, RunStates, Locks
<1>3. /\ full \subseteq Whole /\ IsFiniteSet(full)
      /\ \A i \in {"work", "entry"}, kind \in AutoFindings : Finding(i, kind, Nothing) \in full
      /\ \A f \in full : f = Finding(f.of, f.kind, Nothing) /\ f.status = "open" /\ f.of \in {"work", "entry"} /\ f.kind \in AutoFindings
  <2>1. AutoFindings = {"shadow_agent", "unmanaged_agent"}
    BY DEF AutoFindings, Kinds
  <2>2. full = {Finding("work", "shadow_agent", Nothing), Finding("work", "unmanaged_agent", Nothing),
               Finding("entry", "shadow_agent", Nothing), Finding("entry", "unmanaged_agent", Nothing)}
    BY <2>1
  <2>3. IsFiniteSet(full)
    <3>1. /\ IsFiniteSet({Finding("work", "shadow_agent", Nothing)})
          /\ IsFiniteSet({Finding("work", "unmanaged_agent", Nothing)})
          /\ IsFiniteSet({Finding("entry", "shadow_agent", Nothing)})
          /\ IsFiniteSet({Finding("entry", "unmanaged_agent", Nothing)})
      BY FS_Singleton
    <3>2. /\ IsFiniteSet({Finding("work", "shadow_agent", Nothing)} \cup {Finding("work", "unmanaged_agent", Nothing)})
          /\ IsFiniteSet({Finding("entry", "shadow_agent", Nothing)} \cup {Finding("entry", "unmanaged_agent", Nothing)})
      BY <3>1, FS_Union
    <3>3. IsFiniteSet(({Finding("work", "shadow_agent", Nothing)} \cup {Finding("work", "unmanaged_agent", Nothing)})
                      \cup ({Finding("entry", "shadow_agent", Nothing)} \cup {Finding("entry", "unmanaged_agent", Nothing)}))
      BY <3>2, FS_Union
    <3>4. full = ({Finding("work", "shadow_agent", Nothing)} \cup {Finding("work", "unmanaged_agent", Nothing)})
                      \cup ({Finding("entry", "shadow_agent", Nothing)} \cup {Finding("entry", "unmanaged_agent", Nothing)})
      <4> HIDE DEF full
      <4> QED BY <2>2
    <3> QED BY <3>3, <3>4
  <2>4. full \subseteq Whole
    BY DEF Finding, Whole, Findings, Ids, Kinds, AutoFindings
  <2>5. \A f \in full : f = Finding(f.of, f.kind, Nothing) /\ f.status = "open" /\ f.of \in {"work", "entry"} /\ f.kind \in AutoFindings
    BY DEF Finding
  <2> QED BY <2>3, <2>4, <2>5
<1> HIDE DEF full
<1>4. /\ missing \subseteq Whole /\ IsFiniteSet(missing)
      /\ new \in Seq(Whole) /\ \A f \in missing : \E n \in 1..Len(new) : new[n] = f
      /\ \A n \in 1..Len(new) : new[n] \in missing
  <2>1. missing \subseteq full
    BY DEF Missing, full
  <2> HIDE DEF missing, Missing, known, full
  <2>2. IsFiniteSet(missing)
    BY <1>3, <2>1, FS_Subset
  <2>3. SetToSeq(missing) \in Seq(missing) /\ \A f \in missing : \E n \in 1..Len(SetToSeq(missing)) : SetToSeq(missing)[n] = f
    BY <2>2, SetInSeq
  <2> HIDE DEF new
  <2>4. new \in Seq(missing) /\ \A f \in missing : \E n \in 1..Len(new) : new[n] = f
    BY <2>3 DEF new
  <2>5. \A n \in 1..Len(new) : new[n] \in missing
    BY <2>4, ElementOfSeq
  <2>6. missing \subseteq Whole
    BY <1>3, <2>1
  <2> QED BY <2>2, <2>4, <2>5, <2>6, SeqMonotonic
<1>5. /\ DOMAIN old = DOMAIN findings /\ DOMAIN findings = 1..Len(findings) /\ Len(findings) \in Nat
      /\ \A n \in DOMAIN findings : old[n] = IF n \in ended THEN [seen[n] EXCEPT !.status = "resolved"] ELSE findings[n]
  BY <1>2, LenProperties
<1>6. old \in Seq(Whole)
  <2>1. ASSUME NEW n \in DOMAIN findings PROVE old[n] \in Whole
    <3>1. findings[n] \in Whole
      BY <1>2, LenProperties, ElementOfSeq
    <3>2. n \in ended => seen[n] \in Whole
      BY <1>2, LenProperties, ElementOfSeq DEF Ended
    <3>3. n \in ended => [seen[n] EXCEPT !.status = "resolved"] \in Whole
      <4> HIDE DEF ended, seen
      <4> QED BY <3>2 DEF Whole, Findings
    <3> QED BY <3>1, <3>3
  <2>2. old = [n \in DOMAIN findings |-> old[n]]
    OBVIOUS
  <2> HIDE DEF old
  <2> QED BY <1>2, <1>5, <2>1, <2>2, Mapped
<1>7. /\ Len(old) = Len(findings)
      /\ findings' \in Seq(Whole) /\ Len(findings') = Len(findings) + Len(new) /\ Len(new) \in Nat
      /\ \A n \in 1..Len(findings) : findings'[n] = old[n]
      /\ \A n \in 1..Len(new) : findings'[Len(findings) + n] = new[n]
  <2> HIDE DEF old, new
  <2>1. Len(old) = Len(findings) /\ Len(new) \in Nat
    BY <1>4, <1>5, <1>6, LenProperties
  <2>2. old \o new \in Seq(Whole) /\ Len(old \o new) = Len(old) + Len(new)
        /\ \A n \in 1..Len(old) + Len(new) : (old \o new)[n] = IF n <= Len(old) THEN old[n] ELSE new[n - Len(old)]
    BY <1>4, <1>6, ConcatProperties
  <2>3. \A n \in 1..Len(old) : (old \o new)[n] = old[n]
    BY <1>5, <2>1, <2>2
  <2>4. ASSUME NEW n \in 1..Len(new) PROVE (old \o new)[Len(old) + n] = new[n]
    <3>1. Len(old) + n \in 1..Len(old) + Len(new) /\ ~(Len(old) + n <= Len(old)) /\ (Len(old) + n) - Len(old) = n
      BY <1>5, <2>1
    <3> QED BY <2>2, <3>1
  <2> QED BY <1>1, <2>1, <2>2, <2>3, <2>4
<1> HIDE DEF new
<1>8. x \in RunStates /\ RunIs(x) /\ ~Locks(x)
  <2>1. runs[r].claimed \in BOOLEAN
    BY <1>2 DEF RunStates
  <2> QED BY <2>1, IdleIs
<1> HIDE DEF x
<1>9. runs' \in [Runs -> RunStates] /\ RunsHold'
  BY <1>1, <1>2, <1>8, OneRun
<1>10. TypesHold' /\ DeskHolds' /\ SyncedHolds'
  BY <1>1, <1>7, <1>9 DEF TypesHold, DeskHolds, SyncedHolds
<1>11. ASSUME settled,
              NEW i \in {"work", "entry"}, NEW kind \in AutoFindings, entities[i] # Absent
       PROVE  LET open == OpenOf(findings', i, kind) # {}
                  accepted == \E n \in DOMAIN findings' : findings'[n] = [Finding(i, kind, Nothing) EXCEPT !.status = "accepted"]
              IN  /\ open => kind \in Wanted(entities[i], registered)
                  /\ kind \in Wanted(entities[i], registered) => open \/ accepted
  <2>1. es = entities /\ seen = findings /\ reg = registered
    BY <1>1, <1>2, <1>11 DEF SyncedHolds
  <2> HIDE DEF old, missing, ended, known
  <2>2. DOMAIN findings' = 1..Len(findings) + Len(new)
    BY <1>7, LenProperties
  <2>3. ASSUME NEW n \in OpenOf(findings', i, kind)
        PROVE  kind \in Wanted(entities[i], registered)
    <3>1. n \in 1..Len(findings) + Len(new) /\ findings'[n].of = i /\ findings'[n].kind = kind /\ findings'[n].status = "open"
      BY <2>2 DEF OpenOf
    <3>2. CASE n \in 1..Len(findings)
      <4>1. findings'[n] = old[n] /\ findings[n] \in Whole /\ n \in DOMAIN findings
        BY <1>2, <1>5, <1>7, <3>2, ElementOfSeq
      <4>2. n \notin ended
        <5>1. n \in ended => findings'[n].status = "resolved"
          BY <1>5, <2>1, <4>1 DEF Whole, Findings
        <5> QED BY <3>1, <5>1
      <4>3. findings'[n] = findings[n]
        BY <1>5, <4>1, <4>2
      <4> QED BY <1>11, <2>1, <3>1, <4>1, <4>2, <4>3 DEF ended, Ended
    <3>3. CASE n \notin 1..Len(findings)
      <4>1. PICK m \in 1..Len(new) : n = Len(findings) + m
        <5>1. n - Len(findings) \in 1..Len(new) /\ n = Len(findings) + (n - Len(findings))
          BY <1>5, <1>7, <3>1, <3>3
        <5> QED BY <5>1
      <4>2. new[m] \in missing /\ findings'[n] = new[m]
        BY <1>4, <1>7, <4>1
      <4> QED BY <2>1, <3>1, <4>2 DEF missing, Missing, known, full
    <3> QED BY <3>2, <3>3
  <2>4. ASSUME kind \in Wanted(entities[i], registered), known(i, kind)
        PROVE  \/ OpenOf(findings', i, kind) # {}
               \/ \E n \in DOMAIN findings' : findings'[n] = [Finding(i, kind, Nothing) EXCEPT !.status = "accepted"]
    <3>1. PICK n \in DOMAIN findings : findings[n].of = i /\ findings[n].kind = kind /\ findings[n].status \in Live
      BY <2>1, <2>4 DEF known
    <3>2. n \in 1..Len(findings) /\ findings[n] \in Whole /\ n \in DOMAIN findings'
      BY <1>2, <1>5, <1>7, <2>2, ElementOfSeq
    <3>3. n \notin ended
      BY <2>1, <2>4, <3>1 DEF ended, Ended
    <3>4. findings'[n] = findings[n]
      BY <1>5, <1>7, <3>2, <3>3
    <3>5. CASE findings[n].status = "open"
      BY <3>1, <3>2, <3>4, <3>5 DEF OpenOf
    <3>6. CASE findings[n].status = "accepted"
      <4>1. findings[n] = [Finding(i, kind, Nothing) EXCEPT !.status = "accepted"]
        BY <3>1, <3>2, <3>6 DEF Whole, Findings, Finding
      <4> QED BY <3>2, <3>4, <4>1
    <3> QED BY <3>1, <3>5, <3>6 DEF Live
  <2>5. ASSUME kind \in Wanted(entities[i], registered), ~known(i, kind)
        PROVE  OpenOf(findings', i, kind) # {}
    <3> DEFINE f == Finding(i, kind, Nothing)
    <3>1. f \in full /\ f.of = i /\ f.kind = kind /\ f.status = "open"
      BY <1>3 DEF Finding
    <3> HIDE DEF f
    <3>2. f \in missing
      BY <2>1, <2>5, <3>1 DEF missing, Missing, known, full
    <3>3. PICK n \in 1..Len(new) : new[n] = f
      BY <1>4, <3>2
    <3>4. findings'[Len(findings) + n] = f /\ Len(findings) + n \in DOMAIN findings'
      BY <1>5, <1>7, <2>2, <3>3
    <3> QED BY <3>1, <3>4 DEF OpenOf
  <2> QED BY <2>3, <2>4, <2>5
<1>12. settled => OneEntity(entities, registered)
  BY <1>1, <1>2 DEF SyncedHolds
<1>13. ReconciledIsRight'
  <2> HIDE DEF old, missing, ended, known, es, seen, reg
  <2>1. settled' => entities'["work"].keys \cap entities'["entry"].keys = {} /\ (registered' => Carriers(entities', {"agent"}) # {})
    BY <1>1, <1>12 DEF OneEntity
  <2> QED BY <1>1, <1>11, <2>1 DEF ReconciledIsRight
<1> QED BY <1>1, <1>2, <1>9, <1>10, <1>13 DEF InventoryInv

LEMMA RunFailKeeps ==
  ASSUME InventoryInv, NEW r \in Runs, Fail(r)
  PROVE  InventoryInv' /\ faults' > faults
<1> DEFINE x == runs'[r]
<1>1. /\ UNCHANGED <<source, registered, entities, findings, lease, desk>> /\ settled' = FALSE
      /\ lock' = (IF lock = r THEN Free ELSE lock) /\ faults' = faults + 1 /\ faults \in Nat
      /\ TypesHold /\ RunsHold /\ DeskHolds
  BY DEF Fail, world, InventoryInv, TypesHold
<1>2. runs' = [runs EXCEPT ![r] = x] /\ x \in RunStates /\ RunIs(x) /\ ~Locks(x)
  <2>1. \/ runs' = [runs EXCEPT ![r] = Idle]
        \/ runs' = [runs EXCEPT ![r] = [Idle EXCEPT !.at = "applied", !.claimed = TRUE]]
    BY DEF Fail
  <2>2. \/ x = Idle /\ runs' = [runs EXCEPT ![r] = x]
        \/ x = [Idle EXCEPT !.at = "applied", !.claimed = TRUE] /\ runs' = [runs EXCEPT ![r] = x]
    BY <1>1, <2>1 DEF TypesHold
  <2> HIDE DEF x
  <2> QED BY <2>2, IdleIs
<1> HIDE DEF x
<1>3. lock' # r /\ (lock' = lock \/ (lock = r /\ lock' = Free))
  BY <1>1, Constants
<1>4. runs' \in [Runs -> RunStates] /\ RunsHold' /\ lock' \in Runs \cup {Free}
  BY <1>1, <1>2, <1>3, OneRun
<1>5. TypesHold' /\ DeskHolds'
  BY <1>1, <1>4 DEF TypesHold, DeskHolds
<1>6. InventoryInv'
  BY <1>1, <1>4, <1>5, Unsettled DEF InventoryInv
<1>7. faults' > faults
  BY <1>1
<1> QED BY <1>6, <1>7

\* A request takes the lock and goes on to the reconcile.
LEMMA RequestKeeps ==
  ASSUME InventoryInv, NEW r \in Runs, Request(r)
  PROVE  InventoryInv' /\ lock = Free /\ \A i \in Ids : entities'[i].said = entities[i].said
<1> DEFINE x == [runs[r] EXCEPT !.at = "saved"]
<1>1. /\ UNCHANGED <<source, registered, findings, lease, desk, faults>> /\ settled' = FALSE
      /\ lock = Free /\ lock' = r /\ runs[r].at = "idle" /\ runs' = [runs EXCEPT ![r].at = "saved"]
      /\ TypesHold /\ RunsHold /\ DeskHolds /\ EntitiesAre(entities)
  BY DEF Request, Link, Ignore, Reconcile, Locked, world, InventoryInv, TypesHold
<1>2. /\ \A i \in Ids : entities'[i].said = entities[i].said
      /\ EntitiesAre(entities')
  <2>1. \/ entities' = entities
        \/ \E i \in {"work", "entry"} : entities[i] # Absent /\ entities' = [entities EXCEPT ![i].keys = @ \cup {"agent"}]
        \/ \E i \in {"work", "entry"} : entities[i] # Absent /\ entities' = [entities EXCEPT ![i].ignored = ~@]
    BY DEF Request, Link, Ignore, Reconcile, Locked
  <2>2. CASE entities' = entities
    BY <1>1, <2>2
  <2>3. ASSUME NEW i \in {"work", "entry"}, NEW e \in Entities, entities[i] # Absent,
               entities' = [entities EXCEPT ![i] = e],
               e.said = entities[i].said, e.keys \in {entities[i].keys, entities[i].keys \cup {"agent"}}
        PROVE  EntitiesAre(entities') /\ \A j \in Ids : entities'[j].said = entities[j].said
    <3>1. i \in Ids /\ entities \in [Ids -> Entities] /\ \A j \in Ids : EntityIs(j, entities[j])
      BY <1>1 DEF EntitiesAre, Ids
    <3>2. entities' \in [Ids -> Entities] /\ entities'[i] = e /\ \A j \in Ids \ {i} : entities'[j] = entities[j]
      BY <2>3, <3>1
    <3>3. EntityIs(i, e)
      BY <2>3, <3>1 DEF EntityIs
    <3> QED BY <2>3, <3>1, <3>2, <3>3 DEF EntitiesAre
  <2>4. ASSUME NEW i \in {"work", "entry"}, entities[i] # Absent,
               entities' = [entities EXCEPT ![i].keys = @ \cup {"agent"}]
        PROVE  EntitiesAre(entities') /\ \A j \in Ids : entities'[j].said = entities[j].said
    <3> DEFINE e == [entities[i] EXCEPT !.keys = @ \cup {"agent"}]
    <3>1. entities[i] \in Entities
      BY <1>1 DEF EntitiesAre, Ids
    <3>2. e \in Entities /\ e.said = entities[i].said /\ e.keys = entities[i].keys \cup {"agent"}
      BY <3>1 DEF Entities
    <3>3. entities' = [entities EXCEPT ![i] = e]
      BY <2>4
    <3> HIDE DEF e
    <3> QED BY <2>3, <2>4, <3>2, <3>3
  <2>5. ASSUME NEW i \in {"work", "entry"}, entities[i] # Absent,
               entities' = [entities EXCEPT ![i].ignored = ~@]
        PROVE  EntitiesAre(entities') /\ \A j \in Ids : entities'[j].said = entities[j].said
    <3> DEFINE e == [entities[i] EXCEPT !.ignored = ~@]
    <3>1. entities[i] \in Entities
      BY <1>1 DEF EntitiesAre, Ids
    <3>2. e \in Entities /\ e.said = entities[i].said /\ e.keys = entities[i].keys
      BY <3>1 DEF Entities
    <3>3. entities' = [entities EXCEPT ![i] = e]
      BY <2>5
    <3> HIDE DEF e
    <3> QED BY <2>3, <2>5, <3>2, <3>3
  <2> QED BY <2>1, <2>2, <2>4, <2>5
<1>3. runs[r] \in RunStates /\ RunIs(runs[r])
  BY <1>1 DEF TypesHold, RunsHold
<1>4. x \in RunStates /\ x.at = "saved" /\ x.mem = runs[r].mem
  BY <1>3 DEF RunStates
<1>5. runs' = [runs EXCEPT ![r] = x]
  BY <1>1 DEF TypesHold
<1> HIDE DEF x
<1>6. RunIs(x) /\ Locks(x)
  BY <1>1, <1>3, <1>4 DEF RunIs, Locks
<1>7. runs' \in [Runs -> RunStates] /\ RunsHold'
  BY <1>1, <1>4, <1>5, <1>6, OneRun
<1>8. TypesHold' /\ DeskHolds'
  BY <1>1, <1>2, <1>7 DEF TypesHold, DeskHolds
<1> QED BY <1>1, <1>2, <1>7, <1>8, Unsettled DEF InventoryInv

\* A person's decision touches no run: it writes back the tool, or the finding, that it read.
LEMMA DecisionKeeps ==
  ASSUME InventoryInv, Decision
  PROVE  /\ InventoryInv' /\ UNCHANGED <<lock, runs>>
         /\ entities' = entities \/ (desk.at = "pin" /\ desk'.at = "record")
<1>1. /\ UNCHANGED <<source, registered, lease, lock, runs>>
      /\ TypesHold /\ RunsHold /\ DeskHolds /\ SyncedHolds /\ ReconciledIsRight
      /\ desk \in DeskStates /\ findings \in Seq(Whole) /\ EntitiesAre(entities) /\ faults \in Nat
  BY DEF Decision, Decide, Load, Pin, Record, Abandon, world, InventoryInv, TypesHold
<1>2. RunsHold'
  BY <1>1 DEF RunsHold
<1>3. ASSUME UNCHANGED <<entities, findings, settled>>, desk' \in DeskStates, DeskHolds', faults' \in Nat
      PROVE  InventoryInv'
  <2>1. TypesHold'
    BY <1>1, <1>3 DEF TypesHold
  <2>2. SyncedHolds' /\ ReconciledIsRight'
    BY <1>1, <1>3, Undisturbed
  <2> QED BY <1>2, <1>3, <2>1, <2>2 DEF InventoryInv
<1>4. ASSUME NEW n \in DOMAIN findings, NEW to \in {"open", "accepted", "resolved"}, Decide(n, to)
      PROVE  InventoryInv' /\ entities' = entities
  <2> DEFINE row == findings[n]
             at == IF row.kind \notin AutoFindings /\ to = "accepted" THEN "load" ELSE "record"
  <2>1. /\ UNCHANGED <<entities, findings, settled, faults>>
        /\ desk' = [NoDecision EXCEPT !.at = at, !.n = n, !.to = to, !.row = row]
    BY <1>4 DEF Decide
  <2>2. n \in Nat /\ row \in Whole
    BY <1>1, LenProperties, ElementOfSeq
  <2>3. at \in {"load", "record"} /\ (at = "load" => row.of = "tool")
    BY <2>2 DEF Whole
  <2> HIDE DEF row, at
  <2>4. desk' \in DeskStates /\ desk'.at = at /\ desk'.row = row
    BY <2>1, <2>2, <2>3, IdleIs DEF DeskStates
  <2>5. DeskHolds'
    BY <2>3, <2>4 DEF DeskHolds
  <2> QED BY <1>1, <1>3, <2>1, <2>4, <2>5
<1>5. CASE Load
  <2> DEFINE of == desk.row.of
             ent == entities[of]
  <2>1. /\ UNCHANGED <<entities, findings, settled, faults>> /\ desk.at = "load"
        /\ desk' = [desk EXCEPT !.ent = ent, !.at = IF ent = Absent THEN "record" ELSE "pin"]
    BY <1>5 DEF Load
  <2>2. of = "tool" /\ ent \in Entities /\ EntityIs("tool", ent)
    BY <1>1, <2>1 DEF DeskHolds, EntitiesAre, Ids
  <2> HIDE DEF ent
  <2>3. /\ desk' \in DeskStates /\ desk'.ent = ent /\ desk'.row = desk.row
        /\ desk'.at = IF ent = Absent THEN "record" ELSE "pin"
    BY <1>1, <2>1, <2>2 DEF DeskStates
  <2>4. DeskHolds'
    BY <2>2, <2>3 DEF DeskHolds
  <2> QED BY <1>1, <1>3, <2>1, <2>3, <2>4
<1>6. CASE Pin
  <2> DEFINE ent == [desk.ent EXCEPT !.pin = desk.row.new]
  <2>1. /\ UNCHANGED <<findings, faults>> /\ settled' = FALSE /\ desk.at = "pin"
        /\ entities' = [entities EXCEPT ![desk.row.of] = ent] /\ desk' = [desk EXCEPT !.at = "record", !.ent = Absent]
    BY <1>6 DEF Pin
  <2>2. desk.row.of = "tool" /\ desk.ent \in Entities /\ desk.ent # Absent /\ EntityIs("tool", desk.ent) /\ desk.row \in Whole
    BY <1>1, <2>1 DEF DeskHolds, DeskStates
  <2>3. ent \in Entities /\ ent.keys = desk.ent.keys
    BY <2>2 DEF Whole, Findings, Entities
  <2>4. EntityIs("tool", ent)
    <3> HIDE DEF ent
    <3> QED BY <2>2, <2>3 DEF EntityIs
  <2> HIDE DEF ent
  <2>5. EntitiesAre(entities')
    <3>1. "tool" \in Ids /\ entities \in [Ids -> Entities]
      BY <1>1 DEF Ids, EntitiesAre
    <3>2. entities' \in [Ids -> Entities] /\ entities'["tool"] = ent /\ \A i \in Ids \ {"tool"} : entities'[i] = entities[i]
      BY <2>1, <2>2, <2>3, <3>1
    <3> QED BY <1>1, <2>4, <3>2 DEF EntitiesAre
  <2>6. desk' \in DeskStates /\ desk'.at = "record"
    BY <1>1, <2>1, Constants DEF DeskStates
  <2>7. DeskHolds' /\ TypesHold'
    BY <1>1, <2>1, <2>5, <2>6 DEF DeskHolds, TypesHold
  <2> QED BY <1>1, <1>2, <2>1, <2>6, <2>7, Unsettled DEF InventoryInv
<1>7. CASE Record
  <2> DEFINE row == [desk.row EXCEPT !.status = desk.to]
  <2>1. /\ UNCHANGED <<entities, faults>> /\ settled' = FALSE /\ desk' = NoDecision
        /\ findings' = [findings EXCEPT ![desk.n] = row]
    BY <1>7 DEF Record
  <2>2. row \in Whole
    BY <1>1 DEF DeskStates, Whole, Findings
  <2> HIDE DEF row
  <2>3. findings' \in Seq(Whole)
    <3>1. DOMAIN findings' = DOMAIN findings /\ findings' = [n \in DOMAIN findings |-> findings'[n]]
      BY <2>1
    <3>2. \A n \in DOMAIN findings : findings'[n] \in Whole
      BY <1>1, <2>1, <2>2, LenProperties, ElementOfSeq
    <3> QED BY <1>1, <3>1, <3>2, Mapped
  <2>4. desk' \in DeskStates /\ desk'.at = "none"
    BY <2>1, IdleIs
  <2>5. DeskHolds' /\ TypesHold'
    BY <1>1, <2>1, <2>3, <2>4 DEF DeskHolds, TypesHold
  <2> QED BY <1>1, <1>2, <2>1, <2>5, Unsettled DEF InventoryInv
<1>8. CASE Abandon
  <2>1. UNCHANGED <<entities, findings, settled>> /\ desk' = NoDecision /\ faults' = faults + 1
    BY <1>8 DEF Abandon
  <2>2. desk' \in DeskStates /\ DeskHolds'
    BY <2>1, IdleIs DEF DeskHolds
  <2> QED BY <1>1, <1>3, <2>1, <2>2
<1> QED BY <1>1, <1>4, <1>5, <1>6, <1>7, <1>8 DEF Decision

LEMMA InventoryStarts ==
  ASSUME Init
  PROVE  InventoryInv
<1>1. /\ source \in [subject : {"tool", "workload"}, said : {Nothing}] /\ registered = FALSE
      /\ entities = NoEntities /\ findings = <<>> /\ lease = Free /\ lock = Free
      /\ runs = [r \in Runs |-> Idle] /\ desk = NoDecision /\ faults = 0
  BY DEF Init
<1>2. EntitiesAre(entities) /\ findings \in Seq(Whole) /\ \A i \in Ids : entities[i] = Absent
  BY <1>1, Constants, EmptySeq DEF NoEntities
<1>3. runs \in [Runs -> RunStates] /\ RunsHold
  BY <1>1, IdleIs, Constants DEF RunsHold
<1>4. desk \in DeskStates /\ DeskHolds
  BY <1>1, IdleIs DEF DeskHolds
<1>5. TypesHold
  <2>1. source \in [subject : {"tool", "workload"}, said : Said] /\ source.said \in Says(source.subject)
    BY <1>1 DEF Said, Says
  <2> QED BY <1>1, <1>2, <1>3, <1>4, <2>1 DEF TypesHold
<1>6. SyncedHolds
  BY <1>1 DEF SyncedHolds
<1>7. ReconciledIsRight
  <2>1. entities["work"] = Absent /\ entities["entry"] = Absent
    BY <1>2 DEF Ids
  <2>2. Absent.keys = {}
    BY DEF Absent
  <2>3. entities["work"].keys \cap entities["entry"].keys = {}
    BY <2>1, <2>2
  <2>4. \A i \in {"work", "entry"} : entities[i] = Absent
    BY <2>1
  <2> QED BY <1>1, <2>3, <2>4 DEF ReconciledIsRight
<1> QED BY <1>3, <1>4, <1>5, <1>6, <1>7 DEF InventoryInv

LEMMA InventoryKeeps ==
  ASSUME InventoryInv, [Next]_vars
  PROVE  InventoryInv'
<1>1. CASE UNCHANGED vars
  <2>1. UNCHANGED <<source, registered, entities, findings, lease, lock, runs, desk, settled, faults>>
    BY <1>1 DEF vars, world
  <2>2. TypesHold' /\ RunsHold' /\ DeskHolds'
    BY <2>1 DEF InventoryInv, TypesHold, RunsHold, DeskHolds
  <2>3. SyncedHolds' /\ ReconciledIsRight'
    BY <2>1, Undisturbed DEF InventoryInv
  <2> QED BY <2>2, <2>3 DEF InventoryInv
<1>2. CASE Change \/ Register \/ LeaseExpires \/ Decision
  BY <1>2, WorldKeeps, LeaseKeeps, DecisionKeeps
<1>3. ASSUME NEW r \in Runs, Claim(r) \/ CollectAll(r) \/ CollectSome(r) \/ Apply(r) \/ Fail(r) \/ Request(r)
      PROVE  InventoryInv'
  BY <1>3, ClaimKeeps, ResolveKeeps, SaveKeeps, SyncKeeps, SettleKeeps, RunFailKeeps, RequestKeeps DEF Apply
<1> QED BY <1>1, <1>2, <1>3 DEF Next

\* A run that leaves the lock alone leaves what is reported.
LEMMA StillReported ==
  ASSUME InventoryInv, Reported, \A i \in Ids : entities[i].said # Nothing => entities'[i].said # Nothing,
         lock' = lock, lock # Free => runs'[lock] = runs[lock]
  PROVE  Reported'
BY DEF Reported

LEMMA OnlyCleanRemove ==
  ASSUME InventoryInv, [Next]_vars, Reported, ~Reported'
  PROVE  \/ \E r \in Runs : runs[r].clean /\ runs[r].saw = Nothing /\ runs[r].at = "resolved" /\ runs'[r].at = "saved"
         \/ desk.at = "pin" /\ desk'.at = "record"
         \/ faults' > faults
<1>1. TypesHold /\ RunsHold
  BY DEF InventoryInv
<1>2. CASE UNCHANGED vars \/ Change \/ Register \/ LeaseExpires
  <2>1. UNCHANGED <<entities, lock, runs>>
    BY <1>2 DEF vars, Change, Register, LeaseExpires
  <2> QED BY <2>1, StillReported
<1>3. CASE Decision
  BY <1>3, DecisionKeeps, StillReported
<1>4. ASSUME NEW r \in Runs, Claim(r) \/ CollectAll(r) \/ CollectSome(r) \/ Release(r)
      PROVE  FALSE
  <2>1. UNCHANGED <<entities, lock>> /\ ~Locks(runs[r]) /\ \E x : runs' = [runs EXCEPT ![r] = x]
    <3>1. CASE Claim(r)
      BY <3>1 DEF Claim, Locks
    <3>2. CASE Release(r)
      BY <3>2 DEF Release, Locks
    <3>3. CASE CollectAll(r) \/ CollectSome(r)
      <4>1. PICK saw, clean : Collected(r, saw, clean)
        BY <3>3 DEF CollectAll, CollectSome
      <4>2. runs' = [runs EXCEPT ![r] = [runs[r] EXCEPT !.at = "collected", !.saw = saw, !.clean = clean]]
        BY <1>1, <4>1 DEF Collected, TypesHold
      <4> QED BY <4>1, <4>2 DEF Collected, Locks
    <3> QED BY <1>4, <3>1, <3>2, <3>3
  <2>2. lock # Free => lock \in Runs \ {r}
    BY <1>1, <2>1, OtherHolds
  <2>3. lock # Free => runs'[lock] = runs[lock]
    BY <1>1, <2>1, <2>2 DEF TypesHold
  <2> QED BY <2>1, <2>3, StillReported
<1>5. ASSUME NEW r \in Runs, Resolve(r)
      PROVE  FALSE
  <2>1. lock = Free /\ r # Free /\ \E i \in Ids : entities[i].said # Nothing
    BY <1>5, Constants DEF Resolve, Reported
  <2> QED BY <1>5, <2>1, ResolveKeeps DEF Reported
<1>6. ASSUME NEW r \in Runs, Save(r)
      PROVE  runs[r].clean /\ runs[r].saw = Nothing /\ runs[r].at = "resolved" /\ runs'[r].at = "saved"
  <2>1. runs[r].at = "resolved" /\ runs'[r].at = "saved"
    BY <1>1, <1>6 DEF Save, TypesHold, RunStates
  <2>2. lock = r /\ runs[r].saw = Nothing
    BY <1>6, SaveKeeps DEF Reported
  <2>3. \E i \in Ids : entities[i].said # Nothing
    BY <1>6, <2>2, SaveKeeps DEF Reported
  <2>4. runs[r].clean
    BY <1>6, <2>2, <2>3, SaveKeeps DEF Reported
  <2> QED BY <2>1, <2>2, <2>4
<1>7. ASSUME NEW r \in Runs, Sync(r) \/ Settle(r) \/ Request(r)
      PROVE  FALSE
  BY <1>7, SyncKeeps, SettleKeeps, RequestKeeps DEF Reported
<1>8. ASSUME NEW r \in Runs, Fail(r)
      PROVE  faults' > faults
  BY <1>8, RunFailKeeps
<1> QED BY <1>2, <1>3, <1>4, <1>5, <1>6, <1>7, <1>8 DEF Next, Apply

LEMMA InventoryIsTyped ==
  ASSUME InventoryInv
  PROVE  TypeOK /\ ReconciledIsRight
<1>1. Whole \subseteq Findings
  BY DEF Whole
<1>2. Seq(Whole) \subseteq Seq(Findings)
  BY <1>1, SeqMonotonic
<1> QED BY <1>2 DEF InventoryInv, TypesHold, TypeOK, EntitiesAre

-----------------------------------------------------------------------------
\* However runs of a connector, requests and decisions overlap and fail, what a reconcile leaves
\* undisturbed is right, and only a clean run removes what was reported (run_connector and
\* _reconcile_tenant), for any number of runs, changes, decisions and faults.
THEOREM InventoryHolds == Spec => InventoryIsRight
<1>1. Init => InventoryInv
  BY InventoryStarts
<1>2. InventoryInv /\ [Next]_vars => InventoryInv'
  BY InventoryKeeps
<1>3. InventoryInv => TypeOK /\ ReconciledIsRight
  BY InventoryIsTyped
<1>4. InventoryInv /\ [Next]_vars =>
        [Reported /\ ~Reported' =>
           \/ \E r \in Runs : runs[r].clean /\ runs[r].saw = Nothing /\ runs[r].at = "resolved" /\ runs'[r].at = "saved"
           \/ desk.at = "pin" /\ desk'.at = "record"
           \/ faults' > faults]_vars
  BY OnlyCleanRemove
<1> QED BY <1>1, <1>2, <1>3, <1>4, PTL DEF Spec, InventoryIsRight, OnlyCleanRunsRemove

-----------------------------------------------------------------------------
(* ConnectorRuns: what a run collects, and what it removes.                *)
kind == v1
lists == v2
reading == v3
kept == v4
missing == v5
failed == v6
USE DEF kind, lists, reading, kept, missing, failed

Places == {1, 2}
Collecting == {"begin", "list", "ask", "yield"}

Readings ==
  [at : Collecting \cup {"idle", "done"}, part : Places, last : Nat, pages : Nat, got : SUBSET Things,
   asked : SUBSET Things, out : SUBSET (Places \X Things), obs : 0..MaxObservations,
   warned : BOOLEAN, error : BOOLEAN, truncated : BOOLEAN]

SourceTypes ==
  /\ kind \in SourceKinds /\ lists \in [Source!Parts(kind) -> SUBSET Things]
  /\ reading \in Readings /\ reading.part \in Source!Parts(kind)
  /\ reading.out \subseteq Source!Parts(kind) \X Things
  /\ kept \subseteq Source!Parts(kind) \X Things /\ failed \subseteq Source!Parts(kind)

\* What a source does not have now was missing at some time of the run.
GoneIsMissing ==
  reading.at # "idle" =>
    \A p \in Source!Parts(kind), i \in Things : i \in lists[p] \/ <<p, i>> \in missing

\* Of a part that was read to its end, the run has what was there all the time.
Heard(p) == \A i \in Things : <<p, i>> \in missing \cup reading.out
PartsRead ==
  IF reading.at \in Collecting THEN {p \in Source!Parts(kind) : p < reading.part}
  ELSE IF reading.at = "done" /\ ~reading.error /\ ~reading.truncated THEN Source!Parts(kind) ELSE {}
EndedIsHeard == \A p \in PartsRead \ failed : Heard(p)

\* The same of the list under way, as far as its pages were read, which were full so far.
UpTo(n) == {i \in Things : i <= n}
Listed(i) == i \in reading.got \/ <<reading.part, i>> \in missing
ListHolds ==
  /\ reading.at = "begin" => reading.last = 0 /\ reading.pages = 0 /\ reading.got = {} /\ reading.asked = {}
  /\ reading.at = "list" => /\ reading.pages * PageSize <= Cardinality(UpTo(reading.last))
                            /\ \A i \in UpTo(reading.last) : Listed(i)
                            /\ reading.asked = {}
  /\ reading.at \in {"ask", "yield"} => \A i \in Things : Listed(i)
  /\ reading.at = "ask" /\ kind = "openai_admin" => \A i \in reading.asked : <<reading.part, i>> \in reading.out

\* A failed call leaves its mark on the run, and only a cut at the cap and a call that failed end it
\* early.
MarksHold ==
  /\ reading.at = "idle" => reading = Source!Idle
  /\ reading.at # "idle" => (failed # {} <=> reading.error \/ reading.warned)
  /\ reading.at \in Collecting => ~reading.error /\ ~reading.truncated
  /\ reading.truncated => reading.obs = MaxObservations
  /\ reading.error /\ kind \in {"aws_bedrock", "mcp"} => failed = Source!Parts(kind)

\* A run reads the whole list of each part.
PagesSuffice == Source!ConnectorRunsAssumption /\ Source!ListsFit

SourceInv == SourceTypes /\ GoneIsMissing /\ EndedIsHeard /\ ListHolds /\ MarksHold

-----------------------------------------------------------------------------
\* The instance counts as the library does.
LEMMA SourceCounts ==
  /\ \A S : Source!Cardinality(S) = Cardinality(S)
  /\ \A S : Source!IsFiniteSet(S) <=> IsFiniteSet(S)
BY DEF Source!Cardinality, Cardinality, Source!IsFiniteSet, IsFiniteSet

LEMMA SourceNumbers ==
  ASSUME PagesSuffice
  PROVE  /\ PageSize \in Nat /\ PageSize > 0 /\ MaxPages \in Nat /\ MaxPages > 0
         /\ MaxObservations \in Nat /\ MaxObservations > 0
         /\ Things \subseteq Nat \ {0} /\ IsFiniteSet(Things)
         /\ Cardinality(Things) \in Nat /\ Cardinality(Things) <= PageSize * MaxPages
         /\ SourceKinds \subseteq Source!Kinds
<1>1. {PageSize, MaxPages, MaxObservations} \subseteq Nat \ {0}
  BY DEF PagesSuffice, Source!ListsFit, Source!ConnectorRunsAssumption
<1>2. IsFiniteSet(Things) /\ Cardinality(Things) <= PageSize * MaxPages
  BY SourceCounts DEF PagesSuffice, Source!ListsFit, Source!ConnectorRunsAssumption
<1> QED BY <1>1, <1>2, FS_CardinalityType DEF PagesSuffice, Source!ListsFit, Source!ConnectorRunsAssumption

LEMMA PartsAre ==
  \A k : Source!Parts(k) \subseteq Places /\ 1 \in Source!Parts(k)
         /\ (k = "openai_admin" => Source!Parts(k) = {1}) /\ (k # "openai_admin" => Source!Parts(k) = {1, 2})
BY DEF Source!Parts, Places

\* A finite set of naturals has a least and a largest.
LEMMA HasLeast ==
  ASSUME NEW S \in SUBSET Nat, S # {}
  PROVE  \E i \in S : \A j \in S : i <= j
<1> DEFINE Less == OpToRel(<, Nat)
<1>1. PICK x \in S : \A y \in S : ~ (<<y, x>> \in Less)
  <2> HIDE DEF Less
  <2>1. IsWellFoundedOn(Less, Nat)
    BY NatLessThanWellFounded DEF Less
  <2> QED BY <2>1, WFMin
<1>2. \A y \in S : ~ (y < x)
  BY <1>1 DEF OpToRel
<1> QED BY <1>2

LEMMA HasMost ==
  ASSUME NEW S \in SUBSET Nat, IsFiniteSet(S), S # {}
  PROVE  \E i \in S : \A j \in S : j <= i
<1> DEFINE Above(i) == {j \in S : j > i}
           Counted == {n \in Nat : \E i \in S : n = Cardinality(Above(i))}
<1>1. \A i \in S : IsFiniteSet(Above(i)) /\ Cardinality(Above(i)) \in Nat
  <2> TAKE i \in S
  <2>1. Above(i) \in SUBSET S
    OBVIOUS
  <2> HIDE DEF Above
  <2> QED BY <2>1, FS_Subset, FS_CardinalityType
<1>2. PICK n \in Counted : \A m \in Counted : n <= m
  <2>1. Counted # {} /\ Counted \subseteq Nat
    <3> HIDE DEF Above
    <3> QED BY <1>1
  <2> HIDE DEF Counted
  <2> QED BY <2>1, HasLeast
<1>3. PICK i \in S : n = Cardinality(Above(i))
  OBVIOUS
<1>4. ASSUME NEW j \in S, j > i PROVE FALSE
  <2>1. Above(j) \in SUBSET Above(i) /\ j \in Above(i) /\ j \notin Above(j)
    <3>1. \A k \in S : k \in Nat
      OBVIOUS
    <3>2. \A k \in S : k > j => k > i
      BY <1>4, <3>1
    <3>3. ~ (j > j)
      BY <3>1
    <3> QED BY <1>4, <3>2, <3>3
  <2>2. Cardinality(Above(j)) < Cardinality(Above(i))
    <3> HIDE DEF Above
    <3>1. Cardinality(Above(j)) <= Cardinality(Above(i)) /\ Cardinality(Above(j)) # Cardinality(Above(i))
      BY <1>1, <2>1, FS_Subset
    <3> QED BY <1>1, <3>1
  <2>3. Cardinality(Above(j)) \in Counted
    BY <1>1
  <2> HIDE DEF Above, Counted
  <2> QED BY <1>1, <1>2, <1>3, <2>2, <2>3
<1>5. \A j \in S : j <= i
  BY <1>4
<1> QED BY <1>5

LEMMA LargestIs ==
  ASSUME NEW S \in SUBSET Nat, IsFiniteSet(S), S # {}
  PROVE  Source!Max(S) \in S /\ \A j \in S : j <= Source!Max(S)
<1>1. \E i \in S : \A j \in S : i >= j
  <2>1. PICK i \in S : \A j \in S : j <= i
    BY HasMost
  <2> QED BY <2>1
<1> QED BY <1>1 DEF Source!Max

LEMMA LeastIs ==
  ASSUME NEW S \in SUBSET Nat, S # {}
  PROVE  Source!Min(S) \in S
BY HasLeast DEF Source!Min

-----------------------------------------------------------------------------
\* The first n of a finite set: a page.
First(S, n) == {i \in S : Cardinality({j \in S : j < i}) < n}

\* A page is all that is left, or it is full; and it has everything up to its last.
LEMMA PageIs ==
  ASSUME NEW S \in SUBSET Nat, IsFiniteSet(S), NEW n \in Nat
  PROVE  /\ IsFiniteSet(First(S, n)) /\ Cardinality(First(S, n)) \in Nat
         /\ First(S, n) # S => Cardinality(First(S, n)) >= n
         /\ \A i \in S, m \in First(S, n) : i <= m => i \in First(S, n)
<1> DEFINE Before(i) == {j \in S : j < i}
<1>1. \A i \in Nat : IsFiniteSet(Before(i)) /\ Cardinality(Before(i)) \in Nat
  <2> TAKE i \in Nat
  <2>1. Before(i) \in SUBSET S
    OBVIOUS
  <2> HIDE DEF Before
  <2> QED BY <2>1, FS_Subset, FS_CardinalityType
<1>2. First(S, n) \in SUBSET S /\ First(S, n) = {i \in S : Cardinality(Before(i)) < n}
  BY DEF First
<1>3. IsFiniteSet(First(S, n)) /\ Cardinality(First(S, n)) \in Nat
  BY <1>2, FS_Subset, FS_CardinalityType
<1>4. ASSUME First(S, n) # S PROVE Cardinality(First(S, n)) >= n
  <2>1. PICK x \in S \ First(S, n) : \A y \in S \ First(S, n) : x <= y
    <3>1. S \ First(S, n) # {} /\ S \ First(S, n) \in SUBSET Nat
      BY <1>2, <1>4
    <3> QED BY <3>1, HasLeast
  <2>2. Before(x) \in SUBSET First(S, n)
    <3>1. \A k \in S : k \in Nat
      OBVIOUS
    <3>2. \A k \in S : k < x => ~ (x <= k)
      BY <2>1, <3>1
    <3> QED BY <2>1, <3>2
  <2>3. Cardinality(Before(x)) >= n
    <3> HIDE DEF Before
    <3> QED BY <1>1, <1>2, <2>1
  <2>4. Cardinality(Before(x)) <= Cardinality(First(S, n))
    <3> HIDE DEF Before
    <3> QED BY <1>3, <2>2, FS_Subset
  <2> HIDE DEF Before
  <2> QED BY <1>1, <1>3, <2>1, <2>3, <2>4
<1>5. ASSUME NEW i \in S, NEW m \in First(S, n), i <= m PROVE i \in First(S, n)
  <2>1. Before(i) \in SUBSET Before(m) /\ m \in S
    <3>1. \A k \in S : k \in Nat
      OBVIOUS
    <3>2. m \in S
      BY <1>2, <1>5
    <3>3. \A k \in S : k < i => k < m
      BY <1>5, <3>1, <3>2
    <3> QED BY <3>2, <3>3
  <2> HIDE DEF Before
  <2>2. Cardinality(Before(i)) <= Cardinality(Before(m))
    BY <1>1, <2>1, FS_Subset
  <2> QED BY <1>1, <1>2, <2>1, <2>2
<1> QED BY <1>3, <1>4, <1>5

-----------------------------------------------------------------------------
Still == kind' = kind /\ lists' = lists /\ kept' = kept /\ missing' = missing

\* A step within a part.
LEMMA GoesOn ==
  ASSUME SourceInv, reading.at \in Collecting, Still, failed' = failed,
         reading' \in Readings, reading'.at \in Collecting, reading'.part = reading.part,
         reading.out \subseteq reading'.out, reading'.out \subseteq Source!Parts(kind) \X Things,
         ~reading'.error, ~reading'.truncated, reading'.warned = reading.warned, ListHolds'
  PROVE  SourceInv'
<1>1. SourceTypes'
  BY DEF SourceInv, SourceTypes, Still
<1>2. GoneIsMissing'
  BY DEF SourceInv, GoneIsMissing, Still, Collecting
<1>3. EndedIsHeard'
  BY DEF SourceInv, EndedIsHeard, PartsRead, Heard, Still
<1>4. MarksHold'
  BY DEF SourceInv, MarksHold, Still, Collecting
<1> QED BY <1>1, <1>2, <1>3, <1>4 DEF SourceInv

\* A step that ends the run early.
LEMMA Stops ==
  ASSUME SourceInv, reading.at \in Collecting, Still, failed' \subseteq Source!Parts(kind),
         reading' \in Readings, reading'.at = "done", reading'.part = reading.part,
         reading'.out \subseteq Source!Parts(kind) \X Things,
         reading'.error \/ reading'.truncated, failed' # {} <=> reading'.error \/ reading'.warned,
         reading'.truncated => reading'.obs = MaxObservations,
         reading'.error /\ kind \in {"aws_bedrock", "mcp"} => failed' = Source!Parts(kind)
  PROVE  SourceInv'
<1>1. SourceTypes'
  BY DEF SourceInv, SourceTypes, Still
<1>2. GoneIsMissing'
  BY DEF SourceInv, GoneIsMissing, Still, Collecting
<1>3. PartsRead' = {}
  BY DEF PartsRead, Collecting
<1>4. EndedIsHeard' /\ ListHolds'
  BY <1>3 DEF EndedIsHeard, ListHolds
<1>5. MarksHold'
  BY DEF MarksHold, Still, Collecting
<1> QED BY <1>1, <1>2, <1>4, <1>5 DEF SourceInv

\* A step that ends a part, which was heard or has failed.
LEMMA PartEnds ==
  ASSUME SourceInv, reading.at \in Collecting, Still,
         NEW r \in Readings, r.part = reading.part, reading.out \subseteq r.out,
         r.out \subseteq Source!Parts(kind) \X Things, ~r.error, ~r.truncated,
         failed \subseteq failed', failed' \subseteq failed \cup {reading.part},
         failed' # {} <=> r.warned,
         reading.part \in failed' \/ \A i \in Things : <<reading.part, i>> \in missing \cup r.out,
         reading' = Source!NextPart(r)
  PROVE  SourceInv'
<1> DEFINE more == r.part + 1 \in Source!Parts(kind)
<1>1. r.part \in Source!Parts(kind) /\ r.part \in Places
  BY DEF SourceInv, SourceTypes, Readings
<1>2. /\ reading'.at = IF more THEN "begin" ELSE "done"
      /\ reading'.part = IF more THEN r.part + 1 ELSE r.part
      /\ reading'.last = 0 /\ reading'.pages = 0 /\ reading'.got = {} /\ reading'.asked = {}
      /\ reading'.out = r.out /\ reading'.obs = r.obs /\ reading'.warned = r.warned
      /\ reading'.error = r.error /\ reading'.truncated = r.truncated
  BY DEF Source!NextPart, Readings, Collecting
<1>3. reading' \in Readings
  BY <1>1, PartsAre DEF Source!NextPart, Readings, Collecting
<1>4. SourceTypes'
  BY <1>1, <1>2, <1>3 DEF SourceInv, SourceTypes, Still
<1>5. GoneIsMissing'
  BY DEF SourceInv, GoneIsMissing, Still, Collecting
<1>6. EndedIsHeard'
  <2> SUFFICES ASSUME NEW p \in PartsRead', p \notin failed'
               PROVE  Heard(p)'
    BY DEF EndedIsHeard
  <2>1. p \in Source!Parts(kind) /\ p \in Places
    BY PartsAre DEF PartsRead, Still
  <2>2. p <= reading.part
    <3>1. CASE more
      <4>1. p < reading'.part
        BY <1>2, <3>1 DEF PartsRead, Collecting
      <4> QED BY <1>1, <1>2, <2>1, <3>1, <4>1 DEF Places
    <3>2. CASE ~more
      BY <1>1, <2>1, <3>2, PartsAre DEF Places
    <3> QED BY <3>1, <3>2
  <2>3. CASE p = reading.part
    BY <1>2, <2>3 DEF Heard, Still
  <2>4. CASE p # reading.part
    <3>1. p \in PartsRead \ failed
      BY <1>1, <2>1, <2>2, <2>4 DEF PartsRead, Places
    <3>2. Heard(p)
      BY <3>1 DEF SourceInv, EndedIsHeard
    <3> QED BY <1>2, <3>2 DEF Heard, Still
  <2> QED BY <2>3, <2>4
<1>7. ListHolds'
  BY <1>2 DEF ListHolds
<1>8. MarksHold'
  BY <1>2, <1>3 DEF SourceInv, MarksHold, Still, Collecting, Readings
<1> QED BY <1>4, <1>5, <1>6, <1>7, <1>8 DEF SourceInv

\* A failed call ends the run or the part.
LEMMA FailsKeeps ==
  ASSUME PagesSuffice, SourceInv, reading.at \in Collecting, Still, Source!Fails
  PROVE  SourceInv'
<1>1. failed' = failed \cup {reading.part} /\ failed' \subseteq Source!Parts(kind)
  BY DEF Source!Fails, SourceInv, SourceTypes
<1>2. CASE Source!EndsRun(kind, reading.part)
  <2>1. reading' = [reading EXCEPT !.at = "done", !.error = TRUE]
    BY <1>2 DEF Source!Fails
  <2>2. reading' \in Readings /\ reading'.at = "done" /\ reading'.part = reading.part /\ reading'.error
        /\ reading'.out = reading.out /\ reading'.truncated = reading.truncated /\ reading'.obs = reading.obs
    BY <2>1 DEF SourceInv, SourceTypes, Readings
  <2>3. kind \notin {"aws_bedrock", "mcp"}
    BY <1>2 DEF Source!EndsRun
  <2> QED BY <1>1, <2>2, <2>3, Stops DEF SourceInv, SourceTypes, MarksHold
<1>3. CASE ~Source!EndsRun(kind, reading.part)
  <2> DEFINE r == [reading EXCEPT !.warned = TRUE]
  <2>1. reading' = Source!NextPart(r)
    BY <1>3 DEF Source!Fails, Source!Skipped
  <2>2. /\ r \in Readings /\ r.part = reading.part /\ r.out = reading.out /\ r.warned
        /\ r.error = reading.error /\ r.truncated = reading.truncated
    BY DEF SourceInv, SourceTypes, Readings
  <2>3. ~r.error /\ ~r.truncated /\ r.out \subseteq Source!Parts(kind) \X Things
    BY <2>2 DEF SourceInv, MarksHold, SourceTypes
  <2> HIDE DEF r
  <2> QED BY <1>1, <2>1, <2>2, <2>3, PartEnds
<1> QED BY <1>2, <1>3

-----------------------------------------------------------------------------
LEMMA AllOfIs ==
  \A k, s, p, i : <<p, i>> \in Source!AllOf(k, s) <=> p \in Source!Parts(k) /\ i \in s[p]
BY DEF Source!AllOf

LEMMA SourceIdleIs ==
  ASSUME MaxObservations \in Nat
  PROVE  /\ Source!Idle \in Readings /\ Source!Idle.at = "idle" /\ Source!Idle.part = 1 /\ Source!Idle.out = {}
         /\ Source!Idle.last = 0 /\ Source!Idle.pages = 0 /\ Source!Idle.got = {} /\ Source!Idle.asked = {}
         /\ ~Source!Idle.warned /\ ~Source!Idle.error /\ ~Source!Idle.truncated
BY DEF Source!Idle, Readings, Places

LEMMA SourceInitHolds ==
  ASSUME PagesSuffice, Source!Init PROVE SourceInv
<1>1. SourceTypes
  BY SourceNumbers, SourceIdleIs, PartsAre DEF Source!Init, SourceTypes
<1>2. GoneIsMissing /\ EndedIsHeard /\ ListHolds
  BY SourceNumbers, SourceIdleIs DEF Source!Init, GoneIsMissing, EndedIsHeard, PartsRead, ListHolds, Collecting
<1>3. MarksHold
  BY SourceNumbers, SourceIdleIs DEF Source!Init, MarksHold, Collecting
<1> QED BY <1>1, <1>2, <1>3 DEF SourceInv

LEMMA ChangeKeeps ==
  ASSUME PagesSuffice, SourceInv, Source!Change PROVE SourceInv'
<1> DEFINE every == [p \in Source!Parts(kind) |-> Things]
<1>1. /\ kind' = kind /\ reading' = reading /\ kept' = kept /\ failed' = failed
      /\ missing \subseteq missing'
      /\ missing' = missing \cup (Source!AllOf(kind, every) \ Source!AllOf(kind, lists'))
  BY DEF Source!Change
<1>2. lists' \in [Source!Parts(kind) -> SUBSET Things]
  BY DEF Source!Change, SourceInv, SourceTypes
<1>3. SourceTypes'
  BY <1>1, <1>2 DEF SourceInv, SourceTypes
<1>4. GoneIsMissing'
  <2> SUFFICES ASSUME NEW p \in Source!Parts(kind), NEW i \in Things, i \notin lists'[p]
               PROVE  <<p, i>> \in missing'
    BY <1>1 DEF GoneIsMissing
  <2>1. i \in every[p]
    OBVIOUS
  <2>2. <<p, i>> \in Source!AllOf(kind, every) \ Source!AllOf(kind, lists')
    <3> HIDE DEF every
    <3> QED BY <2>1, AllOfIs
  <2> QED BY <1>1, <2>2
<1>5. EndedIsHeard'
  BY <1>1 DEF SourceInv, EndedIsHeard, PartsRead, Heard
<1>6. ListHolds'
  BY <1>1 DEF SourceInv, ListHolds, Listed, UpTo
<1>7. MarksHold'
  BY <1>1 DEF SourceInv, MarksHold
<1> QED BY <1>3, <1>4, <1>5, <1>6, <1>7 DEF SourceInv

LEMMA SourceClaimKeeps ==
  ASSUME PagesSuffice, SourceInv, Source!Claim PROVE SourceInv'
<1> DEFINE every == [p \in Source!Parts(kind) |-> Things]
<1>1. /\ kind' = kind /\ lists' = lists /\ kept' = kept /\ failed' = {}
      /\ missing' = Source!AllOf(kind, every) \ Source!AllOf(kind, lists)
      /\ reading' = [Source!Idle EXCEPT !.at = "begin"]
  BY DEF Source!Claim
<1>2. /\ reading' \in Readings /\ reading'.at = "begin" /\ reading'.part = 1 /\ reading'.out = {}
      /\ reading'.last = 0 /\ reading'.pages = 0 /\ reading'.got = {} /\ reading'.asked = {}
      /\ ~reading'.warned /\ ~reading'.error /\ ~reading'.truncated
  BY <1>1, SourceNumbers, SourceIdleIs DEF Readings, Collecting
<1>3. SourceTypes'
  BY <1>1, <1>2, PartsAre DEF SourceInv, SourceTypes
<1>4. GoneIsMissing'
  <2> SUFFICES ASSUME NEW p \in Source!Parts(kind), NEW i \in Things, i \notin lists[p]
               PROVE  <<p, i>> \in missing'
    BY <1>1 DEF GoneIsMissing
  <2>1. i \in every[p]
    OBVIOUS
  <2> HIDE DEF every
  <2> QED BY <1>1, <2>1, AllOfIs
<1>5. PartsRead' = {}
  BY <1>2, PartsAre DEF PartsRead, Collecting, Places
<1>6. EndedIsHeard' /\ ListHolds' /\ MarksHold'
  BY <1>1, <1>2, <1>5 DEF EndedIsHeard, ListHolds, MarksHold, Collecting
<1> QED BY <1>3, <1>4, <1>6 DEF SourceInv

LEMMA BeginKeeps ==
  ASSUME PagesSuffice, SourceInv, Source!Begin PROVE SourceInv'
<1>1. reading.at = "begin" /\ reading.at \in Collecting /\ Still
  BY DEF Source!Begin, Source!Collecting, Still, Collecting
<1>2. CASE reading' = [reading EXCEPT !.at = "list"] /\ failed' = failed
  <2>1. /\ reading' \in Readings /\ reading'.at = "list" /\ reading'.part = reading.part /\ reading'.out = reading.out
        /\ reading'.error = reading.error /\ reading'.truncated = reading.truncated /\ reading'.warned = reading.warned
        /\ reading'.last = 0 /\ reading'.pages = 0 /\ reading'.got = {} /\ reading'.asked = {}
    BY <1>1, <1>2 DEF SourceInv, SourceTypes, ListHolds, Readings, Collecting
  <2>2. UpTo(0) = {}
    BY SourceNumbers DEF UpTo
  <2>3. 0 * PageSize <= Cardinality({})
    BY SourceNumbers, FS_EmptySet
  <2>4. ListHolds'
    BY <2>1, <2>2, <2>3 DEF ListHolds, UpTo
  <2> QED BY <1>1, <1>2, <2>1, <2>4, GoesOn DEF Collecting, SourceInv, SourceTypes, MarksHold
<1>3. CASE Source!Fails
  BY <1>1, <1>3, FailsKeeps
<1>4. CASE /\ kind = "aws_bedrock" /\ failed' = Source!Parts(kind)
           /\ reading' = [reading EXCEPT !.at = "done", !.error = TRUE]
  <2>1. /\ reading' \in Readings /\ reading'.at = "done" /\ reading'.part = reading.part /\ reading'.error
        /\ reading'.out = reading.out /\ reading'.truncated = reading.truncated /\ reading'.obs = reading.obs
    BY <1>4 DEF SourceInv, SourceTypes, Readings
  <2> QED BY <1>1, <1>4, <2>1, PartsAre, Stops DEF SourceInv, SourceTypes, MarksHold
<1> QED BY <1>2, <1>3, <1>4 DEF Source!Begin, Source!Fault

LEMMA UnknownKeeps ==
  ASSUME PagesSuffice, SourceInv, Source!Unknown PROVE SourceInv'
<1>1. /\ reading.at = "list" /\ reading.at \in Collecting /\ Still /\ failed' = failed
      /\ kind = "kubernetes" /\ reading.part = 2 /\ lists[reading.part] = {}
  BY DEF Source!Unknown, Source!Collecting, Still, Collecting
<1>2. reading' = Source!NextPart(reading)
  BY <1>1 DEF Source!Unknown, Source!Optional
<1>3. \A i \in Things : <<reading.part, i>> \in missing
  BY <1>1 DEF SourceInv, GoneIsMissing, SourceTypes
<1> QED BY <1>1, <1>2, <1>3, PartEnds DEF SourceInv, SourceTypes, MarksHold

LEMMA ApplyKeeps ==
  ASSUME PagesSuffice, SourceInv, Source!Apply PROVE SourceInv'
<1>1. /\ kind' = kind /\ lists' = lists /\ missing' = missing /\ failed' = failed
      /\ reading' = Source!Idle /\ kept' \subseteq kept \cup reading.out
  BY DEF Source!Apply
<1>2. SourceTypes'
  BY <1>1, SourceNumbers, SourceIdleIs, PartsAre DEF SourceInv, SourceTypes
<1>3. GoneIsMissing' /\ EndedIsHeard' /\ ListHolds'
  BY <1>1, SourceNumbers, SourceIdleIs DEF GoneIsMissing, EndedIsHeard, PartsRead, ListHolds, Collecting
<1>4. MarksHold'
  BY <1>1, SourceNumbers, SourceIdleIs DEF MarksHold, Collecting
<1> QED BY <1>2, <1>3, <1>4 DEF SourceInv

-----------------------------------------------------------------------------
LEMMA Products ==
  ASSUME NEW a \in Nat, NEW b \in Nat, NEW n \in Nat, n > 0
  PROVE  /\ a * n \in Nat /\ (a + 1) * n = a * n + n
         /\ a >= b => b * n <= a * n
<1>1. a * n \in Nat /\ (a + 1) * n = a * n + n
  OBVIOUS
<1>2. ASSUME a >= b PROVE b * n <= a * n
  <2>1. PICK d \in Nat : a = b + d
    <3>1. a - b \in Nat /\ a = b + (a - b)
      BY <1>2
    <3> QED BY <3>1
  <2>2. a * n = b * n + d * n
    BY <2>1
  <2>3. d * n \in Nat /\ b * n \in Nat
    OBVIOUS
  <2> QED BY <2>2, <2>3
<1> QED BY <1>1, <1>2

LEMMA UpToIs ==
  ASSUME PagesSuffice, NEW n
  PROVE  IsFiniteSet(UpTo(n)) /\ Cardinality(UpTo(n)) \in Nat /\ Cardinality(UpTo(n)) <= Cardinality(Things)
<1>1. UpTo(n) \in SUBSET Things
  BY DEF UpTo
<1> QED BY <1>1, SourceNumbers, FS_Subset, FS_CardinalityType

\* With a page read, what is listed goes on without a gap to the page's last, and the pages before
\* the list's end are full: as many as are read are enough for a list that fits.
LEMMA PageReaches ==
  ASSUME PagesSuffice, SourceInv, reading.at = "list",
         NEW page, page = First({i \in lists[reading.part] : i > reading.last}, PageSize),
         NEW last, last = IF page = {} THEN reading.last ELSE Source!Max(page)
  PROVE  /\ page \subseteq Things /\ last \in Nat
         /\ \A i \in UpTo(last) : Listed(i) \/ i \in page
         /\ page = {i \in lists[reading.part] : i > reading.last} => \A i \in Things : Listed(i) \/ i \in page
         /\ page # {i \in lists[reading.part] : i > reading.last} =>
              /\ (reading.pages + 1) * PageSize <= Cardinality(UpTo(last))
              /\ reading.pages + 1 >= MaxPages => \A i \in Things : Listed(i) \/ i \in page
<1> DEFINE rest == {i \in lists[reading.part] : i > reading.last}
<1>1. /\ reading.last \in Nat /\ reading.pages \in Nat /\ reading.part \in Source!Parts(kind)
      /\ lists[reading.part] \subseteq Things /\ Things \subseteq Nat
  BY SourceNumbers DEF SourceInv, SourceTypes, Readings
<1>2. \A i \in Things : i \in lists[reading.part] \/ Listed(i)
  BY <1>1 DEF SourceInv, GoneIsMissing, Listed
<1>3. \A i \in UpTo(reading.last) : Listed(i)
  BY DEF SourceInv, ListHolds
<1>4. rest \in SUBSET Nat /\ rest \in SUBSET Things /\ IsFiniteSet(rest)
  <2>1. rest \in SUBSET Nat /\ rest \in SUBSET Things
    BY <1>1
  <2> HIDE DEF rest
  <2> QED BY <2>1, SourceNumbers, FS_Subset
<1>5. page = First(rest, PageSize) /\ page \subseteq rest
  BY DEF First
<1>6. /\ IsFiniteSet(page) /\ Cardinality(page) \in Nat
      /\ page # rest => Cardinality(page) >= PageSize
      /\ \A i \in rest, m \in page : i <= m => i \in page
  <2> HIDE DEF rest
  <2> QED BY <1>4, <1>5, SourceNumbers, PageIs
<1>7. last \in Nat /\ last >= reading.last /\ \A i \in page : i <= last
  <2>1. CASE page = {}
    BY <1>1, <2>1
  <2>2. CASE page # {}
    <3>1. page \in SUBSET Nat
      BY <1>4, <1>5
    <3>2. last \in page /\ \A i \in page : i <= last
      BY <1>6, <2>2, <3>1, LargestIs
    <3>3. last \in Nat /\ last > reading.last
      BY <1>5, <3>1, <3>2
    <3> QED BY <1>1, <3>2, <3>3
  <2> QED BY <2>1, <2>2
<1>8. \A i \in UpTo(last) : Listed(i) \/ i \in page
  <2> SUFFICES ASSUME NEW i \in Things, i <= last, ~Listed(i)
               PROVE  i \in page
    BY DEF UpTo
  <2>1. i \in Nat /\ i \in lists[reading.part] /\ ~(i <= reading.last)
    BY <1>1, <1>2, <1>3 DEF UpTo
  <2>2. i \in rest
    BY <1>1, <2>1
  <2>3. page # {} /\ last = Source!Max(page)
    BY <2>1
  <2>4. last \in page
    BY <1>4, <1>5, <1>6, <2>3, LargestIs
  <2> HIDE DEF rest
  <2> QED BY <1>6, <2>2, <2>4
<1>9. ASSUME page = rest PROVE \A i \in Things : Listed(i) \/ i \in page
  <2> SUFFICES ASSUME NEW i \in Things, ~Listed(i)
               PROVE  i \in page
    OBVIOUS
  <2>1. i \in Nat /\ i \in lists[reading.part] /\ ~(i <= reading.last)
    BY <1>1, <1>2, <1>3 DEF UpTo
  <2> QED BY <1>1, <1>9, <2>1
<1>10. ASSUME page # rest
       PROVE  /\ (reading.pages + 1) * PageSize <= Cardinality(UpTo(last))
              /\ reading.pages + 1 >= MaxPages => \A i \in Things : Listed(i) \/ i \in page
  <2>1. UpTo(reading.last) \cap page = {}
    <3>1. \A i \in Things : i \in Nat
      BY <1>1
    <3>2. \A i \in page : i \in Things /\ i > reading.last
      BY <1>4, <1>5
    <3>3. \A i \in page : ~(i <= reading.last)
      <4>1. \A i \in Nat : i > reading.last => ~(i <= reading.last)
        BY <1>1
      <4> QED BY <3>1, <3>2, <4>1
    <3> QED BY <3>3 DEF UpTo
  <2>2. UpTo(reading.last) \cup page \in SUBSET UpTo(last)
    <3>1. \A i \in Things : i <= reading.last => i <= last
      <4>1. \A i \in Nat : i <= reading.last => i <= last
        BY <1>1, <1>7
      <4> QED BY <1>1, <4>1
    <3> QED BY <1>4, <1>5, <1>7, <3>1 DEF UpTo
  <2>3. Cardinality(UpTo(reading.last) \cup page) = Cardinality(UpTo(reading.last)) + Cardinality(page)
    <3>1. IsFiniteSet(UpTo(reading.last)) /\ Cardinality(UpTo(reading.last)) \in Nat
      BY UpToIs
    <3>2. Cardinality(UpTo(reading.last) \cup page) = Cardinality(UpTo(reading.last)) + Cardinality(page) - Cardinality({})
      BY <1>6, <2>1, <3>1, FS_Union
    <3> DEFINE c == Cardinality(UpTo(reading.last))
               p == Cardinality(page)
    <3>3. c \in Nat /\ p \in Nat /\ Cardinality({}) = 0
      BY <1>6, <3>1, FS_EmptySet
    <3> HIDE DEF c, p
    <3>4. c + p - 0 = c + p
      BY <3>3
    <3> QED BY <3>2, <3>3, <3>4 DEF c, p
  <2>4. Cardinality(UpTo(reading.last) \cup page) <= Cardinality(UpTo(last))
    BY <2>2, UpToIs, FS_Subset
  <2>5. reading.pages * PageSize <= Cardinality(UpTo(reading.last))
    BY DEF SourceInv, ListHolds
  <2>6. (reading.pages + 1) * PageSize <= Cardinality(UpTo(last))
    <3> DEFINE c == Cardinality(UpTo(reading.last))
               d == Cardinality(UpTo(last))
               p == Cardinality(page)
               done == reading.pages * PageSize
               next == (reading.pages + 1) * PageSize
    <3>1. c \in Nat /\ d \in Nat /\ p \in Nat /\ PageSize \in Nat
      BY <1>6, UpToIs, SourceNumbers
    <3>2. done \in Nat /\ next = done + PageSize
      BY <1>1, SourceNumbers, Products
    <3>3. done <= c /\ c + p <= d
      BY <2>3, <2>4, <2>5
    <3>4. p >= PageSize
      BY <1>6, <1>10
    <3> HIDE DEF c, d, p, done, next
    <3>5. next <= d
      BY <3>1, <3>2, <3>3, <3>4
    <3> QED BY <3>5 DEF next, d
  <2>7. ASSUME reading.pages + 1 >= MaxPages PROVE \A i \in Things : Listed(i) \/ i \in page
    <3> DEFINE next == (reading.pages + 1) * PageSize
               all1 == MaxPages * PageSize
               d == Cardinality(UpTo(last))
               n == Cardinality(Things)
    <3>1. d \in Nat /\ n \in Nat /\ d <= n
      BY UpToIs, SourceNumbers
    <3>2. next \in Nat /\ all1 \in Nat /\ all1 <= next
      <4>1. reading.pages + 1 \in Nat /\ MaxPages \in Nat
        BY <1>1, SourceNumbers
      <4> HIDE DEF next, all1
      <4> QED BY <2>7, <4>1, SourceNumbers, Products DEF next, all1
    <3>3. n <= all1
      BY SourceNumbers
    <3>4. next <= d
      BY <2>6
    <3> HIDE DEF next, all1, d, n
    <3>5. d = n
      BY <3>1, <3>2, <3>3, <3>4
    <3>6. UpTo(last) = Things
      BY <3>5, SourceNumbers, FS_Subset DEF d, n, UpTo
    <3> QED BY <1>8, <3>6
  <2> QED BY <2>6, <2>7
<1> QED BY <1>4, <1>5, <1>7, <1>8, <1>9, <1>10

LEMMA PageKeeps ==
  ASSUME PagesSuffice, SourceInv, Source!Page PROVE SourceInv'
<1> DEFINE rest == {i \in lists[reading.part] : i > reading.last}
           page == First(rest, PageSize)
           last == IF page = {} THEN reading.last ELSE Source!Max(page)
           more == rest # page /\ reading.pages + 1 < MaxPages
           next == IF more THEN "list" ELSE IF Source!AsksAgain(kind) THEN "ask" ELSE "yield"
<1>1. reading.at = "list" /\ reading.at \in Collecting /\ Still
  BY DEF Source!Page, Source!Collecting, Still, Collecting
<1>2. page = {i \in rest : Source!Cardinality({j \in rest : j < i}) < PageSize}
  BY SourceCounts DEF First
<1>3. \/ /\ reading' = [reading EXCEPT !.got = reading.got \cup page, !.last = last, !.pages = reading.pages + 1, !.at = next]
         /\ failed' = failed
      \/ Source!Fault
  BY <1>2 DEF Source!Page
<1>4. CASE /\ reading' = [reading EXCEPT !.got = reading.got \cup page, !.last = last, !.pages = reading.pages + 1, !.at = next]
           /\ failed' = failed
  <2>1. /\ page \subseteq Things /\ last \in Nat
        /\ \A i \in UpTo(last) : Listed(i) \/ i \in page
        /\ page = rest => \A i \in Things : Listed(i) \/ i \in page
        /\ page # rest => /\ (reading.pages + 1) * PageSize <= Cardinality(UpTo(last))
                          /\ reading.pages + 1 >= MaxPages => \A i \in Things : Listed(i) \/ i \in page
    BY <1>1, PageReaches
  <2>2. next \in {"list", "ask", "yield"} /\ (next = "list" <=> more)
    OBVIOUS
  <2>3. more <=> (rest # page /\ ~(reading.pages + 1 >= MaxPages))
    BY SourceNumbers DEF SourceInv, SourceTypes, Readings
  <2> HIDE DEF rest, page, last, more, next
  <2>4. /\ reading' \in Readings /\ reading'.at = next /\ reading'.part = reading.part /\ reading'.out = reading.out
        /\ reading'.error = reading.error /\ reading'.truncated = reading.truncated /\ reading'.warned = reading.warned
        /\ reading'.last = last /\ reading'.pages = reading.pages + 1 /\ reading'.got = reading.got \cup page
        /\ reading'.asked = {}
    <3>1. reading \in Readings /\ reading.asked = {}
      BY <1>1 DEF SourceInv, SourceTypes, ListHolds
    <3>2. next \in Collecting \cup {"idle", "done"}
      BY <2>2 DEF Collecting
    <3>3. reading.pages + 1 \in Nat /\ reading.got \cup page \in SUBSET Things
      BY <2>1, <3>1 DEF Readings
    <3> QED BY <1>4, <2>1, <3>1, <3>2, <3>3 DEF Readings
  <2>5. \A i : Listed(i)' <=> Listed(i) \/ i \in page
    BY <1>1, <2>4 DEF Listed, Still
  <2>6. ListHolds'
    <3>1. CASE more
      BY <2>1, <2>2, <2>3, <2>4, <2>5, <3>1 DEF ListHolds, UpTo
    <3>2. CASE ~more
      BY <2>1, <2>2, <2>3, <2>4, <2>5, <3>2 DEF ListHolds
    <3> QED BY <3>1, <3>2
  <2> QED BY <1>1, <1>4, <2>2, <2>4, <2>6, GoesOn DEF Collecting, SourceInv, SourceTypes, MarksHold
<1>5. CASE Source!Fault
  BY <1>1, <1>5, FailsKeeps DEF Source!Fault
<1> QED BY <1>3, <1>4, <1>5

-----------------------------------------------------------------------------
\* What the run takes of what is offered: all of it, or it is cut and ends.
LEMMA YieldedIs ==
  ASSUME PagesSuffice, NEW r \in Readings, r.at \in Collecting,
         NEW things \in SUBSET (Places \X Things)
  PROVE  LET y == Source!Yielded(r, things) IN
         /\ y \in Readings /\ y.part = r.part /\ y.last = r.last /\ y.pages = r.pages /\ y.got = r.got
         /\ y.asked = r.asked /\ y.error = r.error /\ y.warned = r.warned
         /\ r.out \subseteq y.out /\ y.out \subseteq r.out \cup things
         /\ y.truncated => y.obs = MaxObservations /\ y.at = "done"
         /\ ~y.truncated => y.at = r.at /\ y.out = r.out \cup things
<1> DEFINE room == MaxObservations - r.obs
           offered == Source!Observations(kind, things)
           cut == offered > room
           taken == IF ~cut THEN things
                    ELSE IF kind = "mcp" THEN {} ELSE {t \in things : Source!Cardinality({u \in things : u[2] < t[2]}) < room}
           y == Source!Yielded(r, things)
<1>1. offered \in Nat
  <2>1. Places \X Things = {1} \X Things \cup {2} \X Things
    BY DEF Places
  <2>2. IsFiniteSet(Places)
    <3>1. IsFiniteSet({1}) /\ Places = {1} \cup {2}
      BY FS_Singleton DEF Places
    <3> QED BY <3>1, FS_AddElement
  <2>3. IsFiniteSet(Places \X Things)
    BY <2>2, SourceNumbers, FS_Product
  <2>4. Cardinality(things) \in Nat
    BY <2>3, FS_Subset, FS_CardinalityType
  <2> QED BY <2>4, SourceCounts DEF Source!Observations
<1>2. y = [r EXCEPT !.out = r.out \cup taken, !.obs = IF cut THEN MaxObservations ELSE r.obs + offered,
                    !.truncated = cut, !.at = IF cut THEN "done" ELSE r.at]
  BY DEF Source!Yielded
<1>3. taken \subseteq things /\ (~cut => taken = things) /\ cut \in BOOLEAN
  OBVIOUS
<1>4. ~cut => r.obs + offered \in 0..MaxObservations
  BY <1>1, SourceNumbers DEF Readings
<1> HIDE DEF room, offered, cut, taken, y
<1>5. MaxObservations \in 0..MaxObservations
  BY SourceNumbers
<1>6. y \in Readings
  BY <1>2, <1>3, <1>4, <1>5 DEF Readings
<1>7. /\ y.part = r.part /\ y.last = r.last /\ y.pages = r.pages /\ y.got = r.got
      /\ y.asked = r.asked /\ y.error = r.error /\ y.warned = r.warned /\ y.out = r.out \cup taken
      /\ y.truncated = cut /\ y.obs = (IF cut THEN MaxObservations ELSE r.obs + offered)
      /\ y.at = (IF cut THEN "done" ELSE r.at)
  BY <1>2 DEF Readings
<1> QED BY <1>3, <1>6, <1>7 DEF y

LEMMA AskKeeps ==
  ASSUME PagesSuffice, SourceInv, Source!Ask PROVE SourceInv'
<1> DEFINE left == reading.got \ reading.asked
           i == Source!Min(left)
           asked == [reading EXCEPT !.asked = reading.asked \cup {i}]
<1>1. reading.at = "ask" /\ reading.at \in Collecting /\ Still /\ left # {}
  BY DEF Source!Ask, Source!Collecting, Still, Collecting
<1>2. i \in left /\ i \in Things
  <2>1. left \in SUBSET Nat /\ left \in SUBSET Things
    BY SourceNumbers DEF SourceInv, SourceTypes, Readings
  <2> HIDE DEF left
  <2> QED BY <1>1, <2>1, LeastIs
<1>3. \/ /\ failed' = failed
         /\ reading' = IF kind = "openai_admin" THEN Source!Yielded(asked, {<<reading.part, i>>}) ELSE asked
      \/ Source!Fails
  BY DEF Source!Ask, Source!Fault
<1> HIDE DEF left, i
<1>4. /\ asked \in Readings /\ asked.part = reading.part /\ asked.got = reading.got /\ asked.out = reading.out
      /\ asked.error = reading.error /\ asked.truncated = reading.truncated /\ asked.warned = reading.warned
      /\ asked.at = "ask" /\ asked.asked = reading.asked \cup {i}
  BY <1>1, <1>2 DEF SourceInv, SourceTypes, Readings
<1> HIDE DEF asked
<1>5. \A j \in Things : Listed(j)
  BY <1>1 DEF SourceInv, ListHolds
<1>6. CASE failed' = failed /\ kind # "openai_admin" /\ reading' = asked
  <2>1. ListHolds'
    BY <1>1, <1>4, <1>5, <1>6 DEF ListHolds, Listed, Still
  <2> QED BY <1>1, <1>4, <1>6, <2>1, GoesOn DEF Collecting, SourceInv, SourceTypes, MarksHold
<1>7. CASE failed' = failed /\ kind = "openai_admin" /\ reading' = Source!Yielded(asked, {<<reading.part, i>>})
  <2>1. /\ {<<reading.part, i>>} \in SUBSET (Places \X Things)
        /\ {<<reading.part, i>>} \subseteq Source!Parts(kind) \X Things
    BY <1>2 DEF SourceInv, SourceTypes, Readings
  <2>2. /\ reading' \in Readings /\ reading'.part = reading.part /\ reading'.got = reading.got
        /\ reading'.asked = reading.asked \cup {i} /\ reading'.error = reading.error /\ reading'.warned = reading.warned
        /\ reading.out \subseteq reading'.out /\ reading'.out \subseteq reading.out \cup {<<reading.part, i>>}
        /\ reading'.truncated => reading'.obs = MaxObservations /\ reading'.at = "done"
        /\ ~reading'.truncated => reading'.at = "ask" /\ reading'.out = reading.out \cup {<<reading.part, i>>}
    <3>1. asked.at \in Collecting
      BY <1>4 DEF Collecting
    <3> DEFINE one == {<<reading.part, i>>}
               y == Source!Yielded(asked, one)
    <3>2. one \in SUBSET (Places \X Things) /\ reading' = y
      BY <1>7, <2>1
    <3> HIDE DEF one
    <3>3. /\ y \in Readings /\ y.part = asked.part /\ y.got = asked.got
          /\ y.asked = asked.asked /\ y.error = asked.error /\ y.warned = asked.warned
          /\ asked.out \subseteq y.out /\ y.out \subseteq asked.out \cup one
          /\ y.truncated => y.obs = MaxObservations /\ y.at = "done"
          /\ ~y.truncated => y.at = asked.at /\ y.out = asked.out \cup one
      BY <1>4, <3>1, <3>2, YieldedIs
    <3> HIDE DEF y
    <3>4. /\ reading' \in Readings /\ reading'.part = reading.part /\ reading'.got = reading.got
          /\ reading'.asked = reading.asked \cup {i} /\ reading'.error = reading.error /\ reading'.warned = reading.warned
          /\ reading.out \subseteq reading'.out /\ reading'.out \subseteq reading.out \cup one
          /\ reading'.truncated => reading'.obs = MaxObservations /\ reading'.at = "done"
          /\ ~reading'.truncated => reading'.at = "ask" /\ reading'.out = reading.out \cup one
      BY <1>4, <3>2, <3>3
    <3> QED BY <3>4 DEF one
  <2>3. reading'.out \subseteq Source!Parts(kind) \X Things
    BY <2>1, <2>2 DEF SourceInv, SourceTypes
  <2>4. CASE reading'.truncated
    BY <1>1, <1>7, <2>2, <2>3, <2>4, Stops DEF SourceInv, SourceTypes, MarksHold
  <2>5. CASE ~reading'.truncated
    <3>1. ListHolds'
      BY <1>1, <1>5, <1>7, <2>2, <2>5 DEF SourceInv, ListHolds, Listed, Still
    <3> QED BY <1>1, <1>7, <2>2, <2>3, <2>5, <3>1, GoesOn DEF Collecting, SourceInv, SourceTypes, MarksHold
  <2> QED BY <2>4, <2>5
<1>8. CASE Source!Fails
  BY <1>1, <1>8, FailsKeeps
<1> QED BY <1>3, <1>6, <1>7, <1>8

LEMMA AskedKeeps ==
  ASSUME PagesSuffice, SourceInv, Source!Asked PROVE SourceInv'
<1>1. /\ reading.at = "ask" /\ reading.at \in Collecting /\ Still /\ failed' = failed
      /\ reading.got = reading.asked
      /\ reading' = IF kind = "openai_admin" THEN Source!NextPart(reading) ELSE [reading EXCEPT !.at = "yield"]
  BY DEF Source!Asked, Source!Collecting, Still, Collecting
<1>2. \A j \in Things : Listed(j)
  BY <1>1 DEF SourceInv, ListHolds
<1>3. CASE kind = "openai_admin"
  <2>1. \A j \in Things : <<reading.part, j>> \in missing \cup reading.out
    BY <1>1, <1>2, <1>3 DEF SourceInv, ListHolds, Listed
  <2> QED BY <1>1, <1>3, <2>1, PartEnds DEF SourceInv, SourceTypes, MarksHold
<1>4. CASE kind # "openai_admin"
  <2>1. /\ reading' \in Readings /\ reading'.at = "yield" /\ reading'.part = reading.part /\ reading'.out = reading.out
        /\ reading'.error = reading.error /\ reading'.truncated = reading.truncated /\ reading'.warned = reading.warned
        /\ reading'.got = reading.got
    BY <1>1, <1>4 DEF SourceInv, SourceTypes, Readings, Collecting
  <2>2. ListHolds'
    BY <1>1, <1>2, <2>1 DEF ListHolds, Listed, Still
  <2> QED BY <1>1, <2>1, <2>2, GoesOn DEF Collecting, SourceInv, SourceTypes, MarksHold
<1> QED BY <1>3, <1>4

LEMMA YieldKeeps ==
  ASSUME PagesSuffice, SourceInv, Source!Yield PROVE SourceInv'
<1> DEFINE things == {<<reading.part, i>> : i \in reading.got}
           r == Source!Yielded(reading, things)
<1>1. /\ reading.at = "yield" /\ reading.at \in Collecting /\ Still /\ failed' = failed
      /\ reading' = IF r.at = "done" THEN r ELSE Source!NextPart(r)
  BY DEF Source!Yield, Source!Collecting, Still, Collecting
<1>2. \A j \in Things : Listed(j)
  BY <1>1 DEF SourceInv, ListHolds
<1>3. /\ reading \in Readings /\ ~reading.error /\ ~reading.truncated /\ (failed # {} <=> reading.warned)
      /\ reading.part \in Source!Parts(kind) /\ reading.out \subseteq Source!Parts(kind) \X Things
      /\ failed \subseteq Source!Parts(kind)
  BY <1>1 DEF SourceInv, SourceTypes, MarksHold
<1>4. things \in SUBSET (Places \X Things) /\ things \subseteq Source!Parts(kind) \X Things
  BY <1>3 DEF Readings
<1>5. \A i \in reading.got : <<reading.part, i>> \in things
  OBVIOUS
<1> HIDE DEF things
<1>6. /\ r \in Readings /\ r.part = reading.part /\ r.error = reading.error /\ r.warned = reading.warned
      /\ reading.out \subseteq r.out /\ r.out \subseteq reading.out \cup things
      /\ r.truncated => r.obs = MaxObservations /\ r.at = "done"
      /\ ~r.truncated => r.at = "yield" /\ r.out = reading.out \cup things
  BY <1>1, <1>3, <1>4, YieldedIs
<1> HIDE DEF r
<1>7. r.out \subseteq Source!Parts(kind) \X Things
  BY <1>3, <1>4, <1>6
<1>8. CASE r.truncated
  BY <1>1, <1>3, <1>6, <1>7, <1>8, Stops
<1>9. CASE ~r.truncated
  <2>1. \A i \in Things : <<reading.part, i>> \in missing \cup r.out
    BY <1>2, <1>5, <1>6, <1>9 DEF Listed
  <2> QED BY <1>1, <1>3, <1>6, <1>7, <1>9, <2>1, PartEnds
<1> QED BY <1>8, <1>9

LEMMA SourceNextKeeps ==
  ASSUME PagesSuffice, SourceInv, [Source!Next]_(Source!vars) PROVE SourceInv'
<1>1. CASE UNCHANGED Source!vars
  <2>1. kind' = kind /\ lists' = lists /\ reading' = reading /\ kept' = kept /\ missing' = missing /\ failed' = failed
    BY <1>1 DEF Source!vars
  <2> QED BY <2>1 DEF SourceInv, SourceTypes, GoneIsMissing, EndedIsHeard, PartsRead, Heard, ListHolds, Listed, UpTo, MarksHold
<1>2. CASE Source!Next
  BY <1>2, ChangeKeeps, SourceClaimKeeps, BeginKeeps, PageKeeps, UnknownKeeps, AskKeeps, AskedKeeps, YieldKeeps, ApplyKeeps
     DEF Source!Next
<1> QED BY <1>1, <1>2

\* The invariant is enough for each part of the property, and a step that removes something is a
\* clean run, in which no part has failed.
LEMMA SourceIsEnough ==
  ASSUME PagesSuffice, SourceInv
  PROVE  Source!TypeOK /\ Source!OthersAreHeard /\ Source!QuietIsClean
<1>1. Source!TypeOK
  BY SourceNumbers DEF SourceInv, SourceTypes, Readings, Collecting, Source!TypeOK
<1>2. Source!OthersAreHeard
  <2> SUFFICES ASSUME reading.at = "done", kind \in {"aws_bedrock", "mcp"}, ~reading.truncated,
                      NEW p \in Source!Parts(kind) \ failed
               PROVE  Heard(p)
    BY DEF Source!OthersAreHeard, Heard
  <2>1. ~reading.error
    BY DEF SourceInv, MarksHold
  <2>2. p \in PartsRead \ failed
    BY <2>1 DEF PartsRead, Collecting
  <2> QED BY <2>2 DEF SourceInv, EndedIsHeard
<1>3. Source!QuietIsClean
  BY DEF SourceInv, MarksHold, Source!QuietIsClean, Source!Clean
<1> QED BY <1>1, <1>2, <1>3

LEMMA DroppedIsGone ==
  ASSUME PagesSuffice, SourceInv, [Source!Next]_(Source!vars)
  PROVE  Source!DroppedWasGone
<1>1. CASE kept' = kept
  BY <1>1 DEF Source!DroppedWasGone
<1>2. CASE Source!Apply /\ Source!Clean(reading)
  <2>1. reading.at = "done" /\ kept' = reading.out
    BY <1>2 DEF Source!Apply
  <2>2. failed = {} /\ PartsRead = Source!Parts(kind)
    BY <1>2, <2>1 DEF Source!Clean, SourceInv, MarksHold, PartsRead, Collecting
  <2>3. \A p \in Source!Parts(kind) : Heard(p)
    BY <2>2 DEF SourceInv, EndedIsHeard
  <2> QED BY <2>1, <2>3 DEF SourceInv, SourceTypes, Heard, Source!DroppedWasGone
<1>3. CASE Source!Apply /\ ~Source!Clean(reading)
  BY <1>3 DEF Source!Apply, Source!DroppedWasGone
<1>4. kept' = kept \/ Source!Apply
  BY DEF Source!Next, Source!vars, Source!Change, Source!Claim, Source!Begin, Source!Page, Source!Unknown, Source!Ask,
         Source!Asked, Source!Yield, Source!Collecting
<1> QED BY <1>1, <1>2, <1>3, <1>4

HIDE DEF kind, lists, reading, kept, missing, failed

-----------------------------------------------------------------------------
(* AgentEvidence: what the inventory makes of a program.                   *)
labelled == v1
pods == v2
log == v3
enrolled == v4
records == v5
today == v6
fresh == v8
used == v9
heard == v10
listing == v11
USE DEF labelled, pods, log, enrolled, records, today, fresh, used, heard, listing

Words == {"calls_model", "direct_model_access", "gateway_client", "agent_framework", "mcp_client", "uses_tools", "llm_server"}
Entries == [at : Int, signals : SUBSET Words]
Likely == {"none", "probable", "confirmed"}
States == {"managed", "registered_unmanaged", "shadow", "stale", "not_agent"}
Found == {"none", "stale_agent", "shadow_agent", "probable_shadow_agent", "unmanaged_agent"}
Records ==
  [kind : {"none", "agent", "workload", "model_provider"}, by : [Program!Sources -> Entries], linked : BOOLEAN,
   first : Int, last : Int, likely : Likely, state : States, finding : Found]

ProgramTypes ==
  /\ labelled \in BOOLEAN /\ enrolled \in BOOLEAN /\ fresh \in BOOLEAN
  /\ pods \in Seq(Templates) /\ Len(pods) <= 2 /\ listing.pods \in Seq(Templates) /\ listing.at \in Int
  /\ log \in [Program!Stages -> Int] /\ today \in Nat /\ used \in Int /\ heard \in [Program!Ids -> Int]
  /\ records \in [Program!Ids -> Records]

\* An entity that is in the inventory was reported as something.
KindIs(e) == e = Program!Absent \/ e.kind # "none"
KindsHold == \A id \in Program!Ids : KindIs(records[id])

\* What is said of an entity since the last reconcile follows from what its sources said.
Derived(id, e) ==
  e # Program!Absent =>
    /\ e.linked = (id = "agent" /\ enrolled)
    /\ e.likely = Program!Likelihood(e.kind, Program!Signals(e))
    /\ e.state = Program!StateOf(e) /\ e.finding = Program!Finding(e)
    /\ \A s \in Program!Said(e) : e.by[s].at >= today - StaleAfter /\ e.last >= e.by[s].at
    /\ Program!Said(e) # {} => \E s \in Program!Said(e) : e.last = e.by[s].at
DerivedHolds == fresh => \A id \in Program!Ids : Derived(id, records[id])

\* While Kubernetes' last report is evidence, it is what the entity has from there.
ListedIsKept ==
  listing.pods # <<>> /\ listing.at >= today - StaleAfter =>
    records[Program!Home("kubernetes")].by["kubernetes"] =
      [at |-> listing.at, signals |-> Program!PodSignals(listing.pods[1])]

\* Nobody claims more than he heard, and who says that it uses the gateway heard so of its use.
SaidHolds(id, e) ==
  \A s \in Program!Said(e) :
    /\ e.by[s].at \in 0..today /\ e.by[s].at <= heard[id]
    /\ "gateway_client" \in e.by[s].signals => used > e.by[s].at - Lookback
UseHolds ==
  /\ \A id \in Program!Ids : SaidHolds(id, records[id])
  /\ \A s \in Program!Stages : log[s] <= used
  /\ used <= today
  /\ Program!HasGateway(pods) => used >= today
  /\ listing.at <= today /\ (listing.pods # <<>> => listing.at >= 0)

ProgramInv == ProgramTypes /\ KindsHold /\ DerivedHolds /\ ListedIsKept /\ UseHolds

-----------------------------------------------------------------------------
LEMMA ProgramNumbers ==
  ASSUME Program!AgentEvidenceAssumption
  PROVE  /\ StaleAfter \in Nat /\ Lookback \in Nat /\ Lookback > 0 /\ ProgramTime \in Nat /\ ProgramChanges \in Nat
         /\ Templates \subseteq SUBSET Program!Hints
<1>1. {StaleAfter, Lookback, ProgramTime, ProgramChanges} \subseteq Nat
  BY DEF Program!AgentEvidenceAssumption
<1> QED BY <1>1 DEF Program!AgentEvidenceAssumption

LEMMA AbsentIs ==
  /\ Program!Absent \in Records /\ Program!Absent.kind = "none" /\ Program!Absent.linked = FALSE
  /\ Program!NoEntry \in Entries
  /\ \A s \in Program!Sources : Program!Absent.by[s] = Program!NoEntry
BY DEF Program!Absent, Program!NoEntry, Program!Never, Records, Entries, Likely, States, Found

LEMMA RulesTypes ==
  /\ \A k, sig : Program!Likelihood(k, sig) \in Likely
  /\ \A e : Program!StateOf(e) \in States
  /\ \A e : Program!Finding(e) \in Found
<1>1. \A k, sig : Program!Likelihood(k, sig) \in Likely
  BY DEF Program!Likelihood, Likely
<1>2. \A e : Program!StateOf(e) \in States
  BY DEF Program!StateOf, Program!Observed, States
<1>3. \A e : Program!Finding(e) \in Found
  BY DEF Program!Finding, Found
<1> QED BY <1>1, <1>2, <1>3

\* The rules look at what they do not write.
LEMMA JudgedIs ==
  ASSUME NEW e \in Records
  PROVE  LET j == Program!Judged(e) IN
         /\ j \in Records /\ j.kind = e.kind /\ j.by = e.by /\ j.linked = e.linked /\ j.first = e.first /\ j.last = e.last
         /\ j.likely = Program!Likelihood(j.kind, Program!Signals(j))
         /\ j.state = Program!StateOf(j) /\ j.finding = Program!Finding(j)
<1> DEFINE a == [e EXCEPT !.likely = Program!Likelihood(e.kind, Program!Signals(e))]
           b == [a EXCEPT !.state = Program!StateOf(a)]
           j == [b EXCEPT !.finding = Program!Finding(b)]
<1>1. j = Program!Judged(e)
  BY DEF Program!Judged
<1>2. /\ a \in Records /\ a.kind = e.kind /\ a.by = e.by /\ a.linked = e.linked /\ a.first = e.first /\ a.last = e.last
      /\ a.likely = Program!Likelihood(e.kind, Program!Signals(e))
  BY RulesTypes DEF Records
<1> HIDE DEF a
<1>3. /\ b \in Records /\ b.kind = e.kind /\ b.by = e.by /\ b.linked = e.linked /\ b.first = e.first /\ b.last = e.last
      /\ b.likely = a.likely /\ b.state = Program!StateOf(a)
  BY <1>2, RulesTypes DEF Records
<1> HIDE DEF b
<1>4. /\ j \in Records /\ j.kind = e.kind /\ j.by = e.by /\ j.linked = e.linked /\ j.first = e.first /\ j.last = e.last
      /\ j.likely = b.likely /\ j.state = b.state /\ j.finding = Program!Finding(b)
  BY <1>3, RulesTypes DEF Records
<1> HIDE DEF j
<1>5. /\ Program!Said(a) = Program!Said(e) /\ Program!Said(b) = Program!Said(e) /\ Program!Said(j) = Program!Said(e)
      /\ Program!Signals(a) = Program!Signals(e) /\ Program!Signals(b) = Program!Signals(e)
      /\ Program!Signals(j) = Program!Signals(e)
  BY <1>2, <1>3, <1>4 DEF Program!Said, Program!Signals
<1>6. j.likely = Program!Likelihood(j.kind, Program!Signals(j))
  BY <1>2, <1>3, <1>4, <1>5
<1>7. Program!StateOf(a) = Program!StateOf(j)
  BY <1>2, <1>3, <1>4, <1>5 DEF Program!StateOf, Program!Stale, Program!Observed
<1>8. Program!Finding(b) = Program!Finding(j)
  BY <1>2, <1>3, <1>4, <1>5 DEF Program!Finding
<1> QED BY <1>1, <1>3, <1>4, <1>6, <1>7, <1>8

LEMMA AgedIs ==
  ASSUME Program!AgentEvidenceAssumption, today \in Nat, NEW e \in Records
  PROVE  LET a == Program!Aged(e) IN
         /\ a \in Records /\ a.kind = e.kind /\ a.linked = e.linked /\ a.first = e.first /\ a.last = e.last
         /\ \A s \in Program!Sources :
              a.by[s] = IF e.by[s].at < today - StaleAfter THEN Program!NoEntry ELSE e.by[s]
<1> DEFINE by1 == [s \in Program!Sources |-> IF e.by[s].at < today - StaleAfter THEN Program!NoEntry ELSE e.by[s]]
<1>1. Program!Aged(e) = [e EXCEPT !.by = by1]
  BY DEF Program!Aged
<1>2. by1 \in [Program!Sources -> Entries]
  BY AbsentIs DEF Records
<1> HIDE DEF by1
<1>3. [e EXCEPT !.by = by1] \in Records /\ [e EXCEPT !.by = by1].by = by1
  BY <1>2 DEF Records
<1> QED BY <1>1, <1>3 DEF Records, by1

\* What was last heard of an entity is the latest of what its sources said.
LEMMA RefreshedIs ==
  ASSUME NEW e \in Records
  PROVE  LET r == Program!Refreshed(e) IN
         /\ r \in Records /\ r.kind = e.kind /\ r.linked = e.linked /\ r.first = e.first /\ r.by = e.by
         /\ Program!Said(e) = {} => r.last = e.last
         /\ \A s \in Program!Said(e) : r.last >= e.by[s].at
         /\ Program!Said(e) # {} => \E s \in Program!Said(e) : r.last = e.by[s].at
<1> DEFINE times == {e.by[s].at : s \in Program!Said(e)}
           latest == CHOOSE t \in times : \A s \in Program!Said(e) : e.by[s].at <= t
           last == IF Program!Said(e) = {} THEN e.last ELSE latest
<1>1. Program!Refreshed(e) = [e EXCEPT !.last = last]
  BY DEF Program!Refreshed
<1>2. Program!Said(e) \subseteq {"kubernetes", "gateway"} /\ \A s \in {"kubernetes", "gateway"} : e.by[s].at \in Int
  BY DEF Program!Said, Program!Sources, Records, Entries
<1>3. ASSUME Program!Said(e) # {} PROVE latest \in times /\ \A s \in Program!Said(e) : e.by[s].at <= latest
  <2>1. \E s \in Program!Said(e) : \A r \in Program!Said(e) : e.by[r].at <= e.by[s].at
    BY <1>2, <1>3
  <2>2. \E t \in times : \A s \in Program!Said(e) : e.by[s].at <= t
    BY <2>1
  <2> QED BY <2>2
<1>4. last \in Int
  BY <1>2, <1>3 DEF Records
<1>5. /\ Program!Said(e) # {} => \E s \in Program!Said(e) : last = e.by[s].at
      /\ \A s \in Program!Said(e) : e.by[s].at <= last
  BY <1>3
<1>6. Program!Said(e) = {} => last = e.last
  OBVIOUS
<1> HIDE DEF last
<1>7. [e EXCEPT !.last = last] \in Records /\ [e EXCEPT !.last = last].last = last
  BY <1>4 DEF Records
<1>8. \A s \in Program!Said(e) : last >= e.by[s].at
  BY <1>2, <1>4, <1>5
<1> QED BY <1>1, <1>5, <1>6, <1>7, <1>8 DEF Records

LEMMA LinkedIs ==
  ASSUME today \in Nat, NEW e \in Records, KindIs(e), NEW id \in Program!Ids, NEW reg \in BOOLEAN
  PROVE  LET l == Program!Linked(id, e, reg) IN
         /\ l \in Records /\ l.by = e.by /\ l.linked = (id = "agent" /\ reg) /\ KindIs(l)
         /\ e # Program!Absent => l.kind = e.kind
<1>1. CASE id = "agent" /\ reg /\ e = Program!Absent
  <2>1. Program!Linked(id, e, reg) = [Program!Absent EXCEPT !.kind = "agent", !.linked = TRUE, !.first = today, !.last = today]
    BY <1>1 DEF Program!Linked
  <2> DEFINE q == Program!Absent
             a == [q EXCEPT !.kind = "agent"]
             b == [a EXCEPT !.linked = TRUE]
             c == [b EXCEPT !.first = today]
             l == [c EXCEPT !.last = today]
  <2>2. q \in Records
    BY AbsentIs
  <2> HIDE DEF q
  <2>a. a \in Records /\ a.kind = "agent" /\ a.by = q.by
    BY <2>2 DEF Records
  <2> HIDE DEF a
  <2>b. b \in Records /\ b.kind = "agent" /\ b.by = q.by /\ b.linked = TRUE
    BY <2>a DEF Records
  <2> HIDE DEF b
  <2>c. c \in Records /\ c.kind = "agent" /\ c.by = q.by /\ c.linked = TRUE
    BY <2>b DEF Records
  <2> HIDE DEF c
  <2>3. /\ l \in Records /\ l.kind = "agent" /\ l.linked = TRUE /\ l.by = Program!Absent.by
    BY <2>c DEF Records, q
  <2> HIDE DEF l
  <2>4. (id = "agent" /\ reg) = TRUE
    BY <1>1
  <2>5. Program!Linked(id, e, reg) = l
    BY <2>1 DEF l, c, b, a, q
  <2>6. KindIs(l)
    BY <2>3 DEF KindIs
  <2> QED BY <1>1, <2>3, <2>4, <2>5, <2>6
<1>2. CASE ~(id = "agent" /\ reg /\ e = Program!Absent)
  <2>1. Program!Linked(id, e, reg) = [e EXCEPT !.linked = (id = "agent" /\ reg)]
    BY <1>2 DEF Program!Linked
  <2>2. CASE e = Program!Absent
    <3>1. (id = "agent" /\ reg) = FALSE
      BY <1>2, <2>2
    <3>2. [e EXCEPT !.linked = FALSE] = e
      BY <2>2, AbsentIs DEF Records
    <3>3. Program!Linked(id, e, reg) = e
      BY <2>1, <3>1, <3>2
    <3> QED BY <2>2, <3>1, <3>3, AbsentIs
  <2>3. CASE e # Program!Absent
    <3>1. e.kind # "none"
      BY <2>3 DEF KindIs
    <3> HIDE DEF KindIs
    <3>2. [e EXCEPT !.linked = (id = "agent" /\ reg)] \in Records
      BY DEF Records
    <3> QED BY <2>1, <3>1, <3>2 DEF Records, KindIs
  <2> QED BY <2>2, <2>3
<1> QED BY <1>1, <1>2

\* A reconcile keeps what is still evidence and derives the rest.
LEMMA ReconcileIs ==
  ASSUME Program!AgentEvidenceAssumption, today \in Nat, enrolled \in BOOLEAN,
         NEW es \in [Program!Ids -> Records], NEW id \in Program!Ids, KindIs(es[id])
  PROVE  LET j == Program!Reconcile(es)[id] IN
         /\ j \in Records /\ KindIs(j) /\ Derived(id, j)
         /\ \A s \in Program!Sources : es[id].by[s].at >= today - StaleAfter => j.by[s] = es[id].by[s]
         /\ \A s \in Program!Said(j) : j.by[s] = es[id].by[s] /\ s \in Program!Said(es[id])
<1> DEFINE l == Program!Linked(id, es[id], enrolled)
           a == Program!Aged(l)
           r == Program!Refreshed(a)
           j == Program!Judged(r)
<1>0. es[id] \in Records
  OBVIOUS
<1>1. /\ l \in Records /\ l.by = es[id].by /\ l.linked = (id = "agent" /\ enrolled) /\ KindIs(l)
  BY <1>0, LinkedIs
<1>2. Program!Reconcile(es)[id] = IF l = Program!Absent THEN Program!Absent ELSE j
  BY DEF Program!Reconcile
<1> HIDE DEF l
<1>3. /\ a \in Records /\ a.kind = l.kind /\ a.linked = l.linked
      /\ \A s \in Program!Sources : a.by[s] = IF l.by[s].at < today - StaleAfter THEN Program!NoEntry ELSE l.by[s]
  BY <1>1, AgedIs
<1> HIDE DEF a
<1>4. /\ r \in Records /\ r.kind = a.kind /\ r.linked = a.linked /\ r.by = a.by
      /\ \A s \in Program!Said(a) : r.last >= a.by[s].at
      /\ Program!Said(a) # {} => \E s \in Program!Said(a) : r.last = a.by[s].at
  BY <1>3, RefreshedIs
<1> HIDE DEF r
<1>5. /\ j \in Records /\ j.kind = r.kind /\ j.by = r.by /\ j.linked = r.linked /\ j.last = r.last
      /\ j.likely = Program!Likelihood(j.kind, Program!Signals(j))
      /\ j.state = Program!StateOf(j) /\ j.finding = Program!Finding(j)
  BY <1>4, JudgedIs
<1> HIDE DEF j
<1>6. CASE l = Program!Absent
  <2>1. Program!Reconcile(es)[id] = Program!Absent
    BY <1>2, <1>6
  <2>2. \A s \in Program!Sources : es[id].by[s] = Program!Absent.by[s]
    BY <1>1, <1>6
  <2>3. Program!Said(Program!Absent) = {}
    BY AbsentIs DEF Program!Said
  <2> QED BY <2>1, <2>2, <2>3, AbsentIs DEF KindIs, Derived
<1>7. CASE l # Program!Absent
  <2>1. Program!Reconcile(es)[id] = j
    BY <1>2, <1>7
  <2>2. KindIs(j)
    BY <1>1, <1>3, <1>4, <1>5, <1>7 DEF KindIs
  <2>3. Program!Said(j) = Program!Said(a)
    BY <1>4, <1>5 DEF Program!Said
  <2>4. \A s \in Program!Said(j) : /\ s \in Program!Sources /\ ~(l.by[s].at < today - StaleAfter)
                                  /\ j.by[s] = es[id].by[s] /\ j.by[s] # Program!NoEntry
    BY <1>1, <1>3, <1>4, <1>5 DEF Program!Said
  <2>5. \A s \in Program!Said(j) : j.by[s].at >= today - StaleAfter
    <3> SUFFICES ASSUME NEW s \in Program!Said(j) PROVE j.by[s].at >= today - StaleAfter
      OBVIOUS
    <3>1. j.by[s].at \in Int /\ ~(j.by[s].at < today - StaleAfter)
      BY <1>1, <1>5, <2>4 DEF Records, Entries
    <3> QED BY <3>1, ProgramNumbers
  <2>6. Derived(id, j)
    BY <1>1, <1>3, <1>4, <1>5, <2>3, <2>5 DEF Derived
  <2>7. \A s \in Program!Sources : es[id].by[s].at >= today - StaleAfter => j.by[s] = es[id].by[s]
    <3> SUFFICES ASSUME NEW s \in Program!Sources, es[id].by[s].at >= today - StaleAfter PROVE j.by[s] = es[id].by[s]
      OBVIOUS
    <3>1. es[id].by[s].at \in Int
      BY <1>0 DEF Records, Entries
    <3>2. ~(l.by[s].at < today - StaleAfter)
      BY <1>1, <3>1, ProgramNumbers
    <3> QED BY <1>1, <1>3, <1>4, <1>5, <3>2
  <2>8. \A s \in Program!Said(j) : s \in Program!Said(es[id])
    BY <2>4 DEF Program!Said
  <2> QED BY <1>5, <2>1, <2>2, <2>4, <2>6, <2>7, <2>8
<1> QED BY <1>6, <1>7

-----------------------------------------------------------------------------
LEMMA NothingSaid == Program!Said(Program!Absent) = {}
BY AbsentIs DEF Program!Said

LEMMA ProgramInitHolds ==
  ASSUME Program!AgentEvidenceAssumption, Program!Init PROVE ProgramInv
<1>1. ProgramTypes
  <2>1. <<>> \in Seq(Templates) /\ Len(<<>>) = 0
    BY EmptySeq
  <2>2. Program!Never \in Int
    BY DEF Program!Never
  <2>3. records \in [Program!Ids -> Records]
    BY AbsentIs DEF Program!Init
  <2>4. log \in [Program!Stages -> Int] /\ heard \in [Program!Ids -> Int]
    BY <2>2 DEF Program!Init
  <2>5. pods = <<>> /\ listing.pods = <<>> /\ listing.at = Program!Never /\ used = Program!Never
    BY DEF Program!Init
  <2>6. labelled \in BOOLEAN /\ enrolled \in BOOLEAN /\ fresh \in BOOLEAN /\ today \in Nat
    BY DEF Program!Init
  <2> QED BY <2>1, <2>2, <2>3, <2>4, <2>5, <2>6 DEF ProgramTypes
<1>2. KindsHold /\ DerivedHolds
  BY DEF Program!Init, KindsHold, KindIs, DerivedHolds
<1>3. ListedIsKept
  BY DEF Program!Init, ListedIsKept
<1>4. UseHolds
  <2>1. ~Program!HasGateway(pods)
    BY DEF Program!Init, Program!HasGateway
  <2> QED BY <2>1, NothingSaid DEF Program!Init, UseHolds, SaidHolds, Program!Never
<1> QED BY <1>1, <1>2, <1>3, <1>4 DEF ProgramInv

\* A step of the world: what the inventory has stays, and was said before.
LEMMA ProgramWorldKeeps ==
  ASSUME Program!AgentEvidenceAssumption, ProgramInv,
         records' = records /\ heard' = heard /\ listing' = listing /\ labelled' = labelled /\ ~fresh' /\ fresh' \in BOOLEAN,
         enrolled' \in BOOLEAN, pods' \in Seq(Templates), Len(pods') <= 2, log' \in [Program!Stages -> Int],
         today' \in Nat, today' >= today, used' \in Int, used' >= used, used' <= today',
         \A s \in Program!Stages : log'[s] <= used', Program!HasGateway(pods') => used' >= today'
  PROVE  ProgramInv'
<1>1. ProgramTypes'
  BY DEF ProgramInv, ProgramTypes
<1>2. KindsHold' /\ DerivedHolds'
  BY DEF ProgramInv, KindsHold, KindIs, DerivedHolds
<1>3. ListedIsKept'
  <2>1. Program!Home("kubernetes")' = Program!Home("kubernetes")
    BY DEF Program!Home
  <2>2. listing.at >= today' - StaleAfter => listing.at >= today - StaleAfter
    BY ProgramNumbers DEF ProgramInv, ProgramTypes
  <2> QED BY <2>1, <2>2 DEF ProgramInv, ListedIsKept
<1>4. \A id \in Program!Ids : SaidHolds(id, records[id])'
  <2> SUFFICES ASSUME NEW id \in Program!Ids, NEW s \in Program!Said(records[id])
               PROVE  /\ records[id].by[s].at \in 0..today' /\ records[id].by[s].at <= heard[id]
                      /\ "gateway_client" \in records[id].by[s].signals => used' > records[id].by[s].at - Lookback
    BY DEF SaidHolds
  <2>1. /\ records[id].by[s].at \in 0..today /\ records[id].by[s].at <= heard[id]
        /\ "gateway_client" \in records[id].by[s].signals => used > records[id].by[s].at - Lookback
    BY DEF ProgramInv, UseHolds, SaidHolds
  <2>2. today \in Nat /\ used \in Int
    BY DEF ProgramInv, ProgramTypes
  <2> DEFINE at == records[id].by[s].at
  <2>3. at \in 0..today /\ at <= heard[id] /\ ("gateway_client" \in records[id].by[s].signals => used > at - Lookback)
    BY <2>1
  <2> HIDE DEF at
  <2>4. at \in 0..today'
    BY <2>2, <2>3
  <2>5. "gateway_client" \in records[id].by[s].signals => used' > at - Lookback
    <3>1. \A m \in Int : used > m - Lookback => used' > m - Lookback
      BY <2>2, ProgramNumbers
    <3> QED BY <2>3, <3>1
  <2> QED BY <2>3, <2>4, <2>5 DEF at
<1>5. UseHolds'
  BY <1>4 DEF ProgramInv, ProgramTypes, UseHolds
<1> QED BY <1>1, <1>2, <1>3, <1>5 DEF ProgramInv

LEMMA TickKeeps ==
  ASSUME Program!AgentEvidenceAssumption, ProgramInv, Program!Tick PROVE ProgramInv'
<1>1. /\ records' = records /\ heard' = heard /\ listing' = listing /\ labelled' = labelled /\ fresh' = FALSE
      /\ enrolled' = enrolled /\ pods' = pods /\ log' = log /\ today' = today + 1
      /\ used' = IF Program!HasGateway(pods) THEN today + 1 ELSE used
  BY DEF Program!Tick, Program!world
<1>2. /\ today \in Nat /\ used \in Int /\ used <= today /\ enrolled \in BOOLEAN /\ pods \in Seq(Templates) /\ Len(pods) <= 2
      /\ log \in [Program!Stages -> Int] /\ \A s \in Program!Stages : log[s] <= used
  BY DEF ProgramInv, ProgramTypes, UseHolds
<1>3. used' \in Int /\ used' >= used /\ used' <= today' /\ today' \in Nat /\ today' >= today
  BY <1>1, <1>2
<1>4. \A s \in Program!Stages : log'[s] <= used'
  BY <1>1, <1>2, <1>3
<1>5. Program!HasGateway(pods') => used' >= today'
  BY <1>1, <1>2
<1> QED BY <1>1, <1>2, <1>3, <1>4, <1>5, ProgramWorldKeeps

LEMMA DeployKeeps ==
  ASSUME Program!AgentEvidenceAssumption, ProgramInv, Program!Deploy PROVE ProgramInv'
<1>1. /\ records' = records /\ heard' = heard /\ listing' = listing /\ labelled' = labelled /\ fresh' = FALSE
      /\ enrolled' = enrolled /\ log' = log /\ today' = today
      /\ used' = IF Program!HasGateway(pods') THEN today ELSE used
  BY DEF Program!Deploy
<1>2. /\ today \in Nat /\ used \in Int /\ used <= today /\ enrolled \in BOOLEAN /\ pods \in Seq(Templates) /\ Len(pods) <= 2
      /\ log \in [Program!Stages -> Int] /\ \A s \in Program!Stages : log[s] <= used
  BY DEF ProgramInv, ProgramTypes, UseHolds
<1>3. pods' \in Seq(Templates) /\ Len(pods') <= 2
  <2>1. CASE Len(pods) = 1 /\ \E t \in Templates \ {pods[1]} : pods' \in {<<t, pods[1]>>, <<pods[1], t>>, <<t>>}
    <3>1. 1 \in 1..Len(pods)
      BY <2>1
    <3>2. pods[1] \in Templates
      BY <1>2, <3>1, ElementOfSeq
    <3>3. PICK t \in Templates : pods' \in {<<t, pods[1]>>, <<pods[1], t>>, <<t>>}
      BY <2>1
    <3> HIDE <2>1
    <3> DEFINE first == pods[1]
    <3>4. pods' = <<t, first>> \/ pods' = <<first, t>> \/ pods' = <<t>>
      BY <3>3
    <3>5. first \in Templates
      BY <3>2
    <3>6. \A a, b \in Templates : <<a, b>> \in Seq(Templates) /\ Len(<<a, b>>) <= 2
      OBVIOUS
    <3>7. <<t>> \in Seq(Templates) /\ Len(<<t>>) <= 2
      OBVIOUS
    <3> HIDE DEF first
    <3> QED BY <3>4, <3>5, <3>6, <3>7, Zenon
  <2>2. CASE Len(pods) = 2 /\ \E i \in DOMAIN pods : pods' = <<pods[i]>>
    <3>1. PICK i \in DOMAIN pods : pods' = <<pods[i]>>
      BY <2>2
    <3>2. i \in 1..Len(pods)
      BY <1>2, LenProperties
    <3>3. pods[i] \in Templates
      BY <1>2, <3>2, ElementOfSeq
    <3> DEFINE one == pods[i]
    <3>4. one \in Templates /\ pods' = <<one>>
      BY <3>1, <3>3
    <3> HIDE DEF one
    <3> QED BY <3>4
  <2>3. CASE \E t \in Templates : pods' = <<t>>
    BY <2>3
  <2>4. CASE pods' = <<>>
    BY <2>4
  <2> QED BY <2>1, <2>2, <2>3, <2>4 DEF Program!Deploy
<1>4. used' \in Int /\ used' >= used /\ used' <= today' /\ today' >= today /\ today' \in Nat
  BY <1>1, <1>2
<1>5. \A s \in Program!Stages : log'[s] <= used'
  BY <1>1, <1>2, <1>4
<1>6. Program!HasGateway(pods') => used' >= today'
  BY <1>1, <1>2
<1> QED BY <1>1, <1>2, <1>3, <1>4, <1>5, <1>6, ProgramWorldKeeps

LEMMA CallKeeps ==
  ASSUME Program!AgentEvidenceAssumption, ProgramInv, NEW stage \in Program!Stages, Program!Call(stage)
  PROVE  ProgramInv'
<1>1. /\ records' = records /\ heard' = heard /\ listing' = listing /\ labelled' = labelled /\ fresh' = FALSE
      /\ enrolled' = enrolled /\ pods' = pods /\ today' = today /\ used' = today
      /\ log' = [log EXCEPT ![stage] = today]
  BY DEF Program!Call
<1>2. /\ today \in Nat /\ used \in Int /\ used <= today /\ enrolled \in BOOLEAN /\ pods \in Seq(Templates) /\ Len(pods) <= 2
      /\ log \in [Program!Stages -> Int] /\ \A s \in Program!Stages : log[s] <= used
  BY DEF ProgramInv, ProgramTypes, UseHolds
<1>3. log' \in [Program!Stages -> Int] /\ \A s \in Program!Stages : log'[s] <= used'
  BY <1>1, <1>2
<1> QED BY <1>1, <1>2, <1>3, ProgramWorldKeeps

LEMMA RegisterKeeps ==
  ASSUME Program!AgentEvidenceAssumption, ProgramInv, Program!Register PROVE ProgramInv'
<1>1. /\ records' = records /\ heard' = heard /\ listing' = listing /\ labelled' = labelled /\ fresh' = FALSE
      /\ enrolled' = ~enrolled /\ pods' = pods /\ log' = log /\ today' = today /\ used' = used
  BY DEF Program!Register
<1>2. /\ today \in Nat /\ used \in Int /\ used <= today /\ enrolled \in BOOLEAN /\ pods \in Seq(Templates) /\ Len(pods) <= 2
      /\ log \in [Program!Stages -> Int] /\ (\A s \in Program!Stages : log[s] <= used)
      /\ (Program!HasGateway(pods) => used >= today)
  BY DEF ProgramInv, ProgramTypes, UseHolds
<1>3. enrolled' \in BOOLEAN
  BY <1>1
<1>4. used' >= used /\ used' <= today' /\ today' >= today /\ (Program!HasGateway(pods') => used' >= today')
  BY <1>1, <1>2
<1> QED BY <1>1, <1>2, <1>3, <1>4, ProgramWorldKeeps

\* A step of the inventory: what its sources say is reconciled.
LEMMA RanKeeps ==
  ASSUME Program!AgentEvidenceAssumption, ProgramInv,
         NEW es \in [Program!Ids -> Records], Program!Ran(es), \A id \in Program!Ids : KindIs(es[id]),
         heard' \in [Program!Ids -> Int],
         \A id \in Program!Ids : \A s \in Program!Said(es[id]) :
           /\ es[id].by[s].at \in 0..today /\ es[id].by[s].at <= heard'[id]
           /\ "gateway_client" \in es[id].by[s].signals => used > es[id].by[s].at - Lookback,
         listing'.pods \in Seq(Templates), listing'.at \in Int, listing'.at <= today,
         listing'.pods # <<>> => listing'.at >= 0,
         listing'.pods # <<>> /\ listing'.at >= today - StaleAfter =>
           es[Program!Home("kubernetes")].by["kubernetes"] =
             [at |-> listing'.at, signals |-> Program!PodSignals(listing'.pods[1])]
  PROVE  ProgramInv'
<1>1. /\ records' = Program!Reconcile(es) /\ fresh' = TRUE /\ labelled' = labelled /\ pods' = pods /\ log' = log
      /\ enrolled' = enrolled /\ today' = today /\ used' = used
  BY DEF Program!Ran, Program!world
<1>2. today \in Nat /\ enrolled \in BOOLEAN
  BY DEF ProgramInv, ProgramTypes
<1>3. \A id \in Program!Ids :
        /\ records'[id] \in Records /\ KindIs(records'[id]) /\ Derived(id, records'[id])
        /\ \A s \in Program!Sources : es[id].by[s].at >= today - StaleAfter => records'[id].by[s] = es[id].by[s]
        /\ \A s \in Program!Said(records'[id]) : records'[id].by[s] = es[id].by[s] /\ s \in Program!Said(es[id])
  BY <1>1, <1>2, ReconcileIs
<1>4. records' \in [Program!Ids -> Records]
  <2>1. records' = [id \in Program!Ids |-> records'[id]]
    BY <1>1 DEF Program!Reconcile
  <2> QED BY <1>3, <2>1
<1>5. ProgramTypes'
  BY <1>1, <1>4 DEF ProgramInv, ProgramTypes
<1>6. KindsHold'
  BY <1>3 DEF KindsHold, KindIs
<1>7. DerivedHolds'
  <2> SUFFICES ASSUME NEW id \in Program!Ids PROVE Derived(id, records[id])'
    BY DEF DerivedHolds
  <2>1. Derived(id, records'[id])
    BY <1>3
  <2>2. /\ \A e : Program!StateOf(e)' = Program!StateOf(e) /\ Program!Finding(e)' = Program!Finding(e)
        /\ \A e : Program!Said(e)' = Program!Said(e) /\ Program!Signals(e)' = Program!Signals(e)
    BY <1>1 DEF Program!StateOf, Program!Finding, Program!Stale, Program!Observed, Program!Said, Program!Signals
  <2> QED BY <1>1, <2>1, <2>2 DEF Derived
<1>8. ListedIsKept'
  <2> SUFFICES ASSUME listing'.pods # <<>>, listing'.at >= today - StaleAfter
               PROVE  records'[Program!Home("kubernetes")].by["kubernetes"] =
                        [at |-> listing'.at, signals |-> Program!PodSignals(listing'.pods[1])]
    BY <1>1 DEF ListedIsKept, Program!Home
  <2>1. es[Program!Home("kubernetes")].by["kubernetes"] = [at |-> listing'.at, signals |-> Program!PodSignals(listing'.pods[1])]
    OBVIOUS
  <2>2. Program!Home("kubernetes") \in Program!Ids /\ "kubernetes" \in Program!Sources
    BY DEF Program!Home, Program!Ids, Program!Sources
  <2> QED BY <1>3, <2>1, <2>2
<1>9. UseHolds'
  <2>1. \A id \in Program!Ids : SaidHolds(id, records[id])'
    BY <1>1, <1>3 DEF SaidHolds
  <2> QED BY <1>1, <2>1 DEF ProgramInv, UseHolds
<1> QED BY <1>5, <1>6, <1>7, <1>8, <1>9 DEF ProgramInv
\* What one report changes of what is known of an entity.
Reports(e, teller, k, sig) ==
  LET r == Program!Reported(e, teller, k, sig)
  IN r \in Records /\ r.kind # "none" /\ r.by = [e.by EXCEPT ![teller] = [at |-> today, signals |-> sig]]

LEMMA ReportedIs ==
  ASSUME today \in Nat, NEW e \in Records, NEW teller \in Program!Sources,
         NEW k \in {"agent", "workload", "model_provider"}, NEW sig \in SUBSET Words, KindIs(e)
  PROVE  Reports(e, teller, k, sig)
<1> DEFINE a == [e EXCEPT !.kind = IF e = Program!Absent THEN k ELSE @]
           b == [a EXCEPT !.first = IF e = Program!Absent THEN today ELSE @]
           c == [b EXCEPT !.by[teller] = [at |-> today, signals |-> sig]]
           r == [c EXCEPT !.last = today]
<1>1. Program!Reported(e, teller, k, sig) = r
  BY DEF Program!Reported
<1>2. a \in Records /\ a.by = e.by /\ a.kind # "none"
  BY DEF Records, KindIs
<1> HIDE DEF a
<1>3. b \in Records /\ b.by = a.by /\ b.kind = a.kind
  BY <1>2 DEF Records
<1> HIDE DEF b
<1>4. [at |-> today, signals |-> sig] \in Entries
  BY DEF Entries
<1>5. c = [b EXCEPT !.by = [b.by EXCEPT ![teller] = [at |-> today, signals |-> sig]]]
  OBVIOUS
<1>6. c \in Records /\ c.by = [b.by EXCEPT ![teller] = [at |-> today, signals |-> sig]] /\ c.kind = b.kind
  <2> DEFINE entry == [at |-> today, signals |-> sig]
             by1 == [b.by EXCEPT ![teller] = entry]
  <2>1. entry \in Entries
    BY <1>4
  <2>2. c = [b EXCEPT !.by = by1]
    BY <1>5
  <2> HIDE DEF entry, c
  <2>3. by1 \in [Program!Sources -> Entries]
    BY <1>3, <2>1 DEF Records
  <2> HIDE DEF by1
  <2>4. c \in Records /\ c.by = by1 /\ c.kind = b.kind
    BY <1>3, <2>2, <2>3 DEF Records
  <2> QED BY <2>4 DEF by1, entry
<1> HIDE DEF c
<1>7. r \in Records /\ r.by = c.by /\ r.kind = c.kind
  BY <1>6 DEF Records
<1> HIDE DEF r
<1> QED BY <1>1, <1>2, <1>3, <1>6, <1>7 DEF Reports

\* What a source reported now is what it says; what the others said stays.
LEMMA ReportSays ==
  ASSUME ProgramInv, NEW teller \in Program!Sources, NEW home \in Program!Ids,
         NEW k \in {"agent", "workload", "model_provider"}, NEW sig \in SUBSET Words
  PROVE  LET r == Program!Reported(records[home], teller, k, sig)
             es == [records EXCEPT ![home] = r]
         IN /\ es \in [Program!Ids -> Records] /\ \A id \in Program!Ids : KindIs(es[id])
            /\ es[home].by[teller] = [at |-> today, signals |-> sig]
            /\ \A id \in Program!Ids, s \in Program!Sources :
                 ~(id = home /\ s = teller) => es[id].by[s] = records[id].by[s]
<1> DEFINE r == Program!Reported(records[home], teller, k, sig)
           es == [records EXCEPT ![home] = r]
<1>1. today \in Nat /\ records \in [Program!Ids -> Records] /\ \A id \in Program!Ids : KindIs(records[id])
  BY DEF ProgramInv, ProgramTypes, KindsHold
<1>2. r \in Records /\ r.kind # "none" /\ r.by = [records[home].by EXCEPT ![teller] = [at |-> today, signals |-> sig]]
  <2> DEFINE e == records[home]
  <2>1. e \in Records /\ KindIs(e) /\ today \in Nat
    BY <1>1
  <2> HIDE DEF e
  <2>2. Reports(e, teller, k, sig)
    BY <2>1, ReportedIs
  <2> QED BY <2>2 DEF e, Reports
<1> HIDE DEF r
<1>3. es \in [Program!Ids -> Records] /\ es[home] = r /\ \A id \in Program!Ids \ {home} : es[id] = records[id]
  BY <1>1, <1>2
<1>4. r.by[teller] = [at |-> today, signals |-> sig] /\ \A s \in Program!Sources \ {teller} : r.by[s] = records[home].by[s]
  <2>1. records[home].by \in [Program!Sources -> Entries]
    BY <1>1 DEF Records
  <2> QED BY <1>2, <2>1
<1>5. KindIs(r)
  BY <1>2 DEF KindIs
<1> HIDE DEF es
<1>6. \A id \in Program!Ids : KindIs(es[id])
  BY <1>1, <1>3, <1>5
<1>7. \A id \in Program!Ids, s \in Program!Sources : ~(id = home /\ s = teller) => es[id].by[s] = records[id].by[s]
  BY <1>3, <1>4
<1> QED BY <1>3, <1>4, <1>6, <1>7 DEF es, r

LEMMA PodSignalsAre ==
  ASSUME NEW t \in SUBSET Program!Hints
  PROVE  /\ Program!PodSignals(t) \in SUBSET Words
         /\ "gateway_client" \in Program!PodSignals(t) => "gateway" \in t
         /\ Program!Bypass(t) => {"calls_model", "direct_model_access"} \subseteq Program!PodSignals(t)
         /\ Program!PodKind(t) \in {"agent", "workload", "model_provider"}
<1> DEFINE model == IF "model" \notin t \/ Program!IsServer(t) THEN {}
                    ELSE {"calls_model"} \cup (IF "gateway" \in t THEN {} ELSE {"direct_model_access"})
           client == IF "gateway" \in t THEN {"gateway_client"} ELSE {}
           frame == IF "framework" \in t THEN {"agent_framework"} ELSE {}
           mcp == IF "mcp" \in t THEN {"mcp_client"} ELSE {}
           tools == IF t \cap {"mcp", "data"} # {} THEN {"uses_tools"} ELSE {}
           server == IF "server" \in t THEN {"llm_server"} ELSE {}
<1>1. Program!PodSignals(t) = model \cup client \cup frame \cup mcp \cup tools \cup server
  BY DEF Program!PodSignals
<1>2. model \subseteq Words \ {"gateway_client"} /\ (Program!Bypass(t) => {"calls_model", "direct_model_access"} \subseteq model)
  BY DEF Program!Bypass, Words
<1>3. client \subseteq Words /\ ("gateway_client" \in client => "gateway" \in t)
  BY DEF Words
<1>4. frame \cup mcp \cup tools \cup server \subseteq Words \ {"gateway_client"}
  BY DEF Words
<1>6. Program!PodKind(t) \in {"agent", "workload", "model_provider"}
  BY DEF Program!PodKind
<1> HIDE DEF model, client, frame, mcp, tools, server
<1>7. model \cup client \cup frame \cup mcp \cup tools \cup server \in SUBSET Words
  BY <1>2, <1>3, <1>4
<1> QED BY <1>1, <1>2, <1>3, <1>4, <1>6, <1>7

LEMMA LogSignalsAre == Program!LogSignals \in SUBSET Words
BY DEF Program!LogSignals, Words

LEMMA KubernetesKeeps ==
  ASSUME Program!AgentEvidenceAssumption, ProgramInv, Program!RunKubernetes PROVE ProgramInv'
<1> DEFINE id == Program!Home("kubernetes")
<1>0. id \in Program!Ids /\ "kubernetes" \in Program!Sources
  BY DEF Program!Home, Program!Ids, Program!Sources
<1> HIDE DEF id
<1>1. /\ records \in [Program!Ids -> Records] /\ today \in Nat /\ heard \in [Program!Ids -> Int] /\ pods \in Seq(Templates)
      /\ used \in Int
  BY DEF ProgramInv, ProgramTypes
<1>2. /\ \A i \in Program!Ids : SaidHolds(i, records[i]) /\ KindIs(records[i])
      /\ Program!HasGateway(pods) => used >= today
  BY DEF ProgramInv, UseHolds, KindsHold
<1>3. CASE pods # <<>>
  <2> DEFINE t == pods[1]
             sig == Program!PodSignals(t)
             k == Program!PodKind(t)
             es == [records EXCEPT ![id] = Program!Reported(records[id], "kubernetes", k, sig)]
  <2>0. 1 \in DOMAIN pods /\ t \in Templates
    <3>1. Len(pods) \in Nat /\ Len(pods) # 0
      BY <1>1, <1>3, EmptySeq, LenProperties
    <3>2. 1 \in 1..Len(pods)
      BY <3>1
    <3>3. pods[1] \in Templates
      BY <1>1, <3>2, ElementOfSeq
    <3> QED BY <1>1, <3>2, <3>3, LenProperties
  <2>1. t \in SUBSET Program!Hints
    BY <2>0, ProgramNumbers
  <2>2. /\ Program!Ran(es) /\ heard' = [heard EXCEPT ![id] = today] /\ listing' = [pods |-> pods, at |-> today]
    BY <1>3 DEF Program!RunKubernetes, Program!Looked, id
  <2>3. "gateway" \in t => used >= today
    BY <1>2, <2>0 DEF Program!HasGateway
  <2>a. listing'.pods = pods /\ listing'.at = today
    BY <2>2
  <2>b. listing'.pods # <<>> => listing'.at >= 0
    BY <1>1, <2>a
  <2> HIDE DEF t
  <2>4. sig \in SUBSET Words /\ k \in {"agent", "workload", "model_provider"} /\ ("gateway_client" \in sig => used >= today)
    BY <2>1, <2>3, PodSignalsAre
  <2> HIDE DEF sig, k
  <2>5. /\ es \in [Program!Ids -> Records] /\ \A i \in Program!Ids : KindIs(es[i])
        /\ es[id].by["kubernetes"] = [at |-> today, signals |-> sig]
        /\ \A i \in Program!Ids, s \in Program!Sources : ~(i = id /\ s = "kubernetes") => es[i].by[s] = records[i].by[s]
    BY <1>0, <2>4, ReportSays
  <2> HIDE DEF es
  <2>6. \A i \in Program!Ids : \A s \in Program!Said(es[i]) :
          /\ es[i].by[s].at \in 0..today /\ es[i].by[s].at <= heard'[i]
          /\ "gateway_client" \in es[i].by[s].signals => used > es[i].by[s].at - Lookback
    <3> SUFFICES ASSUME NEW i \in Program!Ids, NEW s \in Program!Said(es[i])
                 PROVE  /\ es[i].by[s].at \in 0..today /\ es[i].by[s].at <= heard'[i]
                        /\ "gateway_client" \in es[i].by[s].signals => used > es[i].by[s].at - Lookback
      OBVIOUS
    <3>1. s \in Program!Sources
      BY DEF Program!Said
    <3>2. CASE i = id /\ s = "kubernetes"
      <4>1. es[i].by[s].at = today /\ es[i].by[s].signals = sig
        BY <2>5, <3>2
      <4>2. heard'[i] = today
        BY <1>1, <2>2, <3>2
      <4> QED BY <1>1, <2>4, <4>1, <4>2, ProgramNumbers
    <3>3. CASE ~(i = id /\ s = "kubernetes")
      <4>1. es[i].by[s] = records[i].by[s]
        BY <2>5, <3>1, <3>3
      <4>2. s \in Program!Said(records[i])
        BY <3>1, <4>1 DEF Program!Said
      <4>3. /\ records[i].by[s].at \in 0..today /\ records[i].by[s].at <= heard[i]
            /\ "gateway_client" \in records[i].by[s].signals => used > records[i].by[s].at - Lookback
        BY <1>2, <4>2 DEF SaidHolds
      <4>4. heard'[i] >= heard[i] \/ heard'[i] = today
        BY <1>1, <2>2
      <4> QED BY <1>1, <2>2, <4>1, <4>3, <4>4
    <3> QED BY <3>2, <3>3
  <2>7. es[id].by["kubernetes"] = [at |-> listing'.at, signals |-> Program!PodSignals(listing'.pods[1])]
    BY <2>5, <2>a DEF sig, t
  <2>8. listing'.pods \in Seq(Templates) /\ listing'.at \in Int /\ listing'.at <= today
    BY <1>1, <2>a
  <2>9. heard' \in [Program!Ids -> Int]
    <3>1. today \in Int
      BY <1>1
    <3>2. [heard EXCEPT ![id] = today] \in [Program!Ids -> Int]
      BY <1>0, <1>1, <3>1, Zenon
    <3> QED BY <2>2, <3>2
  <2> QED BY <2>2, <2>5, <2>6, <2>7, <2>8, <2>9, <2>b, RanKeeps DEF id
<1>4. CASE pods = <<>>
  <2> DEFINE e == [records[id] EXCEPT !.by["kubernetes"] = Program!NoEntry]
             es == [records EXCEPT ![id] = e]
  <2>1. Program!Ran(es) /\ heard' = heard /\ listing' = [pods |-> pods, at |-> today] /\ records[id] # Program!Absent
    BY <1>4 DEF Program!RunKubernetes, id
  <2>2. e \in Records /\ e.kind = records[id].kind /\ e.by = [records[id].by EXCEPT !["kubernetes"] = Program!NoEntry]
    <3> DEFINE by1 == [records[id].by EXCEPT !["kubernetes"] = Program!NoEntry]
    <3>1. e = [records[id] EXCEPT !.by = by1]
      OBVIOUS
    <3>2. by1 \in [Program!Sources -> Entries]
      BY <1>0, <1>1, AbsentIs DEF Records
    <3> HIDE DEF by1, e
    <3>3. e \in Records /\ e.kind = records[id].kind /\ e.by = by1
      BY <1>0, <1>1, <3>1, <3>2 DEF Records
    <3> QED BY <3>3 DEF by1
  <2>3. KindIs(e)
    BY <1>0, <1>2, <2>1, <2>2 DEF KindIs
  <2> HIDE DEF e
  <2>4. es \in [Program!Ids -> Records] /\ es[id] = e /\ \A i \in Program!Ids \ {id} : es[i] = records[i]
    BY <1>0, <1>1, <2>2
  <2>a. listing'.pods = <<>> /\ listing'.at = today
    BY <1>4, <2>1
  <2> HIDE DEF es
  <2>5. \A i \in Program!Ids : KindIs(es[i])
    BY <1>2, <2>3, <2>4
  <2>6. \A i \in Program!Ids : \A s \in Program!Said(es[i]) : s \in Program!Said(records[i]) /\ es[i].by[s] = records[i].by[s]
    <3> SUFFICES ASSUME NEW i \in Program!Ids, NEW s \in Program!Said(es[i])
                 PROVE  s \in Program!Said(records[i]) /\ es[i].by[s] = records[i].by[s]
      OBVIOUS
    <3>1. s \in Program!Sources /\ es[i].by[s] # Program!NoEntry
      BY DEF Program!Said
    <3>2. CASE i = id
      <4>1. records[id].by \in [Program!Sources -> Entries]
        BY <1>0, <1>1 DEF Records
      <4>2. s # "kubernetes"
        BY <1>0, <2>2, <2>4, <3>1, <3>2, <4>1
      <4>3. es[i].by[s] = records[i].by[s]
        BY <2>2, <2>4, <3>1, <3>2, <4>1, <4>2
      <4> QED BY <3>1, <4>3 DEF Program!Said
    <3>3. CASE i # id
      BY <2>4, <3>3
    <3> QED BY <3>2, <3>3
  <2>7. \A i \in Program!Ids : \A s \in Program!Said(es[i]) :
          /\ es[i].by[s].at \in 0..today /\ es[i].by[s].at <= heard'[i]
          /\ "gateway_client" \in es[i].by[s].signals => used > es[i].by[s].at - Lookback
    BY <1>2, <2>1, <2>6 DEF SaidHolds
  <2>8. heard' \in [Program!Ids -> Int] /\ listing'.pods \in Seq(Templates) /\ listing'.at \in Int /\ listing'.at <= today
    BY <1>1, <1>4, <2>1, <2>a
  <2> QED BY <2>1, <2>4, <2>5, <2>7, <2>8, <2>a, RanKeeps
<1> QED BY <1>3, <1>4

LEMMA GatewayKeeps ==
  ASSUME Program!AgentEvidenceAssumption, ProgramInv, Program!RunGateway PROVE ProgramInv'
<1> DEFINE id == "agent"
           sig == Program!LogSignals
           es == [records EXCEPT ![id] = Program!Reported(records[id], "gateway", "agent", sig)]
<1>0. id \in Program!Ids /\ "gateway" \in Program!Sources
  BY DEF Program!Ids, Program!Sources
<1>1. /\ records \in [Program!Ids -> Records] /\ today \in Nat /\ heard \in [Program!Ids -> Int] /\ used \in Int
      /\ log \in [Program!Stages -> Int] /\ listing.pods \in Seq(Templates) /\ listing.at \in Int
  BY DEF ProgramInv, ProgramTypes
<1>2. /\ \A i \in Program!Ids : SaidHolds(i, records[i])
      /\ \A s \in Program!Stages : log[s] <= used
      /\ listing.at <= today /\ (listing.pods # <<>> => listing.at >= 0)
  BY DEF ProgramInv, UseHolds
<1>3. Program!Ran(es) /\ heard' = [heard EXCEPT ![id] = today] /\ listing' = listing /\ Program!SeenStages # {}
  BY DEF Program!RunGateway
<1>4. used > today - Lookback
  <2>1. PICK s \in Program!Stages : log[s] > today - Lookback
    BY <1>3 DEF Program!SeenStages
  <2>2. log[s] \in Int /\ log[s] <= used
    BY <1>1, <1>2
  <2> QED BY <1>1, <2>1, <2>2, ProgramNumbers
<1>5. sig \in SUBSET Words
  BY LogSignalsAre
<1> HIDE DEF sig
<1>6. /\ es \in [Program!Ids -> Records] /\ \A i \in Program!Ids : KindIs(es[i])
      /\ es[id].by["gateway"] = [at |-> today, signals |-> sig]
      /\ \A i \in Program!Ids, s \in Program!Sources : ~(i = id /\ s = "gateway") => es[i].by[s] = records[i].by[s]
  BY <1>0, <1>5, ReportSays
<1> HIDE DEF es
<1>7. \A i \in Program!Ids : \A s \in Program!Said(es[i]) :
        /\ es[i].by[s].at \in 0..today /\ es[i].by[s].at <= heard'[i]
        /\ "gateway_client" \in es[i].by[s].signals => used > es[i].by[s].at - Lookback
  <2> SUFFICES ASSUME NEW i \in Program!Ids, NEW s \in Program!Said(es[i])
               PROVE  /\ es[i].by[s].at \in 0..today /\ es[i].by[s].at <= heard'[i]
                      /\ "gateway_client" \in es[i].by[s].signals => used > es[i].by[s].at - Lookback
    OBVIOUS
  <2>1. s \in Program!Sources
    BY DEF Program!Said
  <2>2. CASE i = id /\ s = "gateway"
    <3>1. es[i].by[s].at = today
      BY <1>6, <2>2
    <3>2. heard'[i] = today
      BY <1>1, <1>3, <2>2
    <3> QED BY <1>1, <1>4, <3>1, <3>2
  <2>3. CASE ~(i = id /\ s = "gateway")
    <3>1. es[i].by[s] = records[i].by[s]
      BY <1>6, <2>1, <2>3
    <3>2. s \in Program!Said(records[i])
      BY <2>1, <3>1 DEF Program!Said
    <3>3. /\ records[i].by[s].at \in 0..today /\ records[i].by[s].at <= heard[i]
          /\ "gateway_client" \in records[i].by[s].signals => used > records[i].by[s].at - Lookback
      BY <1>2, <3>2 DEF SaidHolds
    <3>4. heard'[i] = heard[i] \/ heard'[i] = today
      BY <1>1, <1>3
    <3> QED BY <1>1, <1>3, <3>1, <3>3, <3>4
  <2> QED BY <2>2, <2>3
<1>8. listing.pods # <<>> /\ listing.at >= today - StaleAfter =>
        es[Program!Home("kubernetes")].by["kubernetes"] = [at |-> listing.at, signals |-> Program!PodSignals(listing.pods[1])]
  <2>1. Program!Home("kubernetes") \in Program!Ids /\ "kubernetes" \in Program!Sources /\ "kubernetes" # "gateway"
    BY DEF Program!Home, Program!Ids, Program!Sources
  <2>2. es[Program!Home("kubernetes")].by["kubernetes"] = records[Program!Home("kubernetes")].by["kubernetes"]
    BY <1>6, <2>1
  <2> QED BY <2>2 DEF ProgramInv, ListedIsKept
<1>9. heard' \in [Program!Ids -> Int]
  <2>1. today \in Int
    BY <1>1
  <2>2. [heard EXCEPT ![id] = today] \in [Program!Ids -> Int]
    BY <1>0, <1>1, <2>1, Zenon
  <2> QED BY <1>3, <2>2
<1> QED BY <1>1, <1>2, <1>3, <1>6, <1>7, <1>8, <1>9, RanKeeps

LEMMA JustReconcileKeeps ==
  ASSUME Program!AgentEvidenceAssumption, ProgramInv, Program!JustReconcile PROVE ProgramInv'
<1>1. Program!Ran(records) /\ heard' = heard /\ listing' = listing
  BY DEF Program!JustReconcile
<1>2. /\ records \in [Program!Ids -> Records] /\ heard \in [Program!Ids -> Int]
      /\ listing.pods \in Seq(Templates) /\ listing.at \in Int /\ listing.at <= today
      /\ (listing.pods # <<>> => listing.at >= 0) /\ \A id \in Program!Ids : KindIs(records[id])
  BY DEF ProgramInv, ProgramTypes, UseHolds, KindsHold
<1>3. \A id \in Program!Ids : \A s \in Program!Said(records[id]) :
        /\ records[id].by[s].at \in 0..today /\ records[id].by[s].at <= heard'[id]
        /\ "gateway_client" \in records[id].by[s].signals => used > records[id].by[s].at - Lookback
  BY <1>1 DEF ProgramInv, UseHolds, SaidHolds
<1>4. listing'.pods # <<>> /\ listing'.at >= today - StaleAfter =>
        records[Program!Home("kubernetes")].by["kubernetes"] =
          [at |-> listing'.at, signals |-> Program!PodSignals(listing'.pods[1])]
  BY <1>1 DEF ProgramInv, ListedIsKept
<1> QED BY <1>1, <1>2, <1>3, <1>4, RanKeeps

LEMMA ProgramNextKeeps ==
  ASSUME Program!AgentEvidenceAssumption, ProgramInv, [Program!Next]_(Program!vars) PROVE ProgramInv'
<1>1. CASE Program!Next
  BY <1>1, TickKeeps, DeployKeeps, CallKeeps, RegisterKeeps, KubernetesKeeps, GatewayKeeps, JustReconcileKeeps
  DEF Program!Next
<1>2. CASE UNCHANGED Program!vars
  <2>1. /\ labelled' = labelled /\ pods' = pods /\ log' = log /\ enrolled' = enrolled /\ records' = records
        /\ today' = today /\ fresh' = fresh /\ used' = used /\ heard' = heard /\ listing' = listing
    BY <1>2 DEF Program!vars, Program!world
  <2>2. ProgramTypes' /\ KindsHold'
    BY <2>1 DEF ProgramInv, ProgramTypes, KindsHold, KindIs
  <2>3. DerivedHolds'
    <3>1. \A id \in Program!Ids : Derived(id, records[id])' <=> Derived(id, records[id])
      BY <2>1 DEF Derived, Program!StateOf, Program!Finding, Program!Stale, Program!Observed, Program!Said, Program!Signals
    <3> QED BY <2>1, <3>1 DEF ProgramInv, DerivedHolds
  <2>4. ListedIsKept' /\ UseHolds'
    BY <2>1 DEF ProgramInv, ListedIsKept, UseHolds, SaidHolds, Program!Home, Program!HasGateway
  <2> QED BY <2>2, <2>3, <2>4 DEF ProgramInv
<1> QED BY <1>1, <1>2

-----------------------------------------------------------------------------
(* What follows                                                            *)

LEMMA HomeIs ==
  ProgramInv => /\ \A id \in Program!Ids : records[id] \in Records
                /\ \A id \in Program!Ids : \A s \in Program!Said(records[id]) :
                     s \in Program!Sources /\ records[id].by[s].at \in Int /\ records[id].by[s].at <= today
BY DEF ProgramInv, ProgramTypes, UseHolds, SaidHolds, Program!Said, Records, Entries

LEMMA ProgramTypeIsEnough == ProgramInv => Program!TypeOK
<1> SUFFICES ASSUME ProgramInv PROVE Program!TypeOK
  OBVIOUS
<1>1. pods \in Seq(Templates) /\ Len(pods) <= 2 /\ labelled \in BOOLEAN /\ enrolled \in BOOLEAN
  BY DEF ProgramInv, ProgramTypes
<1>2. pods \in Program!BoundedSeq(Templates, 2)
  <2> DEFINE n == Len(pods)
  <2>a. n \in Nat /\ DOMAIN pods = 1..n /\ pods \in [1..n -> Templates]
    BY <1>1, LenProperties
  <2>b. n <= 2
    BY <1>1
  <2> HIDE DEF n
  <2>1. n \in 0..2 /\ pods \in [1..n -> Templates]
    BY <2>a, <2>b
  <2> QED BY <2>1, Zenon DEF Program!BoundedSeq, Program!SeqOf
<1>3. \A id \in Program!Ids : records[id] \in Records
  BY HomeIs
<1> QED BY <1>1, <1>2, <1>3 DEF Program!TypeOK, Records, Likely, States, Found

LEMMA SignalsAre ==
  \A e : \A x : x \in Program!Signals(e) <=> (\E s \in Program!Sources : x \in e.by[s].signals) \/ (e.linked /\ x = "registered")
<1> TAKE e
<1> DEFINE one == UNION {e.by[s].signals : s \in Program!Sources}
           two == IF e.linked THEN {"registered"} ELSE {}
<1>1. Program!Signals(e) = one \cup two
  BY DEF Program!Signals
<1>2. \A x : x \in one <=> \E s \in Program!Sources : x \in e.by[s].signals
  OBVIOUS
<1>3. \A x : x \in two <=> (e.linked /\ x = "registered")
  OBVIOUS
<1> HIDE DEF one, two
<1> QED BY <1>1, <1>2, <1>3

\* What Kubernetes listed is still what it says of the entity: it has a model and goes round the
\* gateway, so the entity is likely an agent, and not one that is managed.
LEMMA BypassIsEnough ==
  ASSUME Program!AgentEvidenceAssumption, ProgramInv PROVE Program!BypassIsFlagged
<1> DEFINE id == Program!Home("kubernetes")
           e == records[id]
           sig == Program!Signals(e)
<1> SUFFICES ASSUME fresh, listing.pods = pods, listing.at >= today - StaleAfter, Len(pods) = 1, Program!Bypass(pods[1]),
                    e.kind # "model_provider"
             PROVE  e.finding \in {"shadow_agent", "probable_shadow_agent", "unmanaged_agent"}
  BY DEF Program!BypassIsFlagged
<1>0. id \in Program!Ids /\ "kubernetes" \in Program!Sources
  BY DEF Program!Home, Program!Ids, Program!Sources
<1>1. pods \in Seq(Templates) /\ pods # <<>> /\ pods[1] \in Templates
  <2>1. pods \in Seq(Templates)
    BY DEF ProgramInv, ProgramTypes
  <2>2. 1 \in 1..Len(pods)
    OBVIOUS
  <2>3. pods # <<>>
    BY EmptySeq
  <2>4. pods[1] \in Templates
    BY <2>1, <2>2, ElementOfSeq
  <2> QED BY <2>1, <2>3, <2>4
<1>2. e.by["kubernetes"] = [at |-> listing.at, signals |-> Program!PodSignals(pods[1])] /\ listing.at >= 0
  BY <1>1 DEF ProgramInv, ListedIsKept, UseHolds
<1>3. {"calls_model", "direct_model_access"} \subseteq Program!PodSignals(pods[1])
  BY <1>1, ProgramNumbers, PodSignalsAre
<1>4. "kubernetes" \in Program!Said(e)
  <2>1. e.by["kubernetes"].at # Program!Never
    BY <1>2 DEF Program!Never, ProgramInv, ProgramTypes
  <2> QED BY <1>0, <2>1 DEF Program!Said, Program!NoEntry
<1>5. {"calls_model", "direct_model_access"} \subseteq sig
  BY <1>0, <1>2, <1>3 DEF Program!Signals
<1>6. e # Program!Absent
  BY <1>4, NothingSaid
<1>7. e \in Records /\ e.kind # "none"
  BY <1>0, <1>6, HomeIs DEF ProgramInv, KindsHold, KindIs
<1>8. /\ e.likely = Program!Likelihood(e.kind, sig)
      /\ e.state = Program!StateOf(e) /\ e.finding = Program!Finding(e)
      /\ e.by["kubernetes"].at >= today - StaleAfter /\ e.last >= e.by["kubernetes"].at
  BY <1>0, <1>4, <1>6 DEF ProgramInv, DerivedHolds, Derived
<1>9. e.last >= today - StaleAfter /\ e.last \in Int /\ today \in Nat
  <2>1. e.last \in Int
    BY <1>7 DEF Records
  <2>2. today \in Nat /\ listing.at \in Int
    BY DEF ProgramInv, ProgramTypes
  <2>3. e.last >= listing.at
    BY <1>2, <1>8
  <2> HIDE DEF e
  <2> QED BY <2>1, <2>2, <2>3, ProgramNumbers
<1> HIDE DEF e, sig
<1>10. e.likely # "none"
  <2>1. e.kind \in {"agent", "workload"}
    BY <1>7 DEF Records
  <2>2. ~Program!Serves(sig)
    BY <1>5 DEF Program!Serves
  <2>3. Program!Hinted(sig)
    BY <1>5 DEF Program!Hinted
  <2> QED BY <1>8, <2>1, <2>2, <2>3 DEF Program!Likelihood
<1>11. ~Program!Stale(e) /\ ~(e.last < today - StaleAfter) /\ Program!Said(e) # {}
  BY <1>4, <1>9, ProgramNumbers DEF Program!Stale
<1>12. e.state = "shadow" \/ e.state = "registered_unmanaged"
  <2>1. "direct_model_access" \in Program!Signals(e)
    BY <1>5 DEF sig
  <2> QED BY <1>8, <1>10, <1>11, <2>1 DEF Program!StateOf, Program!Observed
<1> QED BY <1>8, <1>11, <1>12 DEF Program!Finding

\* Managed takes a source that says the agent uses the gateway, and what it says is not too old.
LEMMA ManagedIsEnough ==
  ASSUME Program!AgentEvidenceAssumption, ProgramInv PROVE Program!ManagedIsEarned
<1> DEFINE e == records["agent"]
           sig == Program!Signals(e)
<1> SUFFICES ASSUME fresh, e.state = "managed"
             PROVE  enrolled /\ used > today - StaleAfter - Lookback
  BY DEF Program!ManagedIsEarned
<1>0. "agent" \in Program!Ids
  BY DEF Program!Ids
<1>1. e # Program!Absent
  BY DEF Program!Absent
<1>2. /\ e.linked = enrolled /\ e.state = Program!StateOf(e)
      /\ \A s \in Program!Said(e) : e.by[s].at >= today - StaleAfter
  <2>1. Derived("agent", e)
    BY <1>0 DEF ProgramInv, DerivedHolds
  <2>2. enrolled \in BOOLEAN
    BY DEF ProgramInv, ProgramTypes
  <2> HIDE DEF e
  <2> QED BY <1>1, <2>1, <2>2 DEF Derived
<1>3. \A s \in Program!Said(e) : /\ "gateway_client" \in e.by[s].signals => used > e.by[s].at - Lookback
                                /\ e.by[s].at \in Int
  BY <1>0, HomeIs DEF ProgramInv, UseHolds, SaidHolds
<1>a. used \in Int /\ today \in Nat
  BY DEF ProgramInv, ProgramTypes
<1> HIDE DEF e
<1>4. e.linked /\ "gateway_client" \in sig
  BY <1>2 DEF Program!StateOf, Program!Observed
<1>5. PICK s \in Program!Sources : "gateway_client" \in e.by[s].signals
  BY <1>4, SignalsAre
<1>6. s \in Program!Said(e)
  BY <1>5 DEF Program!Said, Program!NoEntry
<1>7. used > e.by[s].at - Lookback /\ e.by[s].at >= today - StaleAfter /\ e.by[s].at \in Int
  BY <1>2, <1>3, <1>5, <1>6
<1> QED BY <1>2, <1>4, <1>7, <1>a, ProgramNumbers

\* Nobody heard of the agent for so long that nobody's word is left.
LEMMA QuietIsEnough ==
  ASSUME Program!AgentEvidenceAssumption, ProgramInv PROVE Program!QuietGoesStale
<1> DEFINE e == records["agent"]
           sig == Program!Signals(e)
<1> SUFFICES ASSUME fresh, enrolled, e.kind \in {"agent", "workload"},
                    e.first < today - StaleAfter, heard["agent"] < today - StaleAfter
             PROVE  e.state = "stale" /\ e.finding = "stale_agent"
  BY DEF Program!QuietGoesStale
<1>0. "agent" \in Program!Ids
  BY DEF Program!Ids
<1>1. e # Program!Absent
  BY AbsentIs
<1>2. /\ e.linked /\ e.likely = Program!Likelihood(e.kind, sig)
      /\ e.state = Program!StateOf(e) /\ e.finding = Program!Finding(e)
      /\ \A s \in Program!Said(e) : e.by[s].at >= today - StaleAfter
  BY <1>0, <1>1 DEF ProgramInv, DerivedHolds, Derived
<1>3. Program!Said(e) = {}
  <2> SUFFICES ASSUME NEW s \in Program!Said(e) PROVE FALSE
    OBVIOUS
  <2>1. e.by[s].at <= heard["agent"] /\ e.by[s].at >= today - StaleAfter
    BY <1>0, <1>2 DEF ProgramInv, UseHolds, SaidHolds
  <2>2. e.by[s].at \in Int /\ heard["agent"] \in Int /\ today \in Nat
    BY <1>0, HomeIs DEF ProgramInv, ProgramTypes
  <2> QED BY <2>1, <2>2, ProgramNumbers
<1> HIDE DEF e
<1>4. "registered" \in Program!Signals(e)
  BY <1>2, SignalsAre
<1>5. e.likely # "none"
  BY <1>2, <1>4 DEF Program!Likelihood, Program!Told
<1>6. Program!Stale(e)
  BY <1>3 DEF Program!Stale
<1>7. e.state = "stale"
  BY <1>2, <1>5, <1>6 DEF Program!StateOf
<1> QED BY <1>2, <1>7 DEF Program!Finding

HIDE DEF labelled, pods, log, enrolled, records, today, fresh, used, heard, listing

-----------------------------------------------------------------------------
(* DnsEvidence: what the inventory makes of a machine's lookups.           *)
queries == v1
gate == v2
machines == v3
hour == v4
USE DEF queries, gate, machines, hour

Queries == [from : {"direct", "sidecar", "nobody"}, host : {"provider", "gateway", "none"}, at : Int]
Endpoints ==
  [signals : SUBSET {"calls_model", "direct_model_access", "gateway_client"}, lookups : 0..MaxLines, at : Int]

IsQuery(l) ==
  \/ l = Machine!Garbled
  \/ /\ l.at \in 0..hour /\ l.from \in Machine!Machines /\ l.host \in {"provider", "gateway"}
     /\ l.from = "direct" => l.host = "provider"

MachineTypes ==
  /\ hour \in Nat /\ gate \in Int /\ gate <= hour
  /\ queries \in Seq(Queries) /\ Len(queries) <= MaxLines /\ \A n \in 1..Len(queries) : IsQuery(queries[n])
  /\ machines \in [Machine!Machines -> Endpoints]

AsksAt(l, t) == l.from = "sidecar" /\ l.host = "gateway" /\ l.at = t

\* Where the sidecar asks in every period in which it calls, its call is below its question in the log.
AskedHolds ==
  /\ gate >= 0 => \E m \in 1..Len(queries) : AsksAt(queries[m], gate)
  /\ CachedFor = 0 =>
       \A n \in 1..Len(queries) : queries[n].from = "sidecar" /\ queries[n].host = "provider" =>
         \E m \in 1..(n - 1) : AsksAt(queries[m], queries[n].at)

\* What is known of an endpoint was in the log, no longer before its report than the window.
EndpointsHold ==
  /\ \A who \in Machine!Machines : "calls_model" \in machines[who].signals =>
       \E n \in 1..Len(queries) : queries[n].from = who /\ queries[n].at >= machines[who].at - Window
  /\ CachedFor = 0 => Machine!SidecarIsNoBypass

MachineInv == MachineTypes /\ AskedHolds /\ EndpointsHold

-----------------------------------------------------------------------------
LEMMA MachineCounts ==
  /\ \A S : Machine!Cardinality(S) = Cardinality(S)
  /\ \A S : Machine!IsFiniteSet(S) <=> IsFiniteSet(S)
BY DEF Machine!Cardinality, Cardinality, Machine!IsFiniteSet, IsFiniteSet

LEMMA MachineNumbers ==
  ASSUME Machine!DnsEvidenceAssumption
  PROVE  /\ CachedFor \in Nat /\ Budget \in Nat /\ Budget > 0 /\ Window \in Nat /\ StaleAfter \in Nat
         /\ MaxLines \in Nat /\ MachineTime \in Nat
<1>1. {CachedFor, Budget, Window, StaleAfter, MaxLines, MachineTime} \subseteq Nat
  BY DEF Machine!DnsEvidenceAssumption
<1> QED BY <1>1 DEF Machine!DnsEvidenceAssumption

LEMMA GarbledIs ==
  /\ Machine!Garbled \in Queries /\ Machine!Garbled.from = "nobody" /\ Machine!Garbled.host = "none"
BY DEF Machine!Garbled, Machine!Never, Queries

\* Lines are read from the beginning, and all of them if there is room.
LEMMA ReadIs ==
  ASSUME Machine!DnsEvidenceAssumption, MachineTypes
  PROVE  LET read == Machine!Read(queries) IN
         /\ read \in Seq(Queries) /\ Len(read) <= Len(queries) /\ DOMAIN read = 1..Len(read)
         /\ \A i \in 1..Len(read) : read[i] = queries[i]
         /\ Len(queries) <= Budget => read = queries
<1> DEFINE k == IF Len(queries) < Budget THEN Len(queries) ELSE Budget
           read == SubSeq(queries, 1, k)
<1>1. queries \in Seq(Queries) /\ Len(queries) \in Nat
  BY LenProperties DEF MachineTypes
<1>2. k \in Nat /\ k <= Len(queries) /\ (Len(queries) <= Budget => k = Len(queries))
  BY <1>1, MachineNumbers
<1>3. Machine!Read(queries) = read
  BY DEF Machine!Read
<1> HIDE DEF k
<1>4. \A i \in 1..k : queries[i] \in Queries
  BY <1>1, <1>2, ElementOfSeq
<1>5. /\ read \in Seq(Queries) /\ Len(read) = (IF 1 <= k THEN k - 1 + 1 ELSE 0)
      /\ \A i \in 1..(k - 1 + 1) : read[i] = queries[1 + i - 1]
  BY <1>2, <1>4, SubSeqProperties
<1>6. Len(queries) <= Budget => read = queries
  BY <1>1, <1>2, SubSeqFull
<1> HIDE DEF read
<1>7. Len(read) = k
  BY <1>2, <1>5
<1>8. \A i \in 1..k : read[i] = queries[i]
  <2> SUFFICES ASSUME NEW i \in 1..k PROVE read[i] = queries[i]
    OBVIOUS
  <2>1. i \in 1..(k - 1 + 1) /\ 1 + i - 1 = i
    BY <1>2
  <2> QED BY <1>5, <2>1
<1>9. DOMAIN read = 1..Len(read)
  BY <1>5, LenProperties
<1> QED BY <1>2, <1>3, <1>5, <1>6, <1>7, <1>8, <1>9

LEMMA OfIs ==
  ASSUME Machine!DnsEvidenceAssumption, MachineTypes, NEW who, NEW host
  PROVE  LET lines == Machine!Of(Machine!Read(queries), who, host) IN
         /\ lines \subseteq 1..Len(Machine!Read(queries))
         /\ Machine!Cardinality(lines) \in 0..MaxLines
         /\ Machine!Cardinality(lines) = 0 <=> lines = {}
<1> DEFINE read == Machine!Read(queries)
           lines == Machine!Of(read, who, host)
           len == Len(read)
<1>1. lines \subseteq DOMAIN read
  BY DEF Machine!Of
<1>2. DOMAIN read = 1..len /\ len \in Nat /\ len <= MaxLines
  <2>1. DOMAIN read = 1..len /\ read \in Seq(Queries) /\ len <= Len(queries)
    BY ReadIs
  <2>2. len \in Nat
    BY <2>1, LenProperties
  <2>3. Len(queries) \in Nat /\ Len(queries) <= MaxLines
    BY LenProperties DEF MachineTypes
  <2> HIDE DEF read, len
  <2> QED BY <2>1, <2>2, <2>3, MachineNumbers
<1> HIDE DEF read, lines, len
<1>3. lines \subseteq 1..len
  BY <1>1, <1>2
<1>4. IsFiniteSet(1..len) /\ Cardinality(1..len) = len
  BY <1>2, FS_Interval
<1>5. IsFiniteSet(lines) /\ Cardinality(lines) <= len
  BY <1>3, <1>4, FS_Subset
<1>6. Cardinality(lines) \in Nat
  BY <1>5, FS_CardinalityType
<1>7. Cardinality(lines) = 0 <=> lines = {}
  BY <1>5, FS_EmptySet
<1>8. Machine!Cardinality(lines) = Cardinality(lines)
  BY MachineCounts
<1>9. Cardinality(lines) \in 0..MaxLines
  BY <1>2, <1>5, <1>6, MachineNumbers
<1> QED BY <1>3, <1>7, <1>8, <1>9 DEF read, lines, len

\* Everything a run says of a machine it read in the log, in the window.
LEMMA ObservedIs ==
  ASSUME Machine!DnsEvidenceAssumption, MachineInv, NEW who \in Machine!Machines
  PROVE  LET read == Machine!Read(queries)
             e == Machine!Observed(read, who)
         IN /\ e \in Endpoints /\ e.at = hour
            /\ "calls_model" \in e.signals =>
                 \E n \in 1..Len(queries) : queries[n].from = who /\ queries[n].at >= hour - Window
            /\ CachedFor = 0 /\ who = "sidecar" => "direct_model_access" \notin e.signals /\ e.lookups = 0
<1> DEFINE read == Machine!Read(queries)
           provider == Machine!Of(read, who, "provider")
           lookups == Machine!Cardinality(provider)
           gateway == Machine!LooksUpGateway(read, who)
           calls == IF lookups = 0 THEN {} ELSE {"calls_model"} \cup (IF gateway THEN {} ELSE {"direct_model_access"})
           client == IF gateway THEN {"gateway_client"} ELSE {}
           signals == calls \cup client
           count == IF gateway THEN 0 ELSE lookups
           e == [signals |-> signals, lookups |-> count, at |-> hour]
<1>0. MachineTypes
  BY DEF MachineInv
<1>1. Machine!Observed(read, who) = e
  BY DEF Machine!Observed
<1>2. provider \subseteq 1..Len(read) /\ lookups \in 0..MaxLines /\ (lookups = 0 <=> provider = {})
  BY <1>0, OfIs
<1>3. /\ Len(read) \in Nat /\ Len(queries) \in Nat /\ Len(read) <= Len(queries) /\ DOMAIN read = 1..Len(read)
      /\ \A i \in 1..Len(read) : read[i] = queries[i]
  <2>1. /\ read \in Seq(Queries) /\ Len(read) <= Len(queries) /\ DOMAIN read = 1..Len(read)
        /\ \A i \in 1..Len(read) : read[i] = queries[i]
    BY <1>0, ReadIs
  <2>2. Len(read) \in Nat /\ Len(queries) \in Nat
    BY <1>0, <2>1, LenProperties DEF MachineTypes
  <2> QED BY <2>1, <2>2
<1>4. \A n \in provider : /\ n \in 1..Len(queries) /\ queries[n].from = who /\ queries[n].host = "provider"
                         /\ queries[n].at >= hour - Window /\ n \in 1..Len(read)
  <2> SUFFICES ASSUME NEW n \in provider
               PROVE  /\ n \in 1..Len(queries) /\ queries[n].from = who /\ queries[n].host = "provider"
                      /\ queries[n].at >= hour - Window /\ n \in 1..Len(read)
    OBVIOUS
  <2>1. n \in 1..Len(read) /\ read[n] = queries[n]
    BY <1>2, <1>3
  <2>2. read[n].from = who /\ read[n].host = "provider" /\ read[n].at >= hour - Window
    BY DEF Machine!Of, Machine!InWindow
  <2>3. n \in 1..Len(queries)
    BY <1>3, <2>1
  <2> HIDE DEF read, provider
  <2> QED BY <2>1, <2>2, <2>3
<1>5. ASSUME CachedFor = 0, who = "sidecar", provider # {} PROVE gateway
  <2>1. PICK n \in provider : TRUE
    BY <1>5
  <2>2. /\ n \in 1..Len(queries) /\ queries[n].from = "sidecar" /\ queries[n].host = "provider"
        /\ queries[n].at >= hour - Window /\ n \in 1..Len(read)
    BY <1>4, <1>5
  <2>3. PICK m \in 1..(n - 1) : AsksAt(queries[m], queries[n].at)
    BY <1>5, <2>2 DEF MachineInv, AskedHolds
  <2>4. m \in 1..Len(read)
    BY <1>3, <2>2
  <2>5. queries[m] # Machine!Garbled
    BY <2>3, GarbledIs DEF AsksAt
  <2>6. read[m] = queries[m] /\ m \in DOMAIN read
    BY <1>3, <2>4
  <2>7. /\ read[m] # Machine!Garbled /\ read[m].at >= hour - Window
        /\ read[m].from = who /\ read[m].host = "gateway"
    BY <1>5, <2>2, <2>3, <2>5, <2>6 DEF AsksAt
  <2> HIDE DEF read
  <2>8. m \in Machine!Of(read, who, "gateway")
    BY <2>6, <2>7 DEF Machine!Of, Machine!InWindow
  <2> QED BY <2>8 DEF Machine!LooksUpGateway
<1> HIDE DEF read, provider, lookups, gateway
<1>6. count \in 0..MaxLines
  BY <1>2, MachineNumbers
<1>7. signals \in SUBSET {"calls_model", "direct_model_access", "gateway_client"}
  OBVIOUS
<1>8. "calls_model" \in signals => \E n \in 1..Len(queries) : queries[n].from = who /\ queries[n].at >= hour - Window
  <2> SUFFICES ASSUME "calls_model" \in signals
               PROVE  \E n \in 1..Len(queries) : queries[n].from = who /\ queries[n].at >= hour - Window
    OBVIOUS
  <2>1. lookups # 0
    OBVIOUS
  <2> QED BY <1>2, <1>4, <2>1
<1>9. CachedFor = 0 /\ who = "sidecar" => "direct_model_access" \notin signals /\ count = 0
  <2>1. CASE provider = {}
    BY <1>2, <2>1
  <2>2. CASE provider # {}
    BY <1>5, <2>2
  <2> QED BY <2>1, <2>2
<1> HIDE DEF signals, count
<1>10. hour \in Int
  BY <1>0 DEF MachineTypes
<1>11. e \in Endpoints /\ e.at = hour /\ e.signals = signals /\ e.lookups = count
  BY <1>6, <1>7, <1>10 DEF Endpoints
<1> HIDE DEF e
<1> QED BY <1>1, <1>8, <1>9, <1>11 DEF read

-----------------------------------------------------------------------------
LEMMA MachineInitHolds ==
  ASSUME Machine!DnsEvidenceAssumption, Machine!Init PROVE MachineInv
<1>1. queries = <<>> /\ gate = -100 /\ hour = 0 /\ machines = [who \in Machine!Machines |-> Machine!Absent]
  BY DEF Machine!Init, Machine!Never
<1>2. <<>> \in Seq(Queries) /\ Len(<<>>) = 0
  BY EmptySeq
<1>3. Machine!Absent \in Endpoints /\ Machine!Absent.signals = {} /\ Machine!Absent.lookups = 0
  BY MachineNumbers DEF Machine!Absent, Machine!Never, Endpoints
<1>4. MachineTypes
  BY <1>1, <1>2, <1>3, MachineNumbers DEF MachineTypes
<1>5. AskedHolds
  BY <1>1, <1>2 DEF AskedHolds
<1>6. EndpointsHold
  BY <1>1, <1>2, <1>3 DEF EndpointsHold, Machine!SidecarIsNoBypass, Machine!Machines
<1> QED BY <1>4, <1>5, <1>6 DEF MachineInv

\* A line more: those above it stay where they are.
LEMMA WrittenKeeps ==
  ASSUME Machine!DnsEvidenceAssumption, MachineInv, NEW new \in Queries, IsQuery(new), Machine!Written(new),
         gate' \in Int, gate' <= hour, gate' >= 0 => gate' = gate \/ AsksAt(new, gate'),
         CachedFor = 0 /\ new.from = "sidecar" /\ new.host = "provider" =>
           \E m \in 1..Len(queries) : AsksAt(queries[m], new.at)
  PROVE  MachineInv'
<1> DEFINE len == Len(queries)
           longer == Append(queries, new)
<1>1. queries' = longer /\ machines' = machines /\ hour' = hour /\ len < MaxLines
  BY DEF Machine!Written
<1>2. queries \in Seq(Queries) /\ len \in Nat
  BY LenProperties DEF MachineInv, MachineTypes
<1>3. longer \in Seq(Queries) /\ Len(longer) = len + 1 /\ longer[len + 1] = new /\ \A n \in 1..len : longer[n] = queries[n]
  BY <1>2, AppendProperties
<1> HIDE DEF longer
<1>4. \A n \in 1..Len(longer) : n \in 1..len \/ n = len + 1
  BY <1>2, <1>3
<1>5. 1..len \subseteq 1..Len(longer) /\ len + 1 \in 1..Len(longer)
  BY <1>2, <1>3
<1>6. MachineTypes'
  <2>1. \A n \in 1..Len(longer) : IsQuery(longer[n])
    BY <1>3, <1>4 DEF MachineInv, MachineTypes
  <2>2. \A l : IsQuery(l)' <=> IsQuery(l)
    BY <1>1 DEF IsQuery
  <2>3. Len(longer) <= MaxLines
    BY <1>1, <1>2, <1>3, MachineNumbers
  <2> HIDE DEF len
  <2> QED BY <1>1, <1>3, <2>1, <2>2, <2>3 DEF MachineInv, MachineTypes
<1>7. AskedHolds'
  <2>1. gate' >= 0 => \E m \in 1..Len(longer) : AsksAt(longer[m], gate')
    <3> SUFFICES ASSUME gate' >= 0 PROVE \E m \in 1..Len(longer) : AsksAt(longer[m], gate')
      OBVIOUS
    <3>1. CASE gate' = gate
      <4>1. PICK m \in 1..len : AsksAt(queries[m], gate')
        BY <3>1 DEF MachineInv, AskedHolds
      <4> QED BY <1>3, <1>5, <4>1
    <3>2. CASE AsksAt(new, gate')
      BY <1>3, <1>5, <3>2
    <3> QED BY <3>1, <3>2
  <2>2. ASSUME CachedFor = 0, NEW n \in 1..Len(longer), longer[n].from = "sidecar", longer[n].host = "provider"
        PROVE  \E m \in 1..(n - 1) : AsksAt(longer[m], longer[n].at)
    <3>1. CASE n \in 1..len
      <4>1. PICK m \in 1..(n - 1) : AsksAt(queries[m], queries[n].at)
        BY <1>3, <2>2, <3>1 DEF MachineInv, AskedHolds
      <4>2. m \in 1..len
        BY <1>2, <3>1
      <4> QED BY <1>3, <3>1, <4>1, <4>2
    <3>2. CASE n = len + 1
      <4>1. longer[n] = new /\ n - 1 = len
        BY <1>2, <1>3, <3>2
      <4>2. PICK m \in 1..len : AsksAt(queries[m], new.at)
        BY <2>2, <4>1
      <4> QED BY <1>3, <4>1, <4>2
    <3> QED BY <1>4, <3>1, <3>2
  <2> QED BY <1>1, <2>1, <2>2 DEF AskedHolds, AsksAt
<1>8. EndpointsHold'
  <2>1. ASSUME NEW who \in Machine!Machines, "calls_model" \in machines[who].signals
        PROVE  \E n \in 1..Len(longer) : longer[n].from = who /\ longer[n].at >= machines[who].at - Window
    <3>1. PICK n \in 1..len : queries[n].from = who /\ queries[n].at >= machines[who].at - Window
      BY <2>1 DEF MachineInv, EndpointsHold
    <3> QED BY <1>3, <1>5, <3>1
  <2>2. Machine!SidecarIsNoBypass' <=> Machine!SidecarIsNoBypass
    BY <1>1 DEF Machine!SidecarIsNoBypass
  <2> QED BY <1>1, <2>1, <2>2 DEF MachineInv, EndpointsHold
<1> QED BY <1>6, <1>7, <1>8 DEF MachineInv

\* A run: each machine as it was read, or what there was of it.
LEMMA MachineRunKeeps ==
  ASSUME Machine!DnsEvidenceAssumption, MachineInv, Machine!Run PROVE MachineInv'
<1> DEFINE read == Machine!Read(queries)
<1>1. /\ queries' = queries /\ gate' = gate /\ hour' = hour
      /\ machines' = [who \in Machine!Machines |->
           IF who \in Machine!Seen(read) THEN Machine!Observed(read, who) ELSE Machine!Aged(machines[who])]
  BY DEF Machine!Run
<1> HIDE DEF read
<1>2. Machine!Absent \in Endpoints /\ Machine!Absent.signals = {} /\ Machine!Absent.lookups = 0
  BY MachineNumbers DEF Machine!Absent, Machine!Never, Endpoints
<1>3. ASSUME NEW who \in Machine!Machines
      PROVE  /\ machines'[who] \in Endpoints
             /\ "calls_model" \in machines'[who].signals =>
                  \E n \in 1..Len(queries) : queries[n].from = who /\ queries[n].at >= machines'[who].at - Window
             /\ CachedFor = 0 /\ who = "sidecar" =>
                  "direct_model_access" \notin machines'[who].signals /\ machines'[who].lookups = 0
  <2>1. CASE machines'[who] = Machine!Observed(read, who)
    BY <2>1, ObservedIs DEF read
  <2>2. CASE machines'[who] = Machine!Absent
    BY <1>2, <2>2
  <2>3. CASE machines'[who] = machines[who]
    BY <2>3 DEF MachineInv, MachineTypes, EndpointsHold, Machine!SidecarIsNoBypass
  <2> QED BY <1>1, <2>1, <2>2, <2>3 DEF Machine!Aged
<1>4. MachineTypes'
  <2>1. \A l : IsQuery(l)' <=> IsQuery(l)
    BY <1>1 DEF IsQuery
  <2>2. machines' \in [Machine!Machines -> Endpoints]
    <3>1. machines' = [who \in Machine!Machines |-> machines'[who]]
      BY <1>1
    <3> QED BY <1>3, <3>1
  <2> QED BY <1>1, <2>1, <2>2 DEF MachineInv, MachineTypes
<1>5. AskedHolds'
  BY <1>1 DEF MachineInv, AskedHolds, AsksAt
<1>6. EndpointsHold'
  BY <1>1, <1>3 DEF EndpointsHold, Machine!SidecarIsNoBypass, Machine!Machines
<1> QED BY <1>4, <1>5, <1>6 DEF MachineInv

LEMMA MachineTickKeeps ==
  ASSUME Machine!DnsEvidenceAssumption, MachineInv, Machine!Tick PROVE MachineInv'
<1>1. queries' = queries /\ gate' = gate /\ machines' = machines /\ hour' = hour + 1 /\ hour \in Nat /\ gate \in Int /\ gate <= hour
  BY DEF Machine!Tick, MachineInv, MachineTypes
<1>2. \A l : IsQuery(l) => IsQuery(l)'
  BY <1>1 DEF IsQuery
<1>3. hour' \in Nat /\ gate' <= hour'
  BY <1>1
<1>4. MachineTypes'
  BY <1>1, <1>2, <1>3 DEF MachineInv, MachineTypes
<1>5. AskedHolds' /\ EndpointsHold'
  BY <1>1 DEF MachineInv, AskedHolds, EndpointsHold, AsksAt, Machine!SidecarIsNoBypass
<1> QED BY <1>4, <1>5 DEF MachineInv

LEMMA MachineNextKeeps ==
  ASSUME Machine!DnsEvidenceAssumption, MachineInv, [Machine!Next]_(Machine!vars) PROVE MachineInv'
<1>0. hour \in Nat /\ gate \in Int /\ gate <= hour
  BY DEF MachineInv, MachineTypes
<1>a. ASSUME NEW who \in {"direct", "sidecar"}, NEW host \in {"provider", "gateway"}, who = "direct" => host = "provider"
      PROVE  LET l == Machine!Line(who, host) IN
             l \in Queries /\ IsQuery(l) /\ l.from = who /\ l.host = host /\ l.at = hour
  <2> DEFINE l == [from |-> who, host |-> host, at |-> hour]
  <2>1. Machine!Line(who, host) = l
    BY DEF Machine!Line
  <2>2. l \in Queries /\ l.from = who /\ l.host = host /\ l.at = hour
    BY <1>0 DEF Queries
  <2> HIDE DEF l
  <2>3. IsQuery(l)
    BY <1>0, <1>a, <2>2 DEF IsQuery, Machine!Machines
  <2> QED BY <2>1, <2>2, <2>3
<1>1. CASE Machine!Direct
  <2>1. Machine!Written(Machine!Line("direct", "provider")) /\ gate' = gate
    BY <1>1 DEF Machine!Direct
  <2> QED BY <1>0, <1>a, <2>1, WrittenKeeps
<1>2. CASE Machine!Ask
  <2> DEFINE l == Machine!Line("sidecar", "gateway")
  <2>1. Machine!Written(l) /\ gate' = hour
    BY <1>2 DEF Machine!Ask
  <2>2. l \in Queries /\ IsQuery(l) /\ l.host = "gateway" /\ AsksAt(l, hour)
    BY <1>a DEF AsksAt
  <2> HIDE DEF l
  <2>3. gate' \in Int /\ gate' <= hour
    BY <1>0, <2>1
  <2> QED BY <2>1, <2>2, <2>3, WrittenKeeps
<1>3. CASE Machine!Call
  <2> DEFINE l == Machine!Line("sidecar", "provider")
  <2>1. Machine!Written(l) /\ gate' = gate /\ gate >= hour - CachedFor
    BY <1>3 DEF Machine!Call
  <2>2. l \in Queries /\ IsQuery(l) /\ l.at = hour
    BY <1>a
  <2> HIDE DEF l
  <2>3. CachedFor = 0 => \E m \in 1..Len(queries) : AsksAt(queries[m], l.at)
    <3> SUFFICES ASSUME CachedFor = 0 PROVE \E m \in 1..Len(queries) : AsksAt(queries[m], l.at)
      OBVIOUS
    <3>1. gate = hour /\ gate >= 0
      BY <1>0, <2>1
    <3> QED BY <2>2, <3>1 DEF MachineInv, AskedHolds
  <2> QED BY <1>0, <2>1, <2>2, <2>3, WrittenKeeps
<1>4. CASE Machine!Garble
  <2> DEFINE l == Machine!Garbled
  <2>1. Machine!Written(l) /\ gate' = gate
    BY <1>4 DEF Machine!Garble
  <2>2. l \in Queries /\ IsQuery(l) /\ l.from = "nobody"
    BY GarbledIs DEF IsQuery
  <2> HIDE DEF l
  <2> QED BY <1>0, <2>1, <2>2, WrittenKeeps
<1>5. CASE UNCHANGED Machine!vars
  <2>1. queries' = queries /\ gate' = gate /\ machines' = machines /\ hour' = hour
    BY <1>5 DEF Machine!vars
  <2> QED BY <2>1 DEF MachineInv, MachineTypes, IsQuery, AskedHolds, EndpointsHold, AsksAt, Machine!SidecarIsNoBypass
<1> QED BY <1>1, <1>2, <1>3, <1>4, <1>5, MachineTickKeeps, MachineRunKeeps DEF Machine!Next

LEMMA MachineIsEnough ==
  ASSUME Machine!DnsEvidenceAssumption, MachineInv
  PROVE  Machine!TypeOK /\ (CachedFor = 0 => Machine!SidecarIsNoBypass)
<1>1. DOMAIN queries = 1..Len(queries)
  BY LenProperties DEF MachineInv, MachineTypes
<1>2. \A n \in DOMAIN queries : queries[n] = Machine!Garbled \/ queries[n].at \in 0..hour
  BY <1>1 DEF MachineInv, MachineTypes, IsQuery
<1>3. \A who \in Machine!Machines : machines[who].lookups \in 0..MaxLines
  BY DEF MachineInv, MachineTypes, Endpoints
<1>4. Machine!TypeOK
  BY <1>2, <1>3 DEF Machine!TypeOK
<1> QED BY <1>4 DEF MachineInv, EndpointsHold

\* Who calls its model directly never looks up the gateway: a run that has the whole log counts
\* every lookup, whatever the others wrote.
LEMMA DirectIsFound ==
  ASSUME Machine!DnsEvidenceAssumption, MachineInv PROVE Machine!BypassIsFound
<1> DEFINE e == machines'["direct"]
           found == {n \in DOMAIN queries : queries[n].from = "direct" /\ queries[n].at >= hour - Window}
<1> SUFFICES ASSUME Machine!Run, Len(queries) <= Budget, \E n \in DOMAIN queries : queries[n].from = "direct" /\ queries[n].at = hour
             PROVE  /\ Machine!Finding(e) # "none" /\ "direct_model_access" \in e.signals
                    /\ e.lookups = Machine!Cardinality(found)
  BY DEF Machine!BypassIsFound, Machine!Finding
<1>0. MachineTypes /\ "direct" \in Machine!Machines /\ hour \in Nat
  BY DEF MachineInv, MachineTypes, Machine!Machines
<1>1. Machine!Read(queries) = queries /\ DOMAIN queries = 1..Len(queries)
  BY <1>0, ReadIs, LenProperties DEF MachineTypes
<1>2. ASSUME NEW n \in DOMAIN queries, queries[n].from = "direct"
      PROVE  queries[n].host = "provider" /\ queries[n] # Machine!Garbled
  <2>1. IsQuery(queries[n])
    BY <1>0, <1>1 DEF MachineTypes
  <2>2. queries[n] # Machine!Garbled
    BY <1>2, GarbledIs
  <2> QED BY <1>2, <2>1, <2>2 DEF IsQuery
<1>3. Machine!Of(queries, "direct", "provider") = found
  <2> DEFINE of == Machine!Of(queries, "direct", "provider")
  <2>1. \A n : n \in of <=> /\ n \in DOMAIN queries /\ queries[n] # Machine!Garbled /\ queries[n].at >= hour - Window
                           /\ queries[n].from = "direct" /\ queries[n].host = "provider"
    BY DEF Machine!Of, Machine!InWindow
  <2>2. \A n : n \in found <=> n \in DOMAIN queries /\ queries[n].from = "direct" /\ queries[n].at >= hour - Window
    OBVIOUS
  <2> HIDE DEF of, found
  <2>3. \A n : n \in of <=> n \in found
    BY <1>2, <2>1, <2>2
  <2> QED BY <2>3 DEF of
<1>4. Machine!Of(queries, "direct", "gateway") = {}
  <2> DEFINE of == Machine!Of(queries, "direct", "gateway")
  <2>1. \A n : n \in of => n \in DOMAIN queries /\ queries[n].from = "direct" /\ queries[n].host = "gateway"
    BY DEF Machine!Of
  <2> HIDE DEF of
  <2>2. ASSUME NEW n \in of PROVE FALSE
    BY <1>2, <2>1
  <2> QED BY <2>2 DEF of
<1>5. found # {}
  <2>1. PICK n \in DOMAIN queries : queries[n].from = "direct" /\ queries[n].at = hour
    OBVIOUS
  <2>2. queries[n].at >= hour - Window
    BY <1>0, <2>1, MachineNumbers
  <2> QED BY <2>1, <2>2
<1>6. Machine!Cardinality(found) # 0
  BY <1>0, <1>1, <1>3, <1>5, OfIs
<1> HIDE DEF found, e
<1>7. e = Machine!Observed(queries, "direct")
  BY <1>0, <1>1, <1>3, <1>5 DEF Machine!Run, Machine!Seen, e
<1>8. e.lookups = Machine!Cardinality(found) /\ {"calls_model", "direct_model_access"} \subseteq e.signals
  BY <1>3, <1>4, <1>6, <1>7 DEF Machine!Observed, Machine!LooksUpGateway
<1>9. Machine!Finding(e) # "none"
  BY <1>8 DEF Machine!Finding
<1> QED BY <1>8, <1>9 DEF e, found

LEMMA QuietIsFound ==
  ASSUME Machine!DnsEvidenceAssumption, MachineInv PROVE Machine!QuietIsNoAgent
<1> SUFFICES ASSUME Machine!Run, NEW who \in Machine!Machines, "calls_model" \in machines'[who].signals
             PROVE  \E n \in DOMAIN queries : queries[n].from = who /\ queries[n].at >= hour - Window - StaleAfter
  BY DEF Machine!QuietIsNoAgent, Machine!Finding
<1>0. MachineTypes /\ hour \in Nat /\ machines \in [Machine!Machines -> Endpoints]
  BY DEF MachineInv, MachineTypes
<1>1. DOMAIN queries = 1..Len(queries) /\ \A n \in 1..Len(queries) : queries[n].at \in Int
  <2>1. queries \in Seq(Queries)
    BY <1>0 DEF MachineTypes
  <2>2. DOMAIN queries = 1..Len(queries) /\ \A n \in 1..Len(queries) : queries[n] \in Queries
    BY <2>1, LenProperties, ElementOfSeq
  <2> QED BY <2>2 DEF Queries
<1> DEFINE read == Machine!Read(queries)
           old == machines[who]
<1>2. machines'[who] = Machine!Observed(read, who) \/ machines'[who] = Machine!Aged(old)
  BY DEF Machine!Run
<1>3. CASE machines'[who] = Machine!Observed(read, who)
  <2>1. PICK n \in 1..Len(queries) : queries[n].from = who /\ queries[n].at >= hour - Window
    BY <1>3, ObservedIs
  <2>2. queries[n].at >= hour - Window - StaleAfter
    BY <1>0, <1>1, <2>1, MachineNumbers
  <2> QED BY <1>1, <2>1, <2>2
<1>4. CASE machines'[who] = Machine!Aged(old)
  <2>1. ~(old.at < hour - StaleAfter) /\ machines'[who] = old
    BY <1>4 DEF Machine!Aged, Machine!Absent
  <2>2. PICK n \in 1..Len(queries) : queries[n].from = who /\ queries[n].at >= old.at - Window
    BY <2>1 DEF MachineInv, EndpointsHold
  <2>3. old.at \in Int
    BY <1>0 DEF Endpoints
  <2> HIDE DEF old
  <2>4. queries[n].at >= hour - Window - StaleAfter
    BY <1>0, <1>1, <2>1, <2>2, <2>3, MachineNumbers
  <2> QED BY <1>1, <2>2, <2>4
<1> QED BY <1>2, <1>3, <1>4

HIDE DEF queries, gate, machines, hour

-----------------------------------------------------------------------------
(* What holds of a component holds of the inventory's parts.               *)

\* A run of any connector drops only what none of the parts it listed has, hears every part that
\* answers, and is clean if nothing failed (connectors/*.py, _apply_snapshot), for any sources, faults
\* and changes.  The premise is that a run reads whole lists: one of more than 200 pages is cut.
THEOREM RunsInInventory == Source!ListsFit => (InventorySpec => OnlyGoneIsDropped)
<1> SUFFICES ASSUME Source!ListsFit PROVE InventorySpec => OnlyGoneIsDropped
  OBVIOUS
<1> DEFINE I == part = "source" => SourceInv
<1>0. PagesSuffice
  BY PartsAssumption DEF PagesSuffice
<1>1. InventoryInit => I
  BY <1>0, SourceInitHolds DEF InventoryInit
<1>2. [InventoryNext]_all /\ part' = "source" => part = "source" /\ [Source!Next]_(Source!vars)
  BY DEF InventoryNext, all, Source!vars
<1>3. I /\ [InventoryNext]_all => I'
  BY <1>0, <1>2, SourceNextKeeps
<1>4. I => (part = "source" => Source!TypeOK /\ Source!OthersAreHeard /\ Source!QuietIsClean)
  BY <1>0, SourceIsEnough
<1>5. I /\ [InventoryNext]_all => [part = "source" => Source!DroppedWasGone]_all
  <2> SUFFICES ASSUME I, [InventoryNext]_all, part = "source" PROVE Source!DroppedWasGone \/ UNCHANGED all
    OBVIOUS
  <2>1. part' = "source" \/ UNCHANGED all
    BY DEF InventoryNext
  <2> QED BY <1>0, <1>2, <2>1, DroppedIsGone
<1> QED BY <1>1, <1>3, <1>4, <1>5, PTL DEF InventorySpec, OnlyGoneIsDropped

\* The invariants of the parts that a program and a machine are.
Evidence == (part = "program" => ProgramInv) /\ (part = "machine" => MachineInv)

LEMMA EvidenceHolds ==
  /\ InventoryInit => Evidence
  /\ Evidence /\ [InventoryNext]_all => Evidence'
<1>1. InventoryInit => Evidence
  BY PartsAssumption, ProgramInitHolds, MachineInitHolds DEF InventoryInit, Evidence
<1>2. [InventoryNext]_all /\ part' = "program" => part = "program" /\ [Program!Next]_(Program!vars)
  BY DEF InventoryNext, all, Program!vars, Program!world
<1>3. [InventoryNext]_all /\ part' = "machine" => part = "machine" /\ [Machine!Next]_(Machine!vars)
  BY DEF InventoryNext, all, Machine!vars
<1>4. Evidence /\ [InventoryNext]_all => Evidence'
  BY <1>2, <1>3, PartsAssumption, ProgramNextKeeps, MachineNextKeeps DEF Evidence
<1> QED BY <1>1, <1>4

LEMMA MachineSteps ==
  ASSUME Evidence, [InventoryNext]_all, part = "machine"
  PROVE  Machine!BypassIsFound /\ Machine!QuietIsNoAgent
BY PartsAssumption, DirectIsFound, QuietIsFound DEF Evidence

\* A program that goes round the gateway has a finding while there is evidence of it, whatever else
\* is said of it, and a machine too, once a run read the whole log; a sidecar that asks the gateway
\* whenever it calls has none (classify.py:53-60, pipeline.py:561-565, dns_log.py:101-119), for any
\* templates, budgets, windows and times.  The premise is what the property says of the sidecar: one
\* that kept its connection to the gateway for longer would not be in the log.
THEOREM BypassInInventory == CachedFor = 0 => (InventorySpec => BypassIsFound)
<1> SUFFICES ASSUME CachedFor = 0 PROVE InventorySpec => BypassIsFound
  OBVIOUS
<1>1. InventoryInit => Evidence
  BY EvidenceHolds
<1>2. Evidence /\ [InventoryNext]_all => Evidence'
  BY EvidenceHolds
<1>3. Evidence => (part = "program" => Program!TypeOK /\ Program!BypassIsFlagged)
  BY PartsAssumption, ProgramTypeIsEnough, BypassIsEnough DEF Evidence
<1>4. Evidence => (part = "machine" => Machine!TypeOK /\ Machine!SidecarIsNoBypass)
  BY PartsAssumption, MachineIsEnough DEF Evidence
<1>5. Evidence /\ [InventoryNext]_all => [part = "machine" => Machine!BypassIsFound]_all
  BY MachineSteps
<1> QED BY <1>1, <1>2, <1>3, <1>4, <1>5, PTL DEF InventorySpec, BypassIsFound

\* An agent is managed on evidence that it uses the gateway and stale when nobody saw it any more,
\* and a machine is a possible agent on lookups that are not too old (classify.py:45-60,
\* pipeline.py:561-565, dns_log.py:101), for any times that evidence may last.
THEOREM QuietInInventory == InventorySpec => QuietAgesOut
<1>1. InventoryInit => Evidence
  BY EvidenceHolds
<1>2. Evidence /\ [InventoryNext]_all => Evidence'
  BY EvidenceHolds
<1>3. Evidence => (part = "program" => Program!ManagedIsEarned /\ Program!QuietGoesStale)
  BY PartsAssumption, ManagedIsEnough, QuietIsEnough DEF Evidence
<1>4. Evidence /\ [InventoryNext]_all => [part = "machine" => Machine!QuietIsNoAgent]_all
  BY MachineSteps
<1> QED BY <1>1, <1>2, <1>3, <1>4, PTL DEF InventorySpec, QuietAgesOut
=============================================================================
