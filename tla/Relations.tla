----------------------------- MODULE Relations -----------------------------
(***************************************************************************)
(* The relations of the inventory: what DiscoveryPipeline does to the      *)
(* edges table while several connectors of one tenant report, entities     *)
(* merge and connectors are deleted, and what DiscoveryService.graph()     *)
(* reads from it.  A row is valid from one time until another; a changed   *)
(* relation closes a row and opens the next.                               *)
(*                                                                         *)
(* A run takes its time when it claims its connector and applies what it   *)
(* collected later, in one step: the tenant's lock keeps the other runs    *)
(* and the requests out (Discovery has its steps, its crashes and the      *)
(* lease).  Entities are their strong keys and their age; one kind of      *)
(* relation stands for all of them, its attributes for everything a row    *)
(* is compared by.                                                         *)
(***************************************************************************)
EXTENDS Integers, SequencesExt, FiniteSetsExt

CONSTANTS
  Connectors, Keys,
  Reports,          \* what a run may collect: sequences of observations
  TTL,              \* EDGE_TTL, thirty days
  Depth,            \* of a graph
  MaxNodes,         \* MAX_GRAPH_NODES
  MaxTime, MaxRows, MaxRuns

RelationsAssumption ==
  /\ Connectors # {} /\ IsFiniteSet(Keys)
  /\ {TTL, MaxTime, MaxRows, MaxRuns} \subseteq Nat /\ {Depth, MaxNodes} \subseteq Nat \ {0}

VARIABLES
  clock,
  entities,   \* of the inventory, oldest id first
  rows,       \* of the edges table, in the order they were put
  runs,       \* the time each connector's run started at, Idle when there is none
  configured, \* connectors that are not deleted
  applied,    \* the time of the connector's last run that was applied
  started     \* runs so far, at most MaxRuns

vars == <<clock, entities, rows, runs, configured, applied, started>>

-----------------------------------------------------------------------------
(* Entities and rows *)

Ids == 1..Cardinality(Keys)
Times == 0..MaxTime
Idle == MaxTime + 1
\* valid_to of a row that is still valid.
Current == MaxTime + 1

\* One that is gone keeps the time it had, so that its id is not taken again.
Entities == [keys : SUBSET Keys, first : Times \cup {Idle}]
Absent == [keys |-> {}, first |-> Idle]
Rows == [src : Ids, dst : Ids, attrs : 0..1, source : Connectors,
         from : Times, to : Times \cup {Current}, seen : Times]

Carriers(es, keys) == {i \in Ids : es[i].keys \cap keys # {}}
Older(es, i, j) == es[i].first < es[j].first \/ (es[i].first = es[j].first /\ i < j)
Oldest(es, is) == CHOOSE i \in is : \A j \in is \ {i} : Older(es, i, j)
Unused(es) == Min({i \in Ids : es[i] = Absent})

Open(rs) == {n \in DOMAIN rs : rs[n].to = Current}
Ident(row) == <<row.src, row.dst, row.source>>
Ends(row) == {row.src, row.dst}

-----------------------------------------------------------------------------
(* _merge() *)

\* Mutation: the row that takes over begins when the old one did.
SinceEver(row, now) == row

\* A relation of the survivor begins now.
Since(row, now) == [row EXCEPT !.from = now]

NewTo(rs, keep, row) ==
  /\ row.src # row.dst
  /\ Ident(row) \notin {Ident(rs[n]) : n \in {n \in Open(rs) : keep \in Ends(rs[n])}}

\* The other's current relations are closed, and opened for the survivor.
Repointed(rs, keep, other, now) ==
  LET his == {n \in Open(rs) : other \in Ends(rs[n])}
      to(i) == IF i = other THEN keep ELSE i
      moved == {Since([rs[n] EXCEPT !.src = to(@), !.dst = to(@)], now) : n \in his}
  IN [n \in DOMAIN rs |-> IF n \in his THEN [rs[n] EXCEPT !.to = now] ELSE rs[n]]
     \o SetToSeq({row \in moved : NewTo(rs, keep, row)})

\* `w` is a run at work: entities, rows, the relations it saw, and who was merged into whom.
Merge(w, keep, other, now) ==
  [w EXCEPT !.es = [@ EXCEPT ![keep].keys = @ \cup w.es[other].keys, ![other].keys = {}],
            !.rs = Repointed(@, keep, other, now),
            !.away = [i \in DOMAIN @ \cup {other} |-> IF i = other THEN keep ELSE @[i]]]

-----------------------------------------------------------------------------
(* One run: the observations, then _reconcile_edges() *)

\* _resolve(): the fact's entity is the oldest that shares a key, and takes the others in.
ResolveFact(w, keys, now) ==
  LET found == Carriers(w.es, keys)
      keep == IF found = {} THEN Unused(w.es) ELSE Oldest(w.es, found)
      others == SetToSortSeq(found \ {keep}, LAMBDA i, j : Older(w.es, i, j))
      one == FoldLeft(LAMBDA v, i : Merge(v, keep, i, now), w, others)
  IN [one EXCEPT !.es[keep].keys = @ \cup keys,
                 !.es[keep].first = IF found = {} THEN now ELSE @]

At(w, keys) == CHOOSE i \in Carriers(w.es, keys) : TRUE

\* _apply(): both facts, then their relation.
ApplyObservation(w, obs, now) ==
  LET one == ResolveFact(w, obs.from, now)
      src == At(one, obs.from)
      two == ResolveFact(one, obs.to, now)
      dst == At(two, obs.to)
      pair == <<src, dst>>
  IN IF src = dst THEN two
     ELSE [two EXCEPT !.seen = [p \in DOMAIN @ \cup {pair} |-> IF p = pair THEN obs.attrs ELSE @[p]]]

Applied(es, rs, report, now) ==
  FoldLeft(LAMBDA w, obs : ApplyObservation(w, obs, now),
           [es |-> es, rs |-> rs, seen |-> <<>>, away |-> <<>>], report)

\* Mutation: only a clean run of a snapshot source closes what was not reported.
NeverAged(row, now) == FALSE

Aged(row, now) == row.seen < now - TTL

Opened(pair, attrs, c, now) ==
  [src |-> pair[1], dst |-> pair[2], attrs |-> attrs, source |-> c, from |-> now, to |-> Current, seen |-> now]

\* Unchanged: seen again.  Changed: closed and opened.  Gone: closed after a clean run of a snapshot
\* source, or when it was not seen for EDGE_TTL.
Reconciled(w, c, now, full) ==
  LET now_at(i) == IF i \in DOMAIN w.away THEN w.away[i] ELSE i
      key(row) == <<now_at(row.src), now_at(row.dst)>>
      mine == {n \in Open(w.rs) : w.rs[n].source = c}
      existing == {n \in mine : \A m \in mine : m > n => key(w.rs[m]) # key(w.rs[n])}
      same(n) == key(w.rs[n]) \in DOMAIN w.seen /\ w.seen[key(w.rs[n])] = w.rs[n].attrs
      over(n) == IF key(w.rs[n]) \in DOMAIN w.seen THEN ~same(n) ELSE full \/ Aged(w.rs[n], now)
      fresh == {p \in DOMAIN w.seen : \A n \in existing : key(w.rs[n]) = p => ~same(n)}
  IN [n \in DOMAIN w.rs |->
        CASE n \in existing /\ same(n) -> [w.rs[n] EXCEPT !.seen = now]
          [] n \in existing /\ over(n) -> [w.rs[n] EXCEPT !.to = now]
          [] OTHER -> w.rs[n]]
     \o SetToSeq({Opened(p, w.seen[p], c, now) : p \in fresh})

-----------------------------------------------------------------------------
Init ==
  /\ clock = 0
  /\ entities = [i \in Ids |-> Absent]
  /\ rows = <<>>
  /\ runs = [c \in Connectors |-> Idle]
  /\ configured = Connectors
  /\ applied = [c \in Connectors |-> 0]
  /\ started = 0

Tick ==
  /\ clock < MaxTime
  /\ clock' = clock + 1
  /\ UNCHANGED <<entities, rows, runs, configured, applied, started>>

\* run_connector(): the run's time is that of the claim.
Start(c) ==
  /\ c \in configured /\ runs[c] = Idle /\ started < MaxRuns
  /\ started' = started + 1
  /\ runs' = [runs EXCEPT ![c] = clock]
  /\ UNCHANGED <<clock, entities, rows, configured, applied>>

\* The part of run() that holds the tenant's lock.
Apply(c) ==
  /\ runs[c] # Idle
  /\ \E report \in Reports, full \in BOOLEAN :
       LET w == Applied(entities, rows, report, runs[c])
       IN /\ entities' = w.es
          /\ rows' = Reconciled(w, c, runs[c], full)
  /\ Len(rows') <= MaxRows
  /\ runs' = [runs EXCEPT ![c] = Idle]
  /\ applied' = [applied EXCEPT ![c] = runs[c]]
  /\ UNCHANGED <<clock, configured, started>>

\* link(): a key of another entity, and the merge in the reconcile that follows.
Link ==
  /\ \E i, j \in {i \in Ids : entities[i].keys # {}} :
       /\ Older(entities, i, j)
       /\ LET w == Merge([es |-> entities, rs |-> rows, seen |-> <<>>, away |-> <<>>], i, j, clock)
          IN entities' = w.es /\ rows' = w.rs
  /\ Len(rows') <= MaxRows
  /\ UNCHANGED <<clock, runs, configured, applied, started>>

\* delete_connector(); a run of it that has begun goes on.
Delete(c) ==
  /\ c \in configured
  /\ configured' = configured \ {c}
  /\ rows' = [n \in DOMAIN rows |->
       IF n \in Open(rows) /\ rows[n].source = c THEN [rows[n] EXCEPT !.to = clock] ELSE rows[n]]
  /\ UNCHANGED <<clock, entities, runs, applied, started>>

Next == Tick \/ Link \/ \E c \in Connectors : Start(c) \/ Apply(c) \/ Delete(c)

Spec == Init /\ [][Next]_vars

-----------------------------------------------------------------------------
(* graph(): breadth first, over the relations valid at a time *)

Valid(rs, t) == {n \in DOMAIN rs : rs[n].from <= t /\ t < rs[n].to}

Followed(row) == <<row.src, row.dst>>

Reach(s, i) ==
  CASE i \in s.seen -> s
    [] i \notin s.seen /\ Cardinality(s.seen) >= MaxNodes -> [s EXCEPT !.truncated = TRUE]
    [] OTHER -> [s EXCEPT !.seen = @ \cup {i}, !.frontier = @ \cup {i}]

Hop(s, rs, t) ==
  LET batch == {n \in Valid(rs, t) : Ends(rs[n]) \cap s.frontier # {}}
      ends == FlattenSeq([k \in 1..Cardinality(batch) |-> Followed(rs[SetToSortSeq(batch, <)[k]])])
  IN FoldLeft(Reach, [s EXCEPT !.frontier = {}], ends)

Graph(rs, root, t) ==
  FoldLeft(LAMBDA s, d : Hop(s, rs, t), [seen |-> {root}, frontier |-> {root}, truncated |-> FALSE],
           [d \in 1..Depth |-> d])

-----------------------------------------------------------------------------
(* Properties *)

TypeOK ==
  /\ clock \in Times
  /\ entities \in [Ids -> Entities]
  /\ Len(rows) <= MaxRows /\ \A n \in DOMAIN rows : rows[n] \in Rows
  /\ runs \in [Connectors -> Times \cup {Idle}]
  /\ configured \subseteq Connectors
  /\ applied \in [Connectors -> Times] /\ started \in 0..MaxRuns

\* A relation of a source is current once: merges re-point rows to relations the survivor has
\* already (pipeline.py:413-435), runs open what they see, and neither may leave two rows that are
\* both valid, of which the next run would refresh one and forget the other (pipeline.py:472-478).
OneCurrentRow ==
  \A n, m \in Open(rows) : n # m => Ident(rows[n]) # Ident(rows[m])

\* Whatever a source stopped reporting is not current for more than EDGE_TTL once it has run again,
\* whether its runs were clean or not, and whoever was merged in between (pipeline.py:504-508).
NothingLingers ==
  \A n \in Open(rows) : rows[n].seen >= applied[rows[n].source] - TTL

\* The graph reads "as of" any time (pipeline.py:9-11, services/discovery.py:320): what was valid at a time
\* before any run that is still under way stays the answer about that time, whatever reports,
\* merges and deletions follow.
Horizon == Min({clock} \cup {runs[c] : c \in Connectors})
Answer(rs, t) == {[row |-> Ident(rs[n]), attrs |-> rs[n].attrs] : n \in Valid(rs, t)}
PastIsSettled ==
  \A t \in 0..(Horizon - 1) : Answer(rows, t) = Answer(rows', t)

\* The neighbourhood is what some chain of at most Depth relations reaches, in either direction
\* (services/discovery.py:330-342), unless the answer says that it is truncated, and then it is full.
Within(rs, root, t) ==
  LET step(is) == is \cup UNION {Ends(rs[n]) : n \in {n \in Valid(rs, t) : Ends(rs[n]) \cap is # {}}}
  IN FoldLeft(LAMBDA is, d : step(is), {root}, [d \in 1..Depth |-> d])
GraphIsWhole ==
  \A root \in Ids, t \in {Horizon, clock} :
    LET g == Graph(rows, root, t)
    IN IF g.truncated THEN Cardinality(g.seen) = MaxNodes ELSE g.seen = Within(rows, root, t)
=============================================================================
