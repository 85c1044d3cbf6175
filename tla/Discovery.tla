----------------------------- MODULE Discovery -----------------------------
(***************************************************************************)
(* Agent discovery of the control plane: services/discovery.py and         *)
(* discovery/pipeline.py on one tenant with one snapshot connector.  Its   *)
(* source lists one thing: an MCP tool, whose definition may change, or a  *)
(* workload, which may identify itself as the agent that the registry may  *)
(* hold.  A run of the connector claims a lease, collects with no lock,    *)
(* and applies what it saw under the tenant's lock, in many short          *)
(* transactions; links, ignores and reconciles of the whole tenant take    *)
(* the same lock.  A person's decision on a finding takes none, and        *)
(* neither does the registry.                                              *)
(*                                                                         *)
(* Time is left out: a lease expires under a run that is dead or, within   *)
(* MaxFaults, slow, and nothing ages out.  So are relations, weak keys,  *)
(* names, volumes and the evidence rows.                                   *)
(***************************************************************************)
EXTENDS Integers, SequencesExt

CONSTANTS
  Runs,             \* runs and requests at a time, each in its own replica
  Hashes,           \* definitions of the tool
  MaxChanges, MaxDecisions, MaxFaults

Free == "free"

ASSUME DiscoveryAssumption ==
  /\ Runs # {} /\ Free \notin Runs /\ Hashes # {}
  /\ {MaxChanges, MaxDecisions, MaxFaults} \subseteq Nat

VARIABLES
  source,      \* the subject the connector's source may list, and what it says of it now
  registered,  \* the registry has the agent
  entities,    \* the inventory
  findings,    \* in the order they were opened
  lease,       \* lease_owner of the connector
  lock,        \* who holds the tenant's lock
  runs,        \* what each run or request is doing
  desk,        \* a person's decision on a finding
  settled,     \* nothing happened to the inventory since it was last reconciled
  changes, decisions, faults

world == <<source, registered, changes>>
vars == <<world, entities, findings, lease, lock, runs, desk, settled, decisions, faults>>

-----------------------------------------------------------------------------
(* The inventory *)

Nothing == "nothing"
Says(subject) == (IF subject = "tool" THEN Hashes ELSE {"direct", "gateway"}) \cup {Nothing}

\* Strong keys of a fact; only a client of the gateway is seen under its agent id.
FactKeys(said) ==
  IF said \in Hashes THEN {"mcp#tool"}
  ELSE {"workload"} \cup (IF said = "gateway" THEN {"agent"} ELSE {})

Ids == {"tool", "work", "entry"}
Kinds == {"shadow_agent", "unmanaged_agent", "tool_definition_changed"}
AutoFindings == Kinds \ {"tool_definition_changed"}

\* `said` is the connector's entry of by_source, `first` orders the agents' first_seen.
Entities == [keys : SUBSET {"mcp#tool", "workload", "agent"}, said : Hashes \cup {"direct", "gateway", Nothing},
             pin : Hashes \cup {Nothing}, ignored : BOOLEAN, first : 0..1]
Absent == [keys |-> {}, said |-> Nothing, pin |-> Nothing, ignored |-> FALSE, first |-> 0]
NoEntities == [i \in Ids |-> Absent]

Findings == [of : Ids, kind : Kinds, new : Hashes \cup {Nothing}, status : {"open", "accepted", "resolved"}]
Finding(i, kind, hash) == [of |-> i, kind |-> kind, new |-> hash, status |-> "open"]
Live == {"open", "accepted"}
Closed(fs, ns) == [n \in DOMAIN fs |-> IF n \in ns THEN [fs[n] EXCEPT !.status = "resolved"] ELSE fs[n]]
OpenOf(fs, i, kind) == {n \in DOMAIN fs : fs[n].of = i /\ fs[n].kind = kind /\ fs[n].status = "open"}

Carriers(es, keys) == {i \in Ids : es[i].keys \cap keys # {}}
Oldest(es, is) == CHOOSE i \in is : \A j \in is : es[i].first <= es[j].first
\* The first definition of a tool is pinned.
NewEntity(es, keys, said) ==
  [keys |-> keys, said |-> said, pin |-> IF said \in Hashes THEN said ELSE Nothing, ignored |-> FALSE,
   first |-> IF es["work"] = Absent /\ es["entry"] = Absent THEN 0 ELSE 1]

MergeInto(keep, other) ==
  [keep EXCEPT !.keys = @ \cup other.keys,
               !.said = IF @ = Nothing THEN other.said ELSE @,
               !.ignored = @ \/ other.ignored]

\* One finding per entity and kind: the survivor's own wins, then the newest.
Moved(fs, keep, other) ==
  LET live(n) == fs[n].status \in Live
      taken(n) == \E m \in DOMAIN fs :
                    /\ live(m) /\ fs[m].kind = fs[n].kind
                    /\ fs[m].of = keep \/ (fs[m].of = other /\ m > n)
  IN [n \in DOMAIN fs |->
       IF fs[n].of # other THEN fs[n]
       ELSE [fs[n] EXCEPT !.of = keep, !.status = IF live(n) /\ taken(n) THEN "resolved" ELSE @]]

-----------------------------------------------------------------------------
(* What a fact does, and what a reconcile wants *)

\* Mutation: a definition is raised once, whatever became of its finding.
CheckedOnce(fs, i, pin, hash) ==
  LET open == OpenOf(fs, i, "tool_definition_changed")
  IN CASE hash = pin -> Closed(fs, open)
       [] hash # pin /\ \E n \in DOMAIN fs : fs[n].of = i /\ fs[n].new = hash -> fs
       [] OTHER -> Append(Closed(fs, open), Finding(i, "tool_definition_changed", hash))

Checked(fs, i, pin, hash) ==
  LET open == OpenOf(fs, i, "tool_definition_changed")
  IN CASE hash = pin -> Closed(fs, open)
       [] hash # pin /\ \E n \in open : fs[n].new = hash -> fs
       [] OTHER -> Append(Closed(fs, open), Finding(i, "tool_definition_changed", hash))

Linked(e, reg) == reg /\ "agent" \in e.keys

\* Of the findings of agents, the one an entity should have open.
Wanted(e, reg) ==
  CASE e.ignored \/ e.said \notin {"direct", "gateway"} -> {}
    [] OTHER -> IF ~Linked(e, reg) THEN {"shadow_agent"}
                ELSE IF e.said = "direct" THEN {"unmanaged_agent"} ELSE {}

\* Entities after those that share a key have become one, and the findings with them.
Deduped(es, fs) ==
  IF es["work"].keys \cap es["entry"].keys = {} THEN [entities |-> es, findings |-> fs]
  ELSE LET keep == Oldest(es, {"work", "entry"})
           other == IF keep = "work" THEN "entry" ELSE "work"
       IN [entities |-> [es EXCEPT ![keep] = MergeInto(@, es[other]), ![other] = Absent],
           findings |-> Moved(fs, keep, other)]

\* Every registered agent has an entity.
WithRegistry(es, reg) ==
  IF reg /\ Carriers(es, {"agent"}) = {}
  THEN [es EXCEPT !["entry"] = NewEntity(es, {"agent"}, Nothing)] ELSE es

-----------------------------------------------------------------------------
(* The source and the registry *)

Idle == [at |-> "idle", claimed |-> FALSE, saw |-> Nothing, clean |-> FALSE,
         mem |-> NoEntities, seen |-> <<>>, reg |-> FALSE]
NoDecision == [at |-> "none", n |-> 0, to |-> "open", row |-> Finding("tool", "shadow_agent", Nothing), ent |-> Absent]

Init ==
  /\ source \in [subject : {"tool", "workload"}, said : {Nothing}] /\ registered = FALSE
  /\ entities = NoEntities /\ findings = <<>>
  /\ lease = Free /\ lock = Free
  /\ runs = [r \in Runs |-> Idle] /\ desk = NoDecision
  /\ settled = TRUE
  /\ changes = 0 /\ decisions = 0 /\ faults = 0

\* The source lists it, with another definition or way of calling models, or no more.
Change ==
  /\ changes < MaxChanges
  /\ changes' = changes + 1
  /\ \E said \in Says(source.subject) \ {source.said} : source' = [source EXCEPT !.said = said]
  /\ UNCHANGED <<registered, entities, findings, lease, lock, runs, desk, settled, decisions, faults>>

\* CatalogService.put_agent and delete_agent; the registry has no say on tools.
Register ==
  /\ changes < MaxChanges /\ source.subject = "workload"
  /\ changes' = changes + 1
  /\ registered' = ~registered
  /\ settled' = FALSE
  /\ UNCHANGED <<source, entities, findings, lease, lock, runs, desk, decisions, faults>>

-----------------------------------------------------------------------------
(* run_connector() *)

\* claim_connector(): one of two replicas wins.
Claim(r) ==
  /\ runs[r].at = "idle" /\ lease = Free
  /\ lease' = r
  /\ runs' = [runs EXCEPT ![r] = [Idle EXCEPT !.at = "claimed", !.claimed = TRUE]]
  /\ UNCHANGED <<world, entities, findings, lock, desk, settled, decisions, faults>>

LeaseExpires ==
  /\ lease # Free
  /\ \/ ~runs[lease].claimed /\ UNCHANGED faults
     \/ /\ runs[lease].claimed /\ faults < MaxFaults
        /\ faults' = faults + 1
  /\ lease' = Free
  /\ UNCHANGED <<world, entities, findings, lock, runs, desk, settled, decisions>>

Collected(r, saw, clean) ==
  /\ runs[r].at = "claimed"
  /\ runs' = [runs EXCEPT ![r].at = "collected", ![r].saw = saw, ![r].clean = clean]
  /\ UNCHANGED <<world, entities, findings, lease, lock, desk, settled, decisions, faults>>

CollectAll(r) == Collected(r, source.said, TRUE)

\* Warnings, an error or the cap on observations kept it from the subject; a run they did not keep
\* from it is as good as a clean one.
CollectSome(r) == Collected(r, Nothing, FALSE)

\* _resolve(): the fact joins the oldest entity that shares a strong key, which takes the others in.
Kept(es, said) ==
  LET found == Carriers(es, FactKeys(said))
  IN IF found # {} THEN Oldest(es, found) ELSE IF said \in Hashes THEN "tool" ELSE "work"

Resolved(es, said) ==
  LET keep == Kept(es, said)
      gone == Carriers(es, FactKeys(said)) \ {keep}
  IN [(IF es[keep] = Absent THEN NewEntity(es, FactKeys(said), said)
       ELSE IF gone = {} THEN es[keep] ELSE MergeInto(es[keep], es[CHOOSE i \in gone : TRUE]))
      EXCEPT !.keys = @ \cup FactKeys(said), !.said = said]

\* The observations under the lock: findings change and merged entities go at once, the entity
\* that was touched stays in the working set until Save.
Resolve(r) ==
  LET said == runs[r].saw
      keep == Kept(entities, said)
      gone == Carriers(entities, FactKeys(said)) \ {keep}
      moved == IF gone = {} THEN findings ELSE Moved(findings, keep, CHOOSE i \in gone : TRUE)
  IN /\ runs[r].at = "collected" /\ lock = Free
     /\ lock' = r
     /\ \/ /\ said = Nothing
           /\ runs' = [runs EXCEPT ![r].at = "resolved"]
           /\ UNCHANGED <<entities, findings>>
        \/ /\ said # Nothing
           /\ runs' = [runs EXCEPT ![r].at = "resolved", ![r].mem[keep] = Resolved(entities, said)]
           /\ entities' = [i \in Ids |-> IF i \in gone THEN Absent ELSE entities[i]]
           /\ findings' = IF said \in Hashes /\ entities[keep] # Absent
                          THEN Checked(findings, keep, entities[keep].pin, said) ELSE moved
     /\ settled' = FALSE
     /\ UNCHANGED <<world, lease, desk, decisions, faults>>

\* Mutation: a partial run drops what it did not list, too.
DropsAlways(run) == TRUE

\* Only a clean run of a snapshot source removes.
Drops(run) == run.clean

\* _drop_unseen(): an entity the connector no longer lists loses it as a source, and stays.
DropUnseen(e) == [e EXCEPT !.said = Nothing]

\* put_entity() of the working set, then what was not seen.
Save(r) ==
  /\ runs[r].at = "resolved"
  /\ entities' = [i \in Ids |->
       IF runs[r].mem[i] # Absent THEN runs[r].mem[i]
       ELSE IF Drops(runs[r]) THEN DropUnseen(entities[i]) ELSE entities[i]]
  /\ runs' = [runs EXCEPT ![r].at = "saved", ![r].mem = NoEntities, ![r].saw = Nothing, ![r].clean = FALSE]
  /\ settled' = FALSE
  /\ UNCHANGED <<world, findings, lease, lock, desk, decisions, faults>>

-----------------------------------------------------------------------------
(* reconcile_tenant(), under the lock *)

\* list_findings() comes after the merges.
ListedFindings(before, after) == after

\* Registry sync and dedupe, and the reads the rest goes by.
Sync(r) ==
  LET one == Deduped(WithRegistry(entities, registered), findings)
  IN /\ runs[r].at = "saved"
     /\ entities' = one.entities /\ findings' = one.findings
     /\ runs' = [runs EXCEPT ![r].at = "synced", ![r].mem = one.entities,
                             ![r].seen = ListedFindings(findings, one.findings), ![r].reg = registered]
     /\ settled' = TRUE
     /\ UNCHANGED <<world, lease, lock, desk, decisions, faults>>

\* Open findings that nothing wants or shows any more.
Ended(es, fs, reg) ==
  {n \in DOMAIN fs :
     /\ fs[n].status = "open" /\ es[fs[n].of] # Absent
     /\ IF fs[n].kind \in AutoFindings THEN fs[n].kind \notin Wanted(es[fs[n].of], reg) ELSE es[fs[n].of].said = Nothing}

\* What is wanted and neither open nor accepted.
Missing(es, fs, reg) ==
  {f \in {Finding(i, kind, Nothing) : i \in {"work", "entry"}, kind \in AutoFindings} :
     /\ f.kind \in Wanted(es[f.of], reg)
     /\ ~\E n \in DOMAIN fs : fs[n].of = f.of /\ fs[n].kind = f.kind /\ fs[n].status \in Live}

\* Findings no longer wanted are resolved, missing ones opened, by what Sync read.
Settle(r) ==
  LET es == runs[r].mem
      seen == runs[r].seen
      ended == Ended(es, seen, runs[r].reg)
      old == [n \in DOMAIN findings |-> IF n \in ended THEN [seen[n] EXCEPT !.status = "resolved"] ELSE findings[n]]
  IN /\ runs[r].at = "synced"
     /\ findings' = old \o SetToSeq(Missing(es, seen, runs[r].reg))
     /\ lock' = Free
     /\ runs' = [runs EXCEPT ![r] = [Idle EXCEPT !.at = IF runs[r].claimed THEN "applied" ELSE "idle",
                                                 !.claimed = runs[r].claimed]]
     /\ UNCHANGED <<world, entities, lease, desk, settled, decisions, faults>>

\* release_connector(): only its owner's lease.
Release(r) ==
  /\ runs[r].at = "applied"
  /\ lease' = IF lease = r THEN Free ELSE lease
  /\ runs' = [runs EXCEPT ![r] = Idle]
  /\ UNCHANGED <<world, entities, findings, lock, desk, settled, decisions, faults>>

\* An error on the way, which frees the lock and then the lease, or the end of the process, which
\* frees the lock only.
Fail(r) ==
  /\ runs[r].at # "idle" /\ faults < MaxFaults
  /\ faults' = faults + 1
  /\ lock' = IF lock = r THEN Free ELSE lock
  /\ \/ runs' = [runs EXCEPT ![r] = Idle]
     \/ runs[r].claimed /\ runs' = [runs EXCEPT ![r] = [Idle EXCEPT !.at = "applied", !.claimed = TRUE]]
  /\ settled' = FALSE
  /\ UNCHANGED <<world, entities, findings, lease, desk, decisions>>

-----------------------------------------------------------------------------
(* Requests of people *)

Locked(r, es) ==
  /\ runs[r].at = "idle" /\ lock = Free
  /\ lock' = r
  /\ entities' = es
  /\ runs' = [runs EXCEPT ![r].at = "saved"]
  /\ settled' = FALSE
  /\ UNCHANGED <<world, findings, lease, desk, faults>>

\* link(): this workload is the registered agent.
Link(r) ==
  /\ decisions < MaxDecisions /\ registered
  /\ decisions' = decisions + 1
  /\ \E i \in {"work", "entry"} :
       /\ entities[i] # Absent
       /\ Locked(r, [entities EXCEPT ![i].keys = @ \cup {"agent"}])

\* ignore(), and its end.
Ignore(r) ==
  /\ decisions < MaxDecisions
  /\ decisions' = decisions + 1
  /\ \E i \in {"work", "entry"} :
       /\ entities[i] # Absent
       /\ Locked(r, [entities EXCEPT ![i].ignored = ~@])

\* reconcile(), and the part of housekeeping() that reconciles.
Reconcile(r) == Locked(r, entities) /\ UNCHANGED decisions

\* update_finding() takes no lock: it reads the finding, reads and pins the tool when it accepts
\* a definition, and writes the finding.
Decide(n, to) ==
  /\ desk.at = "none" /\ decisions < MaxDecisions
  /\ IF to = "open" THEN findings[n].status \in {"accepted", "resolved"} ELSE findings[n].status = "open"
  /\ decisions' = decisions + 1
  /\ desk' = [NoDecision EXCEPT !.at = IF findings[n].kind \notin AutoFindings /\ to = "accepted" THEN "load" ELSE "record",
                                !.n = n, !.to = to, !.row = findings[n]]
  /\ UNCHANGED <<world, entities, findings, lease, lock, runs, settled, faults>>

Load ==
  /\ desk.at = "load"
  /\ desk' = [desk EXCEPT !.ent = entities[desk.row.of],
                          !.at = IF entities[desk.row.of] = Absent THEN "record" ELSE "pin"]
  /\ UNCHANGED <<world, entities, findings, lease, lock, runs, settled, decisions, faults>>

Pin ==
  /\ desk.at = "pin"
  /\ entities' = [entities EXCEPT ![desk.row.of] = [desk.ent EXCEPT !.pin = desk.row.new]]
  /\ desk' = [desk EXCEPT !.at = "record", !.ent = Absent]
  /\ settled' = FALSE
  /\ UNCHANGED <<world, findings, lease, lock, runs, decisions, faults>>

Record ==
  /\ desk.at = "record"
  /\ findings' = [findings EXCEPT ![desk.n] = [desk.row EXCEPT !.status = desk.to]]
  /\ desk' = NoDecision
  /\ settled' = FALSE
  /\ UNCHANGED <<world, entities, lease, lock, runs, decisions, faults>>

Abandon ==
  /\ desk.at # "none" /\ faults < MaxFaults
  /\ faults' = faults + 1
  /\ desk' = NoDecision
  /\ UNCHANGED <<world, entities, findings, lease, lock, runs, settled, decisions>>

-----------------------------------------------------------------------------
Apply(r) == Resolve(r) \/ Save(r) \/ Sync(r) \/ Settle(r) \/ Release(r)
Request(r) == Link(r) \/ Ignore(r) \/ Reconcile(r)
Decision == (\E n \in DOMAIN findings, to \in {"open", "accepted", "resolved"} : Decide(n, to)) \/ Load \/ Pin \/ Record \/ Abandon

Next ==
  \/ Change \/ Register \/ LeaseExpires \/ Decision
  \/ \E r \in Runs : Claim(r) \/ CollectAll(r) \/ CollectSome(r) \/ Apply(r) \/ Fail(r) \/ Request(r)

Spec == Init /\ [][Next]_vars

\* The scheduler starts a run at each interval, the source answers in full again and again, the
\* lock is granted in order, a lease expires, and a process goes on with what it has begun.
FairSpec ==
  /\ Spec
  /\ SF_vars(\E r \in Runs : Claim(r)) /\ SF_vars(\E r \in Runs : CollectAll(r))
  /\ SF_vars(\E r \in Runs : Resolve(r))
  /\ \A r \in Runs : WF_vars(Save(r) \/ Sync(r) \/ Settle(r) \/ Release(r))
  /\ WF_vars(LeaseExpires) /\ WF_vars(Load \/ Pin \/ Record)

-----------------------------------------------------------------------------
(* Properties *)

TypeOK ==
  /\ source.said \in Says(source.subject) /\ registered \in BOOLEAN
  /\ entities \in [Ids -> Entities] /\ findings \in Seq(Findings)
  /\ lease \in Runs \cup {Free} /\ lock \in Runs \cup {Free}

\* A definition that stays is, from some time on, the pinned one or openly flagged: whatever runs
\* overlapped, failed or came back late, and whatever a person decided meanwhile, the gateways'
\* TOOL_DEFINITION_CHANGED does not stay away (docs/discovery.md: a tool that changes after you
\* approved it shows up).
ChangeIsFlagged ==
  \A h \in Hashes :
    <>[](source.said = h) =>
      <>[](\/ entities["tool"].pin = h
           \/ \E n \in OpenOf(findings, "tool", "tool_definition_changed") : findings[n].new = h)

\* What a reconcile leaves when nothing crossed it: an agent has one entity, registered or not,
\* and each entity the open findings it should have, less those accepted, and no others.
ReconciledIsRight ==
  settled /\ lock = Free =>
    /\ entities["work"].keys \cap entities["entry"].keys = {}
    /\ registered => Carriers(entities, {"agent"}) # {}
    /\ \A i \in {"work", "entry"}, kind \in AutoFindings :
         entities[i] # Absent =>
           LET open == OpenOf(findings, i, kind) # {}
               accepted == \E n \in DOMAIN findings : findings[n] = [Finding(i, kind, Nothing) EXCEPT !.status = "accepted"]
           IN /\ open => kind \in Wanted(entities[i], registered)
              /\ kind \in Wanted(entities[i], registered) => open \/ accepted

\* What the connector once reported goes only when a clean run no longer lists it: not with a
\* partial run, a merge, a link or a reconcile.  A decision that writes back the tool it read
\* earlier may lose it, and so may a failure between the merge of two entities and Save.
Reported ==
  \/ \E i \in Ids : entities[i].said # Nothing
  \/ lock # Free /\ runs[lock].at = "resolved" /\ runs[lock].mem # NoEntities

OnlyCleanRunsRemove ==
  [][Reported /\ ~Reported' =>
       \/ \E r \in Runs : runs[r].clean /\ runs[r].saw = Nothing /\ runs[r].at = "resolved" /\ runs'[r].at = "saved"
       \/ desk.at = "pin" /\ desk'.at = "record"
       \/ faults' > faults]_vars

\* The inventory after overlapping runs, decisions and failures (the two above).
InventoryIsRight == [](TypeOK /\ ReconciledIsRight) /\ OnlyCleanRunsRemove
=============================================================================
