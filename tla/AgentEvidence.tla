--------------------------- MODULE AgentEvidence ---------------------------
(***************************************************************************)
(* What Kubernetes, the gateway's audit log and the registry say of one    *)
(* program over time, and what the rules make of it: is it an agent, is it *)
(* managed, and which finding is open (discovery/classify.py, the          *)
(* kubernetes and gateway connectors, the parts of discovery/pipeline.py   *)
(* that keep what each source said and let it age).                        *)
(*                                                                         *)
(* The program is a workload whose pods may be of two templates during a   *)
(* rollout.  A template is what its containers give away.  A run of a      *)
(* connector is one step, with the reconcile that ends it: Discovery has   *)
(* the steps between.  Left out are environments, owners, volumes, the     *)
(* relations (Relations) and ignored entities.                             *)
(***************************************************************************)
EXTENDS Integers, SequencesExt

CONSTANTS
  Templates,        \* what pods of the program may give away
  StaleAfter,       \* STALE_AFTER_DAYS, which is EDGE_TTL, too
  Lookback,         \* lookback_hours of the gateway connector
  MaxTime, MaxChanges

Hints == {"model", "gateway", "framework", "mcp", "data", "server"}
Stages == {"input", "tool"}

AgentEvidenceAssumption ==
  /\ Templates \subseteq SUBSET Hints
  /\ {StaleAfter, Lookback, MaxTime, MaxChanges} \subseteq Nat /\ Lookback > 0 /\ Lookback <= StaleAfter

VARIABLES
  labelled,    \* the pods name their agent id
  pods,        \* templates of the pods, in the order the API lists them
  log,         \* when the agent was last seen at the gateway, for each stage
  registered,
  entities,
  now, changes,
  reconciled,  \* nothing happened since the last reconcile
  used,        \* when the program last had, or used, the gateway
  heard,       \* when a connector last reported something of the entity
  listed       \* the pods of Kubernetes' last report, and when that was

world == <<labelled, pods, log, registered>>
vars == <<world, entities, now, changes, reconciled, used, heard, listed>>

Never == -100
Ids == {"workload", "agent"}
Sources == {"kubernetes", "gateway"}
NoEntry == [at |-> Never, signals |-> {}]
Absent == [kind |-> "none", by |-> [s \in Sources |-> NoEntry], linked |-> FALSE, first |-> Never, last |-> Never,
           likely |-> "none", state |-> "not_agent", finding |-> "none"]

-----------------------------------------------------------------------------
(* What the connectors say *)

IsServer(t) == "server" \in t /\ "framework" \notin t

\* The first pod stands for the workload.
Looked(ps) == ps[1]

\* _workload_observation()
PodSignals(t) ==
  LET model == IF "model" \notin t \/ IsServer(t) THEN {}
               ELSE {"calls_model"} \cup (IF "gateway" \in t THEN {} ELSE {"direct_model_access"})
  IN model
     \cup (IF "gateway" \in t THEN {"gateway_client"} ELSE {})
     \cup (IF "framework" \in t THEN {"agent_framework"} ELSE {})
     \cup (IF "mcp" \in t THEN {"mcp_client"} ELSE {})
     \cup (IF t \cap {"mcp", "data"} # {} THEN {"uses_tools"} ELSE {})
     \cup (IF "server" \in t THEN {"llm_server"} ELSE {})

PodKind(t) == IF IsServer(t) THEN "model_provider" ELSE "workload"

\* _agent_observation() of the rows of the look-back window.
SeenStages == {s \in Stages : log[s] > now - Lookback}
LogSignals ==
  {"gateway_client"} \cup (IF "input" \in SeenStages THEN {"calls_model"} ELSE {})
                     \cup (IF "tool" \in SeenStages THEN {"uses_tools"} ELSE {})

\* The entity that shares a strong key with a report of the source.
Home(source) == IF source = "gateway" \/ labelled THEN "agent" ELSE "workload"

-----------------------------------------------------------------------------
(* classify.py *)

Said(e) == {s \in Sources : e.by[s] # NoEntry}
Signals(e) == (UNION {e.by[s].signals : s \in Sources}) \cup (IF e.linked THEN {"registered"} ELSE {})

\* Somebody says that it is an agent.
Told(kind, sig) == "registered" \in sig \/ ("gateway_client" \in sig /\ kind = "agent")
Serves(sig) == "llm_server" \in sig /\ "calls_model" \notin sig
Works(sig) == "calls_model" \in sig /\ {"uses_tools", "mcp_client", "agent_framework"} \cap sig # {}
Hinted(sig) == {"agent_framework", "mcp_client", "calls_model"} \cap sig # {}

Likelihood(kind, sig) ==
  IF kind \notin {"agent", "workload"} THEN "none"
  ELSE IF Told(kind, sig) \/ (~Serves(sig) /\ Works(sig)) THEN "confirmed"
  ELSE IF ~Serves(sig) /\ Hinted(sig) THEN "probable" ELSE "none"

\* Mutation: who is seen at the gateway is managed, whatever else it is seen to do.
GatewayFirst(e, sig) ==
  IF "gateway_client" \in sig THEN "managed" ELSE "registered_unmanaged"

\* A registered agent some connector saw lately.
Observed(e, sig) ==
  IF "gateway_client" \in sig /\ "direct_model_access" \notin sig THEN "managed" ELSE "registered_unmanaged"

\* Mutation: who was never observed is not stale.
NeverUnobserved(e) == Said(e) # {} /\ e.last < now - StaleAfter

Stale(e) == (IF Said(e) = {} THEN e.first ELSE e.last) < now - StaleAfter

StateOf(e) ==
  IF e.likely = "none" THEN "not_agent"
  ELSE IF ~e.linked THEN "shadow"
  ELSE IF Stale(e) THEN "stale"
  ELSE IF Said(e) = {} THEN "registered_unmanaged" ELSE Observed(e, Signals(e))

\* wanted_findings(); nobody accepts one here, so it is what is open.
Finding(e) ==
  IF e.state = "stale" THEN "stale_agent"
  ELSE IF Said(e) = {} \/ e.last < now - StaleAfter THEN "none"
  ELSE CASE e.state = "shadow" -> (IF e.likely = "confirmed" THEN "shadow_agent" ELSE "probable_shadow_agent")
         [] e.state = "registered_unmanaged" -> "unmanaged_agent"
         [] OTHER -> "none"

-----------------------------------------------------------------------------
(* pipeline.py *)

\* What a source said of an entity; the kind it was first reported as stays.
Reported(e, source, kind, signals) ==
  [e EXCEPT !.kind = IF e = Absent THEN kind ELSE @,
            !.first = IF e = Absent THEN now ELSE @,
            !.by[source] = [at |-> now, signals |-> signals],
            !.last = now]

\* Mutation: a source's last word counts for ever.
NeverAged(e) == e

\* What nobody has repeated for so long is no longer evidence.
Aged(e) == [e EXCEPT !.by = [s \in Sources |-> IF @[s].at < now - StaleAfter THEN NoEntry ELSE @[s]]]

\* _refresh_derived()
Refreshed(e) ==
  [e EXCEPT !.last = IF Said(e) = {} THEN @ ELSE CHOOSE t \in {e.by[s].at : s \in Said(e)} : \A s \in Said(e) : e.by[s].at <= t]

\* Every registered agent has an entity.
Linked(id, e, reg) ==
  IF id = "agent" /\ reg /\ e = Absent
  THEN [Absent EXCEPT !.kind = "agent", !.linked = TRUE, !.first = now, !.last = now]
  ELSE [e EXCEPT !.linked = id = "agent" /\ reg]

Judged(e) ==
  LET likely == [e EXCEPT !.likely = Likelihood(e.kind, Signals(e))]
      stated == [likely EXCEPT !.state = StateOf(likely)]
  IN [stated EXCEPT !.finding = Finding(stated)]

\* reconcile_tenant()
Reconcile(es) ==
  [id \in Ids |-> LET e == Linked(id, es[id], registered)
                  IN IF e = Absent THEN Absent ELSE Judged(Refreshed(Aged(e)))]

-----------------------------------------------------------------------------
Init ==
  /\ labelled \in BOOLEAN
  /\ pods = <<>> /\ log = [s \in Stages |-> Never] /\ registered \in BOOLEAN
  /\ entities = [id \in Ids |-> Absent]
  /\ now = 0 /\ changes = 0 /\ reconciled = FALSE
  /\ used = Never /\ heard = [id \in Ids |-> Never] /\ listed = [pods |-> <<>>, at |-> Never]

HasGateway(ps) == \E i \in DOMAIN ps : "gateway" \in ps[i]

Tick ==
  /\ now < MaxTime
  /\ now' = now + 1
  /\ used' = IF HasGateway(pods) THEN now + 1 ELSE used
  /\ reconciled' = FALSE
  /\ UNCHANGED <<world, entities, changes, heard, listed>>

\* The workload is deployed, rolled to another template, with pods of both for a while or not, or
\* deleted.
Deploy ==
  /\ changes < MaxChanges
  /\ changes' = changes + 1
  /\ \/ /\ Len(pods) = 1
        /\ \E t \in Templates \ {pods[1]} : pods' \in {<<t, pods[1]>>, <<pods[1], t>>, <<t>>}
     \/ Len(pods) = 2 /\ \E i \in DOMAIN pods : pods' = <<pods[i]>>
     \/ pods = <<>> /\ \E t \in Templates : pods' = <<t>>
     \/ pods # <<>> /\ pods' = <<>>
  /\ used' = IF HasGateway(pods') THEN now ELSE used
  /\ reconciled' = FALSE
  /\ UNCHANGED <<labelled, log, registered, entities, now, heard, listed>>

\* A request of the program, under its agent id.
Call(stage) ==
  /\ HasGateway(pods) /\ log[stage] # now
  /\ log' = [log EXCEPT ![stage] = now]
  /\ used' = now
  /\ reconciled' = FALSE
  /\ UNCHANGED <<labelled, pods, registered, entities, now, changes, heard, listed>>

Register ==
  /\ changes < MaxChanges
  /\ changes' = changes + 1
  /\ registered' = ~registered
  /\ reconciled' = FALSE
  /\ UNCHANGED <<labelled, pods, log, entities, now, used, heard, listed>>

Ran(es) ==
  /\ entities' = Reconcile(es)
  /\ reconciled' = TRUE
  /\ UNCHANGED <<world, now, changes, used>>

\* A run of the kubernetes connector; one that is clean drops what it did not list.
RunKubernetes ==
  LET id == Home("kubernetes")
      t == Looked(pods)
  IN \/ /\ pods # <<>>
        /\ Ran([entities EXCEPT ![id] = Reported(@, "kubernetes", PodKind(t), PodSignals(t))])
        /\ heard' = [heard EXCEPT ![id] = now]
        /\ listed' = [pods |-> pods, at |-> now]
     \/ /\ pods = <<>> /\ entities[id] # Absent
        /\ Ran([entities EXCEPT ![id].by["kubernetes"] = NoEntry])
        /\ listed' = [pods |-> pods, at |-> now]
        /\ UNCHANGED heard

RunGateway ==
  /\ SeenStages # {}
  /\ Ran([entities EXCEPT !["agent"] = Reported(@, "gateway", "agent", LogSignals)])
  /\ heard' = [heard EXCEPT !["agent"] = now]
  /\ UNCHANGED listed

\* Housekeeping, a run that collected nothing and is not clean, or a request.
JustReconcile ==
  /\ ~reconciled
  /\ Ran(entities)
  /\ UNCHANGED <<heard, listed>>

Next == Tick \/ Deploy \/ Register \/ RunKubernetes \/ RunGateway \/ JustReconcile \/ \E s \in Stages : Call(s)

Spec == Init /\ [][Next]_vars

-----------------------------------------------------------------------------
(* Properties *)

TypeOK ==
  /\ labelled \in BOOLEAN /\ pods \in BoundedSeq(Templates, 2) /\ registered \in BOOLEAN
  /\ \A id \in Ids :
       /\ entities[id].kind \in {"none", "agent", "workload", "model_provider"}
       /\ entities[id].likely \in {"none", "probable", "confirmed"}
       /\ entities[id].state \in {"managed", "registered_unmanaged", "shadow", "stale", "not_agent"}
       /\ entities[id].finding \in {"none", "stale_agent", "shadow_agent", "probable_shadow_agent", "unmanaged_agent"}

\* Managed is "registered, and calling through the guardrail gateway" (docs/discovery.md:9): the
\* program had or used the gateway not longer ago than evidence lasts, whichever sources went quiet,
\* while others kept reporting it (pipeline.py:561-565).
ManagedIsEarned ==
  reconciled /\ entities["agent"].state = "managed" =>
    registered /\ used > now - StaleAfter - Lookback

Bypass(t) == "model" \in t /\ "gateway" \notin t /\ ~IsServer(t)

\* A workload Kubernetes reports with a model and without the gateway has an open finding as long as
\* the report is evidence, whatever the gateway's log says of its agent (classify.py:59-60).
BypassIsFlagged ==
  reconciled /\ listed.pods = pods /\ listed.at >= now - StaleAfter /\ Len(pods) = 1 /\ Bypass(pods[1])
    /\ entities[Home("kubernetes")].kind # "model_provider" =>
    entities[Home("kubernetes")].finding \in {"shadow_agent", "probable_shadow_agent", "unmanaged_agent"}

\* A registered agent is stale when "no connector has seen it for 30 days" (docs/discovery.md:12),
\* were it never seen, dropped, or only not seen again (classify.py:53-58).
QuietGoesStale ==
  LET e == entities["agent"]
  IN reconciled /\ registered /\ e.kind \in {"agent", "workload"}
       /\ e.first < now - StaleAfter /\ heard["agent"] < now - StaleAfter =>
       e.state = "stale" /\ e.finding = "stale_agent"
=============================================================================
