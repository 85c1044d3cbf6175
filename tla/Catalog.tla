------------------------------ MODULE Catalog ------------------------------
(***************************************************************************)
(* Tenants, gateway keys and agents, and the catalog document that         *)
(* gateways fetch: services/catalog.py and services/gateways.py on         *)
(* store/postgres.py, domain/compiler.py.                                  *)
(*                                                                         *)
(* A handler reads a row, writes it back whole (_merge), and rebuilds the  *)
(* catalog from one read of every table.  Each database call is a step; a  *)
(* handler may fail at any of them.  Actions and score modifiers are rows  *)
(* written by one statement and published as agents are, which stand for   *)
(* them; the one tenant stands for all, since no call spans two.           *)
(***************************************************************************)
EXTENDS Integers

CONSTANTS
  Handlers,      \* requests that may run at once, on any replica
  Keys, Agents,
  None,
  MaxRequests,   \* bound on requests
  MaxFailures    \* bound on requests that fail on the way

CatalogAssumption ==
  /\ None \notin Agents \cup Keys /\ MaxRequests \in Nat /\ MaxFailures \in Nat

VARIABLES
  tenant,     \* control_plane.tenants: status, and whether hosted advisors are allowed
  keys,       \* control_plane.api_keys
  agents,     \* control_plane.agent_profiles
  gateway,    \* control_plane.gateways, of one gateway: what it can read, and heard from lately
  catalog,    \* control_plane.catalog_versions: the newest one, the only one that is read
  job,        \* what each handler is doing
  revoked,    \* keys whose revocation was answered, and whether nothing else ran meanwhile
  clean,      \* the last request ran alone and to its end
  requests, failures

tables == <<tenant, keys, agents, gateway>>
ghosts == <<revoked, clean>>
vars == <<tenant, keys, agents, gateway, catalog, job, revoked, clean, requests, failures>>

NoKey == [active |-> FALSE, limit |-> "none", agent |-> None]
NoDoc == [status |-> "none", advisors |-> FALSE, keys |-> {}, agents |-> {}, flags |-> FALSE]
NoJob == [op |-> "none", step |-> "idle", key |-> None, row |-> NoKey,
          tenant |-> [status |-> "active", advisors |-> FALSE], agents |-> {}, reads |-> "new",
          doc |-> NoDoc, solo |-> FALSE]
Busy(h) == job[h] # NoJob

\* last_seen >= recent and capability not in g.capabilities
OldGatewayLive == gateway.live /\ gateway.reads = "old"

-----------------------------------------------------------------------------
(* Requests.  A request that starts while another runs may overlap it, and both know. *)

Begin(h, request) ==
  LET others == {g \in Handlers : Busy(g)} IN
  /\ ~Busy(h)
  /\ requests < MaxRequests /\ requests' = requests + 1
  /\ job' = [g \in Handlers |-> IF g = h THEN [request EXCEPT !.solo = others = {}]
                                ELSE IF g \in others THEN [job[g] EXCEPT !.solo = FALSE]
                                ELSE NoJob]
  /\ clean' = FALSE
  /\ UNCHANGED <<tables, catalog, revoked, failures>>

Request(op, step, k, row) == [NoJob EXCEPT !.op = op, !.step = step, !.key = k, !.row = row]
Exists(k) == keys[k] # NoKey

NewKey == [active |-> TRUE, limit |-> "default", agent |-> None]

CreateKey(h) ==
  \E k \in Keys, a \in Agents \cup {None} :
    /\ ~Exists(k) /\ \A g \in Handlers : job[g].key # k
    /\ Begin(h, Request("create", IF a = None THEN "put" ELSE "check", k, [NewKey EXCEPT !.agent = a]))

RevokeKey(h) ==
  \E k \in Keys : Exists(k) /\ Begin(h, Request("revoke", "put", k, [keys[k] EXCEPT !.active = FALSE]))

SetRateLimit(h) ==
  \E k \in Keys, limit \in {"default", "low"} :
    /\ Exists(k)
    /\ Begin(h, Request("limit", "put", k, [keys[k] EXCEPT !.limit = limit]))

\* Mutation: binds what is revoked, and so makes it usable.
BindAny(h) ==
  \E k \in Keys, a \in Agents \cup {None} :
    /\ Exists(k)
    /\ Begin(h, Request("bind", IF a = None THEN "put" ELSE "check", k,
                        [NewKey EXCEPT !.agent = a, !.limit = keys[k].limit]))

BindKey(h) ==
  \E k \in Keys, a \in Agents \cup {None} :
    /\ Exists(k) /\ keys[k].active
    /\ Begin(h, Request("bind", IF a = None THEN "put" ELSE "check", k, [keys[k] EXCEPT !.agent = a]))

SetTenantStatus(h) ==
  \E status \in {"active", "suspended"} :
    Begin(h, [Request("tenant", "put", None, NoKey) EXCEPT !.tenant = [tenant EXCEPT !.status = status]])

SetAdvisorPolicy(h) ==
  \E allowed \in BOOLEAN :
    Begin(h, [Request("tenant", IF allowed /\ ~tenant.advisors THEN "check" ELSE "put", None, NoKey)
                EXCEPT !.tenant = [tenant EXCEPT !.advisors = allowed]])

PutOrDeleteAgents(h) ==
  \E after \in SUBSET Agents :
    after # agents /\ Begin(h, [Request("agents", "put", None, NoKey) EXCEPT !.agents = after])

\* A gateway that is new, comes back or has changed; another heartbeat changes nothing.
Heartbeat(h) ==
  \E reads \in {"old", "new"} :
    /\ ~gateway.live \/ gateway.reads # reads
    /\ Begin(h, [Request("gateway", "put", None, NoKey) EXCEPT !.reads = reads])

\* GET /catalog on a fresh install.
FirstFetch(h) == catalog = NoDoc /\ Begin(h, Request("publish", "tenants", None, NoKey))

-----------------------------------------------------------------------------
(* The steps of a request *)

Goto(h, step) == job' = [job EXCEPT ![h].step = step]
EndJob(h) == job' = [job EXCEPT ![h] = NoJob]

\* _require_agent() and _require_capability().
Allowed(h) ==
  /\ job[h].op # "tenant" => job[h].row.agent \in agents
  /\ ~OldGatewayLive

Check(h) ==
  /\ job[h].step = "check"
  /\ IF Allowed(h) THEN Goto(h, "put") ELSE EndJob(h)
  /\ UNCHANGED <<tables, catalog, ghosts, requests, failures>>

\* publish() takes nothing of the request, which remembers only what it is to answer.
Publish(j) == [NoJob EXCEPT !.step = "tenants", !.solo = j.solo, !.key = IF j.op = "revoke" THEN j.key ELSE None,
                            !.op = IF j.op = "revoke" THEN "revoke" ELSE "publish"]

Put(h) ==
  LET j == job[h] IN
  /\ j.step = "put"
  /\ tenant' = IF j.op = "tenant" THEN j.tenant ELSE tenant
  /\ keys' = IF j.op \in {"create", "revoke", "limit", "bind"} THEN [keys EXCEPT ![j.key] = j.row] ELSE keys
  /\ agents' = IF j.op = "agents" THEN j.agents ELSE agents
  /\ gateway' = IF j.op = "gateway" THEN [reads |-> j.reads, live |-> TRUE] ELSE gateway
  /\ job' = [job EXCEPT ![h] = Publish(j)]
  /\ UNCHANGED <<catalog, revoked, clean, requests, failures>>

-----------------------------------------------------------------------------
(* publish(): one read after the other, then the current catalog, then the insert *)

Read(h, from, to, doc) ==
  /\ job[h].step = from
  /\ job' = [job EXCEPT ![h].step = to, ![h].doc = doc]
  /\ UNCHANGED <<tables, catalog, ghosts, requests, failures>>

ReadTenants(h) ==
  Read(h, "tenants", "keys", [NoDoc EXCEPT !.status = tenant.status, !.advisors = tenant.advisors])

\* build_catalog() leaves out keys that are not active.
Published == {k \in Keys : keys[k].active}
ReadKeys(h) ==
  Read(h, "keys", "agents", [job[h].doc EXCEPT !.keys = {<<k, keys[k].limit, keys[k].agent>> : k \in Published}])

ReadAgents(h) == Read(h, "agents", "fleet", [job[h].doc EXCEPT !.agents = agents])

\* _inventory_flags(), of a tenant with an open finding.
ReadFleet(h) == Read(h, "fleet", "compare", [job[h].doc EXCEPT !.flags = ~OldGatewayLive])

\* The document was published already; before the first one nothing is the same.
SameAsCurrent(doc) == catalog = doc

Answer(h) ==
  /\ revoked' = IF job[h].op = "revoke" THEN revoked \cup {[key |-> job[h].key, solo |-> job[h].solo]} ELSE revoked
  /\ clean' = job[h].solo
  /\ EndJob(h)
  /\ UNCHANGED <<tables, requests, failures>>

Unchanged(h) == job[h].step = "compare" /\ SameAsCurrent(job[h].doc) /\ Answer(h) /\ UNCHANGED catalog

Compare(h) ==
  /\ job[h].step = "compare" /\ ~SameAsCurrent(job[h].doc)
  /\ Goto(h, "add")
  /\ UNCHANGED <<tables, catalog, ghosts, requests, failures>>

AddCatalog(h) ==
  /\ job[h].step = "add"
  /\ catalog' = job[h].doc
  /\ Answer(h)

\* The database fails, or the control plane stops: what was written stays.
Fail(h) ==
  /\ Busy(h) /\ failures < MaxFailures /\ failures' = failures + 1
  /\ EndJob(h)
  /\ UNCHANGED <<tables, catalog, ghosts, requests>>

\* No heartbeat for 15 minutes.
GatewayLost ==
  /\ gateway.live /\ gateway' = [gateway EXCEPT !.live = FALSE]
  /\ UNCHANGED <<tenant, keys, agents, catalog, job, revoked, clean, requests, failures>>

-----------------------------------------------------------------------------
Init ==
  /\ tenant = [status |-> "active", advisors |-> FALSE]
  /\ keys = [k \in Keys |-> NoKey] /\ agents = {}
  /\ gateway = [reads |-> "new", live |-> FALSE]
  /\ catalog = NoDoc /\ job = [h \in Handlers |-> NoJob]
  /\ revoked = {} /\ clean = FALSE
  /\ requests = 0 /\ failures = 0

Next ==
  \/ \E h \in Handlers :
       \/ CreateKey(h) \/ RevokeKey(h) \/ SetRateLimit(h) \/ BindKey(h)
       \/ SetTenantStatus(h) \/ SetAdvisorPolicy(h) \/ PutOrDeleteAgents(h)
       \/ Heartbeat(h) \/ FirstFetch(h)
       \/ Check(h) \/ Put(h)
       \/ ReadTenants(h) \/ ReadKeys(h) \/ ReadAgents(h) \/ ReadFleet(h)
       \/ Unchanged(h) \/ Compare(h) \/ AddCatalog(h) \/ Fail(h)
  \/ GatewayLost

Spec == Init /\ [][Next]_vars

-----------------------------------------------------------------------------
KeyRows == [active : BOOLEAN, limit : {"none", "default", "low"}, agent : Agents \cup {None}]
TenantRows == [status : {"active", "suspended"}, advisors : BOOLEAN]
Docs == [status : {"none", "active", "suspended"}, advisors : BOOLEAN,
         keys : SUBSET (Keys \X {"none", "default", "low"} \X (Agents \cup {None})),
         agents : SUBSET Agents, flags : BOOLEAN]
Jobs == [op : {"none", "create", "revoke", "limit", "bind", "tenant", "agents", "gateway", "publish"},
         step : {"idle", "check", "put", "tenants", "keys", "agents", "fleet", "compare", "add"},
         key : Keys \cup {None}, row : KeyRows, tenant : TenantRows, agents : SUBSET Agents,
         reads : {"old", "new"}, doc : Docs, solo : BOOLEAN]

TypeOK ==
  /\ tenant \in TenantRows /\ keys \in [Keys -> KeyRows] /\ agents \subseteq Agents
  /\ gateway \in [reads : {"old", "new"}, live : BOOLEAN]
  /\ catalog \in Docs
  /\ job \in [Handlers -> Jobs]
  /\ revoked \subseteq [key : Keys, solo : BOOLEAN]
  /\ clean \in BOOLEAN
  /\ requests \in 0..MaxRequests /\ failures \in 0..MaxFailures

\* "Every change republishes the catalog document right away" (catalog.py:3-4): after a request
\* that nothing overlapped the current catalog is what the tables say, whatever races and
\* failures came before; flags that a live gateway cannot read are never in it.
QuietCatalogIsCurrent ==
  clean =>
    /\ catalog.status = tenant.status /\ catalog.advisors = tenant.advisors
    /\ catalog.keys = {<<k, keys[k].limit, keys[k].agent>> : k \in {q \in Keys : keys[q].active}}
    /\ catalog.agents = agents
    /\ catalog.flags => ~OldGatewayLive

\* "so a revoked key ... reaches the gateways" (catalog.py:3-4): no later request brings back a
\* key whose revocation ran alone, in the table or in the current catalog.
RevokedAloneStaysRevoked ==
  \A r \in revoked : r.solo => /\ ~keys[r.key].active
                               /\ \A entry \in catalog.keys : entry[1] # r.key

\* Both, of the requests of one tenant (catalog.py:3-4, 255-339).
CatalogIsCurrent == TypeOK /\ QuietCatalogIsCurrent /\ RevokedAloneStaysRevoked

\* "Every change republishes the catalog document right away (no approval step), so a revoked
\* key ... reaches the gateways within seconds" (catalog.py:3-4): with nothing running and
\* nothing failed, the current catalog has no key whose revocation was answered.
RevokedIsGone ==
  (\A h \in Handlers : ~Busy(h)) /\ failures = 0
    => \A r \in revoked : \A entry \in catalog.keys : entry[1] # r.key
=============================================================================
