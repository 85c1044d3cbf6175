---------------------------- MODULE DnsEvidence ----------------------------
(***************************************************************************)
(* The dns_log connector: who looks up hosts of model providers, and       *)
(* whether that is a bypass of the gateway, from the lines of query logs   *)
(* that are cut at a budget, are not all readable and stay in their files  *)
(* for longer than a run looks back.                                       *)
(*                                                                         *)
(* Two machines write into the log: one calls its model directly, the      *)
(* other in sidecar mode, after it asked the gateway, whose address it may *)
(* still have.  Each is a source of its own: by instance or by address.    *)
(* Left out are relations, MCP lookups, addresses that change hands and    *)
(* the warnings that make a run partial.                                   *)
(***************************************************************************)
EXTENDS Integers, SequencesExt

CONSTANTS
  CachedFor,        \* for how long the sidecar keeps a connection to the gateway
  Budget,           \* lines that max_mb has room for
  Window,           \* window_hours
  StaleAfter,       \* STALE_AFTER_DAYS
  MaxLines, MaxTime

DnsEvidenceAssumption ==
  {CachedFor, Budget, Window, StaleAfter, MaxLines, MaxTime} \subseteq Nat /\ Budget > 0

VARIABLES
  lines,      \* of the log files, in the order of their names
  asked,      \* when the sidecar last looked up the gateway
  endpoints,  \* what the inventory has of each source
  now

vars == <<lines, asked, endpoints, now>>

Never == -100
Machines == {"direct", "sidecar"}
Line(who, host) == [from |-> who, host |-> host, at |-> now]
Garbled == [from |-> "nobody", host |-> "none", at |-> Never]
Absent == [signals |-> {}, lookups |-> 0, at |-> Never]

-----------------------------------------------------------------------------
(* collect() *)

\* Mutation: the newest lines are read.
Newest(all) == SubSeq(all, Len(all) - (IF Len(all) < Budget THEN Len(all) ELSE Budget) + 1, Len(all))

\* _read_files(), _fetch_lines(): from the beginning.
Read(all) == SubSeq(all, 1, IF Len(all) < Budget THEN Len(all) ELSE Budget)

InWindow(line) == line # Garbled /\ line.at >= now - Window

Of(all, who, host) == {n \in DOMAIN all : InWindow(all[n]) /\ all[n].from = who /\ all[n].host = host}

LooksUpGateway(all, who) == Of(all, who, "gateway") # {}

\* _source_observation()
Observed(all, who) ==
  LET lookups == Cardinality(Of(all, who, "provider"))
      gateway == LooksUpGateway(all, who)
  IN [signals |-> (IF lookups = 0 THEN {}
                   ELSE {"calls_model"} \cup (IF gateway THEN {} ELSE {"direct_model_access"}))
                  \cup (IF gateway THEN {"gateway_client"} ELSE {}),
      lookups |-> IF gateway THEN 0 ELSE lookups,
      at |-> now]

Seen(all) == {who \in Machines : Of(all, who, "provider") \cup Of(all, who, "gateway") # {}}

\* An endpoint is in no registry: calling a model makes it a possible agent, and that a finding.
Finding(e) == IF "calls_model" \in e.signals THEN "probable_shadow_agent" ELSE "none"

\* What nobody repeated is no evidence any more.
Aged(e) == IF e.at < now - StaleAfter THEN Absent ELSE e

-----------------------------------------------------------------------------
Init ==
  /\ lines = <<>> /\ asked = Never
  /\ endpoints = [who \in Machines |-> Absent]
  /\ now = 0

Written(new) == Len(lines) < MaxLines /\ lines' = Append(lines, new) /\ UNCHANGED <<endpoints, now>>

Direct == Written(Line("direct", "provider")) /\ UNCHANGED asked

\* The sidecar asks the gateway before it calls its model.
Ask ==
  /\ asked < now - CachedFor
  /\ asked' = now
  /\ Written(Line("sidecar", "gateway"))

Call == asked >= now - CachedFor /\ Written(Line("sidecar", "provider")) /\ UNCHANGED asked

Garble == Written(Garbled) /\ UNCHANGED asked

Tick ==
  /\ now < MaxTime
  /\ now' = now + 1
  /\ UNCHANGED <<lines, asked, endpoints>>

\* A run with the reconcile that ends it.
Run ==
  LET read == Read(lines)
  IN /\ endpoints' = [who \in Machines |->
                        IF who \in Seen(read) THEN Observed(read, who) ELSE Aged(endpoints[who])]
     /\ UNCHANGED <<lines, asked, now>>

Next == Direct \/ Ask \/ Call \/ Garble \/ Tick \/ Run

Spec == Init /\ [][Next]_vars

-----------------------------------------------------------------------------
(* Properties *)

TypeOK ==
  /\ \A n \in DOMAIN lines : lines[n] = Garbled \/ lines[n].at \in 0..now
  /\ \A who \in Machines : endpoints[who].lookups \in 0..MaxLines

\* "SDK (sidecar) mode is not a bypass" (docs/discovery.md:71), wherever the log is cut and however
\* much of it is older than the window.  (Not so if a connection to the gateway outlives the window:
\* then only the provider is looked up, see dns_log.py:219.)
SidecarIsNoBypass ==
  "direct_model_access" \notin endpoints["sidecar"].signals /\ endpoints["sidecar"].lookups = 0

\* "Any source resolving model-provider hosts" (docs/discovery.md:82) is found by a run that
\* read the whole log, with all its lookups, whatever others do in the log (dns_log.py:109-119).
BypassIsFound ==
  /\ Run /\ Len(lines) <= Budget
  /\ \E n \in DOMAIN lines : lines[n].from = "direct" /\ lines[n].at = now
  => /\ Finding(endpoints'["direct"]) # "none"
     /\ "direct_model_access" \in endpoints'["direct"].signals
     /\ endpoints'["direct"].lookups = Cardinality({n \in DOMAIN lines :
          lines[n].from = "direct" /\ lines[n].at >= now - Window})

\* What a run reports is of its window and ages out afterwards, however long the files keep their
\* lines (dns_log.py:101, pipeline.py:561-565): who has been quiet for longer is no possible agent.
QuietIsNoAgent ==
  Run => \A who \in Machines :
    Finding(endpoints'[who]) # "none" =>
      \E n \in DOMAIN lines : lines[n].from = who /\ lines[n].at >= now - Window - StaleAfter
=============================================================================
