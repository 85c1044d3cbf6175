----------------------------- MODULE MCServices -----------------------------
(***************************************************************************)
(* The catalog's publication and the services beside the gateway, which    *)
(* share no state: Memory Firewall and its event log, the redaction        *)
(* service's project cache, the advisors' training.  The initial state     *)
(* chooses one, `part', which then runs by itself with the first of        *)
(* v1..v10 as its variables.                                               *)
(***************************************************************************)
EXTENDS Integers, Sequences, TLC

CONSTANTS
  Handlers, None, Keys, Agents, MaxRequests, CatalogFailures,   \* Catalog
  Editors, Redactions, Ttl, FetchTime, MaxVersions              \* RedactionProjects

Symmetry == Permutations(Handlers)

VARIABLES part, v1, v2, v3, v4, v5, v6, v7, v8, v9, v10

all == <<part, v1, v2, v3, v4, v5, v6, v7, v8, v9, v10>>

-----------------------------------------------------------------------------
Catalog == INSTANCE Catalog WITH
  MaxFailures <- CatalogFailures,
  tenant <- v1, keys <- v2, agents <- v3, gateway <- v4, catalog <- v5, job <- v6,
  revoked <- v7, clean <- v8, requests <- v9, failures <- v10

-----------------------------------------------------------------------------
\* Chunks: blank ones among them, repeated ids, every way to be refused, and one payload too
\* long for a request.
C(id, text, source, authorized) ==
  [id |-> id, text |-> text, source |-> source, authorized |-> authorized]
Blank == C("a", "blank", "untrusted", FALSE)
Good(id) == C(id, "plain", "trusted", TRUE)
ChunkLists ==
  { <<Blank, Good("a"), C("a", "plain", "untrusted", TRUE)>>,
    <<C("b", "plain", "trusted", FALSE), Blank, C("c", "poison", "trusted", TRUE)>>,
    <<Good("a"), Good("b")>>, <<Good("c"), Good("a")>>, <<Good("b"), Good("d")>>, <<Blank>>,
    <<C("a", "poison", "untrusted", FALSE), Blank, Good("a"), Good("b")>>,
    <<Good("a"), Good("a"), Good("b"), Good("c")>> }
FirewallConfigs ==
  { [onQuarantine |-> "drop_chunk", onInjection |-> "allow", scan |-> TRUE],
    [onQuarantine |-> "drop_chunk", onInjection |-> "drop_chunk", scan |-> TRUE],
    [onQuarantine |-> "escalate", onInjection |-> "drop_chunk", scan |-> FALSE],
    [onQuarantine |-> "drop_chunk", onInjection |-> "block", scan |-> TRUE] }

Firewall == INSTANCE MemoryFirewall WITH
  Guarded <- {"g1"}, Consoles <- {"c1"}, Payloads <- ChunkLists, Configs <- FirewallConfigs,
  MaxItems <- 3, MaxProvenance <- 2, MaxFailures <- 1,
  requests <- v1, lock <- v2, quarantined <- v3, provenance <- v4, admissions <- v5,
  changeLog <- v6, failures <- v7

\* Five events of one to three bytes, read two bytes at a time, so that a block ends before, in
\* and after a line and at its newline.
Log == INSTANCE EventTail WITH
  Lengths <- <<2, 1, 3, 1, 2>>, Limits <- {1, 2, 3}, Block <- 2,
  file <- v1, next <- v2, rest <- v3, reader <- v4, seen <- v5, out <- v6

-----------------------------------------------------------------------------
Projects == INSTANCE RedactionProjects WITH
  Requests <- Redactions, row <- v1, editors <- v2, listening <- v3, channel <- v4, missed <- v5, cache <- v6,
  fetches <- v7, since <- v8

-----------------------------------------------------------------------------
\* Audit logs with retried requests, both kinds of user decisions on one request, released
\* requests and events without features.
E(id, codes, released, features) == [id |-> id, codes |-> codes, released |-> released, features |-> features]
No == {"USER_REJECTED"}
Yes == {"EVIDENCE_USER_CONFIRMATION"}
AuditLogs ==
  { << E("a", No, FALSE, TRUE), E("b", Yes, TRUE, TRUE), E("c", {}, TRUE, TRUE), E("a", Yes, TRUE, TRUE), E("c", No, FALSE, TRUE) >>,
    << E("a", {}, FALSE, TRUE), E("b", {}, TRUE, TRUE), E("c", {}, FALSE, FALSE), E("a", {}, TRUE, TRUE) >>,
    << E("a", No, FALSE, TRUE), E("b", Yes, TRUE, TRUE), E("c", No, FALSE, TRUE), E("a", Yes, TRUE, TRUE), E("b", No, FALSE, TRUE),
       E("c", Yes, TRUE, TRUE) >> }

Training == INSTANCE AdvisorTraining WITH
  Audits <- AuditLogs, Ids <- {"a", "b", "c"}, Hashes <- {0, 1}, Share <- 1, Scores <- {0, 1},
  MinRows <- 2, MinOfEach <- 1, MinAuc <- [num |-> 3, den |-> 4],
  audit <- v1, reviews <- v2, pc <- v3, decided <- v4, weakToo <- v5, rows <- v6, hash <- v7,
  scores <- v8, code <- v9

ASSUME PartsAssumption == Catalog!CatalogAssumption /\ Projects!BoundsAssumption

ASSUME InputsAssumption ==
  Firewall!InputsAssumption /\ Log!SizesAssumption /\ Training!InputsAssumption

-----------------------------------------------------------------------------
Unused10 == v10 = 0
Unused9 == v9 = 0 /\ Unused10
Unused8 == v8 = 0 /\ Unused9
Unused7 == v7 = 0 /\ v8 = 0 /\ Unused9

ServicesInit ==
  \/ part = "catalog" /\ Catalog!Init
  \/ part = "firewall" /\ Firewall!Init /\ Unused8
  \/ part = "tail" /\ Log!Init /\ Unused7
  \/ part = "projects" /\ Projects!Init /\ Unused9
  \/ part = "training" /\ Training!Init /\ Unused10

ServicesNext ==
  /\ UNCHANGED part
  /\ \/ part = "catalog" /\ Catalog!Next
     \/ part = "firewall" /\ Firewall!Next /\ UNCHANGED <<v8, v9, v10>>
     \/ part = "tail" /\ Log!Next /\ UNCHANGED <<v7, v8, v9, v10>>
     \/ part = "projects" /\ Projects!Next /\ UNCHANGED <<v9, v10>>
     \/ part = "training" /\ Training!Next /\ UNCHANGED v10

ServicesSpec == ServicesInit /\ [][ServicesNext]_all

-----------------------------------------------------------------------------
\* catalog.py:3-4, 255-339: after a request that nothing overlapped the current catalog is what the
\* tables say, whatever raced and failed before, and a key whose revocation ran alone is gone for good.
CatalogIsCurrent == part = "catalog" => Catalog!CatalogIsCurrent

\* Memory Firewall (firewall.py:111-156, 180-204, guardrail.py:111-184): a verdict has the reason of
\* its own item though threads share the list of reasons, what is handed on is what was not refused,
\* and the event log's answer is in order and complete but for spoilt lines.
MemoryIsGuarded ==
  /\ part = "firewall" => Firewall!TypeOK /\ Firewall!ReasonIsItsOwn /\ Firewall!HandedOn
  /\ part = "tail" => Log!NewestFirst

\* project_client.py:31-39: a request is never redacted under a project that was replaced longer ago
\* than the time to live and one timeout, whatever announcements are lost and answers come late.
ProjectIsRecent == part = "projects" => Projects!ProjectIsRecent

\* advisor_training.py:59-82, calibrate.py:86-89, 170-185: labels that are not weak are decisions of
\* people, no request is both trained on and measured on, and weights pass only on their ranking.
TrainedOnDecisions ==
  part = "training" => /\ Training!LabelsAreDecisions /\ Training!PassedIsRanked
                       /\ Training!MeasuredApart
=============================================================================
