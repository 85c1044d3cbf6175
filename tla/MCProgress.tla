----------------------------- MODULE MCProgress -----------------------------
(***************************************************************************)
(* The components that wait: connector schedules, human review, the        *)
(* listeners of a process, the self-test of Memory Firewall and the        *)
(* advisor panel.  They share no state.  The initial state chooses one,    *)
(* `part', which then runs by itself under its own fairness: the variables *)
(* of ConnectorSchedule stay as they are when it is another, and each of   *)
(* the others has the first of v1..v11.                                    *)
(***************************************************************************)
EXTENDS ConnectorSchedule, Sequences, TLC

CONSTANTS Requests, Reviewers, Roles, Tenants, ReviewerTenant, RequestTenant, Platform, TTL, MaxTime  \* ReviewQueue

VARIABLES part, v1, v2, v3, v4, v5, v6, v7, v8, v9, v10, v11

To6 == <<v1, v2, v3, v4, v5, v6>>
To8 == <<v1, v2, v3, v4, v5, v6, v7, v8>>
To11 == <<v1, v2, v3, v4, v5, v6, v7, v8, v9, v10, v11>>
all == <<vars, part, To11>>

-----------------------------------------------------------------------------
\* The keys of a tenant's reviewer, of a platform admin, and of a reviewer of another tenant.
RolesGiven == ("ann" :> {"reviewer-raw"}) @@ ("bob" :> {"admin", "reviewer-raw"}) @@ ("eve" :> {"reviewer-raw"})
HomeTenants == ("ann" :> "acme") @@ ("bob" :> "platform") @@ ("eve" :> "other")
TenantAsked == "q1" :> "acme"

Review == INSTANCE ReviewQueue WITH
  now <- v1, reviews <- v2, request <- v3, poll <- v4, told <- v5, released <- v6, call <- v7,
  answered <- v8, seen <- v9, wavered <- v10, failures <- v11

Listen == INSTANCE Serving WITH
  settings <- v1, main <- v2, server <- v3, told <- v4, app <- v5, last <- v6

SelfTest == INSTANCE MemorySelfTest WITH
  Consoles <- {"c1", "c2", "c3"},
  console <- v1, service <- v2, queue <- v3, processes <- v4, last <- v5, logged <- v6

-----------------------------------------------------------------------------
\* Two enforcing advisors, one of them asked two questions, and one in shadow; one thread for two
\* Bedrock questions.
S(provider, mode, questions, cap, allowVerify) ==
  [provider |-> provider, mode |-> mode, questions |-> questions, cap |-> cap, allowVerify |-> allowVerify]
C(band, class, labels, consent) == [band |-> band, class |-> class, labels |-> labels, consent |-> consent]
A(label, confidence, verify) == [label |-> label, confidence |-> confidence, verify |-> verify]
AdvisorSpecs ==
  "judge" :> S("bedrock", "enforce", {"exfiltration", "injection"}, 3, TRUE)
  @@ "local" :> S("local", "enforce", {"exfiltration"}, 2, FALSE)
  @@ "pilot" :> S("http", "shadow", {"injection"}, 5, TRUE)
RequestContexts ==
  { C("low", "PII", {}, {}), C("elevated", "INTERNAL", {"PII"}, {"INTERNAL"}),
    C("high", "PII", {"CONFIDENTIAL"}, {"PII", "CONFIDENTIAL"}), C("elevated", "INTERNAL", {}, {}) }
ValidReplies == { A("benign", 4, TRUE), A("suspicious", 3, TRUE), A("malicious", 4, FALSE) }

Panel == INSTANCE AdvisorPanel WITH
  Specs <- AdvisorSpecs, TotalCap <- 4, Bands <- {"elevated", "high"}, Threads <- 1,
  Contexts <- RequestContexts, Replies <- ValidReplies, MaxRequests <- 2,
  pc <- v1, request <- v2, status <- v3, answers <- v4, threads <- v5, advisory <- v6,
  left <- v7, served <- v8

ASSUME ReviewsAssumption == Review!ReviewAssumption
ASSUME Panel!SpecsAssumption

-----------------------------------------------------------------------------
Unused9 == v9 = 0 /\ v10 = 0 /\ v11 = 0
Unused7 == v7 = 0 /\ v8 = 0 /\ Unused9
Unused1 == v1 = 0 /\ v2 = 0 /\ v3 = 0 /\ v4 = 0 /\ v5 = 0 /\ v6 = 0 /\ Unused7

EachInit ==
  /\ Init
  /\ \/ part = "schedule" /\ Unused1
     \/ part = "review" /\ Review!Init
     \/ part = "listen" /\ Listen!Init /\ Unused7
     \/ part = "selftest" /\ SelfTest!Init /\ Unused7
     \/ part = "panel" /\ Panel!Init /\ Unused9

EachNext ==
  /\ UNCHANGED part
  /\ \/ part = "schedule" /\ Next /\ UNCHANGED To11
     \/ part = "review" /\ Review!Next /\ UNCHANGED vars
     \/ part = "listen" /\ Listen!Next /\ UNCHANGED <<vars, v7, v8, v9, v10, v11>>
     \/ part = "selftest" /\ SelfTest!Next /\ UNCHANGED <<vars, v7, v8, v9, v10, v11>>
     \/ part = "panel" /\ Panel!Next /\ UNCHANGED <<vars, v9, v10, v11>>

\* The fairness of each component's specification.
EachFairness ==
  /\ WF_vars(part = "schedule" /\ Tick) /\ WF_vars(part = "schedule" /\ EditWrite)
  /\ \A t \in Tasks : /\ WF_vars(part = "schedule" /\ Claim(t))
                      /\ WF_vars(part = "schedule" /\ Start(t))
                      /\ WF_vars(part = "schedule" /\ Finish(t))
  /\ \A p \in Replicas : WF_vars(part = "schedule" /\ List(<<p, "schedule">>))
  /\ \A r \in Requests :
       /\ WF_To11(part = "review" /\ Review!Agent(r))
       /\ WF_To11(part = "review" /\ Review!Create(r))
       /\ WF_To11(part = "review" /\ (Review!Hold(r) \/ Review!Block(r)))
  /\ WF_To11(part = "review" /\ Review!Tick)
  /\ WF_To6(part = "listen" /\ Listen!Main)
  /\ \A s \in {"public", "internal"} :
       /\ WF_To6(part = "listen" /\ (Listen!Started(s) \/ Listen!StartFails(s)))
       /\ WF_To6(part = "listen" /\ Listen!Exits(s))
  /\ \A t \in {"c1", "c2", "c3"} :
       WF_To6(part = "selftest" /\ (SelfTest!Start(t) \/ SelfTest!Timeout(t) \/ SelfTest!Reaped(t)
                                    \/ SelfTest!Result(t) \/ SelfTest!Answer(t)))
  /\ WF_To8(part = "panel" /\ Panel!Combine)
  /\ \A j \in Panel!Jobs : WF_To8(part = "panel" /\ Panel!Expire(j))

EachSpec == EachInit /\ [][EachNext]_all /\ EachFairness

-----------------------------------------------------------------------------
\* services/discovery.py:190-244, scheduler.py: a run uses no configuration older than its claim,
\* and a connector that stays enabled is run again, also after a replica died with its lease.
SchedulesGoOn ==
  /\ [](part = "schedule" => TypeOK /\ ConfigIsCurrent)
  /\ (part = "schedule" /\ row.enabled)
       ~> (part = "schedule" /\ (~row.enabled \/ \E t \in Tasks : task[t].at = "running"))

\* Human review (reviews.py, postgres.py:385-406, hooks.py:100-115): a payload goes out only on a
\* timely approval by a person who may decide for its tenant, of two decisions the one that was
\* confirmed stands, whoever saw the raw payload is on record, and an outcome that the agent was
\* told is final, but for what was on its way at the deadline.
ReviewsStand ==
  /\ [](part = "review" => Review!TypeOK /\ Review!ReleasedIfApproved /\ Review!AnsweredStands
                           /\ Review!RawViewRecorded)
  /\ [][part = "review" => Review!AnswerIsFinal]_all

\* "an expired review counts as rejected" (reviews.py:4-5): a request that is held gets an outcome,
\* though nobody decides and some calls fail.
HeldGetsOutcome ==
  \A r \in Requests : (part = "review" /\ Review!Held(r)) ~> (part = "review" /\ Review!HasOutcome(r))

\* serving.py:31-89, 139-161: internal routes answer on their port and to their callers only, not
\* before the startup has finished, and one listener that ends takes the other along.
ListenersAgree ==
  /\ [](part = "listen" => Listen!TypeOK /\ Listen!InternalIsVerified /\ Listen!ServedAfterStartup)
  /\ (part = "listen" /\ Listen!OneGone) ~> (part = "listen" /\ Listen!AllGone)

\* firewall.py:211-231: two self-tests are never in the scratch directory at a time, also when one
\* was killed and its caller has gone, and every test that is asked for ends.
SelfTestsEnd ==
  /\ [](part = "selftest" => SelfTest!OneRunAtATime)
  /\ \A t \in {"c1", "c2", "c3"} :
       (part = "selftest" /\ SelfTest!Waits(t)) ~> (part = "selftest" /\ SelfTest!IsIdle(t))

\* panel.py:144-248: no question about a request reaches a hosted advisor without the tenant's
\* consent, an advisor adds its cap at most and only if it answered in time, and a request waits
\* only as long as the timeouts though every thread hangs.
AdviceIsBounded ==
  /\ [](part = "panel" => Panel!TypeOK /\ Panel!ConsentHolds /\ Panel!EnforcedIsEarned)
  /\ (part = "panel" /\ Panel!Asking) ~> (part = "panel" /\ Panel!Done)
=============================================================================
