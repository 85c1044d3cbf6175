------------------------------ MODULE GuardFlow ------------------------------
(***************************************************************************)
(* Requests of one agent through the gateway (run_stage(),                 *)
(* gateway/flow.py) and the session state they share                       *)
(* (session/store.py, risk/contextual.py), on Redis and any number of      *)
(* replicas.                                                               *)
(*                                                                         *)
(* A request reads a view of the session before policy and guardrails run, *)
(* is decided on that view, and records what happened after the decision;  *)
(* other requests do the same in between.  A read that fails or is too     *)
(* slow gives an empty view; a record is a pipeline without a transaction, *)
(* of which a prefix may be applied.  A tick is the 15 minutes of a        *)
(* quarantine and of the denial window; a session is young within it.      *)
(***************************************************************************)
EXTENDS DecisionTable, FiniteSets

CONSTANTS
  Requests,      \* requests that may be in flight at once
  Sessions,      \* the agent's session ids
  NoSession,     \* a request without one
  Used,          \* the actions tried, a subset of Actions
  PenaltyAfter, QuarantineAfter, AgentQuarantineAfter,   \* of RiskConfig
  VerifierSet,   \* is a verification engine configured?
  MaxServed,     \* requests in all
  MaxFaults,     \* failed reads and records
  MaxTime

ASSUME UsedAssumption == Used \subseteq Actions
ASSUME BoundsAssumption ==
  /\ IsFiniteSet(Requests) /\ Requests # {} /\ NoSession \notin Sessions
  /\ {PenaltyAfter, QuarantineAfter, AgentQuarantineAfter} \subseteq Nat \ {0}
  /\ {MaxServed, MaxFaults, MaxTime} \subseteq Nat

VARIABLES
  mode,     \* RISK_MODE: "shadow" or "enforce"
  now,
  session,  \* what Redis holds of each session
  agent,    \* and of the agent: seen targets, penalties, denials by time, quarantine end
  req,      \* the requests in flight
  decided,  \* the grounds of the payload the last step released, or in shadow mode of
            \* whatever it decided; <<>> for any other step
  served, faults

vars == <<mode, now, session, agent, req, decided, served, faults>>

Idle == [pc |-> "idle"]
Enforcing == mode = "enforce"

Init ==
  /\ mode \in {"shadow", "enforce"}
  /\ now = 0
  /\ session = [s \in Sessions |-> [started |-> -1, denials |-> 0, labels |-> {},
                                    until |-> 0, penalised |-> FALSE]]
  /\ agent = [seen |-> {}, penalties |-> 0, denials |-> [t \in 0..MaxTime |-> 0], until |-> 0]
  /\ req = [r \in Requests |-> Idle]
  /\ decided = <<>>
  /\ served = 0 /\ faults = 0

\* The store could not be read: "unavailable".
EmptyView ==
  [available |-> FALSE, hasSession |-> FALSE, young |-> FALSE, denials |-> 0, labels |-> {},
   until |-> 0, firstSeen |-> FALSE, penalties |-> 0, penalised |-> FALSE,
   agentDenials |-> 0, agentUntil |-> 0]

AgentView(action) ==
  [EmptyView EXCEPT !.available = TRUE,
     !.firstSeen = action.target # "" /\ action.target \notin agent.seen,
     !.penalties = agent.penalties, !.agentDenials = agent.denials[now],
     !.agentUntil = agent.until]

View(s, action) ==
  IF s = NoSession \/ session[s].started = -1 THEN AgentView(action)
  ELSE [AgentView(action) EXCEPT !.hasSession = TRUE, !.young = session[s].started = now,
          !.denials = session[s].denials, !.labels = session[s].labels,
          !.until = session[s].until, !.penalised = session[s].penalised]

\* prepare(): the identity check passed, and the view is read.
Look(r) ==
  /\ req[r] = Idle
  /\ served < MaxServed
  /\ \E s \in Sessions \cup {NoSession}, action \in Used, up \in BOOLEAN :
       /\ ~up => faults < MaxFaults
       /\ faults' = IF up THEN faults ELSE faults + 1
       /\ req' = [req EXCEPT ![r] =
            [pc |-> "looked", session |-> s, action |-> action,
             view |-> IF up THEN View(s, action) ELSE EmptyView]]
  /\ served' = served + 1
  /\ decided' = <<>>
  /\ UNCHANGED <<mode, now, session, agent>>

Quarantined(view) == view.until > now \/ view.agentUntil > now

\* What policy and guardrails say; a denied request has no guardrail's answer.
Checks == {check \in [policy : BOOLEAN, engine : {"allow", "modify", "escalate", "block"}] :
             ~check.policy => check.engine = "block"}

\* Policy, guardrails, advisors, decision table, verification and review queue.
Serve(r) ==
  /\ req[r].pc = "looked"
  /\ LET view == req[r].view
         action == req[r].action
         score == Score(action, view, req[r].session # NoSession)
         band == Band(score, Trust(view))
     IN \E check \in Checks :
        \E advice \in (IF check.engine # "block" /\ band \in AdvisedBands
                       THEN Advice ELSE {NoAdvice}) :
        LET policy == check.policy
            engine == check.engine
            asked == Advised(score, Trust(view), advice)
            table == Decide(policy, engine, asked, action, Quarantined(view), VerifierSet,
                            advice.verify)
        IN \E found \in IF Enforcing THEN Findings(table.outcome, VerifierSet)
                        ELSE {"nothing"} :
           LET out == Resolved(table, found)
           IN \E final \in Finals(Decision(Enforcing, policy, engine, out),
                                  Enforcing /\ out.outcome = "verify") :
              /\ req' = [req EXCEPT ![r] = [pc |-> "served", session |-> @.session,
                                           action |-> action, view |-> view,
                                           final |-> final]]
              /\ decided' =
                   IF Enforcing /\ final \notin {"allow", "modify"} THEN <<>>
                   ELSE <<[view |-> view, session |-> req[r].session, action |-> action,
                           policy |-> policy, engine |-> engine, band |-> asked,
                           asks |-> advice.verify, found |-> found,
                           limit |-> Enforcing /\ out.limit, final |-> final]>>
  /\ UNCHANGED <<mode, now, session, agent, served, faults>>

-----------------------------------------------------------------------------
(* record(): what happened, on the counts the view had *)

Released(r) == req[r].final \in {"allow", "modify"}
Denied(r) == req[r].final = "block"

\* Mutation: the denial being recorded is not counted.
DenialsBefore(r) == req[r].view.denials

Denials(r) == req[r].view.denials + 1

Penalises(r) == Denied(r) /\ Denials(r) >= PenaltyAfter /\ ~req[r].view.penalised

Quarantines(r) == Denied(r) /\ Enforcing /\ Denials(r) >= QuarantineAfter

AgentQuarantines(r) ==
  Denied(r) /\ Enforcing /\ req[r].view.agentDenials + 1 >= AgentQuarantineAfter

Labels(r) ==
  IF ~Released(r) THEN {}
  ELSE (IF req[r].action.stage = "retrieval" THEN {"untrusted"} ELSE {})
       \cup (IF req[r].action.sensitive THEN {"holds"} ELSE {})

\* The commands of the pipeline, in order; the first `done` are applied.
Steps == 0..7

AgentAfter(r, done) ==
  [seen |-> IF done >= 1 /\ Released(r) /\ req[r].action.stage = "tool"
               /\ req[r].action.target # ""
            THEN agent.seen \cup {req[r].action.target} ELSE agent.seen,
   penalties |-> agent.penalties + Points(done >= 2 /\ Penalises(r), 1),
   denials |-> [agent.denials EXCEPT ![now] = @ + Points(done >= 3 /\ Denied(r), 1)],
   until |-> IF done >= 4 /\ AgentQuarantines(r) THEN now + 1 ELSE agent.until]

SessionAfter(r, done) ==
  LET s == session[req[r].session]
  IN [started |-> IF done >= 5 /\ s.started = -1 THEN now ELSE s.started,
      denials |-> s.denials + Points(done >= 5 /\ Denied(r), 1),
      until |-> IF done >= 6 /\ Quarantines(r) THEN now + 1 ELSE s.until,
      penalised |-> s.penalised \/ (done >= 6 /\ Penalises(r)),
      labels |-> s.labels \cup IF done >= 7 THEN Labels(r) ELSE {}]

Record(r) ==
  /\ req[r].pc = "served"
  /\ \E done \in Steps :
       /\ done < 7 => faults < MaxFaults
       /\ faults' = IF done = 7 THEN faults ELSE faults + 1
       /\ agent' = AgentAfter(r, done)
       /\ session' = IF req[r].session = NoSession THEN session
                     ELSE [session EXCEPT ![req[r].session] = SessionAfter(r, done)]
  /\ req' = [req EXCEPT ![r] = Idle]
  /\ decided' = <<>>
  /\ UNCHANGED <<mode, now, served>>

Tick ==
  /\ now < MaxTime
  /\ now' = now + 1
  /\ decided' = <<>>
  /\ UNCHANGED <<mode, session, agent, req, served, faults>>

Next == (\E r \in Requests : Look(r) \/ Serve(r) \/ Record(r)) \/ Tick

Spec == Init /\ [][Next]_vars

-----------------------------------------------------------------------------
(* Properties *)

\* In enforce mode a payload is released only if the policy allowed it, no guardrail
\* blocked or escalated it, the session read as not quarantined, and what risk and the
\* advisors asked for was met: evidence for a high band, an external write or an
\* advisor's question, the row limit or evidence for a big read (decision.py:89-125,
\* contextual.py:245, flow.py:296: five stages combine, each from its own inputs).
ReleasedIsEarned ==
  decided # <<>> /\ Enforcing /\ decided[1].final \in {"allow", "modify"} =>
    LET d == decided[1]
    IN /\ d.policy /\ d.engine \in {"allow", "modify"}
       /\ d.view.until <= now /\ d.view.agentUntil <= now
       /\ d.band # "critical"
       /\ d.found = "allow" \/ (/\ d.found = "nothing"
                                /\ d.band # "high" /\ ~d.asks
                                /\ d.band = "elevated" /\ d.action.externalWrite
                                     => d.action.bigRead
                                /\ d.band = "elevated" /\ d.action.bigRead
                                     => d.limit /\ d.action.accepts)

\* Shadow mode changes no decision (docs/decisions.md:26): the caller gets what policy,
\* guardrails and the review queue say, and no quarantine is ever recorded.
ShadowChangesNothing ==
  ~Enforcing =>
    /\ decided # <<>> =>
         LET d == decided[1]
         IN IF d.policy THEN d.final = d.engine \/ (d.engine = "escalate" /\ d.final = "block")
            ELSE d.final = "block"
    /\ agent.until = 0
    /\ \A s \in Sessions : session[s].until = 0

\* Denials are counted from a view read before the decision, so concurrent denials and
\* lost calls can each hide one; they hide no more than that.  A session or an agent with
\* so many denials has been quarantined, and the agent has paid (contextual.py:327-335).
CountsAreNoticed ==
  LET Slack == Cardinality(Requests) - 1 + faults
  IN /\ \A s \in Sessions :
          /\ Enforcing /\ session[s].denials >= QuarantineAfter + Slack => session[s].until > 0
          /\ session[s].denials >= PenaltyAfter + Slack => session[s].penalised
     /\ Enforcing /\ agent.denials[now] >= AgentQuarantineAfter + Slack => agent.until > now

\* While a quarantine stands, no request that read the store after it was recorded is
\* released, in this session or, for the agent's, in any other (flow.py:135-153: the view
\* is read once and decided on later).
QuarantineBinds ==
  decided # <<>> /\ Enforcing /\ decided[1].final \in {"allow", "modify"} =>
    LET d == decided[1]
    IN \/ ~d.view.available
       \/ /\ agent.until > now => d.view.agentUntil < agent.until
          /\ d.session # NoSession /\ session[d.session].until > now
               => d.view.until < session[d.session].until

\* What a session and an agent did before (the three above) binds what is decided next, in enforce
\* mode only, though requests of one session overlap and the store fails.
HistoryBinds == ShadowChangesNothing /\ CountsAreNoticed /\ QuarantineBinds
=============================================================================
