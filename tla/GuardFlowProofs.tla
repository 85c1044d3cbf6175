--------------------------- MODULE GuardFlowProofs ---------------------------
(***************************************************************************)
(* What the gateway releases was earned and what was denied before counts, *)
(* for every approved trust, every set of actions, sessions and thresholds *)
(* and any number of requests.  How a score is reached stays opaque: the   *)
(* table is right for any band.                                            *)
(***************************************************************************)
EXTENDS GuardFlow, FiniteSetTheorems, TLAPS

\* The times a request was shown, and those the store has, can be compared.
ViewTimes(view) == view.until \in Nat /\ view.agentUntil \in Nat

TimesType ==
  /\ now \in Nat /\ agent.until \in Nat
  /\ DOMAIN session = Sessions /\ \A s \in Sessions : session[s].until \in Nat
  /\ DOMAIN req = Requests
  /\ \A r \in Requests : req[r].pc # "idle" => ViewTimes(req[r].view)

IInv == TimesType /\ ReleasedIsEarned

-----------------------------------------------------------------------------
(* The decision table *)

LEMMA OrHoldKeeps ==
  ASSUME NEW outcome, NEW limit, NEW action, NEW verifier,
         OrHold(outcome, limit, action, verifier) # "hold"
  PROVE  /\ OrHold(outcome, limit, action, verifier) = outcome
         /\ outcome \in Allowing /\ limit => action.accepts
BY DEF OrHold

\* An outcome that lets a request go on as it is.
LEMMA TableAllows ==
  ASSUME NEW policy \in BOOLEAN, NEW engine \in {"allow", "modify", "escalate", "block"},
         NEW band, NEW action, NEW quarantined \in BOOLEAN, NEW verifier, NEW asks \in BOOLEAN,
         Decide(policy, engine, band, action, quarantined, verifier, asks).outcome \in Allowing
  PROVE  /\ policy /\ ~quarantined /\ engine \in {"allow", "modify"}
         /\ band \notin {"critical", "high"} /\ ~asks
         /\ band = "elevated" /\ action.externalWrite => action.bigRead
         /\ band = "elevated" /\ action.bigRead =>
              /\ Decide(policy, engine, band, action, quarantined, verifier, asks).limit
              /\ action.accepts
<1> DEFINE risk == RiskOutcome(band, action)
           stricter == Stricter(risk.outcome, FromEngine[engine])
           asked == AdvisorAsks(stricter, asks)
           out == OrHold(asked, risk.limit, action, verifier)
           table == Decide(policy, engine, band, action, quarantined, verifier, asks)
<1>1. policy /\ ~quarantined /\ table.outcome = out /\ (risk.limit /\ out \in Allowing => table.limit)
  BY DEF Decide, Allowing
<1> HIDE DEF risk, asked, out, table
<1>2. asked \in Allowing /\ (risk.limit => action.accepts)
  <2>1. out \in Allowing /\ out # "hold"
    BY <1>1 DEF table, Allowing
  <2> QED BY <2>1, OrHoldKeeps DEF out
<1> USE DEF asked
<1>3. stricter \in Allowing /\ ~asks
  BY <1>2 DEF AdvisorAsks, Allowing
<1> USE DEF risk
<1>4. engine \in {"allow", "modify"}
  BY <1>3 DEF Stricter, FromEngine, RiskOutcome, Allowing, ORDER
<1>5. risk.outcome \in {"allow", "allow_restricted"}
  BY <1>3, <1>4 DEF Stricter, FromEngine, RiskOutcome, Allowing, ORDER
<1>6. /\ band \notin {"critical", "high"}
      /\ band = "elevated" /\ action.externalWrite => action.bigRead
      /\ band = "elevated" /\ action.bigRead => risk.limit
  BY <1>5 DEF RiskOutcome
<1>7. band = "elevated" /\ action.bigRead => table.limit
  <2>1. out \in Allowing
    BY <1>1 DEF table
  <2> QED BY <1>1, <1>6, <2>1
<1> QED BY <1>1, <1>2, <1>3, <1>4, <1>6, <1>7 DEF table

\* Nothing is verified of what policy, quarantine, a critical risk or a guardrail stopped.
LEMMA TableVerifies ==
  ASSUME NEW policy \in BOOLEAN, NEW engine \in {"allow", "modify", "escalate", "block"},
         NEW band, NEW action, NEW quarantined \in BOOLEAN, NEW verifier, NEW asks \in BOOLEAN,
         Decide(policy, engine, band, action, quarantined, verifier, asks).outcome = "verify"
  PROVE  /\ policy /\ ~quarantined /\ engine \in {"allow", "modify"}
         /\ band # "critical"
<1> DEFINE risk == RiskOutcome(band, action)
           stricter == Stricter(risk.outcome, FromEngine[engine])
           asked == AdvisorAsks(stricter, asks)
           out == OrHold(asked, risk.limit, action, verifier)
           table == Decide(policy, engine, band, action, quarantined, verifier, asks)
<1>1. policy /\ ~quarantined /\ table.outcome = out
  BY DEF Decide, Allowing
<1> HIDE DEF risk, asked, out, table
<1>2. asked = "verify"
  <2>1. out = "verify" /\ out # "hold"
    BY <1>1 DEF table
  <2> QED BY <2>1, OrHoldKeeps DEF out
<1> USE DEF asked
<1>3. stricter \in Allowing \cup {"verify"}
  BY <1>2 DEF AdvisorAsks, Allowing
<1> USE DEF risk
<1>4. engine \in {"allow", "modify"}
  BY <1>3 DEF Stricter, FromEngine, RiskOutcome, Allowing, ORDER
<1>5. band # "critical"
  BY <1>3, <1>4 DEF Stricter, FromEngine, RiskOutcome, Allowing, ORDER
<1> QED BY <1>1, <1>4, <1>5

LEMMA OutcomeType ==
  ASSUME NEW policy \in BOOLEAN, NEW engine \in {"allow", "modify", "escalate", "block"},
         NEW band, NEW action, NEW quarantined \in BOOLEAN, NEW verifier, NEW asks \in BOOLEAN
  PROVE  Decide(policy, engine, band, action, quarantined, verifier, asks).outcome \in Outcomes
<1> DEFINE risk == RiskOutcome(band, action)
           stricter == Stricter(risk.outcome, FromEngine[engine])
           asked == AdvisorAsks(stricter, asks)
           out == OrHold(asked, risk.limit, action, verifier)
           table == Decide(policy, engine, band, action, quarantined, verifier, asks)
<1>1. table.outcome \in {"deny", "quarantine_session", out}
  BY DEF Decide
<1>2. risk.outcome \in Outcomes
  BY DEF RiskOutcome, Outcomes
<1>3. FromEngine[engine] \in Outcomes
  BY DEF FromEngine, Outcomes
<1> HIDE DEF risk, out, table
<1>4. stricter \in Outcomes
  BY <1>2, <1>3 DEF Stricter
<1> HIDE DEF stricter
<1>5. asked \in Outcomes
  BY <1>4 DEF AdvisorAsks, Outcomes
<1> HIDE DEF asked
<1>6. out \in {"hold", asked}
  BY DEF OrHold, out
<1>7. table.outcome \in Outcomes
  BY <1>1, <1>5, <1>6 DEF Outcomes
<1> QED BY <1>7 DEF table

Stopping == {"deny", "quarantine_session", "hold", "verify"}

\* What is released was not stopped by the resolved table.
LEMMA ReleasedIsNotStopped ==
  ASSUME NEW policy, NEW engine, NEW out, NEW enforcing, enforcing = TRUE, NEW asksUser,
         NEW final \in Finals(Decision(enforcing, policy, engine, out), asksUser),
         final \in {"allow", "modify"}
  PROVE  out.outcome \notin Stopping
<1>1. Decision(enforcing, policy, engine, out) = final
  BY DEF Finals
<1>2. Legacy(out.outcome) \notin {"block", "escalate"}
  BY <1>1 DEF Decision, Apply
<1> QED BY <1>2 DEF Legacy, Stopping

\* What verification may make of a table that stops nothing afterwards.
LEMMA AnswerIsEarned ==
  ASSUME NEW policy \in BOOLEAN, NEW engine \in {"allow", "modify", "escalate", "block"},
         NEW band, NEW action, NEW quarantined \in BOOLEAN, NEW asks \in BOOLEAN,
         NEW table, table = Decide(policy, engine, band, action, quarantined, VerifierSet, asks),
         NEW found \in Findings(table.outcome, VerifierSet),
         Resolved(table, found).outcome \notin Stopping
  PROVE  /\ policy /\ ~quarantined /\ engine \in {"allow", "modify"} /\ band # "critical"
         /\ \/ found = "allow"
            \/ /\ found = "nothing" /\ band # "high" /\ ~asks
               /\ band = "elevated" /\ action.externalWrite => action.bigRead
               /\ band = "elevated" /\ action.bigRead =>
                    Resolved(table, found).limit /\ action.accepts
<1> DEFINE out == Resolved(table, found)
<1>1. table.outcome \in Outcomes
  BY OutcomeType
<1>2. out.outcome \notin {"deny", "quarantine_session", "hold", "verify"}
  BY DEF Stopping
<1>3. CASE found = "nothing"
  <2>1. out = table /\ table.outcome \in Allowing
    BY <1>1, <1>2, <1>3 DEF Resolved, Outcomes, Allowing
  <2> QED BY <1>3, <2>1, TableAllows
<1>4. CASE found # "nothing"
  <2>1. out.outcome = found
    BY <1>4 DEF Resolved
  <2>2. found \in Resolutions /\ (table.outcome = "verify" \/ table.outcome \in Allowing)
    BY <1>4 DEF Findings, Resolutions
  <2>3. found = "allow"
    BY <1>2, <2>1, <2>2 DEF Resolutions
  <2>4. policy /\ ~quarantined /\ engine \in {"allow", "modify"} /\ band # "critical"
    BY <2>2, TableAllows, TableVerifies
  <2> QED BY <2>3, <2>4
<1> QED BY <1>3, <1>4

-----------------------------------------------------------------------------
LEMMA InitIInv == Init => IInv
BY DEF Init, IInv, TimesType, ReleasedIsEarned, Idle

\* A view is empty, or a copy of what the store has.
LEMMA ViewType ==
  ASSUME TimesType, NEW s \in Sessions \cup {NoSession}, NEW action
  PROVE  ViewTimes(View(s, action)) /\ ViewTimes(EmptyView)
<1>1. ViewTimes(EmptyView)
  BY DEF ViewTimes, EmptyView
<1>2. ViewTimes(AgentView(action))
  BY DEF TimesType, ViewTimes, EmptyView, AgentView
<1>3. CASE s = NoSession \/ session[s].started = -1
  BY <1>1, <1>2, <1>3 DEF View
<1>4. CASE ~(s = NoSession \/ session[s].started = -1)
  <2>1. s \in Sessions /\ session[s].until \in Nat /\ agent.until \in Nat
    BY <1>4 DEF TimesType
  <2>2. View(s, action).until = session[s].until /\ View(s, action).agentUntil = agent.until
    BY <1>4 DEF View, AgentView, EmptyView
  <2> QED BY <1>1, <2>1, <2>2 DEF ViewTimes
<1> QED BY <1>3, <1>4

LEMMA LookStep == ASSUME IInv, NEW r \in Requests, Look(r) PROVE IInv'
<1>1. PICK s \in Sessions \cup {NoSession}, action \in Used, up \in BOOLEAN :
        req' = [req EXCEPT ![r] =
                 [pc |-> "looked", session |-> s, action |-> action,
                  view |-> IF up THEN View(s, action) ELSE EmptyView]]
  BY DEF Look
<1>2. ViewTimes(View(s, action)) /\ ViewTimes(EmptyView)
  BY ViewType DEF IInv
<1>3. \A q \in Requests : req'[q].pc # "idle" => ViewTimes(req'[q].view)
  <2> DEFINE view == IF up THEN View(s, action) ELSE EmptyView
  <2>1. ViewTimes(view)
    BY <1>2
  <2> HIDE DEF view
  <2>2. \A q \in Requests : req'[q] = IF q = r THEN [pc |-> "looked", session |-> s, action |-> action, view |-> view]
                                    ELSE req[q]
    BY <1>1 DEF IInv, TimesType, view
  <2> QED BY <2>1, <2>2 DEF IInv, TimesType
<1>4. DOMAIN req' = Requests
  BY <1>1 DEF IInv, TimesType
<1> QED BY <1>3, <1>4 DEF IInv, TimesType, ReleasedIsEarned, Look

LEMMA ServeStep == ASSUME IInv, NEW r \in Requests, Serve(r) PROVE IInv'
<1> DEFINE view == req[r].view
           action == req[r].action
           score == Score(action, view, req[r].session # NoSession)
<1>1. PICK check \in Checks, advice \in Advice \cup {NoAdvice} :
        LET asked == Advised(score, Trust(view), advice)
            table == Decide(check.policy, check.engine, asked, action, Quarantined(view),
                            VerifierSet, advice.verify)
        IN \E found \in IF Enforcing THEN Findings(table.outcome, VerifierSet) ELSE {"nothing"} :
           LET out == Resolved(table, found)
           IN \E final \in Finals(Decision(Enforcing, check.policy, check.engine, out),
                                  Enforcing /\ out.outcome = "verify") :
              /\ req' = [req EXCEPT ![r] = [pc |-> "served", session |-> @.session,
                                           action |-> action, view |-> view,
                                           final |-> final]]
              /\ decided' =
                   IF Enforcing /\ final \notin {"allow", "modify"} THEN <<>>
                   ELSE <<[view |-> view, session |-> req[r].session, action |-> action,
                           policy |-> check.policy, engine |-> check.engine, band |-> asked,
                           asks |-> advice.verify, found |-> found,
                           limit |-> Enforcing /\ out.limit, final |-> final]>>
  BY DEF Serve
<1> DEFINE asked == Advised(score, Trust(view), advice)
           table == Decide(check.policy, check.engine, asked, action, Quarantined(view),
                           VerifierSet, advice.verify)
           step(found, final) ==
             /\ req' = [req EXCEPT ![r] = [pc |-> "served", session |-> @.session,
                                          action |-> action, view |-> view, final |-> final]]
             /\ decided' =
                  IF Enforcing /\ final \notin {"allow", "modify"} THEN <<>>
                  ELSE <<[view |-> view, session |-> req[r].session, action |-> action,
                          policy |-> check.policy, engine |-> check.engine, band |-> asked,
                          asks |-> advice.verify, found |-> found,
                          limit |-> Enforcing /\ Resolved(table, found).limit, final |-> final]>>
           finals(found) == Finals(Decision(Enforcing, check.policy, check.engine, Resolved(table, found)),
                                   Enforcing /\ Resolved(table, found).outcome = "verify")
<1>2. PICK found \in (IF Enforcing THEN Findings(table.outcome, VerifierSet) ELSE {"nothing"}) :
        \E final \in finals(found) : step(found, final)
  BY <1>1
<1>3. PICK final \in finals(found) : step(found, final)
  BY <1>2
<1>4. /\ check.policy \in BOOLEAN /\ check.engine \in {"allow", "modify", "escalate", "block"}
      /\ advice.verify \in BOOLEAN /\ Quarantined(view) \in BOOLEAN
  <2>1. check.policy \in BOOLEAN /\ check.engine \in {"allow", "modify", "escalate", "block"}
    BY DEF Checks
  <2>2. advice.verify \in BOOLEAN
    <3>1. CASE advice \in Advice
      BY <3>1 DEF Advice
    <3>2. CASE advice = NoAdvice
      BY <3>2 DEF NoAdvice
    <3> QED BY <3>1, <3>2
  <2>3. Quarantined(view) \in BOOLEAN
    BY DEF Quarantined
  <2> QED BY <2>1, <2>2, <2>3
<1>5. UNCHANGED <<mode, now, session, agent, served, faults>> /\ req[r].pc = "looked"
  BY DEF Serve
<1>6. ViewTimes(view) /\ now \in Nat
  BY <1>5 DEF IInv, TimesType
<1> HIDE DEF table, asked, view, score, action
<1>7. TimesType'
  <2>1. DOMAIN req' = Requests
    BY <1>3 DEF IInv, TimesType
  <2>2. \A q \in Requests : req'[q].pc # "idle" => ViewTimes(req'[q].view)
    <3>1. req'[r].view = view /\ \A q \in Requests : q # r => req'[q] = req[q]
      BY <1>3 DEF IInv, TimesType
    <3> QED BY <1>6, <3>1 DEF IInv, TimesType
  <2> QED BY <1>5, <2>1, <2>2 DEF IInv, TimesType
<1>8. ReleasedIsEarned'
  <2> SUFFICES ASSUME decided' # <<>>, Enforcing, final \in {"allow", "modify"},
                      decided'[1].final = final
               PROVE  ReleasedIsEarned'
    BY <1>3, <1>5 DEF ReleasedIsEarned, Enforcing
  <2>1. /\ check.policy /\ ~Quarantined(view) /\ check.engine \in {"allow", "modify"}
        /\ asked # "critical"
        /\ \/ found = "allow"
           \/ /\ found = "nothing" /\ asked # "high" /\ ~advice.verify
              /\ asked = "elevated" /\ action.externalWrite => action.bigRead
              /\ asked = "elevated" /\ action.bigRead =>
                   Resolved(table, found).limit /\ action.accepts
    <3> DEFINE asksUser == Enforcing /\ Resolved(table, found).outcome = "verify"
    <3>1. Enforcing = TRUE /\ found \in Findings(table.outcome, VerifierSet)
      BY DEF Enforcing
    <3> DEFINE quarantined == Quarantined(view)
               policy == check.policy
               engine == check.engine
               asks == advice.verify
    <3>2. table = Decide(policy, engine, asked, action, quarantined, VerifierSet, asks)
      BY DEF table
    <3>3. /\ policy \in BOOLEAN /\ engine \in {"allow", "modify", "escalate", "block"}
          /\ quarantined \in BOOLEAN /\ asks \in BOOLEAN
      BY <1>4
    <3> DEFINE enforcing == Enforcing
    <3>4. final \in Finals(Decision(enforcing, policy, engine, Resolved(table, found)), asksUser)
      OBVIOUS
    <3>5. enforcing = TRUE /\ found \in Findings(table.outcome, VerifierSet)
      BY <3>1
    <3> HIDE DEF enforcing, asksUser, quarantined, policy, engine, asks
    <3>6. Resolved(table, found).outcome \notin Stopping
      BY <3>5, <3>4, ReleasedIsNotStopped
    <3>7. /\ policy /\ ~quarantined /\ engine \in {"allow", "modify"} /\ asked # "critical"
          /\ \/ found = "allow"
             \/ /\ found = "nothing" /\ asked # "high" /\ ~asks
                /\ asked = "elevated" /\ action.externalWrite => action.bigRead
                /\ asked = "elevated" /\ action.bigRead =>
                     Resolved(table, found).limit /\ action.accepts
      BY <3>5, <3>2, <3>3, <3>6, AnswerIsEarned
    <3> QED BY <3>7 DEF quarantined, policy, engine, asks
  <2>2. view.until <= now /\ view.agentUntil <= now
    BY <1>6, <2>1 DEF ViewTimes, Quarantined
  <2>3. /\ decided'[1].view = view /\ decided'[1].action = action
        /\ decided'[1].policy = check.policy /\ decided'[1].engine = check.engine
        /\ decided'[1].band = asked /\ decided'[1].asks = advice.verify
        /\ decided'[1].found = found
        /\ (Resolved(table, found).limit => decided'[1].limit)
    <3> DEFINE limit == Enforcing /\ Resolved(table, found).limit
               d == [view |-> view, session |-> req[r].session, action |-> action,
                     policy |-> check.policy, engine |-> check.engine, band |-> asked,
                     asks |-> advice.verify, found |-> found, limit |-> limit, final |-> final]
    <3>1. decided' = <<d>>
      BY <1>3
    <3>2. Resolved(table, found).limit => limit
      OBVIOUS
    <3> HIDE DEF limit
    <3>3. decided'[1] = d
      BY <3>1
    <3> QED BY <3>2, <3>3
  <2> QED BY <1>5, <2>1, <2>2, <2>3 DEF ReleasedIsEarned
<1> QED BY <1>7, <1>8 DEF IInv

LEMMA RecordStep == ASSUME IInv, NEW r \in Requests, Record(r) PROVE IInv'
<1>1. PICK done \in Steps :
        /\ agent' = AgentAfter(r, done)
        /\ session' = IF req[r].session = NoSession THEN session
                      ELSE [session EXCEPT ![req[r].session] = SessionAfter(r, done)]
  BY DEF Record
<1>2. now \in Nat /\ agent.until \in Nat /\ now' = now
  BY DEF IInv, TimesType, Record
<1>3. agent'.until \in Nat
  <2>1. AgentAfter(r, done).until = now + 1 \/ AgentAfter(r, done).until = agent.until
    BY DEF AgentAfter
  <2> QED BY <1>1, <1>2, <2>1
<1>4. DOMAIN session' = Sessions /\ \A s \in Sessions : session'[s].until \in Nat
  <2>1. CASE req[r].session = NoSession
    BY <1>1, <2>1 DEF IInv, TimesType
  <2>2. CASE req[r].session # NoSession
    <3> DEFINE after == SessionAfter(r, done)
    <3>1. after.until = now + 1 \/ after.until = session[req[r].session].until
      BY DEF SessionAfter
    <3> HIDE DEF after
    <3>2. session' = [session EXCEPT ![req[r].session] = after]
      BY <1>1, <2>2 DEF after
    <3> QED BY <1>2, <3>1, <3>2 DEF IInv, TimesType
  <2> QED BY <2>1, <2>2
<1>5. DOMAIN req' = Requests /\ \A q \in Requests : req'[q] = Idle \/ req'[q] = req[q]
  BY DEF IInv, TimesType, Record
<1>6. \A q \in Requests : req'[q].pc # "idle" => ViewTimes(req'[q].view)
  BY <1>5 DEF IInv, TimesType, Idle
<1> QED BY <1>2, <1>3, <1>4, <1>5, <1>6 DEF IInv, TimesType, ReleasedIsEarned, Record

LEMMA NextIInv == ASSUME IInv, [Next]_vars PROVE IInv'
<1>1. CASE UNCHANGED vars
  BY <1>1 DEF vars, IInv, TimesType, ReleasedIsEarned, Enforcing
<1>2. CASE Tick
  BY <1>2 DEF Tick, IInv, TimesType, ReleasedIsEarned
<1> QED BY <1>1, <1>2, LookStep, ServeStep, RecordStep DEF Next

\* risk/decision.py:89-125, gateway/flow.py:296: in enforce mode a payload is released
\* only if policy, guardrails, quarantine, risk and advisors are all content with it.
THEOREM Earned == Spec => []ReleasedIsEarned
<1>1. IInv => ReleasedIsEarned
  BY DEF IInv
<1>2. IInv /\ [Next]_vars => IInv'
  BY NextIInv
<1> QED BY <1>1, <1>2, InitIInv, PTL DEF Spec

-----------------------------------------------------------------------------
(* What a session and an agent did before *)

\* What the store has, and what a request was shown of it.
ViewShown(r) ==
  /\ req[r].view.denials \in Nat /\ req[r].view.agentDenials \in Nat
  /\ req[r].session \in Sessions \cup {NoSession}
StoreType ==
  /\ now \in 0..MaxTime /\ faults \in Nat
  /\ agent.denials \in [0..MaxTime -> Nat]
  /\ \A s \in Sessions : session[s].denials \in Nat
  /\ \A r \in Requests : req[r].pc # "idle" => ViewShown(r)

\* Requests that were shown fewer denials than would make them notice theirs.
Unaware(s, threshold) ==
  {r \in Requests :
     req[r].pc # "idle" /\ req[r].session = s /\ req[r].view.denials < threshold - 1}
UnawareOfAgent ==
  {r \in Requests : req[r].pc # "idle" /\ req[r].view.agentDenials < AgentQuarantineAfter - 1}

\* From the denial before the threshold on, only an unaware request or a fault can hide
\* another, and the request that recorded that one is not among the unaware.
HiddenBy(count, denials, unaware, threshold) ==
  denials >= threshold - 1 =>
    denials + Cardinality(unaware) <= threshold - 1 + Cardinality(Requests) - 1 + count
Hidden(denials, unaware, threshold) == HiddenBy(faults, denials, unaware, threshold)

SessionHolds(s) ==
  /\ session[s].started = -1 => session[s].denials = 0
  /\ Enforcing /\ session[s].until = 0 =>
       Hidden(session[s].denials, Unaware(s, QuarantineAfter), QuarantineAfter)
  /\ ~session[s].penalised =>
       Hidden(session[s].denials, Unaware(s, PenaltyAfter), PenaltyAfter)
AgentHolds ==
  /\ Enforcing /\ agent.until <= now =>
       Hidden(agent.denials[now], UnawareOfAgent, AgentQuarantineAfter)
  /\ \A t \in 0..MaxTime : t > now => agent.denials[t] = 0

\* A request that was shown a penalty was shown one that stands.
PenaltyShown(r) ==
  req[r].pc # "idle" /\ req[r].view.penalised =>
    req[r].session \in Sessions /\ session[req[r].session].penalised

CountInv ==
  /\ StoreType /\ AgentHolds
  /\ \A s \in Sessions : SessionHolds(s)
  /\ \A r \in Requests : PenaltyShown(r)

\* Shadow mode: policy, guardrails and the review queue decide.
AsWithoutRisk(d) ==
  IF d.policy THEN d.final = d.engine \/ (d.engine = "escalate" /\ d.final = "block")
  ELSE d.final = "block"

\* A served request keeps its session and its view, and what it was decided on is shown.
LEMMA ServeShows ==
  ASSUME NEW r \in Requests, Serve(r)
  PROVE  \E final :
           /\ req' = [req EXCEPT ![r] = [pc |-> "served", session |-> req[r].session,
                                         action |-> req[r].action, view |-> req[r].view,
                                         final |-> final]]
           /\ decided' # <<>> =>
                /\ decided'[1].view = req[r].view /\ decided'[1].session = req[r].session
                /\ ~Enforcing => AsWithoutRisk(decided'[1])
<1> DEFINE view == req[r].view
           action == req[r].action
           score == Score(action, view, req[r].session # NoSession)
<1>1. PICK check \in Checks, advice \in Advice \cup {NoAdvice} :
        LET asked == Advised(score, Trust(view), advice)
            table == Decide(check.policy, check.engine, asked, action, Quarantined(view),
                            VerifierSet, advice.verify)
        IN \E found \in IF Enforcing THEN Findings(table.outcome, VerifierSet) ELSE {"nothing"} :
           LET out == Resolved(table, found)
           IN \E final \in Finals(Decision(Enforcing, check.policy, check.engine, out),
                                  Enforcing /\ out.outcome = "verify") :
              /\ req' = [req EXCEPT ![r] = [pc |-> "served", session |-> @.session,
                                           action |-> action, view |-> view,
                                           final |-> final]]
              /\ decided' =
                   IF Enforcing /\ final \notin {"allow", "modify"} THEN <<>>
                   ELSE <<[view |-> view, session |-> req[r].session, action |-> action,
                           policy |-> check.policy, engine |-> check.engine, band |-> asked,
                           asks |-> advice.verify, found |-> found,
                           limit |-> Enforcing /\ out.limit, final |-> final]>>
  BY DEF Serve
<1> DEFINE asked == Advised(score, Trust(view), advice)
           table == Decide(check.policy, check.engine, asked, action, Quarantined(view),
                           VerifierSet, advice.verify)
           step(found, final) ==
             /\ req' = [req EXCEPT ![r] = [pc |-> "served", session |-> @.session,
                                          action |-> action, view |-> view, final |-> final]]
             /\ decided' =
                  IF Enforcing /\ final \notin {"allow", "modify"} THEN <<>>
                  ELSE <<[view |-> view, session |-> req[r].session, action |-> action,
                          policy |-> check.policy, engine |-> check.engine, band |-> asked,
                          asks |-> advice.verify, found |-> found,
                          limit |-> Enforcing /\ Resolved(table, found).limit, final |-> final]>>
           finals(found) == Finals(Decision(Enforcing, check.policy, check.engine, Resolved(table, found)),
                                   Enforcing /\ Resolved(table, found).outcome = "verify")
<1>2. PICK found \in (IF Enforcing THEN Findings(table.outcome, VerifierSet) ELSE {"nothing"}) :
        \E final \in finals(found) : step(found, final)
  BY <1>1
<1>3. PICK final \in finals(found) : step(found, final)
  BY <1>2
<1> HIDE DEF table, asked, view, score, action
<1>4. /\ decided' # <<>> =>
           /\ decided'[1].view = view /\ decided'[1].session = req[r].session
           /\ decided'[1].policy = check.policy /\ decided'[1].engine = check.engine
           /\ decided'[1].final = final
  <2> DEFINE limit == Enforcing /\ Resolved(table, found).limit
             d == [view |-> view, session |-> req[r].session, action |-> action,
                   policy |-> check.policy, engine |-> check.engine, band |-> asked,
                   asks |-> advice.verify, found |-> found, limit |-> limit, final |-> final]
  <2>1. decided' # <<>> => decided' = <<d>>
    BY <1>3
  <2> HIDE DEF limit
  <2> QED BY <2>1
<1>5. ~Enforcing /\ decided' # <<>> => AsWithoutRisk(decided'[1])
  <2>1. ~Enforcing =>
          final \in Finals(IF ~check.policy THEN "block" ELSE check.engine, FALSE)
    <3> DEFINE out == Resolved(table, found)
    <3>1. SUFFICES ASSUME ~Enforcing
                   PROVE  final \in Finals(IF ~check.policy THEN "block" ELSE check.engine, FALSE)
      OBVIOUS
    <3>2. Enforcing = FALSE
      BY <3>1 DEF Enforcing
    <3>3. final \in Finals(Decision(Enforcing, check.policy, check.engine, out),
                           Enforcing /\ out.outcome = "verify")
      OBVIOUS
    <3> HIDE DEF out
    <3>4. (Enforcing /\ out.outcome = "verify") = FALSE
      BY <3>2
    <3>5. Decision(Enforcing, check.policy, check.engine, out)
            = IF ~check.policy THEN "block" ELSE check.engine
      BY <3>2 DEF Decision
    <3> QED BY <3>3, <3>4, <3>5
  <2> HIDE DEF finals, step
  <2> QED BY <1>4, <2>1 DEF Finals, AsWithoutRisk
<1>6. req' = [req EXCEPT ![r] = [pc |-> "served", session |-> req[r].session,
                                 action |-> req[r].action, view |-> req[r].view,
                                 final |-> final]]
  BY <1>3 DEF view, action
<1> QED BY <1>4, <1>5, <1>6 DEF view

-----------------------------------------------------------------------------
(* Counting *)

\* One more request that was shown too little: a fault, or the count was not that far.
LEMMA OneMoreUnaware ==
  ASSUME NEW S, NEW T, IsFiniteSet(S), NEW r, T \subseteq S \cup {r},
         NEW D \in Nat, NEW K \in Nat, NEW F \in Nat, NEW G \in {F, F + 1},
         HiddenBy(F, D, S, K), r \notin T \/ G = F + 1 \/ D < K - 1
  PROVE  HiddenBy(G, D, T, K)
<1> DEFINE n == Cardinality(Requests)
<1> SUFFICES ASSUME D >= K - 1 PROVE D + Cardinality(T) <= K - 1 + n - 1 + G
  BY DEF HiddenBy
<1>0. n \in Nat /\ D + Cardinality(S) <= K - 1 + n - 1 + F
  BY BoundsAssumption, FS_CardinalityType DEF HiddenBy
<1> HIDE DEF n
<1>1. Cardinality(S) \in Nat
  BY FS_CardinalityType
<1>2. CASE r \notin T
  <2>1. T \in SUBSET S
    BY <1>2
  <2>2. IsFiniteSet(T) /\ Cardinality(T) <= Cardinality(S)
    BY <2>1, FS_Subset
  <2>3. Cardinality(T) \in Nat
    BY <2>2, FS_CardinalityType
  <2> QED BY <1>0, <1>1, <2>2, <2>3
<1>3. CASE G = F + 1
  <2>1. /\ IsFiniteSet(S \cup {r}) /\ T \in SUBSET (S \cup {r})
        /\ Cardinality(S \cup {r}) = IF r \in S THEN Cardinality(S) ELSE Cardinality(S) + 1
    BY FS_AddElement
  <2>2. IsFiniteSet(T) /\ Cardinality(T) <= Cardinality(S \cup {r})
    BY <2>1, FS_Subset
  <2>3. Cardinality(T) \in Nat
    BY <2>2, FS_CardinalityType
  <2>4. Cardinality(T) <= Cardinality(S) + 1
    BY <1>1, <2>1, <2>2, <2>3
  <2> QED BY <1>0, <1>1, <1>3, <2>3, <2>4
<1> QED BY <1>2, <1>3

\* A request that records leaves the unaware; what it hides it was unaware of, or a fault
\* took from it.
LEMMA OneLessUnaware ==
  ASSUME NEW r \in Requests, NEW S \in SUBSET Requests,
         NEW D \in Nat, NEW E \in {D, D + 1}, NEW K \in Nat, NEW F \in Nat, NEW G \in {F, F + 1},
         HiddenBy(F, D, S, K), E = D \/ r \in S \/ G = F + 1
  PROVE  HiddenBy(G, E, S \ {r}, K)
<1> DEFINE n == Cardinality(Requests)
           T == S \ {r}
<1> SUFFICES ASSUME E >= K - 1 PROVE E + Cardinality(T) <= K - 1 + n - 1 + G
  BY DEF HiddenBy
<1>1. /\ IsFiniteSet(S) /\ Cardinality(S) \in Nat /\ n \in Nat
  BY BoundsAssumption, FS_Subset, FS_CardinalityType
<1>2. /\ IsFiniteSet(T) /\ Cardinality(T) \in Nat
      /\ Cardinality(T) = IF r \in S THEN Cardinality(S) - 1 ELSE Cardinality(S)
  BY <1>1, FS_RemoveElement, FS_CardinalityType
<1>3. CASE D < K - 1
  <2>1. IsFiniteSet(Requests \ {r}) /\ Cardinality(Requests \ {r}) = n - 1
    BY BoundsAssumption, FS_RemoveElement
  <2>2. Cardinality(T) <= n - 1
    <3>1. T \in SUBSET (Requests \ {r})
      OBVIOUS
    <3> QED BY <2>1, <3>1, FS_Subset
  <2>3. E = K - 1
    BY <1>3
  <2> HIDE DEF n
  <2> QED BY <1>1, <1>2, <2>2, <2>3
<1>4. CASE D >= K - 1
  <2>1. D + Cardinality(S) <= K - 1 + n - 1 + F
    BY <1>4 DEF HiddenBy
  <2> HIDE DEF n
  <2> QED BY <1>1, <1>2, <1>4, <2>1
<1> QED BY <1>3, <1>4

LEMMA Thresholds ==
  /\ PenaltyAfter \in Nat /\ PenaltyAfter >= 1
  /\ QuarantineAfter \in Nat /\ QuarantineAfter >= 1
  /\ AgentQuarantineAfter \in Nat /\ AgentQuarantineAfter >= 1
BY BoundsAssumption

LEMMA UnawareFinite ==
  /\ \A s, threshold : Unaware(s, threshold) \in SUBSET Requests /\ IsFiniteSet(Unaware(s, threshold))
  /\ UnawareOfAgent \in SUBSET Requests /\ IsFiniteSet(UnawareOfAgent)
<1>1. \A s, threshold : Unaware(s, threshold) \in SUBSET Requests
  BY DEF Unaware
<1>2. UnawareOfAgent \in SUBSET Requests
  BY DEF UnawareOfAgent
<1>3. \A T \in SUBSET Requests : IsFiniteSet(T)
  BY BoundsAssumption, FS_Subset
<1> QED BY <1>1, <1>2, <1>3

\* A view shows what the store counts at that moment; an empty one shows no denial.
LEMMA LookShows ==
  ASSUME StoreType, CountInv, NEW r \in Requests, DOMAIN req = Requests, Look(r)
  PROVE  \E s \in Sessions \cup {NoSession}, view \in {req'[r].view} :
           /\ req'[r].pc # "idle" /\ req'[r].session = s /\ req'[r].view = view
           /\ \A q \in Requests \ {r} : req'[q] = req[q]
           /\ view.denials \in Nat /\ view.agentDenials \in Nat
           /\ view.penalised => s \in Sessions /\ session[s].penalised
           /\ \/ faults' = faults + 1
              \/ /\ faults' = faults
                 /\ s \in Sessions => view.denials = session[s].denials
                 /\ view.agentDenials = agent.denials[now]
<1>1. PICK s \in Sessions \cup {NoSession}, action \in Used, up \in BOOLEAN :
        /\ faults' = IF up THEN faults ELSE faults + 1
        /\ req' = [req EXCEPT ![r] =
             [pc |-> "looked", session |-> s, action |-> action,
              view |-> IF up THEN View(s, action) ELSE EmptyView]]
  BY DEF Look
<1> DEFINE view == IF up THEN View(s, action) ELSE EmptyView
<1>2. /\ req'[r].pc # "idle" /\ req'[r].session = s /\ req'[r].view = view
      /\ \A q \in Requests \ {r} : req'[q] = req[q]
  <2> HIDE DEF view
  <2>1. req' = [req EXCEPT ![r] = [pc |-> "looked", session |-> s, action |-> action, view |-> view]]
    BY <1>1 DEF view
  <2> QED BY <2>1
<1>3. /\ EmptyView.denials = 0 /\ EmptyView.agentDenials = 0 /\ EmptyView.penalised = FALSE
      /\ AgentView(action).denials = 0 /\ AgentView(action).agentDenials = agent.denials[now]
      /\ AgentView(action).penalised = FALSE
  BY DEF EmptyView, AgentView
<1>4. agent.denials[now] \in Nat /\ \A x \in Sessions : session[x].denials \in Nat
  BY DEF StoreType
<1>5. CASE s = NoSession \/ session[s].started = -1
  <2>1. View(s, action) = AgentView(action)
    BY <1>5 DEF View
  <2>2. s \in Sessions => session[s].denials = 0
    BY <1>5, BoundsAssumption DEF CountInv, SessionHolds
  <2> QED BY <1>1, <1>2, <1>3, <1>4, <2>1, <2>2
<1>6. CASE ~(s = NoSession \/ session[s].started = -1)
  <2>1. /\ View(s, action).denials = session[s].denials
        /\ View(s, action).agentDenials = agent.denials[now]
        /\ View(s, action).penalised = session[s].penalised
    BY <1>6 DEF View, AgentView, EmptyView
  <2>2. s \in Sessions
    BY <1>6
  <2> QED BY <1>1, <1>2, <1>3, <1>4, <2>1, <2>2
<1> QED BY <1>5, <1>6

LEMMA LookCounts ==
  ASSUME CountInv, NEW r \in Requests, DOMAIN req = Requests, Look(r) PROVE CountInv'
<1> USE Thresholds, UnawareFinite
<1>0. StoreType /\ AgentHolds /\ UNCHANGED <<mode, now, session, agent>> /\ req[r] = Idle
  BY DEF CountInv, Look
<1>1. PICK s \in Sessions \cup {NoSession}, view \in {req'[r].view} :
        /\ req'[r].pc # "idle" /\ req'[r].session = s /\ req'[r].view = view
        /\ \A q \in Requests \ {r} : req'[q] = req[q]
        /\ view.denials \in Nat /\ view.agentDenials \in Nat
        /\ view.penalised => s \in Sessions /\ session[s].penalised
        /\ \/ faults' = faults + 1
           \/ /\ faults' = faults
              /\ s \in Sessions => view.denials = session[s].denials
              /\ view.agentDenials = agent.denials[now]
  BY <1>0, LookShows
<1>2. StoreType'
  BY <1>0, <1>1 DEF StoreType, ViewShown
<1>3. faults' \in {faults, faults + 1} /\ faults \in Nat /\ Cardinality(Requests) \in Nat
  BY <1>0, <1>1, BoundsAssumption, FS_CardinalityType DEF StoreType
<1>4. ASSUME NEW x \in Sessions, NEW K \in {QuarantineAfter, PenaltyAfter},
             Hidden(session[x].denials, Unaware(x, K), K)
      PROVE  Hidden(session[x].denials, Unaware(x, K), K)'
  <2> DEFINE D == session[x].denials
             S == Unaware(x, K)
             T == Unaware(x, K)'
  <2>1. D \in Nat /\ session'[x].denials = D /\ IsFiniteSet(S) /\ K \in Nat
    BY <1>0 DEF StoreType
  <2>2. T \subseteq S \cup {r}
    BY <1>1 DEF Unaware
  <2>3. r \notin T \/ faults' = faults + 1 \/ D < K - 1
    BY <1>1 DEF Unaware
  <2>4. HiddenBy(faults, D, S, K)
    BY <1>4 DEF Hidden
  <2> HIDE DEF D, S, T
  <2>5. HiddenBy(faults', D, T, K)
    BY ONLY <1>3, <2>1, <2>2, <2>3, <2>4, OneMoreUnaware
  <2> QED BY <2>1, <2>5 DEF Hidden, HiddenBy, T
<1>5. ASSUME NEW x \in Sessions PROVE SessionHolds(x)'
  <2>1. SessionHolds(x) /\ session'[x] = session[x]
    BY <1>0 DEF CountInv
  <2> QED BY <1>0, <1>4, <2>1 DEF SessionHolds, Enforcing
<1>6. AgentHolds'
  <2>1. ASSUME Hidden(agent.denials[now], UnawareOfAgent, AgentQuarantineAfter)
        PROVE  Hidden(agent.denials[now], UnawareOfAgent, AgentQuarantineAfter)'
    <3> DEFINE D == agent.denials[now]
               K == AgentQuarantineAfter
                 S == UnawareOfAgent
               T == UnawareOfAgent'
    <3>1. D \in Nat /\ D' = D /\ IsFiniteSet(S) /\ K \in Nat
      BY <1>0 DEF StoreType
    <3>2. T \subseteq S \cup {r}
      BY <1>1 DEF UnawareOfAgent
    <3>3. r \notin T \/ faults' = faults + 1 \/ D < K - 1
      BY <1>1 DEF UnawareOfAgent
    <3>4. HiddenBy(faults, D, S, K)
      BY <2>1 DEF Hidden
    <3> HIDE DEF D, S, T, K
    <3>5. HiddenBy(faults', D, T, K)
      BY ONLY <1>3, <3>1, <3>2, <3>3, <3>4, OneMoreUnaware
    <3> QED BY <1>0, <3>1, <3>5 DEF Hidden, HiddenBy, T, D, K
  <2> QED BY <1>0, <2>1 DEF AgentHolds, Enforcing
<1>7. \A q \in Requests : PenaltyShown(q)'
  BY <1>0, <1>1 DEF CountInv, PenaltyShown
<1> QED BY <1>2, <1>5, <1>6, <1>7 DEF CountInv

LEMMA SomeRequest == Cardinality(Requests) \in Nat /\ Cardinality(Requests) >= 1
BY BoundsAssumption, FS_CardinalityType, FS_EmptySet

\* Before the first denial nothing is hidden: at a threshold of one nobody can be unaware of it.
LEMMA NothingHidden ==
  ASSUME NEW K \in Nat, K >= 1, NEW S, K = 1 => S = {}, NEW F \in Nat
  PROVE  HiddenBy(F, 0, S, K)
<1>1. CASE K = 1
  <2>1. Cardinality(S) = 0
    BY <1>1, FS_EmptySet
  <2> QED BY <1>1, <2>1, SomeRequest DEF HiddenBy
<1>2. CASE K >= 2
  BY <1>2 DEF HiddenBy
<1> QED BY <1>1, <1>2

LEMMA ServeCounts ==
  ASSUME CountInv, NEW r \in Requests, DOMAIN req = Requests, Serve(r) PROVE CountInv'
<1>1. UNCHANGED <<mode, now, session, agent, faults>> /\ req[r].pc = "looked"
  BY DEF Serve
<1>2. PICK final :
        req' = [req EXCEPT ![r] = [pc |-> "served", session |-> req[r].session,
                                   action |-> req[r].action, view |-> req[r].view,
                                   final |-> final]]
  BY ServeShows
<1>3. \A q \in Requests : /\ req'[q].pc # "idle" <=> req[q].pc # "idle"
                          /\ req[q].pc # "idle" =>
                               req'[q].session = req[q].session /\ req'[q].view = req[q].view
  BY <1>1, <1>2
<1>4. \A s, K : Unaware(s, K)' = Unaware(s, K)
  BY <1>3 DEF Unaware
<1>5. UnawareOfAgent' = UnawareOfAgent
  BY <1>3 DEF UnawareOfAgent
<1>6. StoreType'
  BY <1>1, <1>3 DEF CountInv, StoreType, ViewShown
<1>7. AgentHolds'
  BY <1>1, <1>5 DEF CountInv, AgentHolds, Enforcing, Hidden, HiddenBy
<1>8. ASSUME NEW s \in Sessions PROVE SessionHolds(s)'
  BY <1>1, <1>4 DEF CountInv, SessionHolds, Enforcing, Hidden, HiddenBy
<1>9. \A q \in Requests : PenaltyShown(q)'
  BY <1>1, <1>3 DEF CountInv, PenaltyShown
<1> QED BY <1>6, <1>7, <1>8, <1>9 DEF CountInv

\* The denial window moves on: nothing is counted in the next one yet.
LEMMA TickCounts == ASSUME CountInv, Tick PROVE CountInv'
<1> USE Thresholds
<1>1. UNCHANGED <<mode, session, agent, req, faults>> /\ now' = now + 1 /\ now' \in 0..MaxTime
  BY BoundsAssumption DEF Tick, CountInv, StoreType
<1>2. StoreType'
  BY <1>1 DEF CountInv, StoreType, ViewShown
<1>3. agent.denials[now'] = 0
  BY <1>1 DEF CountInv, AgentHolds, StoreType
<1>4. AgentHolds'
  <2>1. AgentQuarantineAfter = 1 => UnawareOfAgent' = {}
    BY <1>2 DEF UnawareOfAgent, StoreType, ViewShown
  <2>2. faults' \in Nat
    BY <1>2 DEF StoreType
  <2>3. HiddenBy(faults', 0, UnawareOfAgent', AgentQuarantineAfter)
    BY <2>1, <2>2, NothingHidden
  <2>4. agent'.denials[now'] = 0
    BY <1>1, <1>3
  <2>5. Hidden(agent.denials[now], UnawareOfAgent, AgentQuarantineAfter)'
    BY <2>3, <2>4 DEF Hidden
  <2>6. \A t \in 0..MaxTime : t > now' => agent'.denials[t] = 0
    BY <1>1 DEF CountInv, AgentHolds, StoreType
  <2> QED BY <2>5, <2>6 DEF AgentHolds
<1>5. ASSUME NEW s \in Sessions PROVE SessionHolds(s)'
  BY <1>1 DEF CountInv, SessionHolds, Enforcing, Hidden, HiddenBy, Unaware
<1>6. \A q \in Requests : PenaltyShown(q)'
  BY <1>1 DEF CountInv, PenaltyShown
<1> QED BY <1>2, <1>4, <1>5, <1>6 DEF CountInv

\* A request that records a denial notices the count it was shown, unless a fault cuts the
\* record short.
LEMMA RecordCounts ==
  ASSUME CountInv, NEW r \in Requests, DOMAIN req = Requests, DOMAIN session = Sessions,
         agent.until \in Nat, \A s \in Sessions : session[s].until \in Nat, Record(r)
  PROVE  CountInv'
<1> USE Thresholds, UnawareFinite
<1>0. /\ StoreType /\ AgentHolds /\ UNCHANGED <<mode, now>> /\ req[r].pc = "served"
      /\ ViewShown(r)
  BY DEF CountInv, Record, StoreType
<1>1. PICK done \in Steps :
        /\ faults' = IF done = 7 THEN faults ELSE faults + 1
        /\ agent' = AgentAfter(r, done)
        /\ session' = IF req[r].session = NoSession THEN session
                      ELSE [session EXCEPT ![req[r].session] = SessionAfter(r, done)]
  BY DEF Record
<1>2. req'[r].pc = "idle" /\ \A q \in Requests \ {r} : req'[q] = req[q]
  BY DEF Record, Idle
<1>3. /\ faults' \in {faults, faults + 1} /\ faults \in Nat /\ Cardinality(Requests) \in Nat
      /\ done = 7 \/ faults' = faults + 1
      /\ done \in 0..7 /\ now \in Nat
  BY <1>0, <1>1, BoundsAssumption, FS_CardinalityType DEF StoreType, Steps
<1>4. \A x, K : Unaware(x, K)' = Unaware(x, K) \ {r}
  BY <1>2 DEF Unaware
<1>5. UnawareOfAgent' = UnawareOfAgent \ {r}
  BY <1>2 DEF UnawareOfAgent
<1>6. ASSUME NEW x \in Sessions, NEW K \in {QuarantineAfter, PenaltyAfter},
             session'[x].denials \in {session[x].denials, session[x].denials + 1},
             \/ session'[x].denials = session[x].denials
             \/ r \in Unaware(x, K)
             \/ faults' = faults + 1,
             Hidden(session[x].denials, Unaware(x, K), K)
      PROVE  Hidden(session[x].denials, Unaware(x, K), K)'
  <2> DEFINE D == session[x].denials
             E == session'[x].denials
             S == Unaware(x, K)
             T == Unaware(x, K)'
  <2>1. D \in Nat /\ E \in {D, D + 1} /\ S \in SUBSET Requests /\ K \in Nat
    BY <1>0, <1>6 DEF StoreType
  <2>2. T = S \ {r}
    BY <1>4
  <2>3. E = D \/ r \in S \/ faults' = faults + 1
    BY <1>6
  <2>4. HiddenBy(faults, D, S, K)
    BY <1>6 DEF Hidden
  <2> HIDE DEF D, E, S, T
  <2>5. HiddenBy(faults', E, S \ {r}, K)
    BY ONLY <1>3, <2>1, <2>2, <2>3, <2>4, OneLessUnaware, r \in Requests
  <2> QED BY <2>2, <2>5 DEF Hidden, HiddenBy, E, T
<1>7. ASSUME NEW x \in Sessions PROVE SessionHolds(x)' /\ session'[x].denials \in Nat
  <2>0. SessionHolds(x) /\ session[x].denials \in Nat /\ (Enforcing' <=> Enforcing)
    BY <1>0 DEF CountInv, StoreType, Enforcing
  <2>1. CASE session'[x] = session[x]
    BY <1>6, <2>0, <2>1 DEF SessionHolds
  <2>2. CASE x = req[r].session /\ session'[x] = SessionAfter(r, done)
    <3> DEFINE s == session[x]
    <3>1. /\ session'[x].denials = s.denials + Points(done >= 5 /\ Denied(r), 1)
          /\ session'[x].started = IF done >= 5 /\ s.started = -1 THEN now ELSE s.started
          /\ session'[x].until = IF done >= 6 /\ Quarantines(r) THEN now + 1 ELSE s.until
          /\ session'[x].penalised = (s.penalised \/ (done >= 6 /\ Penalises(r)))
      BY <2>2 DEF SessionAfter
    <3>2. /\ session'[x].denials \in {s.denials, s.denials + 1} /\ session'[x].denials \in Nat
          /\ session'[x].denials # s.denials => done >= 5 /\ Denied(r)
      BY <2>0, <3>1 DEF Points
    <3>3. session'[x].started = -1 => session'[x].denials = 0
      BY <1>3, <2>0, <3>1, <3>2 DEF SessionHolds
    <3>4. ASSUME Enforcing, session'[x].until = 0
          PROVE  Hidden(session[x].denials, Unaware(x, QuarantineAfter), QuarantineAfter)'
      <4>1. s.until = 0 /\ ~(done >= 6 /\ Quarantines(r))
        BY <1>3, <3>1, <3>4
      <4>2. Denied(r) /\ done = 7 => req[r].view.denials < QuarantineAfter - 1
        BY <1>0, <3>4, <4>1 DEF Quarantines, Denials, ViewShown
      <4>3. Denied(r) /\ done = 7 => r \in Unaware(x, QuarantineAfter)
        BY <1>0, <2>2, <4>2 DEF Unaware
      <4> QED BY <1>3, <1>6, <2>0, <3>2, <3>4, <4>1, <4>3 DEF SessionHolds
    <3>5. ASSUME ~session'[x].penalised
          PROVE  Hidden(session[x].denials, Unaware(x, PenaltyAfter), PenaltyAfter)'
      <4>1. ~s.penalised /\ ~(done >= 6 /\ Penalises(r))
        BY <3>1, <3>5
      <4>2. ~req[r].view.penalised
        BY <1>0, <2>2, <4>1 DEF CountInv, PenaltyShown
      <4>3. Denied(r) /\ done = 7 => req[r].view.denials < PenaltyAfter - 1
        BY <1>0, <4>1, <4>2 DEF Penalises, Denials, ViewShown
      <4>4. Denied(r) /\ done = 7 => r \in Unaware(x, PenaltyAfter)
        BY <1>0, <2>2, <4>3 DEF Unaware
      <4> QED BY <1>3, <1>6, <2>0, <3>2, <4>1, <4>4 DEF SessionHolds
    <3> QED BY <2>0, <3>2, <3>3, <3>4, <3>5 DEF SessionHolds
  <2>3. session'[x] = session[x] \/ (x = req[r].session /\ session'[x] = SessionAfter(r, done))
    <3> DEFINE after == SessionAfter(r, done)
    <3> HIDE DEF after
    <3>1. session' = IF req[r].session = NoSession THEN session
                     ELSE [session EXCEPT ![req[r].session] = after]
      BY <1>1 DEF after
    <3>2. session'[x] = session[x] \/ (x = req[r].session /\ session'[x] = after)
      BY <3>1
    <3> QED BY <3>2 DEF after
  <2> QED BY <2>1, <2>2, <2>3
<1>8. /\ agent'.denials = [agent.denials EXCEPT ![now] = @ + Points(done >= 3 /\ Denied(r), 1)]
      /\ agent'.until = IF done >= 4 /\ AgentQuarantines(r) THEN now + 1 ELSE agent.until
  BY <1>1 DEF AgentAfter
<1>9. /\ agent'.denials \in [0..MaxTime -> Nat]
      /\ agent'.denials[now] \in {agent.denials[now], agent.denials[now] + 1}
      /\ agent'.denials[now] # agent.denials[now] => Denied(r)
      /\ \A t \in 0..MaxTime : t > now => agent'.denials[t] = 0
  <2> DEFINE more == Points(done >= 3 /\ Denied(r), 1)
  <2>1. more \in {0, 1} /\ (more # 0 => Denied(r))
    BY DEF Points
  <2> HIDE DEF more
  <2>2. agent'.denials = [agent.denials EXCEPT ![now] = @ + more]
    BY <1>8 DEF more
  <2>3. agent.denials \in [0..MaxTime -> Nat] /\ now \in 0..MaxTime
    BY <1>0 DEF StoreType
  <2> DEFINE D == agent.denials[now]
  <2>4. D \in Nat /\ D + more \in Nat
    <3>1. D \in Nat
      BY <1>0 DEF StoreType
    <3> QED BY ONLY <2>1, <3>1
  <2>5. agent'.denials[now] = D + more
    BY <2>2, <2>3
  <2> HIDE DEF D
  <2>6. agent'.denials \in [0..MaxTime -> Nat]
    BY <2>2, <2>3, <2>4 DEF D
  <2>7. \A t \in 0..MaxTime : t > now => agent'.denials[t] = agent.denials[t]
    BY <2>2, <2>3
  <2>8. \A t \in 0..MaxTime : t > now => agent'.denials[t] = 0
    BY <1>0, <2>7 DEF AgentHolds
  <2>9. agent'.denials[now] \in {D, D + 1} /\ (agent'.denials[now] # D => Denied(r))
    BY <2>1, <2>4, <2>5
  <2> QED BY <2>6, <2>8, <2>9 DEF D
<1>10. AgentHolds'
  <2>1. ASSUME Enforcing, agent'.until <= now
        PROVE  Hidden(agent.denials[now], UnawareOfAgent, AgentQuarantineAfter)'
    <3> DEFINE D == agent.denials[now]
               E == agent'.denials[now]
               K == AgentQuarantineAfter
               S == UnawareOfAgent
               T == UnawareOfAgent'
    <3>1. agent.until <= now /\ ~(done >= 4 /\ AgentQuarantines(r))
      BY <1>3, <1>8, <2>1
    <3>2. D \in Nat /\ E \in {D, D + 1} /\ S \in SUBSET Requests /\ K \in Nat /\ T = S \ {r}
      BY <1>0, <1>5, <1>9 DEF StoreType
    <3>3. Denied(r) /\ done = 7 => req[r].view.agentDenials < K - 1
      BY <1>0, <2>1, <3>1 DEF AgentQuarantines, ViewShown
    <3>4. Denied(r) /\ done = 7 => r \in S
      BY <1>0, <3>3 DEF UnawareOfAgent
    <3>5. E = D \/ r \in S \/ faults' = faults + 1
      BY <1>3, <1>9, <3>4
    <3>6. HiddenBy(faults, D, S, K)
      BY <1>0, <2>1, <3>1 DEF Hidden, AgentHolds
    <3> HIDE DEF D, E, S, T, K
    <3>7. HiddenBy(faults', E, S \ {r}, K)
      BY ONLY <1>3, <3>2, <3>5, <3>6, OneLessUnaware, r \in Requests
    <3> QED BY <1>0, <3>2, <3>7 DEF Hidden, HiddenBy, E, T, K
  <2> QED BY <1>0, <1>9, <2>1 DEF AgentHolds, Enforcing
<1>11. StoreType'
  BY <1>0, <1>2, <1>3, <1>7, <1>9 DEF StoreType, ViewShown
<1>12. ASSUME NEW q \in Requests PROVE PenaltyShown(q)'
  <2>1. \A x \in Sessions : session[x].penalised => session'[x].penalised
    <3> SUFFICES ASSUME NEW x \in Sessions, session[x].penalised PROVE session'[x].penalised
      OBVIOUS
    <3>1. CASE session'[x] = session[x]
      BY <3>1
    <3>2. CASE x = req[r].session /\ session'[x] = SessionAfter(r, done)
      <4>1. SessionAfter(r, done).penalised =
              (session[req[r].session].penalised \/ (done >= 6 /\ Penalises(r)))
        BY DEF SessionAfter
      <4> QED BY <3>2, <4>1
    <3> DEFINE after == SessionAfter(r, done)
    <3> HIDE DEF after
    <3>3. session' = IF req[r].session = NoSession THEN session
                     ELSE [session EXCEPT ![req[r].session] = after]
      BY <1>1 DEF after
    <3>4. session'[x] = session[x] \/ (x = req[r].session /\ session'[x] = after)
      BY <3>3
    <3> QED BY <3>1, <3>2, <3>4 DEF after
  <2>2. PenaltyShown(q)
    BY DEF CountInv
  <2> QED BY <1>2, <2>1, <2>2 DEF PenaltyShown
<1> QED BY <1>7, <1>10, <1>11, <1>12 DEF CountInv

-----------------------------------------------------------------------------
\* Only an enforcing gateway writes a quarantine.
NoQuarantine ==
  ~Enforcing => agent.until = 0 /\ \A s \in Sessions : session[s].until = 0
\* The payload last decided on, and whose it is.
DecidedInv ==
  /\ decided # <<>> => ViewTimes(decided[1].view)
  /\ decided # <<>> /\ ~Enforcing => AsWithoutRisk(decided[1])
  /\ decided # <<>> => decided[1].session \in Sessions \cup {NoSession}

HistoryInv == IInv /\ CountInv /\ NoQuarantine /\ DecidedInv

LEMMA InitHistory == Init => HistoryInv
<1> SUFFICES ASSUME Init PROVE HistoryInv
  OBVIOUS
<1> USE Thresholds
<1>1. IInv
  BY InitIInv
<1>2. StoreType
  BY BoundsAssumption DEF Init, StoreType, Idle
<1>3. AgentHolds /\ \A s \in Sessions : SessionHolds(s)
  <2>1. \A K \in Nat \ {0} : HiddenBy(faults, 0, {}, K)
    BY NothingHidden DEF Init
  <2>2. UnawareOfAgent = {} /\ \A s, K : Unaware(s, K) = {}
    BY DEF Init, Idle, UnawareOfAgent, Unaware
  <2>3. agent.denials[now] = 0 /\ \A s \in Sessions : session[s].denials = 0
    BY BoundsAssumption DEF Init
  <2>4. \A t \in 0..MaxTime : agent.denials[t] = 0
    BY DEF Init
  <2>5. AgentHolds
    BY <2>1, <2>2, <2>3, <2>4 DEF AgentHolds, Hidden
  <2>6. ASSUME NEW s \in Sessions PROVE SessionHolds(s)
    <3>1. /\ HiddenBy(faults, 0, {}, QuarantineAfter) /\ HiddenBy(faults, 0, {}, PenaltyAfter)
      BY <2>1
    <3> QED BY ONLY <2>2, <2>3, <3>1, s \in Sessions DEF SessionHolds, Hidden
  <2> QED BY <2>5, <2>6
<1>4. \A r \in Requests : PenaltyShown(r)
  BY DEF Init, Idle, PenaltyShown
<1>5. NoQuarantine /\ DecidedInv
  BY DEF Init, NoQuarantine, DecidedInv
<1> QED BY <1>1, <1>2, <1>3, <1>4, <1>5 DEF HistoryInv, CountInv

LEMMA NextHistory == ASSUME HistoryInv, [Next]_vars PROVE HistoryInv'
<1>0. /\ DOMAIN req = Requests /\ DOMAIN session = Sessions /\ agent.until \in Nat
      /\ \A s \in Sessions : session[s].until \in Nat
  BY DEF HistoryInv, IInv, TimesType
<1>1. IInv'
  BY NextIInv DEF HistoryInv
<1>2. ASSUME NEW r \in Requests, Look(r) PROVE HistoryInv'
  <2>1. UNCHANGED <<mode, session, agent>> /\ decided' = <<>>
    BY <1>2 DEF Look
  <2>2. NoQuarantine' /\ DecidedInv'
    BY <2>1 DEF HistoryInv, NoQuarantine, DecidedInv, Enforcing
  <2> QED BY <1>0, <1>1, <1>2, <2>2, LookCounts DEF HistoryInv
<1>3. ASSUME NEW r \in Requests, Serve(r) PROVE HistoryInv'
  <2>1. UNCHANGED <<mode, session, agent>> /\ req[r].pc = "looked"
    BY <1>3 DEF Serve
  <2>2. /\ decided' # <<>> =>
             /\ decided'[1].view = req[r].view /\ decided'[1].session = req[r].session
             /\ ~Enforcing => AsWithoutRisk(decided'[1])
    BY <1>3, ServeShows
  <2>3. ViewTimes(req[r].view) /\ req[r].session \in Sessions \cup {NoSession}
    BY <2>1 DEF HistoryInv, IInv, TimesType, CountInv, StoreType, ViewShown
  <2>4. NoQuarantine'
    BY <2>1 DEF HistoryInv, NoQuarantine, Enforcing
  <2>5. (decided # <<>> /\ ~Enforcing => AsWithoutRisk(decided[1]))'
    BY <2>1, <2>2 DEF AsWithoutRisk, Enforcing
  <2>6. DecidedInv'
    BY <2>2, <2>3, <2>5 DEF DecidedInv, ViewTimes
  <2> QED BY <1>0, <1>1, <1>3, <2>4, <2>6, ServeCounts DEF HistoryInv
<1>4. ASSUME NEW r \in Requests, Record(r) PROVE HistoryInv'
  <2>1. mode' = mode /\ decided' = <<>>
    BY <1>4 DEF Record
  <2>2. NoQuarantine'
    <3> SUFFICES ASSUME ~Enforcing PROVE agent'.until = 0 /\ \A s \in Sessions : session'[s].until = 0
      BY <2>1 DEF NoQuarantine, Enforcing
    <3>1. PICK done \in Steps :
            /\ agent' = AgentAfter(r, done)
            /\ session' = IF req[r].session = NoSession THEN session
                          ELSE [session EXCEPT ![req[r].session] = SessionAfter(r, done)]
      BY <1>4 DEF Record
    <3>2. agent.until = 0 /\ \A s \in Sessions : session[s].until = 0
      BY DEF HistoryInv, NoQuarantine
    <3>3. agent'.until = 0
      BY <3>1, <3>2 DEF AgentAfter, AgentQuarantines
    <3> DEFINE after == SessionAfter(r, done)
    <3>4. after.until = session[req[r].session].until
      BY DEF SessionAfter, Quarantines
    <3> HIDE DEF after
    <3>5. session' = IF req[r].session = NoSession THEN session
                     ELSE [session EXCEPT ![req[r].session] = after]
      BY <3>1 DEF after
    <3> QED BY <1>0, <3>2, <3>3, <3>4, <3>5
  <2>3. DecidedInv'
    BY <2>1 DEF DecidedInv
  <2> QED BY <1>0, <1>1, <1>4, <2>2, <2>3, RecordCounts DEF HistoryInv
<1>5. CASE Tick
  <2>1. UNCHANGED <<mode, session, agent>> /\ decided' = <<>>
    BY <1>5 DEF Tick
  <2>2. NoQuarantine' /\ DecidedInv'
    BY <2>1 DEF HistoryInv, NoQuarantine, DecidedInv, Enforcing
  <2> QED BY <1>1, <1>5, <2>2, TickCounts DEF HistoryInv
<1>6. CASE UNCHANGED vars
  <2>1. CountInv'
    BY <1>6 DEF vars, HistoryInv, CountInv, StoreType, ViewShown, AgentHolds, SessionHolds, Hidden,
       HiddenBy, Unaware, UnawareOfAgent, PenaltyShown, Enforcing
  <2>2. NoQuarantine' /\ DecidedInv'
    BY <1>6 DEF vars, HistoryInv, NoQuarantine, DecidedInv, AsWithoutRisk, ViewTimes, Enforcing
  <2> QED BY <1>1, <2>1, <2>2 DEF HistoryInv
<1> QED BY <1>2, <1>3, <1>4, <1>5, <1>6 DEF Next

\* What is hidden is less than the slack.
LEMMA EnoughIsNoticed ==
  ASSUME StoreType, NEW D \in Nat, NEW K \in Nat, K >= 1, NEW S, IsFiniteSet(S),
         Hidden(D, S, K)
  PROVE  ~(D >= K + (Cardinality(Requests) - 1 + faults))
<1>1. Cardinality(S) \in Nat /\ Cardinality(Requests) \in Nat /\ faults \in Nat
  BY BoundsAssumption, FS_CardinalityType DEF StoreType
<1>2. CASE D < K - 1
  BY <1>1, <1>2, SomeRequest
<1>3. CASE D >= K - 1
  BY <1>1, <1>3 DEF Hidden, HiddenBy
<1> QED BY <1>2, <1>3

LEMMA HistoryImplies == ASSUME HistoryInv PROVE HistoryBinds
<1> USE Thresholds, UnawareFinite
<1>1. ShadowChangesNothing
  BY DEF HistoryInv, NoQuarantine, DecidedInv, AsWithoutRisk, ShadowChangesNothing
<1>2. CountsAreNoticed
  <2> DEFINE slack == Cardinality(Requests) - 1 + faults
  <2>0. StoreType /\ AgentHolds /\ IInv
    BY DEF HistoryInv, CountInv
  <2>1. ASSUME NEW s \in Sessions
        PROVE  /\ Enforcing /\ session[s].denials >= QuarantineAfter + slack => session[s].until > 0
               /\ session[s].denials >= PenaltyAfter + slack => session[s].penalised
    <3>1. SessionHolds(s) /\ session[s].denials \in Nat /\ session[s].until \in Nat
      BY <2>0 DEF HistoryInv, CountInv, StoreType, IInv, TimesType
    <3>2. Enforcing /\ session[s].until = 0 => ~(session[s].denials >= QuarantineAfter + slack)
      BY <2>0, <3>1, EnoughIsNoticed DEF SessionHolds
    <3>3. ~session[s].penalised => ~(session[s].denials >= PenaltyAfter + slack)
      BY <2>0, <3>1, EnoughIsNoticed DEF SessionHolds
    <3> QED BY <3>1, <3>2, <3>3
  <2>2. Enforcing /\ agent.denials[now] >= AgentQuarantineAfter + slack => agent.until > now
    <3>1. agent.denials[now] \in Nat /\ now \in Nat /\ agent.until \in Nat
      BY <2>0 DEF StoreType, IInv, TimesType
    <3>2. Enforcing /\ agent.until <= now => ~(agent.denials[now] >= AgentQuarantineAfter + slack)
      BY <2>0, <3>1, EnoughIsNoticed DEF AgentHolds
    <3> QED BY <3>1, <3>2
  <2> QED BY <2>1, <2>2 DEF CountsAreNoticed
<1>3. QuarantineBinds
  <2> SUFFICES ASSUME decided # <<>>, Enforcing, decided[1].final \in {"allow", "modify"}
               PROVE  /\ agent.until > now => decided[1].view.agentUntil < agent.until
                      /\ decided[1].session # NoSession
                           /\ session[decided[1].session].until > now
                           => decided[1].view.until < session[decided[1].session].until
    BY DEF QuarantineBinds
  <2>1. decided[1].view.until <= now /\ decided[1].view.agentUntil <= now
    BY DEF HistoryInv, IInv, ReleasedIsEarned
  <2>2. ViewTimes(decided[1].view) /\ decided[1].session \in Sessions \cup {NoSession}
    BY DEF HistoryInv, DecidedInv
  <2>3. now \in Nat /\ agent.until \in Nat /\ \A s \in Sessions : session[s].until \in Nat
    BY DEF HistoryInv, IInv, TimesType
  <2> QED BY <2>1, <2>2, <2>3 DEF ViewTimes
<1> QED BY <1>1, <1>2, <1>3 DEF HistoryBinds

\* risk/contextual.py:327-335, gateway/flow.py:135-153, docs/decisions.md:26: what was
\* denied before counts, up to what crossing requests and faults can hide, a quarantine
\* stops what read it, and shadow mode changes nothing, for any number of requests,
\* sessions, faults and any thresholds.
THEOREM HistoryCounts == Spec => []HistoryBinds
<1>1. HistoryInv /\ [Next]_vars => HistoryInv'
  BY NextHistory
<1>2. HistoryInv => HistoryBinds
  BY HistoryImplies
<1> QED BY <1>1, <1>2, InitHistory, PTL DEF Spec
=============================================================================
