---------------------------- MODULE DecisionTable ----------------------------
(***************************************************************************)
(* How one request's risk is scored (risk/engine.py), what the decision    *)
(* table asks for (risk/decision.py), and what the request becomes once    *)
(* verification and the review queue have answered (gateway/flow.py).      *)
(* Nothing here keeps state.                                               *)
(***************************************************************************)
EXTENDS Integers, FiniteSetsExt

CONSTANT BaseTrust   \* the agent's approved trust, 0..100

ASSUME BaseTrustAssumption == BaseTrust \in 0..100

\* What the code reads of an action: its stage, inherent risk and target, whether it is
\* a SQL read over the row limit or without one, whether it writes or sends to an
\* external host, whether its data is classified PII or CONFIDENTIAL, and whether the
\* caller keeps obligations.
Actions == [stage : {"input", "retrieval", "tool", "output"}, inherent : 0..100,
            target : STRING, bigRead : BOOLEAN, externalWrite : BOOLEAN,
            sensitive : BOOLEAN, accepts : BOOLEAN]

Outcomes == {"allow", "allow_restricted", "modify", "verify", "hold",
             "quarantine_session", "deny"}

ORDER == [allow |-> 0, allow_restricted |-> 1, modify |-> 2, verify |-> 4, hold |-> 5,
          quarantine_session |-> 6, deny |-> 7]

Allowing == {"allow", "allow_restricted", "modify"}

FromEngine == [allow |-> "allow", modify |-> "modify", escalate |-> "hold", block |-> "deny"]

\* to_legacy(): the four-value summary of an outcome.
Legacy(outcome) ==
  CASE outcome \in {"deny", "quarantine_session"} -> "block"
    [] outcome \in {"hold", "verify"} -> "escalate"
    [] outcome = "modify" -> "modify"
    [] OTHER -> "allow"

-----------------------------------------------------------------------------
(* Risk *)

Points(signal, n) == IF signal THEN n ELSE 0

\* Confidence in percent: missing context counts as risk, at a fifth of its weight.
Confidence(view, inSession) ==
  50 + Points(view.available, 30) + Points(inSession, 20)

Score(action, view, inSession) ==
  Min({100,
    action.inherent
    + Points(view.firstSeen /\ action.stage = "tool", 15)                  \* NEW_RESOURCE
    + Points(action.bigRead, 15)                                           \* UNBOUNDED_READ
    + Points(action.externalWrite /\ (action.sensitive \/ "holds" \in view.labels), 30)
    + Points(action.stage = "tool" /\ "untrusted" \in view.labels, 15)     \* TAINTED_SESSION
    + Points(~inSession \/ ~view.hasSession \/ view.young, 5)              \* NEW_SESSION
    + Min({20, 10 * Max({view.denials, view.agentDenials})})               \* REPEATED_DENIALS
    + (100 - Confidence(view, inSession)) \div 5})                         \* LOW_CONFIDENCE

\* Ten points for each penalty; within the hours modelled a half-life of seven days
\* takes nothing off that rounding does not restore.
Trust(view) == Max({0, BaseTrust - 10 * view.penalties})

\* band_for(): the thresholds move with a fifth of the trust.
Band(score, trust) ==
  CASE score >= 80 -> "critical"
    [] score < 80 /\ 5 * score < 150 + trust -> "low"
    [] score < 80 /\ 5 * score >= 150 + trust /\ 5 * score < Min({400, 275 + trust}) -> "elevated"
    [] OTHER -> "high"

\* Advisors are asked in the uncertain bands; they add up to 20 points or ask for
\* evidence.  One that fails or times out is no signal.
AdvisedBands == {"elevated", "high"}
NoAdvice == [points |-> 0, verify |-> FALSE]
Advice == [points : {0, 20}, verify : BOOLEAN]

Advised(score, trust, advice) == Band(Min({100, score + advice.points}), trust)

-----------------------------------------------------------------------------
(* The decision table *)

RiskOutcome(band, action) ==
  CASE band = "critical" -> [outcome |-> "hold", limit |-> FALSE]
    [] band = "high" -> [outcome |-> "verify", limit |-> FALSE]
    [] band = "elevated" /\ action.bigRead -> [outcome |-> "allow_restricted", limit |-> TRUE]
    [] band = "elevated" /\ action.externalWrite /\ ~action.bigRead ->
         [outcome |-> "verify", limit |-> FALSE]
    [] OTHER -> [outcome |-> "allow", limit |-> FALSE]

Stricter(a, b) == IF ORDER[a] >= ORDER[b] THEN a ELSE b

AdvisorAsks(outcome, asks) == IF asks /\ outcome \in Allowing THEN "verify" ELSE outcome

\* A request that cannot be verified, or whose caller ignores a row limit, is held.
OrHold(outcome, limit, action, verifier) ==
  IF \/ outcome = "verify" /\ ~verifier
     \/ outcome \in Allowing /\ limit /\ ~action.accepts
  THEN "hold" ELSE outcome

\* Mutation: the engine's decision is only looked at when risk allows.
DecideRiskFirst(policy, engine, band, action, quarantined, verifier, asks) ==
  LET risk == RiskOutcome(band, action)
      out == OrHold(IF risk.outcome = "allow" THEN FromEngine[engine] ELSE risk.outcome,
                    risk.limit, action, verifier)
  IN IF ~policy THEN [outcome |-> "deny", limit |-> FALSE]
     ELSE IF quarantined THEN [outcome |-> "quarantine_session", limit |-> FALSE]
     ELSE [outcome |-> out, limit |-> risk.limit /\ out \in Allowing]

Decide(policy, engine, band, action, quarantined, verifier, asks) ==
  LET risk == RiskOutcome(band, action)
      out == OrHold(AdvisorAsks(Stricter(risk.outcome, FromEngine[engine]), asks),
                    risk.limit, action, verifier)
  IN IF ~policy THEN [outcome |-> "deny", limit |-> FALSE]
     ELSE IF quarantined THEN [outcome |-> "quarantine_session", limit |-> FALSE]
     ELSE [outcome |-> out, limit |-> risk.limit /\ out \in Allowing]

-----------------------------------------------------------------------------
(* From the table to the answer *)

\* What the verification engine answers (Verification models how): a `verify` is always
\* resolved; an allowing outcome is followed up, which mostly finds nothing.
Resolutions == {"allow", "verify", "hold", "deny"}

Findings(outcome, verifier) ==
  CASE verifier /\ outcome = "verify" -> Resolutions
    [] verifier /\ outcome \in Allowing -> Resolutions \cup {"nothing"}
    [] OTHER -> {"nothing"}

\* The resolved table carries no obligation.
Resolved(table, found) ==
  IF found = "nothing" THEN table ELSE [outcome |-> found, limit |-> FALSE]

\* _apply_table(): the table's outcome, unless it is what the guardrails decided or
\* weaker than that.
Apply(table, engine) ==
  IF \/ Legacy(table.outcome) \in {"block", "escalate"}
     \/ Legacy(table.outcome) = engine
  THEN Legacy(table.outcome) ELSE engine

\* The stage's decision before the review queue.
Decision(enforcing, policy, engine, table) ==
  IF ~policy THEN "block" ELSE IF enforcing THEN Apply(table, engine) ELSE engine

\* hold_for_review(): an escalated request is held if the queue takes it and blocked if
\* not; one that waits for its user is not sent there.
Finals(decision, asksUser) ==
  IF decision = "escalate" /\ ~asksUser THEN {"escalate", "block"} ELSE {decision}
=============================================================================
