--------------------------- MODULE GuardrailEngine ---------------------------
(***************************************************************************)
(* One stage of guardrails for one request (engine/pipeline.py): which     *)
(* assignments bind, in which order and groups they run, what a failing    *)
(* one counts as, and the decision and payload that come out.              *)
(*                                                                         *)
(* A payload is the set of the guardrails whose change it carries.  The    *)
(* members of a parallel group are asked together, about one payload, and  *)
(* answer in any order; their results are taken once all have answered.    *)
(***************************************************************************)
EXTENDS Naturals, Sequences, FiniteSets

CONSTANTS
  RowSets,        \* the snapshots: each a set of assignment rows with their manifests,
                  \* as they match the request's tenant, agent and stage
  ObligationSets  \* what the policy requires

Decisions == {"allow", "modify", "escalate", "block"}

\* `place` is a row's in the snapshot, `order' its order and, between equal ones, its guardrail.
RowsAssumption ==
  \A rows \in RowSets :
    /\ IsFiniteSet(rows)
    /\ \A row \in rows : /\ row.scope \in {"global", "tenant", "agent"} /\ row.place \in Nat /\ row.order \in Nat
                         /\ row.emits \subseteq Decisions /\ row.failure \in {"fail_open", "fail_closed"}
    /\ \A a \in rows, b \in rows : /\ a # b => a.place # b.place
                                   /\ a.id # b.id => a.order # b.order

\* BLOCK > ESCALATE > MODIFY > ALLOW.
Precedence == [allow |-> 0, modify |-> 1, escalate |-> 2, block |-> 3]

Strongest(decisions) ==
  IF decisions = {} THEN "allow"
  ELSE CHOOSE d \in decisions : \A e \in decisions : Precedence[e] <= Precedence[d]

\* What evaluate() may do: return a decision, return a MODIFY of another shape, raise,
\* or still be running at the timeout.
Answers == Decisions \cup {"reshaped", "error", "timeout"}

\* What compile() and the manifest's own rules leave of a row with a group: a
\* parallel_safe guardrail, which declares no MODIFY.
Compiles(row) == row.group # "none" => row.parallelSafe /\ "modify" \notin row.emits

SCOPE_PRIORITY == [global |-> 0, tenant |-> 1, agent |-> 2]

\* Of two rows of a guardrail the one of the narrower scope is chosen, or else the earlier one.
Over(row, other) ==
  \/ SCOPE_PRIORITY[row.scope] > SCOPE_PRIORITY[other.scope]
  \/ SCOPE_PRIORITY[row.scope] = SCOPE_PRIORITY[other.scope] /\ row.place < other.place

\* The chosen row of each guardrail, if it is enabled, in order.
Active(rows) ==
  {row \in rows : row.enabled /\ \A other \in rows \ {row} : other.id = row.id => Over(row, other)}

Resolve(rows) ==
  LET active == Active(rows)
      Place(row) == Cardinality({other \in active : other.order <= row.order})
  IN [n \in 1..Cardinality(active) |-> CHOOSE row \in active : Place(row) = n]

\* Mutation: a decision the manifest does not declare is taken as it is.
FailedUnlessDecided(row, answer) == answer \in {"reshaped", "error", "timeout"}

Failed(row, answer) ==
  answer \in {"reshaped", "error", "timeout"} \/ answer \notin row.emits

Effective(row, answer) ==
  IF ~Failed(row, answer) THEN answer
  ELSE IF row.failure = "fail_closed" THEN "block" ELSE "allow"

-----------------------------------------------------------------------------
VARIABLES
  rows, obligations, reviewQueue,  \* the request's snapshot, policy and configuration
  answers,   \* what each guardrail answered, "none" before
  first,     \* where the group being run starts in the bound rows; 0: not started
  current,   \* the payload so far
  counted,   \* the decisions so far
  outcome    \* <<>> until run() returns

vars == <<rows, obligations, reviewQueue, answers, first, current, counted, outcome>>

Ids == {row.id : row \in UNION RowSets}
bound == Resolve(rows)
Answer(i) == answers[bound[i].id]
Enforced(i) == bound[i].mode = "enforce"

NoPayload == {"none"}

Init ==
  /\ rows \in {set \in RowSets : \A row \in set : Compiles(row)}
  /\ obligations \in ObligationSets
  /\ reviewQueue \in BOOLEAN
  /\ answers = [id \in Ids |-> "none"]
  /\ first = 0
  /\ current = {}
  /\ counted = {}
  /\ outcome = <<>>

Missing == obligations \ {bound[i].id : i \in {j \in DOMAIN bound : Enforced(j)}}

Start ==
  /\ outcome = <<>> /\ first = 0
  /\ IF Missing # {}
     THEN /\ outcome' = <<[decision |-> "block", payload |-> NoPayload]>>
          /\ first' = first
     ELSE /\ first' = 1
          /\ outcome' = outcome
  /\ UNCHANGED <<rows, obligations, reviewQueue, answers, current, counted>>

\* Consecutive rows with one group run together, the others alone.
Group ==
  {i \in first..Len(bound) :
     i = first \/ \A j \in first..i : /\ bound[j].group # "none"
                                      /\ bound[j].group = bound[first].group}

AllAnswered == \A i \in Group : Answer(i) # "none"

Reply(i) ==
  /\ outcome = <<>> /\ first > 0
  /\ i \in Group
  /\ Answer(i) = "none"
  /\ \E answer \in Answers : answers' = [answers EXCEPT ![bound[i].id] = answer]
  /\ UNCHANGED <<rows, obligations, reviewQueue, first, current, counted, outcome>>

Counts == {i \in Group : Enforced(i)}

Stops == \E i \in Counts : Effective(bound[i], Answer(i)) \in {"block", "escalate"}

\* A MODIFY replaces the payload by what its guardrail made of the one the group was
\* given, so the last of a group would win.
TakeGroup ==
  /\ outcome = <<>> /\ first \in DOMAIN bound
  /\ AllAnswered
  /\ counted' = counted \cup {Effective(bound[i], Answer(i)) : i \in Counts}
  /\ LET modified == {i \in Counts : Effective(bound[i], Answer(i)) = "modify"}
         last == CHOOSE i \in modified : \A j \in modified : j <= i
     IN current' = IF modified = {} THEN current ELSE current \cup {bound[last].id}
  /\ first' = IF Stops THEN Len(bound) + 1
              ELSE 1 + CHOOSE i \in Group : \A j \in Group : j <= i
  /\ UNCHANGED <<rows, obligations, reviewQueue, answers, outcome>>

\* A gateway without a review queue blocks what it cannot hold.
Final ==
  IF Strongest(counted) = "escalate" /\ ~reviewQueue THEN "block" ELSE Strongest(counted)

Return ==
  /\ outcome = <<>> /\ first > Len(bound)
  /\ outcome' = <<[decision |-> Final,
                   payload |-> IF Final = "block" THEN NoPayload ELSE current]>>
  /\ UNCHANGED <<rows, obligations, reviewQueue, answers, first, current, counted>>

Next == Start \/ (\E i \in DOMAIN bound : Reply(i)) \/ TakeGroup \/ Return

\* A guardrail answers or is timed out, and the gateway's task goes on.
Spec == Init /\ [][Next]_vars

-----------------------------------------------------------------------------
(* Properties *)

\* The rows in force for the request, said without the order of resolve(): enabled, and
\* no row of a narrower scope, or of the same scope and earlier, for the same guardrail.
InForce ==
  {row \in rows : /\ row.enabled
                  /\ \A other \in rows : other.id = row.id
                       => /\ SCOPE_PRIORITY[other.scope] <= SCOPE_PRIORITY[row.scope]
                          /\ other.scope = row.scope => row.place <= other.place}

Released == outcome # <<>> /\ outcome[1].decision \in {"allow", "modify"}

\* A payload leaves a stage only if every obligation is enforced, every enforced guardrail
\* was asked and none blocked, escalated or failed closed, and it carries the change of
\* each one that answered MODIFY (pipeline.py:116-150: obligations, shadow mode, failure
\* modes, groups and stopping combine).
ReleasedIsClean ==
  Released =>
    LET enforced == {row \in InForce : row.mode = "enforce"}
    IN /\ obligations \subseteq {row.id : row \in enforced}
       /\ \A row \in enforced :
            LET answer == answers[row.id]
            IN IF answer \in row.emits
               THEN answer = "allow" \/ (answer = "modify" /\ row.id \in outcome[1].payload)
               ELSE answer # "none" /\ row.failure = "fail_open"

\* A request is blocked or held for a reason an enforced guardrail or an obligation gave:
\* shadow assignments and fail-open failures never cause one (pipeline.py:9,140).  And
\* what is held is held with its redactions, never with a shadow guardrail's change.
StoppedForCause ==
  outcome # <<>> =>
    LET enforced == {row \in InForce : row.mode = "enforce"}
        Asked(row) == answers[row.id] # "none"
        Broken(row) == Asked(row) /\ answers[row.id] \notin row.emits
        Says(row, d) == answers[row.id] = d /\ d \in row.emits
    IN /\ outcome[1].decision = "block" =>
            \/ ~ obligations \subseteq {row.id : row \in enforced}
            \/ \E row \in enforced : \/ Says(row, "block")
                                     \/ Broken(row) /\ row.failure = "fail_closed"
                                     \/ Says(row, "escalate") /\ ~reviewQueue
       /\ outcome[1].decision = "escalate" =>
            reviewQueue /\ \E row \in enforced : Says(row, "escalate")
       /\ outcome[1].payload # NoPayload =>
            outcome[1].payload = {row.id : row \in {r \in enforced : Says(r, "modify")}}
=============================================================================
