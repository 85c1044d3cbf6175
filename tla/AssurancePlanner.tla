-------------------------- MODULE AssurancePlanner --------------------------
(***************************************************************************)
(* Which evidence closes an assurance gap: the pure part of the            *)
(* verification engine (verify/model.py and verify/planner.py).            *)
(*                                                                         *)
(* A level map is a function on DIMS; level 0 is a dimension the Python    *)
(* dictionary does not mention.  A plan is the set of the verifier kinds   *)
(* in it; NoPlan is the None that plan() returns for a closed gap.         *)
(***************************************************************************)
EXTENDS Naturals, FiniteSets

DIMS == {"identity", "authorization", "resource", "behaviour", "effect"}

Codes == {"TAINTED_SESSION", "REPEATED_DENIALS"}

\* What the planner reads of an ActionDescriptor: whether it is a SQL read,
\* a write to an external host, a delete/admin/execute verb, whether the
\* tool call was understood and whether it names a target.
Descriptor == [sqlRead : BOOLEAN, externalWrite : BOOLEAN,
               destructive : BOOLEAN, parsed : BOOLEAN, target : BOOLEAN]

-----------------------------------------------------------------------------
\* The needs the action class states, before the fallback.
StatedNeed(d, codes, environment) ==
  [dim \in DIMS |->
     CASE dim = "resource" -> IF d.sqlRead THEN 2 ELSE 0
       [] dim = "effect" -> IF d.sqlRead \/ d.destructive THEN 1 ELSE 0
       [] dim = "authorization" ->
            IF d.externalWrite \/ d.destructive \/ ~d.parsed THEN 2 ELSE 0
       [] dim = "behaviour" -> IF "TAINTED_SESSION" \in codes THEN 1 ELSE 0
       [] dim = "identity" -> IF environment = "production" THEN 1 ELSE 0]

\* "if not need": nothing a machine can check, so ask the person.
Required(d, codes, environment) ==
  LET need == StatedNeed(d, codes, environment)
  IN IF \A dim \in DIMS : need[dim] = 0
     THEN [need EXCEPT !["authorization"] = 2]
     ELSE need

\* What one piece of passed evidence of a kind establishes.
Closes(kind) ==
  [dim \in DIMS |->
     CASE kind = "dry_run" ->
            (CASE dim = "resource" -> 2 [] dim = "effect" -> 1 [] OTHER -> 0)
       [] kind = "user_confirmation" ->
            (CASE dim = "authorization" -> 2 [] dim = "behaviour" -> 1
               [] OTHER -> 0)
       [] OTHER ->
            (CASE dim \in {"authorization", "resource"} -> 2 [] OTHER -> 1)]

\* What the context alone gives.
BaseLevel(dim, assurance, d, codes) ==
  CASE dim = "identity" -> IF assurance = "A0" THEN 0 ELSE 1
    [] dim = "resource" -> IF d.parsed /\ d.target THEN 1 ELSE 0
    [] dim = "behaviour" -> IF codes \cap Codes # {} THEN 0 ELSE 1
    [] OTHER -> 0

\* The dimensions still short, given the kinds of the passed evidence, each
\* at the level it is needed; 0 where nothing is short.
Gap(need, assurance, d, codes, kinds) ==
  [dim \in DIMS |->
     IF \/ BaseLevel(dim, assurance, d, codes) >= need[dim]
        \/ \E k \in kinds : Closes(k)[dim] >= need[dim]
     THEN 0 ELSE need[dim]]

Closed(gap) == \A dim \in DIMS : gap[dim] = 0

-----------------------------------------------------------------------------
MachineKinds == {"dry_run", "user_confirmation"}
NoPlan == {}
HumanPlan == {"human_approval"}
Plans == (SUBSET MachineKinds) \cup {HumanPlan}

Cost(plan) == (IF "dry_run" \in plan THEN 5 ELSE 0)
            + (IF "user_confirmation" \in plan THEN 500 ELSE 0)
            + (IF "human_approval" \in plan THEN 10000 ELSE 0)

\* Every short dimension is closed by one verifier of the plan on its own.
Covers(plan, gap) ==
  \A dim \in DIMS : gap[dim] > 0 => \E k \in plan : Closes(k)[dim] >= gap[dim]

Candidates(gap, available) ==
  {plan \in SUBSET available : plan # {} /\ Covers(plan, gap)}

\* Mutation: the comparison of the loop is the wrong way round.
PlanForDearest(gap, available) ==
  IF Closed(gap) THEN NoPlan
  ELSE IF Candidates(gap, available) = {} THEN HumanPlan
  ELSE CHOOSE plan \in Candidates(gap, available) :
         \A other \in Candidates(gap, available) : Cost(plan) >= Cost(other)

PlanFor(gap, available) ==
  IF Closed(gap) THEN NoPlan
  ELSE IF Candidates(gap, available) = {} THEN HumanPlan
  ELSE CHOOSE plan \in Candidates(gap, available) :
         \A other \in Candidates(gap, available) : Cost(plan) <= Cost(other)
=============================================================================
