------------------------------- MODULE AuthZen -------------------------------
(***************************************************************************)
(* Batches of AuthZEN evaluations (gateway/authzen.py, routers/authzen.py) *)
(* that share one API key and its token bucket.  Each evaluation is        *)
(* completed from the batch's defaults, runs the tool stage, and becomes a *)
(* plain yes or no.                                                        *)
(***************************************************************************)
EXTENDS Sequences, Naturals

CONSTANTS
  Callers,     \* enforcement points with a call in flight
  Batches,     \* the batches they may send
  Limit,       \* requests a minute of the key: size of its bucket
  MaxCalls,    \* calls in all
  MaxRefills   \* tokens that come back while the model runs

(* What a call says of each evaluation and of the defaults: is a subject    *)
(* named, is an action, and does the caller apply modified arguments.       *)
Evaluation == [subject : BOOLEAN, action : BOOLEAN, accepts : {"yes", "no", "silent"}]
Semantics == {"execute_all", "deny_on_first_deny", "permit_on_first_permit"}
Batch == [defaults : Evaluation, items : Seq(Evaluation), semantic : Semantics \cup {"other"}]

BatchesAssumption == \A b \in Batches : b \in Batch
BoundsAssumption == Limit \in Nat \ {0} /\ MaxCalls \in Nat /\ MaxRefills \in Nat

VARIABLES
  call,      \* what each caller has in flight or was answered last
  tokens,    \* whole tokens in the bucket
  refilled,  \* tokens that came back, and evaluations that ran the pipeline
  runs,
  calls

vars == <<call, tokens, refilled, runs, calls>>

Idle == [pc |-> "idle"]

Init ==
  /\ call = [c \in Callers |-> Idle]
  /\ tokens = Limit
  /\ refilled = 0 /\ runs = 0 /\ calls = 0

-----------------------------------------------------------------------------
(* An evaluation of a batch: its own fields first, the defaults for what    *)
(* it leaves out.                                                           *)

\* Mutant of Merge: the defaults win over the item's context.
MergeDefaultsFirst(d, e) ==
  [subject |-> e.subject \/ d.subject,
   action |-> e.action \/ d.action,
   accepts |-> IF d.accepts # "silent" THEN d.accepts ELSE e.accepts]
Merge(d, e) ==
  [subject |-> e.subject \/ d.subject,
   action |-> e.action \/ d.action,
   accepts |-> IF e.accepts # "silent" THEN e.accepts ELSE d.accepts]

Complete(e) == e.subject /\ e.action
Single(b) == b.items = <<>>
Count(b) == IF Single(b) THEN 1 ELSE Len(b.items)

\* Each evaluation counts like one /v1/guard call.
Cost(b) == Count(b)

\* The i-th evaluation that runs; a call without an array is one evaluation.
Asked(b, i) == IF Single(b) THEN b.defaults ELSE Merge(b.defaults, b.items[i])

\* to_authzen(): a modification that the caller does not apply is a "no".
Permits(outcome, e) ==
  \/ outcome \in {"allow", "allow_restricted"}
  \/ outcome = "modify" /\ e.accepts = "yes"

Stops(b, decision) ==
  \/ b.semantic = "deny_on_first_deny" /\ ~decision
  \/ b.semantic = "permit_on_first_permit" /\ decision

-----------------------------------------------------------------------------

Finish(c, status, results) ==
  call' = [call EXCEPT ![c] = [pc |-> "done", status |-> status, batch |-> call[c].batch,
                               results |-> results]]

\* The body arrives and is read: then the tokens are taken one by one, without an await.
\* A call that runs out of them has spent those it took.
Arrive(c) ==
  /\ call[c].pc \in {"idle", "done"}
  /\ calls < MaxCalls
  /\ calls' = calls + 1
  /\ \E b \in Batches :
       IF tokens < Cost(b)
       THEN /\ tokens' = 0
            /\ call' = [call EXCEPT ![c] = [pc |-> "done", status |-> 429, batch |-> b, results |-> <<>>]]
       ELSE /\ tokens' = tokens - Cost(b)
            /\ call' = [call EXCEPT ![c] =
                 IF ~Single(b) /\ b.semantic \notin Semantics
                 THEN [pc |-> "done", status |-> 400, batch |-> b, results |-> <<>>]
                 ELSE [pc |-> "run", batch |-> b, results |-> <<>>]]
  /\ UNCHANGED <<refilled, runs>>

\* _principal(), and a body that is no AuthZEN request: nothing is charged.
TurnAway(c) ==
  /\ call[c].pc \in {"idle", "done"}
  /\ calls < MaxCalls
  /\ calls' = calls + 1
  /\ \E status \in {401, 400} :
       call' = [call EXCEPT ![c] = [pc |-> "done", status |-> status, batch |-> [items |-> <<>>],
                                    results |-> <<>>]]
  /\ UNCHANGED <<tokens, refilled, runs>>

\* One evaluation's answer, and whether it is the last.
Add(c, outcome) ==
  LET b == call[c].batch
      i == Len(call[c].results) + 1
      decision == Permits(outcome, Asked(b, i))
      results == Append(call[c].results, [decision |-> decision, outcome |-> outcome, of |-> i])
  IN  IF i = Count(b) \/ Stops(b, decision)
      THEN Finish(c, 200, results)
      ELSE call' = [call EXCEPT ![c].results = results]

Evaluates(c, complete) ==
  /\ call[c].pc = "run"
  /\ Complete(Asked(call[c].batch, Len(call[c].results) + 1)) = complete

\* A request that lacks a subject or an action is denied without running.
EvaluateIncomplete(c) ==
  /\ Evaluates(c, FALSE)
  /\ Add(c, "invalid")
  /\ UNCHANGED <<tokens, refilled, runs, calls>>

\* The pipeline's outcome, or its refusal to decide, which denies this evaluation only.
Evaluate(c) ==
  /\ Evaluates(c, TRUE)
  /\ \E o \in {"allow", "allow_restricted", "modify", "verify", "hold", "deny", "unavailable"} :
       Add(c, o)
  /\ runs' = runs + 1
  /\ UNCHANGED <<tokens, refilled, calls>>

\* A minute's share of the limit passes.
Refill ==
  /\ refilled < MaxRefills /\ tokens < Limit
  /\ tokens' = tokens + 1 /\ refilled' = refilled + 1
  /\ UNCHANGED <<call, runs, calls>>

Next ==
  \/ \E c \in Callers : Arrive(c) \/ TurnAway(c) \/ EvaluateIncomplete(c) \/ Evaluate(c)
  \/ Refill

Spec == Init /\ [][Next]_vars

-----------------------------------------------------------------------------

TypeOK ==
  /\ tokens \in 0..Limit /\ refilled \in 0..MaxRefills /\ calls \in 0..MaxCalls /\ runs \in Nat
  /\ \A c \in Callers : call[c].pc \in {"idle", "run", "done"}

Answered == {c \in Callers : call[c].pc = "done" /\ call[c].status = 200}

(* A "yes" at some place of the answer means that the evaluation at that    *)
(* place may go ahead exactly as its caller will do it: it was complete,    *)
(* the pipeline let it through, and if the arguments were changed the       *)
(* caller of this very evaluation said that it applies changes             *)
(* (authzen.py:16-24, 69-76, 138-144).                                      *)
PermitIsAsAsked ==
  \A c \in Answered : \A i \in DOMAIN call[c].results :
    LET b == call[c].batch  r == call[c].results[i]
        own == IF Single(b) THEN b.defaults ELSE b.items[i]
    IN  r.decision =>
          /\ r.of = i
          /\ own.subject \/ b.defaults.subject
          /\ own.action \/ b.defaults.action
          /\ r.outcome \in {"allow", "allow_restricted", "modify"}
          /\ r.outcome = "modify" =>
               own.accepts = "yes" \/ (own.accepts = "silent" /\ b.defaults.accepts = "yes")

(* An answer covers all evaluations unless the semantic the caller chose    *)
(* ended it, and then its last decision, and no earlier one, is the one     *)
(* that ends (routers/authzen.py:122-129).                                  *)
EndsAsAsked ==
  \A c \in Answered :
    LET b == call[c].batch  rs == call[c].results
        ends(d) == IF b.semantic = "execute_all" THEN FALSE
                   ELSE IF b.semantic = "deny_on_first_deny" THEN ~d ELSE d
    IN  /\ Len(rs) < Count(b) => ends(rs[Len(rs)].decision)
        /\ ~Single(b) => \A i \in 1..(Len(rs) - 1) : ~ends(rs[i].decision)

(* The pipeline never runs more often than the key's limit allows, however  *)
(* the evaluations are spread over calls and batches, and although batches  *)
(* of several callers run side by side after they were charged              *)
(* (routers/authzen.py:54-63, 112).                                         *)
RunsWithinLimit == runs <= Limit + refilled

PermitsAreAsked == TypeOK /\ PermitIsAsAsked /\ EndsAsAsked /\ RunsWithinLimit
=============================================================================
