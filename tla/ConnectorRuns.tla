--------------------------- MODULE ConnectorRuns ---------------------------
(***************************************************************************)
(* What the snapshot connectors collect, call by call, and what a run      *)
(* removes on the strength of it.  A connector reads its source in parts:  *)
(* Kubernetes its pods and then its kagent agents, Bedrock one service of  *)
(* a region after the other, MCP one server after the other, OpenAI one    *)
(* organization.  A part is listed page by page, some connectors ask again *)
(* for each thing listed, and calls fail, by the connector's policy, for   *)
(* the whole run or for the part.  The source changes while it is read.    *)
(*                                                                         *)
(* A thing is a number, its place in the order of the pages.  Left out are *)
(* what a thing is made of (AgentEvidence), Bedrock's optional tags, and   *)
(* the connectors that report a window, which never remove.                *)
(***************************************************************************)
EXTENDS Integers, FiniteSetsExt

CONSTANTS
  Connectors,       \* kinds of connector that are run
  Things,           \* numbers
  PageSize,         \* things on a page
  MaxPages,         \* pages of a list that are read
  MaxObservations,  \* DISCOVERY_MAX_OBSERVATIONS
  MaxRuns, MaxChanges, MaxFaults

Kinds == {"kubernetes", "aws_bedrock", "openai_admin", "mcp"}

ConnectorRunsAssumption ==
  /\ Connectors \subseteq Kinds /\ Connectors # {} /\ Things \subseteq Nat \ {0}
  /\ IsFiniteSet(Things)
  /\ {PageSize, MaxPages, MaxObservations} \subseteq Nat \ {0}
  /\ {MaxRuns, MaxChanges, MaxFaults} \subseteq Nat

\* No list is longer than the pages that are read.  A longer one is cut without a warning
\* (kubernetes.py:141, aws_bedrock.py:104), and a clean run then removes what was cut off.
ListsFit == Cardinality(Things) <= PageSize * MaxPages

VARIABLES
  kind,
  source,    \* what each part has now
  run,
  known,     \* what the inventory has from this connector
  missing,   \* what the source did not have at some time of the run
  failed,    \* parts of which a call failed in the run
  runs, changes, faults

vars == <<kind, source, run, known, missing, failed, runs, changes, faults>>

-----------------------------------------------------------------------------
(* The connectors *)

Parts(k) == IF k = "openai_admin" THEN {1} ELSE {1, 2}
AllOf(k, s) == UNION {{<<p, i>> : i \in s[p]} : p \in Parts(k)}

\* Mutation: one server that fails fails the run.
EndsAnyRun(k, p) == k # "aws_bedrock"

\* What a failed call ends: the run, with its error on it, or the part, with a warning.
EndsRun(k, p) == k = "openai_admin" \/ (k = "kubernetes" /\ p = 1)

\* Connectors that ask again for each thing of a list.
AsksAgain(k) == k \in {"openai_admin", "aws_bedrock"}

\* What a source need not have: the resource is unknown to the API server.
Optional(k, p) == k = "kubernetes" /\ p = 2

\* One observation for a server with its tools, one for each thing elsewhere.
Observations(k, things) == IF k = "mcp" THEN 1 ELSE Cardinality(things)

Idle == [at |-> "idle", part |-> 1, last |-> 0, pages |-> 0, got |-> {}, asked |-> {}, out |-> {},
         obs |-> 0, warned |-> FALSE, error |-> FALSE, truncated |-> FALSE]

-----------------------------------------------------------------------------
Init ==
  /\ kind \in Connectors
  /\ source \in [Parts(kind) -> SUBSET Things]
  /\ run = Idle
  /\ known = {} /\ missing = {} /\ failed = {}
  /\ runs = 0 /\ changes = 0 /\ faults = 0

\* A thing of the source comes or goes.
Change ==
  /\ changes < MaxChanges
  /\ changes' = changes + 1
  /\ \E p \in Parts(kind), i \in Things :
       source' = [source EXCEPT ![p] = IF i \in @ THEN @ \ {i} ELSE @ \cup {i}]
  /\ missing' = missing \cup (AllOf(kind, [p \in Parts(kind) |-> Things]) \ AllOf(kind, source'))
  /\ UNCHANGED <<kind, run, known, failed, runs, faults>>

Claim ==
  /\ run.at = "idle" /\ runs < MaxRuns
  /\ runs' = runs + 1
  /\ run' = [Idle EXCEPT !.at = "begin"]
  /\ missing' = AllOf(kind, [p \in Parts(kind) |-> Things]) \ AllOf(kind, source)
  /\ failed' = {}
  /\ UNCHANGED <<kind, source, known, changes, faults>>

Collecting == UNCHANGED <<kind, source, known, missing, runs, changes>>

NextPart(r) ==
  [r EXCEPT !.at = IF r.part + 1 \in Parts(kind) THEN "begin" ELSE "done",
            !.part = IF r.part + 1 \in Parts(kind) THEN @ + 1 ELSE @,
            !.last = 0, !.pages = 0, !.got = {}, !.asked = {}]

Skipped(r) == NextPart([r EXCEPT !.warned = TRUE])

\* ConnectorError, or whatever a client raises.
Fails ==
  /\ failed' = failed \cup {run.part}
  /\ run' = IF EndsRun(kind, run.part) THEN [run EXCEPT !.at = "done", !.error = TRUE] ELSE Skipped(run)

Fault == faults < MaxFaults /\ faults' = faults + 1 /\ Fails

\* check_url(), the credential, the client, MCP's initialize; kagent's part needs no more of them.
\* Without the role to assume, Bedrock's run ends before its first part.
Begin ==
  /\ run.at = "begin"
  /\ \/ run' = [run EXCEPT !.at = "list"] /\ UNCHANGED <<failed, faults>>
     \/ kind # "kubernetes" /\ Fault
     \/ run.part = 1 /\ kind = "kubernetes" /\ Fault
     \/ /\ run.part = 1 /\ kind = "aws_bedrock" /\ faults < MaxFaults
        /\ faults' = faults + 1 /\ failed' = Parts(kind)
        /\ run' = [run EXCEPT !.at = "done", !.error = TRUE]
  /\ Collecting

\* A page of the list, which is read to its end or to its MaxPages-th page.
Page ==
  LET rest == {i \in source[run.part] : i > run.last}
      page == {i \in rest : Cardinality({j \in rest : j < i}) < PageSize}
      more == rest # page /\ run.pages + 1 < MaxPages
      end == IF AsksAgain(kind) THEN "ask" ELSE "yield"
  IN /\ run.at = "list"
     /\ \/ /\ run' = [run EXCEPT !.got = @ \cup page, !.last = IF page = {} THEN @ ELSE Max(page),
                                 !.pages = @ + 1, !.at = IF more THEN "list" ELSE end]
           /\ UNCHANGED <<failed, faults>>
        \/ Fault
     /\ Collecting

\* 404 for the list itself.
Unknown ==
  /\ run.at = "list" /\ run.pages = 0
  /\ kind = "kubernetes" /\ run.part = 2 /\ source[run.part] = {}
  /\ run' = IF Optional(kind, run.part) THEN NextPart(run) ELSE Skipped(run)
  /\ UNCHANGED <<failed, faults>>
  /\ Collecting

\* The run's loop over what the connector yields: what exceeds its cap ends it.
Yielded(r, things) ==
  LET room == MaxObservations - r.obs
      offered == Observations(kind, things)
      cut == offered > room
      taken == IF ~cut THEN things
               ELSE IF kind = "mcp" THEN {} ELSE {t \in things : Cardinality({u \in things : u[2] < t[2]}) < room}
  IN [r EXCEPT !.out = @ \cup taken, !.obs = IF cut THEN MaxObservations ELSE @ + offered,
               !.truncated = cut, !.at = IF cut THEN "done" ELSE @]

\* Asking for one thing: it may be gone by now, which is a failed call like any other.  OpenAI's
\* connector yields it at once, Bedrock's all of a part together.
Ask ==
  LET left == run.got \ run.asked
      i == Min(left)
      asked == [run EXCEPT !.asked = @ \cup {i}]
  IN /\ run.at = "ask" /\ left # {}
     /\ \/ /\ i \in source[run.part]
           /\ run' = IF kind = "openai_admin" THEN Yielded(asked, {<<run.part, i>>}) ELSE asked
           /\ UNCHANGED <<failed, faults>>
        \/ i \notin source[run.part] /\ Fails /\ UNCHANGED faults
        \/ Fault
     /\ Collecting

Asked ==
  /\ run.at = "ask" /\ run.got = run.asked
  /\ run' = IF kind = "openai_admin" THEN NextPart(run) ELSE [run EXCEPT !.at = "yield"]
  /\ UNCHANGED <<failed, faults>>
  /\ Collecting

\* What was listed is yielded, and the next part begins.
Yield ==
  LET r == Yielded(run, {<<run.part, i>> : i \in run.got})
  IN /\ run.at = "yield"
     /\ run' = IF r.at = "done" THEN r ELSE NextPart(r)
     /\ UNCHANGED <<failed, faults>>
     /\ Collecting

Clean(r) == ~r.error /\ ~r.warned /\ ~r.truncated

\* The inventory takes over what was collected; a clean run removes the rest.
Apply ==
  /\ run.at = "done"
  /\ known' = IF Clean(run) THEN run.out ELSE known \cup run.out
  /\ run' = Idle
  /\ UNCHANGED <<kind, source, missing, failed, runs, changes, faults>>

Next == Change \/ Claim \/ Begin \/ Page \/ Unknown \/ Ask \/ Asked \/ Yield \/ Apply

Spec == Init /\ [][Next]_vars

-----------------------------------------------------------------------------
(* Properties *)

TypeOK ==
  /\ kind \in Connectors /\ source \in [Parts(kind) -> SUBSET Things]
  /\ run.at \in {"idle", "begin", "list", "ask", "yield", "done"} /\ run.part \in Parts(kind)
  /\ known \cup run.out \subseteq Parts(kind) \X Things
  /\ run.obs <= MaxObservations

\* "Every run lists everything the source has, so what is missing was removed" (discovery/model.py:126): a run
\* removes from the inventory only what its source did not have at some time of the run, whichever
\* calls failed, whatever was skipped or cut off, and however the source changed between the pages.
DroppedWasGone == known \ known' \subseteq missing

\* One server, or one service of a region, that fails leaves the rest of the run
\* (aws_bedrock.py:64, mcp.py:88): what the other parts had all the time is collected.
OthersAreHeard ==
  run.at = "done" /\ kind \in {"aws_bedrock", "mcp"} /\ ~run.truncated =>
    \A p \in Parts(kind) \ failed, i \in Things : <<p, i>> \in missing \cup run.out

\* A run without a failed call, of a source that fits, is clean, so that something is removed in the
\* end: a cluster without kagent is not worth a warning (kubernetes.py:109).
QuietIsClean ==
  run.at = "done" /\ failed = {} /\ ~Clean(run) =>
    run.truncated /\ run.obs = MaxObservations
=============================================================================
