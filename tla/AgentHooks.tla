----------------------------- MODULE AgentHooks -----------------------------
(***************************************************************************)
(* One question to an agent that calls the SDK's hooks at each stage       *)
(* (guardrail_sdk/hooks.py, client.py, integrations/tools.py and           *)
(* langgraph.py; the order of the steps is that of the sample agent).      *)
(* A hook sends a value to the gateway and returns the version that is     *)
(* safe to use, or raises.  A value that is held is waited for: the client *)
(* polls until a reviewer has decided or its own deadline has passed.      *)
(***************************************************************************)
EXTENDS Sequences, Naturals

CONSTANTS
  Docs,        \* how many documents the retriever finds at most
  Wait,        \* wait_for_review_seconds, in ticks; 0: do not wait
  PollEvery    \* review_poll_seconds

BoundsAssumption == Docs \in Nat /\ Wait \in Nat /\ PollEvery \in Nat \ {0}

(* A value is the thing it stands for and who let this version of it out:  *)
(* nobody yet ("raw"), the gateway or a reviewer.                          *)
Value(what, by) == [what |-> what, by |-> by]
Found == UNION {[1..n -> {"raw"}] : n \in 0..Docs}

VARIABLES
  step,       \* "prompt", "docs", "args", "result", "answer"
  pc,         \* "call", "held", "asked", "stopped", "done"
  found,      \* the documents the retriever found; by position
  docs,       \* the documents after the check: [pos, text] in order
  seen,       \* what the search, the model, the tool and the user were given
  now, deadline, wake,   \* the client's clock since the value was held
  review,     \* status of the review of the held value
  read,       \* the status the last poll got
  approved,    \* history: the steps whose review was approved,
  decidedAt,   \* when the review was decided,
  crossed,     \* was a poll under way when the deadline passed?
  why          \* and why the agent stopped

clocks == <<now, deadline, wake, review, read, approved, decidedAt, crossed>>
vars == <<step, pc, found, docs, seen, why, clocks>>

Never == Wait + PollEvery + 2

Init ==
  /\ step = "prompt" /\ pc = "call"
  /\ found \in Found
  /\ docs = <<>>
  /\ seen = [p \in {"search", "llm", "tool", "user"} |-> {}]
  /\ now = 0 /\ deadline = 0 /\ wake = 0
  /\ review = "none" /\ read = "none"
  /\ approved = {} /\ decidedAt = Never /\ crossed = FALSE /\ why = "none"

-----------------------------------------------------------------------------
(* What the agent does with a released value, and with which step it goes  *)
(* on.  The tool gets the checked arguments only, and its result is raw    *)
(* until after_tool() has had it (guard_tool).                             *)

Gives(s) == CASE s = "prompt" -> {"search", "llm"}
              [] s = "docs" -> {"llm"}
              [] s = "args" -> {"tool"}
              [] s = "result" -> {"llm"}
              [] s = "answer" -> {"user"}
After(s) == CASE s = "prompt" -> {"docs"}
              [] s = "docs" -> {"args", "answer"}   \* with or without a tool call
              [] s = "args" -> {"result"}
              [] s = "result" -> {"args", "answer"}
              [] s = "answer" -> {"answer"}

\* chunks_to_documents(): a chunk's id is the position of its document.
ToDocuments(kept) == [i \in DOMAIN kept |-> [pos |-> kept[i].id, text |-> kept[i].text]]

\* What the retrieval stage may return: some of the chunks, in order.
Kept(by) ==
  LET Positions == {s \in UNION {[1..n -> DOMAIN found] : n \in 0..Len(found)} :
                      \A i, j \in DOMAIN s : i < j => s[i] < s[j]}
  IN  {[i \in DOMAIN ids |-> [id |-> ids[i], text |-> <<ids[i], by>>]] : ids \in Positions}

Use(by) ==
  /\ seen' = [p \in DOMAIN seen |-> IF p \in Gives(step) THEN seen[p] \cup {Value(step, by)} ELSE seen[p]]
  /\ IF step = "docs" THEN \E kept \in Kept(by) : docs' = ToDocuments(kept) ELSE UNCHANGED docs
  /\ step' \in After(step)
  /\ pc' = IF step = "answer" THEN "done" ELSE "call"
  /\ UNCHANGED <<found, why>>

Stop(reason) == pc' = "stopped" /\ why' = reason /\ UNCHANGED <<step, found, docs, seen>>

-----------------------------------------------------------------------------
(* The gateway's answer to the hook's request.                             *)

Calls == pc = "call" /\ ~(step = "docs" /\ found = <<>>)

Released ==
  /\ Calls
  /\ Use("gateway")
  /\ UNCHANGED clocks

\* An empty list of documents is not sent.
NothingFound ==
  /\ pc = "call" /\ step = "docs" /\ found = <<>>
  /\ docs' = <<>> /\ step' \in After(step)
  /\ UNCHANGED <<pc, found, seen, why>> /\ UNCHANGED clocks

\* Blocked, denied, a confirmation required, an error of the gateway or its transport;
\* held, when the hooks do not wait.
Raised ==
  /\ Calls
  /\ Stop("raised")
  /\ UNCHANGED clocks

Held ==
  /\ Calls /\ Wait > 0
  /\ pc' = "held"
  /\ now' = 0 /\ deadline' = Wait /\ wake' = 0
  /\ review' = "pending" /\ read' = "none"
  /\ decidedAt' = Never /\ crossed' = FALSE
  /\ UNCHANGED <<step, found, docs, seen, approved, why>>

-----------------------------------------------------------------------------
(* wait_for_escalation(): ask, look at the answer and at the clock, sleep. *)

Poll ==
  /\ pc = "held" /\ now >= wake
  /\ pc' = "asked" /\ read' = review
  /\ UNCHANGED <<step, found, docs, seen, why, now, deadline, wake, review, approved, decidedAt, crossed>>

GivesUp == now >= deadline

Sleep ==
  /\ pc = "asked" /\ read = "pending" /\ ~GivesUp
  /\ pc' = "held"
  /\ wake' = IF now + PollEvery < deadline THEN now + PollEvery ELSE deadline
  /\ UNCHANGED <<step, found, docs, seen, why, now, deadline, review, read, approved, decidedAt, crossed>>

\* Mutant of Approves: whatever is not rejected is taken.
ApprovesUndecided(status) == status \in {"approved", "pending", "expired"}
Approves(status) == status = "approved"

\* _after_review(): the payload the reviewer approved, or an exception.
Decided ==
  /\ pc = "asked" /\ (read # "pending" \/ GivesUp)
  /\ IF Approves(read) THEN Use("reviewer")
     ELSE Stop(IF read = "pending" THEN "waiting" ELSE "refused")
  /\ UNCHANGED clocks

PollFails ==
  /\ pc = "held" /\ now >= wake
  /\ Stop("failed")
  /\ UNCHANGED clocks

\* The reviewer's side: decides, or the review's own lifetime ends.
ReviewEnds ==
  /\ pc \in {"held", "asked"} /\ review = "pending"
  /\ review' \in {"approved", "rejected", "expired"}
  /\ decidedAt' = now
  /\ approved' = IF review' = "approved" THEN approved \cup {step} ELSE approved
  /\ UNCHANGED <<step, pc, found, docs, seen, why, now, deadline, wake, read, crossed>>

Tick ==
  /\ pc \in {"held", "asked"} /\ now < deadline + PollEvery
  /\ now' = now + 1
  /\ crossed' = (crossed \/ (pc = "asked" /\ now < deadline /\ now + 1 >= deadline))
  /\ UNCHANGED <<step, pc, found, docs, seen, why, deadline, wake, review, read, approved, decidedAt>>

Client == Released \/ NothingFound \/ Raised \/ Held \/ Poll \/ Sleep \/ Decided \/ PollFails

Next == Client \/ ReviewEnds \/ Tick

\* The client's loop runs and time passes; nobody has to decide.
Spec == Init /\ [][Next]_vars

-----------------------------------------------------------------------------

TypeOK ==
  /\ step \in {"prompt", "docs", "args", "result", "answer"}
  /\ pc \in {"call", "held", "asked", "stopped", "done"}
  /\ found \in Found /\ approved \subseteq {"prompt", "docs", "args", "result", "answer"}
  /\ now \in 0..(Wait + PollEvery) /\ decidedAt \in 0..Never /\ crossed \in BOOLEAN

(* What was held reaches the model, a tool or the user only if a reviewer  *)
(* approved that very step: not when the wait timed out, the review        *)
(* expired or an earlier step was approved (hooks.py:110-115, 153-162).    *)
HeldNeedsApproval ==
  \A p \in DOMAIN seen : \A v \in seen[p] : v.by = "reviewer" => v.what \in approved

(* The documents the agent uses are ones it found, in their order, each    *)
(* with the text that was checked for it, whichever were dropped           *)
(* (langgraph.py:113-145 matches them by position).                        *)
DocsKeepPlace ==
  \A i \in DOMAIN docs :
    /\ docs[i].pos \in DOMAIN found /\ docs[i].text[1] = docs[i].pos
    /\ \A j \in DOMAIN docs : i < j => docs[i].pos < docs[j].pos

(* A client gives up only when its time is over, and has not missed an     *)
(* answer given before, unless its last poll was under way at the deadline *)
(* (client.py:121-131: the review is asked before the clock, and the last  *)
(* sleep ends at the deadline).                                            *)
GivesUpInTime ==
  why = "waiting" => now >= deadline /\ (decidedAt < deadline => crossed)

(* The three together, of one question to the agent (hooks.py, client.py). *)
HooksWait == TypeOK /\ HeldNeedsApproval /\ DocsKeepPlace /\ GivesUpInTime
=============================================================================
