---------------------------- MODULE Verification ----------------------------
(***************************************************************************)
(* The verification engine of the gateway (verify/engine.py) on its Redis  *)
(* store (verify/store.py), for one exact request, that is, one            *)
(* request_hash: every key of the store contains the hash, so requests     *)
(* with different hashes share no state.                                   *)
(*                                                                         *)
(* Requests are guard calls with that hash (the original and its retries)  *)
(* that run concurrently on any replica; Confirms are calls of             *)
(* POST /v1/verifications/{id}/confirm.  A step of the model ends where    *)
(* the code awaits the store, the dry-run database or the identity         *)
(* provider: what a handler has read it then keeps in its own variables.   *)
(***************************************************************************)
EXTENDS AssurancePlanner
LOCAL INSTANCE TLC

CONSTANTS
  Requests,          \* guard calls with this request_hash
  Confirms,          \* calls of the confirm endpoint
  Descriptors,       \* the actions the request may be
  Environment,       \* "production" or "dev"
  Assurance,         \* "A0" .. "A4", of the agent's API key
  DryRunConfigured,  \* VERIFY_SQL_DRY_RUN has a target for the request
  Faulty,            \* calls whose Redis operations may fail or time out
  TTL,               \* lifetime of evidence and of a pending verification
  MaxTime,           \* bound on the clock
  None               \* no verification

ASSUME ActorsAssumption ==
  /\ Requests \cap Confirms = {}
  /\ None \notin Requests
  /\ Faulty \subseteq Requests \cup Confirms
ASSUME DescriptorsAssumption == Descriptors \subseteq Descriptor
ASSUME SettingsAssumption ==
  /\ Environment \in {"production", "dev"}
  /\ Assurance \in {"A0", "A1", "A2", "A3", "A4"}
  /\ DryRunConfigured \in BOOLEAN
ASSUME TimeAssumption == TTL \in Nat \ {0} /\ MaxTime \in Nat

VARIABLES
  now,            \* the clock all replicas share
  action,         \* the request's ActionDescriptor (fixed by the hash)
  evidence,       \* ev:{tenant}:{hash}, the stored evidence
  verifications,  \* ver:{tenant}:{id}; an id is named by the request that opened it
  pend,           \* pend:{tenant}:{hash}
  pc,             \* where each request is
  ctx,            \* how each request arrived: entry point, risk codes, channel
  held,           \* the evidence each request holds in its local variable
  plan,           \* the plan it made
  shown,          \* the verification it found or opened
  outcome,        \* its Resolution
  cpc,            \* where each confirm call is
  answer,         \* the verification it is about, and the person's answer
  spent,          \* history: the evidence each request deleted from the store
  raced,          \* history: requests during which another call wrote the store
  warned,         \* history: requests that arrived when the person had not agreed
  overruled       \* history: of those, the ones released although that still held

store == <<evidence, verifications, pend>>
request == <<pc, ctx, held, plan, shown, outcome>>
confirm == <<cpc, answer>>
history == <<spent, raced, warned, overruled>>
vars == <<now, action, store, request, confirm, history>>

EvidenceRecord ==
  [by : Requests \cup Confirms, kind : MachineKinds, passed : BOOLEAN, expires : Nat]

RequestPC == {"new", "deny", "take", "dry_run", "store_dry", "pend_key", "pend_ver",
              "open", "spend", "take_follow_up", "done"}
ConfirmPC == {"new", "token", "add", "put", "done", "closed", "refused", "error"}
Outcomes == {"none", "allow", "table", "verify", "hold", "deny"}
Statuses == {"absent", "pending", "confirmed", "rejected"}

-----------------------------------------------------------------------------
\* Reading the records.
Live(items) == {e \in items : e.expires > now}
Rejections(items) == {e \in items : e.kind = "user_confirmation" /\ ~e.passed}
Approvals(items) == {e \in items : e.kind = "user_confirmation" /\ e.passed}
KindsOf(items) == {e.kind : e \in {x \in items : x.passed}}

\* get_verification reports a pending verification past its time as expired.
StatusNow(v) ==
  LET status == verifications[v].status IN
  IF status = "pending" /\ verifications[v].expires <= now THEN "expired" ELSE status

OpenNow == pend # None /\ StatusNow(pend) = "pending"

Available(c) ==
  {kind \in MachineKinds :
     IF kind = "dry_run"
     THEN DryRunConfigured /\ action.sqlRead /\ action.parsed
     ELSE c.confirmable}

GapWith(c, kinds) ==
  Gap(Required(action, c.codes, Environment), Assurance, action, c.codes, kinds)
GapOf(c, items) == GapWith(c, KindsOf(items))

PlanOf(c, items) == PlanFor(GapOf(c, items), Available(c))

DryEvidence(r) == [by |-> r, kind |-> "dry_run", passed |-> TRUE, expires |-> now + TTL]
OwnDryRun(r) == {e \in held[r] : e.by = r /\ e.kind = "dry_run"}

InFlight == {r \in Requests : pc[r] \notin {"new", "done"}}
Others(r) == raced \cup (InFlight \ {r})

-----------------------------------------------------------------------------
\* What the steps of a request have in common.

Goto(r, where) == pc' = [pc EXCEPT ![r] = where]

\* The request returns a Resolution.
Finish(r, result) ==
  /\ Goto(r, "done")
  /\ outcome' = [outcome EXCEPT ![r] = result]

\* What the record says when a request arrives, and when it is released: a
\* rejection stands, or the question is still open (a request that resolves may be
\* released beside an open question: its codes may no longer ask for the person).
NotAgreed == Rejections(Live(evidence)) # {} \/ OpenNow
RecordForbids(r) ==
  /\ r \in warned
  /\ Rejections(Live(evidence)) # {} \/ (ctx[r].entry = "follow_up" /\ OpenNow)

Release(r, result) ==
  /\ Finish(r, result)
  /\ overruled' = IF RecordForbids(r) THEN overruled \cup {r} ELSE overruled

\* "except Exception": a store call that raises becomes a hold.
HoldOnError(r) == r \in Faulty /\ Finish(r, "hold") /\ UNCHANGED overruled

\* Mutation: the list is read, and deleted in a call that never happens.
ReadWithoutDelete(r) ==
  /\ spent' = [spent EXCEPT ![r] = @ \cup evidence]
  /\ UNCHANGED <<evidence, raced>>

\* MULTI/EXEC read-and-delete of the whole list.
TakeEvidence(r) ==
  /\ evidence' = {}
  /\ spent' = [spent EXCEPT ![r] = @ \cup evidence]
  /\ raced' = IF evidence = {} THEN raced ELSE Others(r)

\* A write that raised may or may not have happened on the server.
NoWrite == UNCHANGED <<evidence, spent, raced>>

\* Where a plan that is not NoPlan leads: machine steps first, then the person.
Follow(r, p) ==
  IF p = HumanPlan
  THEN Finish(r, "hold")
  ELSE /\ Goto(r, IF "dry_run" \in p THEN "dry_run" ELSE "pend_key")
       /\ UNCHANGED outcome

-----------------------------------------------------------------------------
\* How a retry can differ: the table's outcome and the codes decay with the session's
\* signals, and the hash does not cover verification_channels.  follow_up() reads
\* neither the codes nor the channel.
Arrivals ==
  [entry : {"resolve"}, codes : SUBSET {"TAINTED_SESSION"}, confirmable : BOOLEAN]
    \cup [entry : {"follow_up"}, codes : {{}}, confirmable : {FALSE}]

\* The first read of resolve() (the table said verify) and of follow_up() (the
\* table would allow): a rejection denies, otherwise resolve plans.
FirstStep(r, items) ==
  /\ held' = [held EXCEPT ![r] = items]
  /\ IF Rejections(items) # {}
     THEN Goto(r, "deny") /\ UNCHANGED <<plan, outcome>>
     ELSE IF ctx'[r].entry = "follow_up"
     THEN Goto(r, "pend_key") /\ UNCHANGED <<plan, outcome>>
     ELSE LET p == PlanOf(ctx'[r], items) IN
          /\ plan' = [plan EXCEPT ![r] = p]
          /\ IF p = NoPlan THEN Goto(r, "take") /\ UNCHANGED outcome ELSE Follow(r, p)

\* On an error of Redis evidence() answers that there is none.
ReadEvidence(r) ==
  /\ pc[r] = "new"
  /\ \E arrival \in Arrivals : ctx' = [ctx EXCEPT ![r] = arrival]
  /\ \E items \in {Live(evidence)} \cup (IF r \in Faulty THEN {{}} ELSE {}) :
       FirstStep(r, items)
  /\ warned' = IF NotAgreed THEN warned \cup {r} ELSE warned
  /\ UNCHANGED <<now, action, store, shown, confirm, spent, raced, overruled>>

\* consume_evidence() swallows an error, so the denial is returned either way.
DenyRejected(r) ==
  /\ pc[r] = "deny"
  /\ TakeEvidence(r) \/ (r \in Faulty /\ NoWrite)
  /\ Finish(r, "deny")
  /\ UNCHANGED <<now, action, verifications, pend, ctx, held, plan, shown, confirm, overruled, warned>>

\* The stored evidence closed the gap: take it, and decide on what was taken.
DecideOnTaken(r, taken) ==
  LET p == PlanOf(ctx[r], taken) IN
  /\ held' = [held EXCEPT ![r] = taken]
  /\ plan' = [plan EXCEPT ![r] = p]
  /\ IF p = NoPlan THEN Release(r, "allow") ELSE Follow(r, p) /\ UNCHANGED overruled

TakeAndDecide(r) ==
  /\ pc[r] = "take"
  /\ \/ TakeEvidence(r) /\ DecideOnTaken(r, Live(evidence))
     \/ /\ TakeEvidence(r) \/ NoWrite
        /\ HoldOnError(r)
        /\ UNCHANGED <<held, plan>>
  /\ UNCHANGED <<now, action, verifications, pend, ctx, shown, confirm, warned>>

\* The plan said it would close; if it did not, a person decides.
AfterInline(r, items) ==
  IF "user_confirmation" \in plan[r]
  THEN Goto(r, "store_dry") /\ UNCHANGED outcome
  ELSE IF Closed(GapOf(ctx[r], items))
  THEN Goto(r, "spend") /\ UNCHANGED outcome
  ELSE Finish(r, "hold")

\* The dry run fails, estimates too many rows, or passes.
DryRun(r) ==
  /\ pc[r] = "dry_run"
  /\ \/ Finish(r, "hold") /\ UNCHANGED held
     \/ LET items == held[r] \cup {DryEvidence(r)} IN
        /\ held' = [held EXCEPT ![r] = items]
        /\ AfterInline(r, items)
  /\ UNCHANGED <<now, action, store, ctx, plan, shown, confirm, history>>

\* Kept for the retry after the person confirmed.
StoreDryRun(r) ==
  /\ pc[r] = "store_dry"
  /\ \/ /\ evidence' = evidence \cup OwnDryRun(r)
        /\ raced' = Others(r)
        /\ \/ Goto(r, "pend_key") /\ UNCHANGED <<outcome, overruled>>
           \/ HoldOnError(r)
     \/ HoldOnError(r) /\ UNCHANGED <<evidence, raced>>
  /\ UNCHANGED <<now, action, verifications, pend, ctx, held, plan, shown, confirm, spent, warned>>

\* pending_for() found no open verification.
NothingPending(r) ==
  /\ UNCHANGED shown
  /\ IF ctx[r].entry = "resolve"
     THEN Goto(r, "open") /\ UNCHANGED <<outcome, overruled>>
     ELSE IF KindsOf(held[r]) # {}
     THEN Goto(r, "take_follow_up") /\ UNCHANGED <<outcome, overruled>>
     ELSE Release(r, "table")

\* pending_for() is two round trips: the id under pend, then the record; an error
\* of either is "nothing pending".
ReadPendKey(r) ==
  /\ pc[r] = "pend_key"
  /\ \/ /\ pend # None
        /\ shown' = [shown EXCEPT ![r] = pend]
        /\ Goto(r, "pend_ver")
        /\ UNCHANGED <<outcome, overruled>>
     \/ (pend = None \/ r \in Faulty) /\ NothingPending(r)
  /\ UNCHANGED <<now, action, store, ctx, held, plan, confirm, spent, raced, warned>>

ReadPendVerification(r) ==
  /\ pc[r] = "pend_ver"
  /\ \/ /\ StatusNow(shown[r]) = "pending"
        /\ Finish(r, "verify")
        /\ UNCHANGED <<shown, overruled>>
     \/ (StatusNow(shown[r]) # "pending" \/ r \in Faulty) /\ NothingPending(r)
  /\ UNCHANGED <<now, action, store, ctx, held, plan, confirm, spent, raced, warned>>

\* put_verification() of a new pending verification, named after its opener.
OpenVerification(r) ==
  /\ pc[r] = "open"
  /\ \/ /\ verifications' =
             [verifications EXCEPT ![r] = [status |-> "pending", expires |-> now + TTL]]
        /\ pend' = r
        /\ raced' = Others(r)
        /\ \/ /\ shown' = [shown EXCEPT ![r] = r]
              /\ Finish(r, "verify")
              /\ UNCHANGED overruled
           \/ HoldOnError(r) /\ UNCHANGED shown
     \/ HoldOnError(r) /\ UNCHANGED <<verifications, pend, raced, shown>>
  /\ UNCHANGED <<now, action, evidence, ctx, held, plan, confirm, spent, warned>>

\* Anything stored for the request is spent; the take's result is not looked at.
SpendAndAllow(r) ==
  /\ pc[r] = "spend"
  /\ \/ TakeEvidence(r) /\ Release(r, "allow")
     \/ (TakeEvidence(r) \/ NoWrite) /\ HoldOnError(r)
  /\ UNCHANGED <<now, action, verifications, pend, ctx, held, plan, shown, confirm, warned>>

\* follow_up() with passed evidence on record: spend it and allow.
TakeFollowUp(r) ==
  /\ pc[r] = "take_follow_up"
  /\ \/ /\ TakeEvidence(r)
        /\ Release(r, "allow")
        /\ held' = [held EXCEPT ![r] = Live(evidence)]
     \/ (TakeEvidence(r) \/ NoWrite) /\ HoldOnError(r) /\ UNCHANGED held
  /\ UNCHANGED <<now, action, verifications, pend, ctx, plan, shown, confirm, warned>>

-----------------------------------------------------------------------------
\* confirm(): the person answers a verification some response has shown.

GotoC(c, where) == cpc' = [cpc EXCEPT ![c] = where]

ReadVerification(c) ==
  /\ cpc[c] = "new"
  /\ \E r \in {x \in Requests : outcome[x] = "verify"}, approve \in BOOLEAN :
       /\ answer' = [answer EXCEPT ![c] = [vid |-> shown[r], approve |-> approve]]
       /\ \/ StatusNow(shown[r]) = "pending" /\ GotoC(c, "token")
          \/ (StatusNow(shown[r]) # "pending" \/ c \in Faulty) /\ GotoC(c, "closed")
  /\ UNCHANGED <<now, action, store, request, history>>

\* The user's token is checked (nonce, subject, age, or the caller's own key).
CheckToken(c) ==
  /\ cpc[c] = "token"
  /\ GotoC(c, "add") \/ GotoC(c, "refused")
  /\ UNCHANGED <<now, action, store, request, answer, history>>

AnswerEvidence(c) ==
  [by |-> c, kind |-> "user_confirmation", passed |-> answer[c].approve,
   expires |-> now + TTL]

\* Mutation: an error while storing the answer is swallowed.
AddAnswerSwallowing(c) ==
  /\ cpc[c] = "add"
  /\ GotoC(c, "put")
  /\ \/ evidence' = evidence \cup {AnswerEvidence(c)} /\ raced' = raced \cup InFlight
     \/ c \in Faulty /\ UNCHANGED <<evidence, raced>>
  /\ UNCHANGED <<now, action, verifications, pend, request, answer, spent, overruled, warned>>

AddAnswer(c) ==
  /\ cpc[c] = "add"
  /\ \/ /\ evidence' = evidence \cup {AnswerEvidence(c)}
        /\ raced' = raced \cup InFlight
        /\ GotoC(c, "put") \/ (c \in Faulty /\ GotoC(c, "error"))
     \/ c \in Faulty /\ GotoC(c, "error") /\ UNCHANGED <<evidence, raced>>
  /\ UNCHANGED <<now, action, verifications, pend, request, answer, spent, overruled, warned>>

\* The record read at the start is written back with its new status.
CloseVerification(c) ==
  /\ cpc[c] = "put"
  /\ \/ /\ verifications' =
             [verifications EXCEPT ![answer[c].vid].status =
                IF answer[c].approve THEN "confirmed" ELSE "rejected"]
        /\ raced' = raced \cup InFlight
        /\ GotoC(c, "done") \/ (c \in Faulty /\ GotoC(c, "error"))
     \/ c \in Faulty /\ GotoC(c, "error") /\ UNCHANGED <<verifications, raced>>
  /\ UNCHANGED <<now, action, evidence, pend, request, answer, spent, overruled, warned>>

Tick ==
  /\ now < MaxTime
  /\ now' = now + 1
  /\ UNCHANGED <<action, store, request, confirm, history>>

-----------------------------------------------------------------------------
Init ==
  /\ now = 0
  /\ action \in Descriptors
  /\ evidence = {}
  /\ verifications = [r \in Requests |-> [status |-> "absent", expires |-> 0]]
  /\ pend = None
  /\ pc = [r \in Requests |-> "new"]
  /\ ctx = [r \in Requests |-> [entry |-> "resolve", codes |-> {}, confirmable |-> FALSE]]
  /\ held = [r \in Requests |-> {}]
  /\ plan = [r \in Requests |-> NoPlan]
  /\ shown = [r \in Requests |-> None]
  /\ outcome = [r \in Requests |-> "none"]
  /\ cpc = [c \in Confirms |-> "new"]
  /\ answer = [c \in Confirms |-> [vid |-> None, approve |-> FALSE]]
  /\ spent = [r \in Requests |-> {}]
  /\ raced = {}
  /\ warned = {}
  /\ overruled = {}

RequestStep(r) ==
  \/ ReadEvidence(r) \/ DenyRejected(r) \/ TakeAndDecide(r) \/ DryRun(r)
  \/ StoreDryRun(r) \/ ReadPendKey(r) \/ ReadPendVerification(r)
  \/ OpenVerification(r) \/ SpendAndAllow(r) \/ TakeFollowUp(r)

ConfirmStep(c) ==
  ReadVerification(c) \/ CheckToken(c) \/ AddAnswer(c) \/ CloseVerification(c)

Next ==
  \/ \E r \in Requests : RequestStep(r)
  \/ \E c \in Confirms : ConfirmStep(c)
  \/ Tick

Spec == Init /\ [][Next]_vars

-----------------------------------------------------------------------------
(* Properties *)

TypeOK ==
  /\ now \in 0..MaxTime
  /\ action \in Descriptors
  /\ evidence \subseteq EvidenceRecord
  /\ verifications \in [Requests -> [status : Statuses, expires : Nat]]
  /\ pend \in Requests \cup {None}
  /\ pc \in [Requests -> RequestPC]
  /\ ctx \in [Requests -> [entry : {"resolve", "follow_up"}, codes : SUBSET Codes,
                           confirmable : BOOLEAN]]
  /\ held \in [Requests -> SUBSET EvidenceRecord]
  /\ plan \in [Requests -> Plans]
  /\ shown \in [Requests -> Requests \cup {None}]
  /\ outcome \in [Requests -> Outcomes]
  /\ cpc \in [Confirms -> ConfirmPC]
  /\ answer \in [Confirms -> [vid : Requests \cup {None}, approve : BOOLEAN]]
  /\ spent \in [Requests -> SUBSET EvidenceRecord]
  /\ raced \subseteq Requests
  /\ warned \subseteq Requests
  /\ overruled \subseteq Requests

\* A confirmation counts once.  Of all the requests allowed on stored evidence
\* (take_evidence in resolve() and in follow_up()), no two rest on the same
\* confirmation, whatever retries race on it and whichever store call fails.
\* Requests that closed the rest of their gap with a dry run of their own are left
\* out: what their take returns is not looked at (SpendAndAllow).
TakenConfirmationCountsOnce ==
  \A r1, r2 \in Requests :
    (/\ r1 # r2
     /\ outcome[r1] = "allow" /\ OwnDryRun(r1) = {}
     /\ outcome[r2] = "allow" /\ OwnDryRun(r2) = {})
    => Approvals(held[r1]) \cap Approvals(held[r2]) = {}

\* What makes it inductive: a confirmation is made once, by a confirm call that has
\* passed its write; it is in the store or was deleted by one request; and a request
\* allowed without a dry run of its own holds only what it deleted.
Made(e) == e.by \in Confirms /\ cpc[e.by] \notin {"new", "token", "add"}
Confirmations(items) == {e \in items : e.kind = "user_confirmation"}
StoredOnce ==
  /\ \A e \in Confirmations(evidence) : Made(e)
  /\ \A r \in Requests : \A e \in Confirmations(spent[r]) : Made(e) /\ e \notin evidence
  /\ \A r1, r2 \in Requests :
       r1 # r2 => Confirmations(spent[r1]) \cap spent[r2] = {}
AllowedHoldsSpent(r) ==
  /\ outcome[r] = "allow" => pc[r] = "done"
  /\ pc[r] = "spend" => OwnDryRun(r) # {}
  /\ outcome[r] = "allow" /\ OwnDryRun(r) = {} => held[r] \subseteq spent[r]
OnceInvariant == StoredOnce /\ \A r \in Requests : AllowedHoldsSpent(r)

\* Nothing that went to verification is allowed on less than its assurance gap
\* asks for, and where only a person can close the gap, a person whose token was
\* accepted said yes.  Store errors, lost writes and expiry never make up for it.
AllowedOnEvidence ==
  \A r \in Requests :
    outcome[r] = "allow" /\ ctx[r].entry = "resolve" =>
      /\ Closed(GapOf(ctx[r], held[r]))
      /\ ~Closed(GapWith(ctx[r], {"dry_run"})) =>
           \E c \in Confirms : answer[c].approve /\ cpc[c] \in {"put", "done", "error"}

\* A verification that says confirmed (or rejected) has the evidence for it: stored
\* first, and gone from the store only because a request took it.  A store error
\* between the two writes of confirm() must not leave an answer nothing acts on.
AnswerHasEvidence ==
  \A v \in Requests :
    verifications[v].status \in {"confirmed", "rejected"} =>
      \E c \in Confirms :
        /\ answer[c].vid = v
        /\ \E e \in evidence \cup UNION {spent[r] : r \in Requests} :
             e.by = c /\ e.passed = (verifications[v].status = "confirmed")

\* A request whose store reads worked and under which no other call wrote the store
\* respects the record: if it arrived when the person had not agreed, it is not
\* released while the rejection stands, nor, when it follows up, while the question
\* is open (follow_up's docstring).
UndisturbedRespectsRecord == overruled \subseteq raced \cup Faulty

\* A person is asked only when that is needed: as long as a request that resolves
\* still follows a plan with the person in it, what it holds and every machine check
\* available to it could not close its gap (the order of the candidates in plan(), and
\* the second plan made on the evidence actually taken).
PersonIsNeeded ==
  \A r \in Requests :
    ctx[r].entry = "resolve" /\ plan[r] \cap {"user_confirmation", "human_approval"} # {} =>
      ~Closed(GapWith(ctx[r], KindsOf(held[r])
                        \cup (Available(ctx[r]) \ {"user_confirmation"})))

\* Evidence, record and answers agree (the three above): what is allowed has its evidence, what was
\* answered has its own, and a rejection stands against every request that nothing disturbed.
RestsOnEvidence == AllowedOnEvidence /\ AnswerHasEvidence /\ UndisturbedRespectsRecord

-----------------------------------------------------------------------------
(* For TLC *)

\* A bulk SQL read: needs a dry run, and the person when the session is tainted.
OnlySqlRead ==
  {[sqlRead |-> TRUE, externalWrite |-> FALSE, destructive |-> FALSE,
    parsed |-> TRUE, target |-> TRUE]}

\* The faultless calls are interchangeable, and so are the faulty ones.
Symmetric == Permutations(Requests \ Faulty) \cup Permutations(Confirms \ Faulty)
=============================================================================
