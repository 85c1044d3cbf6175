---------------------------- MODULE ReviewQueue ----------------------------
(***************************************************************************)
(* Human review of held requests: the gateway files a review and blocks    *)
(* when it gets no answer (engine/escalation.py), reviewers look and       *)
(* decide (services/reviews.py on store/postgres.py), the agent polls      *)
(* through the gateway (routers/escalations.py, the SDK's hooks).          *)
(*                                                                         *)
(* One step per database call; the clock moves between any two of them.    *)
(***************************************************************************)
EXTENDS Integers

CONSTANTS
  Requests,       \* held requests; a retry is another request
  Reviewers,      \* admin keys
  Roles,          \* the roles of each reviewer
  Tenants,
  ReviewerTenant, \* the tenant of each reviewer, or Platform
  RequestTenant,  \* the tenant of each request
  Platform, None,
  TTL,            \* review_ttl_minutes
  MaxTime,        \* bound on the clock
  MaxFailures     \* bound on calls that fail

ReviewAssumption ==
  /\ Roles \in [Reviewers -> SUBSET {"viewer", "reviewer", "reviewer-raw", "editor", "admin"}]
  /\ ReviewerTenant \in [Reviewers -> Tenants \cup {Platform}]
  /\ RequestTenant \in [Requests -> Tenants]
  /\ Platform \notin Tenants /\ None \notin Reviewers
  /\ TTL \in Nat \ {0} /\ MaxTime \in Nat /\ MaxFailures \in Nat

VARIABLES
  now,
  reviews,    \* control_plane.reviews, by request
  request,    \* hold_for_review(): new, filing, held or blocked
  poll,       \* the row a poll has read, and not yet answered
  told,       \* the status the agent was last told
  released,   \* requests whose payload the agent was given
  call,       \* what each reviewer's request to the control plane is doing
  answered,   \* decisions a reviewer was told are made
  seen,       \* raw payloads a reviewer was shown
  wavered,    \* requests with a decision or an answer that crossed the deadline
  failures

vars == <<now, reviews, request, poll, told, released, call, answered, seen, wavered, failures>>

Idle == [op |-> "idle", review |-> None, verdict |-> "none", decided_at |-> 0]
NoReview == [status |-> "none", reviewer |-> None, decided_at |-> 0, expires_at |-> 0,
             raw_viewed_by |-> {}]
Filed == {r \in Requests : reviews[r] # NoReview}

\* ROLE_PERMISSIONS, of the queue's three permissions.
Permissions(role) ==
  CASE role = "viewer" -> {"read"}
    [] role \in {"reviewer", "admin"} -> {"read", "decide"}
    [] role = "reviewer-raw" -> {"read", "decide", "raw"}
    [] role = "editor" -> {"read"}

\* Principal.can()
Can(p, permission, r) ==
  /\ \E role \in Roles[p] : permission \in Permissions(role)
  /\ ReviewerTenant[p] \in {Platform, RequestTenant[r]}

\* Mutation: the deadline does not count.
StatusForEver(row) == row.status

effective_status(row) ==
  IF row.status = "pending" /\ now >= row.expires_at THEN "expired" ELSE row.status

Fails == failures < MaxFailures /\ failures' = failures + 1

-----------------------------------------------------------------------------
(* The gateway files a review *)

File(r) ==
  /\ request[r] = "new"
  /\ request' = [request EXCEPT ![r] = "filing"]
  /\ UNCHANGED <<now, reviews, poll, told, released, call, answered, seen, wavered, failures>>

\* create(), perhaps after the gateway stopped waiting.
Create(r) ==
  /\ request[r] \in {"filing", "blocked"} /\ reviews[r] = NoReview
  /\ now + TTL <= MaxTime
  /\ reviews' = [reviews EXCEPT ![r] = [NoReview EXCEPT !.status = "pending",
                                                        !.expires_at = now + TTL]]
  /\ UNCHANGED <<now, request, poll, told, released, call, answered, seen, wavered, failures>>

Hold(r) ==
  /\ request[r] = "filing" /\ reviews[r] # NoReview
  /\ request' = [request EXCEPT ![r] = "held"]
  /\ UNCHANGED <<now, reviews, poll, told, released, call, answered, seen, wavered, failures>>

\* A timeout, a lost answer, an error after the insert, or no control plane.
Block(r) ==
  /\ request[r] = "filing" /\ Fails
  /\ request' = [request EXCEPT ![r] = "blocked"]
  /\ UNCHANGED <<now, reviews, poll, told, released, call, answered, seen, wavered>>

-----------------------------------------------------------------------------
(* The agent polls: wait_for_escalation(), GET /v1/escalations, status_for_gateway() *)

PollReads(r) ==
  /\ request[r] = "held" /\ poll[r] = NoReview
  /\ poll' = [poll EXCEPT ![r] = reviews[r]]
  /\ UNCHANGED <<now, reviews, request, told, released, call, answered, seen, wavered, failures>>

\* The payload comes with the status "approved" alone, and the hooks take it from there.
Releases(status) == status = "approved"

PollAnswers(r) ==
  LET status == effective_status(poll[r]) IN
  /\ poll[r] # NoReview
  /\ poll' = [poll EXCEPT ![r] = NoReview]
  /\ told' = [told EXCEPT ![r] = status]
  /\ released' = IF Releases(status) THEN released \cup {r} ELSE released
  /\ wavered' = IF status = "expired" /\ reviews[r].status # "pending"
                THEN wavered \cup {r} ELSE wavered
  /\ UNCHANGED <<now, reviews, request, call, answered, seen, failures>>

PollFails(r) ==
  /\ poll[r] # NoReview /\ Fails
  /\ poll' = [poll EXCEPT ![r] = NoReview]
  /\ UNCHANGED <<now, reviews, request, told, released, call, answered, seen, wavered>>

-----------------------------------------------------------------------------
(* Reviewers *)

Return(p) == call' = [call EXCEPT ![p] = Idle]

\* decide() up to its write; a review that is not pending is refused.
Decide(p, r, verdict) ==
  /\ call[p] = Idle /\ r \in Filed /\ Can(p, "decide", r)
  /\ effective_status(reviews[r]) = "pending"
  /\ call' = [call EXCEPT ![p] = [op |-> "decide", review |-> r, verdict |-> verdict,
                                  decided_at |-> now]]
  /\ UNCHANGED <<now, reviews, request, poll, told, released, answered, seen, wavered, failures>>

\* Mutation: WHERE expires_at > decided_at alone.
WinsInTime(p) == reviews[call[p].review].expires_at > call[p].decided_at

\* UPDATE ... WHERE status = 'pending' AND expires_at > decided_at
Wins(p) ==
  LET row == reviews[call[p].review] IN
  row.status = "pending" /\ row.expires_at > call[p].decided_at

DecidedRow(p) ==
  [reviews[call[p].review] EXCEPT !.status = call[p].verdict, !.reviewer = p,
                                  !.decided_at = call[p].decided_at]

DecideWrites(p) ==
  LET r == call[p].review IN
  /\ call[p].op = "decide"
  /\ IF Wins(p)
     THEN /\ reviews' = [reviews EXCEPT ![r] = DecidedRow(p)]
          /\ call' = [call EXCEPT ![p].op = "decided"]
          /\ wavered' = IF now >= reviews[r].expires_at THEN wavered \cup {r} ELSE wavered
     ELSE Return(p) /\ UNCHANGED <<reviews, wavered>>
  /\ UNCHANGED <<now, request, poll, told, released, answered, seen, failures>>

DecideReturns(p) ==
  /\ call[p].op = "decided"
  /\ answered' = answered \cup {[by |-> p, review |-> call[p].review, verdict |-> call[p].verdict]}
  /\ Return(p)
  /\ UNCHANGED <<now, reviews, request, poll, told, released, seen, wavered, failures>>

\* get() with include_raw, up to the viewer's name in the row.
ViewRaw(p, r) ==
  /\ call[p] = Idle /\ r \in Filed /\ Can(p, "read", r) /\ Can(p, "raw", r)
  /\ call' = [call EXCEPT ![p] = [Idle EXCEPT !.op = "view", !.review = r]]
  /\ UNCHANGED <<now, reviews, request, poll, told, released, answered, seen, wavered, failures>>

\* array_append
ViewRecorded(p) ==
  /\ call[p].op = "view"
  /\ reviews' = [reviews EXCEPT ![call[p].review].raw_viewed_by = @ \cup {p}]
  /\ call' = [call EXCEPT ![p].op = "viewed"]
  /\ UNCHANGED <<now, request, poll, told, released, answered, seen, wavered, failures>>

ViewReturns(p) ==
  /\ call[p].op = "viewed"
  /\ seen' = seen \cup {<<p, call[p].review>>}
  /\ Return(p)
  /\ UNCHANGED <<now, reviews, request, poll, told, released, answered, wavered, failures>>

\* A call of the database fails, or the control plane stops, at any step of a request.
CallFails(p) ==
  /\ call[p] # Idle /\ Fails
  /\ Return(p)
  /\ UNCHANGED <<now, reviews, request, poll, told, released, answered, seen, wavered>>

-----------------------------------------------------------------------------
Tick ==
  /\ now < MaxTime /\ now' = now + 1
  /\ UNCHANGED <<reviews, request, poll, told, released, call, answered, seen, wavered, failures>>

Init ==
  /\ now = 0 /\ failures = 0
  /\ reviews = [r \in Requests |-> NoReview]
  /\ request = [r \in Requests |-> "new"]
  /\ poll = [r \in Requests |-> NoReview]
  /\ told = [r \in Requests |-> "none"]
  /\ call = [p \in Reviewers |-> Idle]
  /\ released = {} /\ answered = {} /\ seen = {} /\ wavered = {}

Agent(r) == PollReads(r) \/ PollAnswers(r)

Next ==
  \/ \E r \in Requests : File(r) \/ Create(r) \/ Hold(r) \/ Block(r) \/ Agent(r) \/ PollFails(r)
  \/ \E p \in Reviewers :
       \/ \E r \in Requests : \/ \E verdict \in {"approved", "rejected"} : Decide(p, r, verdict)
                              \/ ViewRaw(p, r)
       \/ DecideWrites(p) \/ DecideReturns(p) \/ ViewRecorded(p) \/ ViewReturns(p)
       \/ CallFails(p)
  \/ Tick

Spec == Init /\ [][Next]_vars

-----------------------------------------------------------------------------
Times == 0..(MaxTime + TTL)
Verdicts == {"approved", "rejected"}
Statuses == {"none", "pending"} \cup Verdicts
Rows == [status : Statuses, reviewer : Reviewers \cup {None}, decided_at : Times,
         expires_at : Times, raw_viewed_by : SUBSET Reviewers]

TypeOK ==
  /\ now \in 0..MaxTime /\ failures \in 0..MaxFailures
  /\ reviews \in [Requests -> Rows] /\ poll \in [Requests -> Rows]
  /\ request \in [Requests -> {"new", "filing", "held", "blocked"}]
  /\ told \in [Requests -> Statuses \cup {"expired"}]
  /\ call \in [Reviewers -> [op : {"idle", "decide", "decided", "view", "viewed"},
                             review : Requests \cup {None}, verdict : Verdicts \cup {"none"},
                             decided_at : Times]]
  /\ answered \subseteq [by : Reviewers, review : Requests, verdict : Verdicts]
  /\ seen \subseteq Reviewers \X Requests
  /\ released \subseteq Requests /\ wavered \subseteq Requests

\* "The payload is only released once approved" (reviews.py:119), and an unanswered review
\* "counts as rejected" (reviews.py:5): an agent has the payload of a request only if a person
\* who may decide for its tenant approved it before the deadline, and nobody rejected it.
ReleasedIfApproved ==
  \A r \in released :
    /\ request[r] = "held"
    /\ reviews[r].status = "approved" /\ reviews[r].decided_at < reviews[r].expires_at
    /\ Can(reviews[r].reviewer, "decide", r)
    /\ \A a \in answered : a.review = r => a.verdict = "approved"

\* "two reviewers deciding at once can't both win, and a decision is never overwritten"
\* (postgres.py:389-390): what a reviewer was told they decided is what stands.
AnsweredStands ==
  \A a \in answered : /\ reviews[a.review].status = a.verdict
                      /\ reviews[a.review].reviewer = a.by

\* "Viewing the raw payload needs the reviewer-raw role and is recorded" (reviews.py:6): also
\* when others look at it or decide in the meantime, and when the request fails half-way.
RawViewRecorded == \A view \in seen : view[1] \in reviews[view[2]].raw_viewed_by

\* status_for_gateway() (reviews.py:118-140): an agent that was told the outcome is told
\* something else later only when the review expired while a decision or the answer itself was
\* on its way; approved and rejected are final.
AnswerIsFinal ==
  \A r \in Requests :
    told[r] \in {"approved", "rejected", "expired"} /\ told'[r] # told[r]
      => told[r] = "expired" /\ r \in wavered

\* What a review promises to reviewers and agents.
ReviewsStand ==
  /\ [](TypeOK /\ ReleasedIfApproved /\ AnsweredStands /\ RawViewRecorded)
  /\ [][AnswerIsFinal]_vars

\* A held request and the end of its wait.
Held(r) == request[r] = "held"
HasOutcome(r) == told[r] \in {"approved", "rejected", "expired"}
=============================================================================
