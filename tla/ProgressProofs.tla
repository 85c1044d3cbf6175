--------------------------- MODULE ProgressProofs ---------------------------
(***************************************************************************)
(* What two of the components that wait guarantee: the schedules of        *)
(* connectors and human review, each by itself and as a part of the        *)
(* composition.                                                            *)
(***************************************************************************)
EXTENDS MCProgress, TLAPS

-----------------------------------------------------------------------------
(* ConnectorSchedule: the lease keeps the runs of a connector apart and    *)
(* keeps a schedule from running it back to back, for any number of        *)
(* replicas, askers, edits, failures and crashes, as long as no run        *)
(* outlives its lease.                                                     *)

USE DEF Task, Row, Idle

\* An edit under way saves a configuration that is not yet used up.
EditsCounted == row.config <= edits /\ (desk # None => desk.config < edits)

\* The lease in the row is the one of the run that is under way.
LeaseHeld ==
  \A t \in Tasks : Underway(t) =>
    row.owner = t[1] /\ row.left = task[t].left /\ row.left > 0

\* What is left of the interval is what has not passed since the last run.
RestCounts == row.rest + since = Interval

LeaseInv == TypeOK /\ EditsCounted /\ LeaseHeld /\ OneAtATime /\ RestCounts

-----------------------------------------------------------------------------
LEMMA LeaseNumbers ==
  /\ Lease \in Nat /\ Lease > 0 /\ Interval \in Nat /\ Interval > 0
  /\ MaxEdits \in Nat /\ MaxFailures \in Nat /\ MaxCrashes \in Nat
<1>1. {Lease, Interval} \subseteq Nat \ {0} /\ {MaxEdits, MaxFailures, MaxCrashes} \subseteq Nat
  BY ConnectorScheduleAssumption
<1> QED BY <1>1

LEMMA TasksType == \A t \in Tasks : t[1] \in Replicas /\ t[1] # None
BY ConnectorScheduleAssumption DEF Tasks

\* The statements on the row keep its type; only a claim and a release touch the lease.
LEMMA EditedType ==
  ASSUME NEW r \in Row, NEW old \in Row, NEW field, old.config < MaxEdits
  PROVE  /\ Edited(r, old, field) \in Row
         /\ Edited(r, old, field).owner = r.owner
         /\ Edited(r, old, field).left = r.left
         /\ Edited(r, old, field).rest = r.rest
         /\ Edited(r, old, field).config \in {r.config, old.config + 1}
<1>1. old.config + 1 \in 0..MaxEdits /\ (~old.enabled) \in BOOLEAN
  BY LeaseNumbers
<1>2. CASE field = "enabled"
  <2>1. Edited(r, old, field) = [r EXCEPT !.enabled = ~old.enabled]
    BY <1>2 DEF Edited, Change
  <2> QED BY <1>1, <2>1
<1>3. CASE field # "enabled"
  <2>1. Edited(r, old, field) = [r EXCEPT !.config = old.config + 1]
    BY <1>3 DEF Edited, Change
  <2> QED BY <1>1, <2>1
<1> QED BY <1>2, <1>3

LEMMA ReleasedType ==
  ASSUME NEW r \in Row, NEW p
  PROVE  /\ Released(r, p) \in Row
         /\ Released(r, p).config = r.config
         /\ r.owner = p => Released(r, p).rest = Interval
<1>1. 0 \in 0..Lease /\ Interval \in 0..Interval
  BY LeaseNumbers
<1>2. CASE r.owner = p
  <2>1. Released(r, p) = [r EXCEPT !.owner = None, !.left = 0, !.rest = Interval]
    BY <1>2 DEF Released
  <2> QED BY <1>1, <1>2, <2>1
<1>3. CASE r.owner # p
  BY <1>3 DEF Released
<1> QED BY <1>2, <1>3

LEMMA LessType ==
  ASSUME NEW n \in Nat, NEW m \in 0..n
  PROVE  Less(m) \in 0..n /\ (m > 0 => Less(m) = m - 1) /\ (m = 0 => Less(m) = 0)
BY DEF Less

LEMMA LeaseInitHolds == Init => LeaseInv
BY LeaseNumbers
   DEF Init, LeaseInv, TypeOK, EditsCounted, LeaseHeld, OneAtATime, RestCounts, Underway

-----------------------------------------------------------------------------
LEMMA ListStep == ASSUME LeaseInv, NEW t \in Tasks, List(t) PROVE LeaseInv'
<1>1. task \in [Tasks -> Task] /\ row.config \in 0..MaxEdits /\ 0 \in 0..Lease /\ 0 \in 0..MaxEdits
  BY LeaseNumbers DEF LeaseInv, TypeOK
<1> DEFINE listed == [Idle EXCEPT !.at = "listed", !.config = row.config]
<1>2. listed \in Task /\ listed.at = "listed"
  BY <1>1
<1>3. task' = [task EXCEPT ![t] = listed]
  BY DEF List
<1> HIDE DEF listed
<1>4. /\ task' \in [Tasks -> Task] /\ ~Underway(t)'
      /\ \A s \in Tasks : s # t => task'[s] = task[s]
  BY <1>1, <1>2, <1>3 DEF Underway
<1>5. \A s \in Tasks : Underway(s)' => Underway(s) /\ task'[s] = task[s]
  BY <1>4 DEF Underway
<1> QED
  BY <1>4, <1>5 DEF LeaseInv, TypeOK, EditsCounted, LeaseHeld, OneAtATime, RestCounts, List

LEMMA ClaimStep == ASSUME ~Slow, LeaseInv, NEW t \in Tasks, Claim(t) PROVE LeaseInv'
<1> USE LeaseNumbers
<1>1. CASE CanClaim(row, t)
  <2>1. row.left = 0 /\ \A s \in Tasks : ~Underway(s)
    BY <1>1 DEF CanClaim, LeaseInv, LeaseHeld
  <2>2. /\ row' \in Row /\ row'.owner = t[1] /\ row'.left = Lease
        /\ row'.rest = row.rest /\ row'.config = row.config
    <3>1. row \in Row /\ t[1] \in Replicas \cup {None} /\ Lease \in 0..Lease
      BY TasksType DEF LeaseInv, TypeOK
    <3>2. row' = [row EXCEPT !.owner = t[1], !.left = Lease]
      BY <1>1 DEF Claim
    <3> QED BY <3>1, <3>2
  <2>3. /\ task' \in [Tasks -> Task] /\ task'[t].left = Lease
        /\ \A s \in Tasks : s # t => task'[s] = task[s]
    BY <1>1 DEF Claim, LeaseInv, TypeOK
  <2>4. \A s \in Tasks : Underway(s)' => s = t
    BY <2>1, <2>3 DEF Underway
  <2> QED
    BY <2>2, <2>3, <2>4
       DEF LeaseInv, TypeOK, EditsCounted, LeaseHeld, OneAtATime, RestCounts, Claim
<1>2. CASE ~CanClaim(row, t)
  <2>1. /\ task' \in [Tasks -> Task] /\ ~Underway(t)'
        /\ \A s \in Tasks : s # t => task'[s] = task[s]
    BY <1>2 DEF LeaseInv, TypeOK, Claim, Underway
  <2>2. \A s \in Tasks : Underway(s)' => Underway(s) /\ task'[s] = task[s]
    BY <2>1 DEF Underway
  <2> QED
    BY <1>2, <2>1, <2>2
       DEF LeaseInv, TypeOK, EditsCounted, LeaseHeld, OneAtATime, RestCounts, Claim
<1> QED BY <1>1, <1>2

LEMMA StartStep == ASSUME LeaseInv, NEW t \in Tasks, Start(t) PROVE LeaseInv'
<1>1. /\ task' \in [Tasks -> Task]
      /\ \A s \in Tasks : task'[s].left = task[s].left /\ (s # t => task'[s] = task[s])
      /\ Underway(t)
  BY LeaseNumbers DEF LeaseInv, TypeOK, Start, ConfigUsed, Underway
<1>2. \A s \in Tasks : Underway(s)' => Underway(s)
  BY <1>1 DEF Underway
<1> QED
  BY <1>1, <1>2 DEF LeaseInv, TypeOK, EditsCounted, LeaseHeld, OneAtATime, RestCounts, Start

LEMMA FinishStep == ASSUME LeaseInv, NEW t \in Tasks, Finish(t) PROVE LeaseInv'
<1> USE LeaseNumbers
<1>1. Underway(t) /\ row.owner = t[1]
  BY DEF Finish, Underway, LeaseInv, LeaseHeld
<1>2. row' \in Row /\ row'.config = row.config /\ row'.rest = Interval
  BY <1>1, ReleasedType DEF LeaseInv, TypeOK, Finish
<1>3. task' \in [Tasks -> Task] /\ \A s \in Tasks : ~Underway(s)'
  <2>1. \A s \in Tasks : task'[s] = IF s = t THEN Idle ELSE task[s]
    BY DEF LeaseInv, TypeOK, Finish
  <2>2. \A s \in Tasks : s # t => ~Underway(s)
    BY <1>1 DEF LeaseInv, OneAtATime
  <2> QED BY <2>1, <2>2 DEF LeaseInv, TypeOK, Finish, Underway
<1> QED
  BY <1>2, <1>3 DEF LeaseInv, TypeOK, EditsCounted, LeaseHeld, OneAtATime, RestCounts, Finish

LEMMA FailStep == ASSUME LeaseInv, NEW t \in Tasks, Fail(t) PROVE LeaseInv'
<1>1. /\ task' \in [Tasks -> Task] /\ ~Underway(t)' /\ failures' \in 0..MaxFailures
      /\ \A s \in Tasks : s # t => task'[s] = task[s]
  BY LeaseNumbers DEF LeaseInv, TypeOK, Fail, Underway
<1>2. \A s \in Tasks : Underway(s)' => Underway(s) /\ task'[s] = task[s]
  BY <1>1 DEF Underway
<1> QED
  BY <1>1, <1>2 DEF LeaseInv, TypeOK, EditsCounted, LeaseHeld, OneAtATime, RestCounts, Fail

LEMMA CrashStep == ASSUME LeaseInv, NEW p \in Replicas, Crash(p) PROVE LeaseInv'
<1>1. /\ task' \in [Tasks -> Task] /\ crashes' \in 0..MaxCrashes
      /\ \A s \in Tasks : task'[s] = Idle \/ task'[s] = task[s]
  BY LeaseNumbers DEF LeaseInv, TypeOK, Crash
<1>2. \A s \in Tasks : Underway(s)' => Underway(s) /\ task'[s] = task[s]
  BY <1>1 DEF Underway
<1> QED
  BY <1>1, <1>2 DEF LeaseInv, TypeOK, EditsCounted, LeaseHeld, OneAtATime, RestCounts, Crash

LEMMA EditReadStep == ASSUME LeaseInv, EditRead PROVE LeaseInv'
<1>1. row \in Row /\ row.config \in Nat /\ edits' \in 0..MaxEdits /\ row.config < edits'
  BY LeaseNumbers DEF LeaseInv, TypeOK, EditsCounted, EditRead
<1>2. \A s \in Tasks : Underway(s)' <=> Underway(s)
  BY DEF EditRead, Underway
<1> QED
  BY <1>1, <1>2 DEF LeaseInv, TypeOK, EditsCounted, LeaseHeld, OneAtATime, RestCounts, EditRead

LEMMA EditWriteStep == ASSUME LeaseInv, EditWrite PROVE LeaseInv'
<1>1. desk \in Row /\ row \in Row /\ desk.config < edits /\ edits \in 0..MaxEdits
  BY DEF LeaseInv, TypeOK, EditsCounted, EditWrite
<1>2. PICK field \in {"enabled", "config"} : row' = Edited(row, desk, field)
  BY DEF EditWrite
<1>3. desk.config \in Nat /\ desk.config < MaxEdits
  BY <1>1, LeaseNumbers
<1>4. /\ row' \in Row /\ row'.owner = row.owner /\ row'.left = row.left /\ row'.rest = row.rest
      /\ row'.config \in {row.config, desk.config + 1}
  BY <1>1, <1>2, <1>3, EditedType
<1>5. row'.config <= edits
  BY <1>1, <1>3, <1>4, LeaseNumbers DEF LeaseInv, EditsCounted
<1>6. \A s \in Tasks : Underway(s)' <=> Underway(s)
  BY DEF EditWrite, Underway
<1> QED
  BY <1>4, <1>5, <1>6
     DEF LeaseInv, TypeOK, EditsCounted, LeaseHeld, OneAtATime, RestCounts, EditWrite

LEMMA TickStep == ASSUME ~Slow, LeaseInv, Tick PROVE LeaseInv'
<1> USE LeaseNumbers
<1>1. /\ row \in Row /\ task \in [Tasks -> Task] /\ since \in 0..Interval
      /\ row.left \in 0..Lease /\ row.rest \in 0..Interval
      /\ \A s \in Tasks : task[s].left \in 0..Lease
  BY DEF LeaseInv, TypeOK
<1>2. /\ row' \in Row /\ row'.config = row.config /\ row'.owner = row.owner
      /\ row'.left = Less(row.left) /\ row'.rest = Less(row.rest)
  BY <1>1, LessType DEF Tick
<1>3. task' \in [Tasks -> Task]
  BY <1>1, LessType DEF Tick
<1>4. \A s \in Tasks : task'[s].at = task[s].at /\ task'[s].left = Less(task[s].left)
  BY <1>1 DEF Tick
<1>5. \A s \in Tasks : Underway(s)' <=> Underway(s)
  BY <1>4 DEF Underway
<1>6. LeaseHeld'
  <2> SUFFICES ASSUME NEW s \in Tasks, Underway(s)'
               PROVE  row'.owner = s[1] /\ row'.left = task'[s].left /\ row'.left > 0
    BY DEF LeaseHeld
  <2>1. row.owner = s[1] /\ row.left = task[s].left /\ task[s].left > 1
    BY <1>5 DEF LeaseInv, LeaseHeld, Tick
  <2> QED BY <1>1, <1>2, <1>4, <2>1, LessType
<1>7. since' \in 0..Interval /\ RestCounts'
  <2>1. row.rest + since = Interval
    BY DEF LeaseInv, RestCounts
  <2>2. CASE since < Interval
    <3>1. row.rest > 0 /\ since' = since + 1
      BY <1>1, <2>1, <2>2 DEF Tick
    <3> QED BY <1>1, <1>2, <2>1, <2>2, <3>1, LessType DEF RestCounts
  <2>3. CASE since = Interval
    <3>1. row.rest = 0 /\ since' = since
      BY <1>1, <2>1, <2>3 DEF Tick
    <3> QED BY <1>1, <1>2, <2>1, <2>3, <3>1, LessType DEF RestCounts
  <2> QED BY <1>1, <2>2, <2>3
<1> QED
  BY <1>2, <1>3, <1>5, <1>6, <1>7
     DEF LeaseInv, TypeOK, EditsCounted, OneAtATime, Tick

-----------------------------------------------------------------------------
LEMMA LeaseNextHolds == ASSUME ~Slow, LeaseInv, [Next]_vars PROVE LeaseInv'
<1>1. CASE UNCHANGED vars
  BY <1>1 DEF vars, LeaseInv, TypeOK, EditsCounted, LeaseHeld, OneAtATime, RestCounts, Underway
<1>2. CASE Next
  BY <1>2, ListStep, ClaimStep, StartStep, FinishStep, FailStep, CrashStep,
     EditReadStep, EditWriteStep, TickStep DEF Next
<1> QED BY <1>1, <1>2

LEMMA InductiveInvariant == ASSUME ~Slow PROVE Spec => []LeaseInv
<1>1. LeaseInv /\ [Next]_vars => LeaseInv'
  BY LeaseNextHolds
<1> QED BY <1>1, LeaseInitHolds, PTL DEF Spec

\* The variables keep their types.
THEOREM TypeCorrect == ASSUME ~Slow PROVE Spec => []TypeOK
<1>1. LeaseInv => TypeOK
  BY DEF LeaseInv
<1> QED BY <1>1, InductiveInvariant, PTL

\* docs/discovery.md:284: one run of a connector at a time across replicas, if
\* no run outlives its lease.
THEOREM OneRunAtATime == ASSUME ~Slow PROVE Spec => []OneAtATime
<1>1. LeaseInv => OneAtATime
  BY DEF LeaseInv
<1> QED BY <1>1, InductiveInvariant, PTL

\* docs/discovery.md:285: a scheduled run is due and enabled when it begins, so
\* replicas never run a connector back to back.
THEOREM ScheduleIsKept == ASSUME ~Slow PROVE Spec => ScheduledIsDue
<1> DEFINE Begins == \A t \in Tasks : Scheduled(t) /\ ~Underway(t) /\ Underway(t)' =>
                       row.enabled /\ since = Interval
<1>1. ASSUME LeaseInv, Next PROVE Begins
  <2> SUFFICES ASSUME NEW t \in Tasks, Scheduled(t), ~Underway(t), Underway(t)'
               PROVE  row.enabled /\ since = Interval
    OBVIOUS
  <2>1. Claim(t) /\ CanClaim(row, t)
    <3>1. task \in [Tasks -> Task] /\ task[t].at \notin {"claimed", "running"}
          /\ task'[t].at \in {"claimed", "running"}
      BY <1>1 DEF LeaseInv, TypeOK, Underway
    <3>2. CASE EditRead \/ EditWrite
      BY <3>1, <3>2 DEF EditRead, EditWrite
    <3>3. CASE Tick
      BY <3>1, <3>3 DEF Tick
    <3>4. ASSUME NEW p \in Replicas, Crash(p) PROVE FALSE
      BY <3>1, <3>4 DEF Crash
    <3>5. ASSUME NEW s \in Tasks, List(s) \/ Finish(s) \/ Fail(s) PROVE FALSE
      BY <3>1, <3>5 DEF List, Finish, Fail
    <3>6. ASSUME NEW s \in Tasks, Start(s) PROVE FALSE
      BY <3>1, <3>6 DEF Start
    <3>7. ASSUME NEW s \in Tasks, Claim(s) PROVE s = t /\ CanClaim(row, t)
      BY <3>1, <3>7 DEF Claim
    <3> QED BY <1>1, <3>2, <3>3, <3>4, <3>5, <3>6, <3>7 DEF Next
  <2> QED
    BY <1>1, <2>1, LeaseNumbers DEF CanClaim, Due, LeaseInv, TypeOK, RestCounts
<1>2. LeaseInv /\ [Next]_vars => [Begins]_vars
  BY <1>1 DEF Begins
<1> HIDE DEF Begins
<1>3. Spec => [][Begins]_vars
  BY <1>2, InductiveInvariant, PTL DEF Spec
<1> QED BY <1>3 DEF Begins, ScheduledIsDue

HIDE DEF Task, Row, Idle

-----------------------------------------------------------------------------
(* ReviewQueue: what a human review guarantees, for any requests,          *)
(* reviewers, roles and tenants, any time to live, and any number of calls *)
(* that fail.                                                              *)
now == v1
reviews == v2
request == v3
poll == v4
told == v5
released == v6
call == v7
answered == v8
seen == v9
wavered == v10
reviewFailures == v11
USE DEF now, reviews, request, poll, told, released, call, answered, seen, wavered, reviewFailures


CallStates == [op : {"idle", "decide", "decided", "view", "viewed"},
               review : Requests \cup {None}, verdict : Review!Verdicts \cup {"none"},
               decided_at : Review!Times]

-----------------------------------------------------------------------------
(* The invariant *)

\* A decision was made in time, by a person who may.
DecisionsHold ==
  \A r \in Requests : reviews[r].status \in Review!Verdicts =>
    /\ reviews[r].decided_at < reviews[r].expires_at
    /\ reviews[r].reviewer \in Reviewers /\ Review!Can(reviews[r].reviewer, "decide", r)

\* What a reviewer's request has found out, or has written.
CallHolds(p) ==
  LET r == call[p].review IN
  /\ call[p].op # "idle" => r \in Requests
  /\ call[p].op = "decide" => call[p].verdict \in Review!Verdicts /\ Review!Can(p, "decide", r)
  /\ call[p].op = "decided" => /\ call[p].verdict \in Review!Verdicts
                               /\ reviews[r].status = call[p].verdict /\ reviews[r].reviewer = p
  /\ call[p].op = "viewed" => p \in reviews[r].raw_viewed_by
CallsHold == \A p \in Reviewers : CallHolds(p)

\* A poll has read the row as it is, or as it was before it was decided.
PollHolds(r) ==
  /\ request[r] = "held" => reviews[r] # Review!NoReview
  /\ poll[r] # Review!NoReview => /\ request[r] = "held"
                                  /\ poll[r].expires_at = reviews[r].expires_at
                                  /\ poll[r].status \in Review!Verdicts => reviews[r].status = poll[r].status

\* What the agent was told stands, and the poll under way will not tell it otherwise.
ToldHolds(r) ==
  /\ told[r] \in Review!Verdicts => /\ reviews[r].status = told[r]
                                    /\ poll[r] # Review!NoReview => poll[r].status = told[r]
  /\ told[r] = "expired" => \/ r \in wavered
                            \/ /\ reviews[r].status = "pending" /\ now >= reviews[r].expires_at
                               /\ poll[r] # Review!NoReview => poll[r].status = "pending"

ReleaseHolds(r) == r \in released => request[r] = "held" /\ reviews[r].status = "approved"

AgentHolds == \A r \in Requests : PollHolds(r) /\ ToldHolds(r) /\ ReleaseHolds(r)

ReviewInv == DecisionsHold /\ CallsHold /\ AgentHolds /\ Review!AnsweredStands /\ Review!RawViewRecorded

-----------------------------------------------------------------------------
(* The types *)

LEMMA ReviewConstants ==
  ASSUME Review!ReviewAssumption
  PROVE  /\ TTL \in Nat \ {0} /\ MaxTime \in Nat /\ MaxFailures \in Nat
         /\ 0 \in Review!Times /\ 0..MaxTime \subseteq Review!Times /\ Review!Times \subseteq Int
         /\ Review!NoReview \in Review!Rows /\ Review!Idle \in CallStates
  <1>1. TTL \in Nat \ {0} /\ MaxTime \in Nat /\ MaxFailures \in Nat BY DEF Review!ReviewAssumption
  <1>2. 0 \in Review!Times /\ 0..MaxTime \subseteq Review!Times /\ Review!Times \subseteq Int BY <1>1 DEF Review!Times
  <1>3. Review!NoReview \in Review!Rows BY <1>2 DEF Review!NoReview, Review!Rows, Review!Statuses
  <1>4. Review!Idle \in CallStates BY <1>2 DEF Review!Idle, CallStates
  <1> QED BY <1>1, <1>2, <1>3, <1>4

LEMMA ReviewInitTypes == ASSUME Review!ReviewAssumption, Review!Init PROVE Review!TypeOK
  <1>1. now \in 0..MaxTime /\ reviewFailures \in 0..MaxFailures BY ReviewConstants DEF Review!Init
  <1>2. reviews \in [Requests -> Review!Rows] /\ poll \in [Requests -> Review!Rows] BY ReviewConstants DEF Review!Init
  <1>3. call \in [Reviewers -> CallStates] BY ReviewConstants DEF Review!Init
  <1>4. /\ request \in [Requests -> {"new", "filing", "held", "blocked"}]
        /\ told \in [Requests -> Review!Statuses \cup {"expired"}]
    BY DEF Review!Init, Review!Statuses
  <1>5. /\ answered = {} /\ seen = {} /\ released = {} /\ wavered = {} BY DEF Review!Init
  <1> QED BY <1>1, <1>2, <1>3, <1>4, <1>5 DEF Review!TypeOK, CallStates

\* What an agent's request and a poll do to the types.
LEMMA AgentTypes ==
  ASSUME Review!ReviewAssumption, Review!TypeOK, NEW r \in Requests,
         Review!File(r) \/ Review!Create(r) \/ Review!Hold(r) \/ Review!Block(r) \/ Review!Agent(r) \/ Review!PollFails(r)
  PROVE  Review!TypeOK'
  <1>1. CASE Review!File(r) BY <1>1 DEF Review!File, Review!TypeOK
  <1>2. CASE Review!Create(r)
    <2>1. now + TTL \in Review!Times BY <1>2, ReviewConstants DEF Review!Create, Review!TypeOK, Review!Times
    <2>2. [Review!NoReview EXCEPT !.status = "pending", !.expires_at = now + TTL] \in Review!Rows
      BY <2>1, ReviewConstants DEF Review!Rows, Review!Statuses
    <2>3. reviews' \in [Requests -> Review!Rows] BY <1>2, <2>2 DEF Review!Create, Review!TypeOK
    <2> QED BY <1>2, <2>3 DEF Review!Create, Review!TypeOK
  <1>3. CASE Review!Hold(r) BY <1>3 DEF Review!Hold, Review!TypeOK
  <1>4. CASE Review!Block(r)
    <2>1. reviewFailures' \in 0..MaxFailures BY <1>4, ReviewConstants DEF Review!Block, Review!Fails, Review!TypeOK
    <2> QED BY <1>4, <2>1 DEF Review!Block, Review!TypeOK
  <1>5. CASE Review!PollReads(r)
    <2>1. poll' \in [Requests -> Review!Rows] BY <1>5 DEF Review!PollReads, Review!TypeOK
    <2> QED BY <1>5, <2>1 DEF Review!PollReads, Review!TypeOK
  <1>6. CASE Review!PollAnswers(r)
    <2>1. Review!effective_status(poll[r]) \in Review!Statuses \cup {"expired"}
      BY DEF Review!effective_status, Review!TypeOK, Review!Rows
    <2>2. poll' \in [Requests -> Review!Rows] /\ told' \in [Requests -> Review!Statuses \cup {"expired"}]
      BY <1>6, <2>1, ReviewConstants DEF Review!PollAnswers, Review!TypeOK
    <2>3. released' \subseteq Requests /\ wavered' \subseteq Requests
      BY <1>6 DEF Review!PollAnswers, Review!TypeOK
    <2> QED BY <1>6, <2>2, <2>3 DEF Review!PollAnswers, Review!TypeOK
  <1>7. CASE Review!PollFails(r)
    <2>1. poll' \in [Requests -> Review!Rows] BY <1>7, ReviewConstants DEF Review!PollFails, Review!TypeOK
    <2>2. reviewFailures' \in 0..MaxFailures BY <1>7, ReviewConstants DEF Review!PollFails, Review!Fails, Review!TypeOK
    <2> QED BY <1>7, <2>1, <2>2 DEF Review!PollFails, Review!TypeOK
  <1> QED BY <1>1, <1>2, <1>3, <1>4, <1>5, <1>6, <1>7 DEF Review!Agent

\* What a reviewer's request does to them.
Reviewer(p) ==
  \/ \E r \in Requests : \/ \E verdict \in {"approved", "rejected"} : Review!Decide(p, r, verdict)
                         \/ Review!ViewRaw(p, r)
  \/ Review!DecideWrites(p) \/ Review!DecideReturns(p) \/ Review!ViewRecorded(p) \/ Review!ViewReturns(p) \/ Review!CallFails(p)

LEMMA ReviewerTypes ==
  ASSUME Review!ReviewAssumption, Review!TypeOK, CallsHold, NEW p \in Reviewers, Reviewer(p) PROVE Review!TypeOK'
  <1>0. /\ call \in [Reviewers -> CallStates] /\ call[p] \in CallStates
        /\ call[p].op # "idle" => call[p].review \in Requests
    BY DEF Review!TypeOK, CallStates, CallsHold, CallHolds
  <1>1. ASSUME NEW c \in CallStates, call' = [call EXCEPT ![p] = c]
        PROVE  call' \in [Reviewers -> CallStates]
    BY <1>0, <1>1
  <1>2. ASSUME NEW r \in Requests, NEW verdict \in {"approved", "rejected"}, Review!Decide(p, r, verdict)
        PROVE  Review!TypeOK'
    <2>1. [op |-> "decide", review |-> r, verdict |-> verdict, decided_at |-> now] \in CallStates
      BY ReviewConstants DEF CallStates, Review!Verdicts, Review!TypeOK
    <2>2. call' \in [Reviewers -> CallStates] BY <1>1, <1>2, <2>1 DEF Review!Decide
    <2> QED BY <1>2, <2>2 DEF Review!Decide, Review!TypeOK, CallStates
  <1>3. ASSUME NEW r \in Requests, Review!ViewRaw(p, r) PROVE Review!TypeOK'
    <2>1. [Review!Idle EXCEPT !.op = "view", !.review = r] \in CallStates
      BY ReviewConstants DEF CallStates
    <2>2. call' \in [Reviewers -> CallStates] BY <1>1, <1>3, <2>1 DEF Review!ViewRaw
    <2> QED BY <1>3, <2>2 DEF Review!ViewRaw, Review!TypeOK, CallStates
  <1>4. CASE Review!DecideWrites(p)
    <2>1. call[p].review \in Requests /\ call[p].verdict \in Review!Verdicts /\ call[p].decided_at \in Review!Times
      BY <1>0, <1>4 DEF Review!DecideWrites, CallsHold, CallHolds, CallStates
    <2>2. reviews[call[p].review] \in Review!Rows BY <2>1 DEF Review!TypeOK
    <2>3. Review!DecidedRow(p) \in Review!Rows BY <2>1, <2>2 DEF Review!DecidedRow, Review!Rows, Review!Statuses
    <2>4. reviews' \in [Requests -> Review!Rows] BY <1>4, <2>3 DEF Review!DecideWrites, Review!TypeOK
    <2>5. [call[p] EXCEPT !.op = "decided"] \in CallStates BY <1>0 DEF CallStates
    <2>6. \/ call' = [call EXCEPT ![p] = [call[p] EXCEPT !.op = "decided"]]
          \/ call' = [call EXCEPT ![p] = Review!Idle]
      BY <1>0, <1>4 DEF Review!DecideWrites, Review!Return
    <2>7. call' \in [Reviewers -> CallStates] BY <1>1, <2>5, <2>6, ReviewConstants
    <2>8. wavered' \subseteq Requests BY <1>4, <2>1 DEF Review!DecideWrites, Review!TypeOK
    <2> QED BY <1>4, <2>4, <2>7, <2>8 DEF Review!DecideWrites, Review!TypeOK, CallStates
  <1>5. CASE Review!DecideReturns(p)
    <2>1. call[p].review \in Requests /\ call[p].verdict \in Review!Verdicts
      BY <1>0, <1>5 DEF Review!DecideReturns, CallsHold, CallHolds
    <2>2. answered' \subseteq [by : Reviewers, review : Requests, verdict : Review!Verdicts]
      BY <1>5, <2>1 DEF Review!DecideReturns, Review!TypeOK
    <2>3. call' \in [Reviewers -> CallStates] BY <1>1, <1>5, ReviewConstants DEF Review!DecideReturns, Review!Return
    <2> QED BY <1>5, <2>2, <2>3 DEF Review!DecideReturns, Review!TypeOK, CallStates
  <1>6. CASE Review!ViewRecorded(p)
    <2>1. call[p].review \in Requests BY <1>0, <1>6 DEF Review!ViewRecorded
    <2> DEFINE r == call[p].review
               line == [reviews[r] EXCEPT !.raw_viewed_by = reviews[r].raw_viewed_by \cup {p}]
    <2>2. reviews[r] \in Review!Rows BY <2>1 DEF Review!TypeOK
    <2>3. line \in Review!Rows BY <2>2 DEF Review!Rows
    <2>4. reviews' = [reviews EXCEPT ![r] = line] BY <1>6, <2>1 DEF Review!ViewRecorded, Review!TypeOK
    <2>5. reviews' \in [Requests -> Review!Rows] BY <2>3, <2>4 DEF Review!TypeOK
    <2>6. [call[p] EXCEPT !.op = "viewed"] \in CallStates BY <1>0 DEF CallStates
    <2>7. call' = [call EXCEPT ![p] = [call[p] EXCEPT !.op = "viewed"]]
      BY <1>0, <1>6 DEF Review!ViewRecorded
    <2>8. call' \in [Reviewers -> CallStates] BY <1>1, <2>6, <2>7
    <2> QED BY <1>6, <2>5, <2>8 DEF Review!ViewRecorded, Review!TypeOK, CallStates
  <1>7. CASE Review!ViewReturns(p)
    <2>1. call[p].review \in Requests BY <1>0, <1>7 DEF Review!ViewReturns
    <2>2. seen' \subseteq Reviewers \X Requests BY <1>7, <2>1 DEF Review!ViewReturns, Review!TypeOK
    <2>3. call' \in [Reviewers -> CallStates] BY <1>1, <1>7, ReviewConstants DEF Review!ViewReturns, Review!Return
    <2> QED BY <1>7, <2>2, <2>3 DEF Review!ViewReturns, Review!TypeOK, CallStates
  <1>8. CASE Review!CallFails(p)
    <2>1. reviewFailures' \in 0..MaxFailures BY <1>8, ReviewConstants DEF Review!CallFails, Review!Fails, Review!TypeOK
    <2>2. call' \in [Reviewers -> CallStates] BY <1>1, <1>8, ReviewConstants DEF Review!CallFails, Review!Return
    <2> QED BY <1>8, <2>1, <2>2 DEF Review!CallFails, Review!TypeOK, CallStates
  <1> QED BY <1>2, <1>3, <1>4, <1>5, <1>6, <1>7, <1>8 DEF Reviewer

LEMMA ReviewNextTypes == ASSUME Review!ReviewAssumption, Review!TypeOK, CallsHold, [Review!Next]_(Review!vars) PROVE Review!TypeOK'
  <1>1. CASE Review!Tick
    <2>1. now' \in 0..MaxTime BY <1>1, ReviewConstants DEF Review!Tick, Review!TypeOK
    <2> QED BY <1>1, <2>1 DEF Review!Tick, Review!TypeOK
  <1>2. CASE UNCHANGED Review!vars BY <1>2 DEF Review!vars, Review!TypeOK
  <1> QED BY <1>1, <1>2, AgentTypes, ReviewerTypes DEF Review!Next, Reviewer

-----------------------------------------------------------------------------
(* What happens to the rows of reviews *)

\* A row goes on: what was decided stands, and who looked is not forgotten.
GoesOn(r) ==
  /\ reviews[r].status \in Review!Verdicts => /\ reviews'[r].status = reviews[r].status
                                              /\ reviews'[r].reviewer = reviews[r].reviewer
                                              /\ reviews'[r].decided_at = reviews[r].decided_at
  /\ reviews[r].raw_viewed_by \subseteq reviews'[r].raw_viewed_by
  /\ reviews[r] # Review!NoReview => /\ reviews'[r] # Review!NoReview
                                     /\ reviews'[r].expires_at = reviews[r].expires_at

\* A row that is no longer pending was decided in time, by a person who may; if its deadline has
\* passed by now, that is recorded.
DecidedWell(r) ==
  reviews'[r].status \in Review!Verdicts /\ reviews[r].status \notin Review!Verdicts =>
    /\ reviews'[r].decided_at < reviews'[r].expires_at
    /\ reviews'[r].reviewer \in Reviewers /\ Review!Can(reviews'[r].reviewer, "decide", r)
LatenessShown(r) ==
  reviews[r].status = "pending" /\ reviews'[r].status # "pending" =>
    now < reviews[r].expires_at \/ r \in wavered'

RowsGoOn == \A r \in Requests : GoesOn(r) /\ DecidedWell(r) /\ LatenessShown(r)

LEMMA SameRowsGoOn == ASSUME reviews' = reviews PROVE RowsGoOn
  BY DEF RowsGoOn, GoesOn, DecidedWell, LatenessShown

LEMMA CreatedGoesOn ==
  ASSUME Review!TypeOK, NEW r \in Requests, Review!Create(r) PROVE RowsGoOn
  <1>1. reviews'[r] = [Review!NoReview EXCEPT !.status = "pending", !.expires_at = now + TTL]
    BY DEF Review!Create, Review!TypeOK
  <1>2. \A q \in Requests \ {r} : reviews'[q] = reviews[q] BY DEF Review!Create, Review!TypeOK
  <1>3. reviews[r] = Review!NoReview BY DEF Review!Create
  <1>4. reviews'[r].status = "pending" /\ reviews[r].status = "none" /\ reviews[r].raw_viewed_by = {}
    BY <1>1, <1>3 DEF Review!NoReview
  <1>5. GoesOn(r) /\ DecidedWell(r) /\ LatenessShown(r)
    BY <1>3, <1>4 DEF GoesOn, DecidedWell, LatenessShown, Review!Verdicts
  <1> QED BY <1>2, <1>5 DEF RowsGoOn, GoesOn, DecidedWell, LatenessShown

\* The row is decided, or it was decided or late.
LEMMA DecidedGoesOn ==
  ASSUME Review!TypeOK, CallsHold, NEW p \in Reviewers, Review!DecideWrites(p) PROVE RowsGoOn
  <1>1. CASE ~Review!Wins(p) BY <1>1, SameRowsGoOn DEF Review!DecideWrites
  <1>2. CASE Review!Wins(p)
    <2> DEFINE r == call[p].review
    <2>1. r \in Requests /\ call[p].verdict \in Review!Verdicts /\ Review!Can(p, "decide", r)
      BY DEF Review!DecideWrites, CallsHold, CallHolds
    <2>2. reviews[r] \in Review!Rows BY <2>1 DEF Review!TypeOK
    <2>3. reviews'[r] = Review!DecidedRow(p) BY <1>2, <2>1 DEF Review!DecideWrites, Review!TypeOK
    <2>4. \A q \in Requests \ {r} : reviews'[q] = reviews[q] BY <1>2 DEF Review!DecideWrites, Review!TypeOK
    <2>5. reviews[r].status = "pending" /\ reviews[r].expires_at > call[p].decided_at
      BY <1>2 DEF Review!Wins
    <2>6. /\ reviews'[r].status = call[p].verdict /\ reviews'[r].reviewer = p
          /\ reviews'[r].decided_at = call[p].decided_at
          /\ reviews'[r].expires_at = reviews[r].expires_at
          /\ reviews'[r].raw_viewed_by = reviews[r].raw_viewed_by
      BY <2>2, <2>3 DEF Review!DecidedRow, Review!Rows
    <2>7. now >= reviews[r].expires_at => r \in wavered' BY <1>2 DEF Review!DecideWrites
    <2>8. now \in Int /\ reviews[r].expires_at \in Int /\ call[p].decided_at \in Int
      BY <2>2, ReviewConstants DEF Review!TypeOK, Review!Rows, Review!Times
    <2> HIDE DEF r
    <2>9. GoesOn(r) BY <2>1, <2>5, <2>6 DEF GoesOn, Review!Verdicts, Review!NoReview
    <2>10. DecidedWell(r) BY <2>1, <2>5, <2>6, <2>8 DEF DecidedWell
    <2>11. LatenessShown(r) BY <2>7, <2>8 DEF LatenessShown
    <2> QED BY <2>4, <2>9, <2>10, <2>11 DEF RowsGoOn, GoesOn, DecidedWell, LatenessShown
  <1> QED BY <1>1, <1>2

LEMMA ViewedGoesOn ==
  ASSUME Review!TypeOK, CallsHold, NEW p \in Reviewers, Review!ViewRecorded(p)
  PROVE  RowsGoOn /\ p \in reviews'[call[p].review].raw_viewed_by
  <1> DEFINE r == call[p].review
  <1>1. r \in Requests BY DEF Review!ViewRecorded, CallsHold, CallHolds
  <1>2. reviews[r] \in Review!Rows BY <1>1 DEF Review!TypeOK
  <1>3. reviews'[r] = [reviews[r] EXCEPT !.raw_viewed_by = reviews[r].raw_viewed_by \cup {p}]
    BY <1>1 DEF Review!ViewRecorded, Review!TypeOK
  <1>4. \A q \in Requests \ {r} : reviews'[q] = reviews[q] BY DEF Review!ViewRecorded, Review!TypeOK
  <1>5. /\ reviews'[r].status = reviews[r].status /\ reviews'[r].reviewer = reviews[r].reviewer
        /\ reviews'[r].decided_at = reviews[r].decided_at
        /\ reviews'[r].expires_at = reviews[r].expires_at
        /\ reviews'[r].raw_viewed_by = reviews[r].raw_viewed_by \cup {p}
    BY <1>2, <1>3 DEF Review!Rows
  <1> HIDE DEF r
  <1>6. GoesOn(r) /\ DecidedWell(r) /\ LatenessShown(r)
    BY <1>5 DEF GoesOn, DecidedWell, LatenessShown, Review!NoReview
  <1>7. RowsGoOn BY <1>4, <1>6 DEF RowsGoOn, GoesOn, DecidedWell, LatenessShown
  <1> QED BY <1>5, <1>7 DEF r

-----------------------------------------------------------------------------
(* What follows from it *)

LEMMA DecisionsGoOn ==
  ASSUME DecisionsHold, RowsGoOn PROVE DecisionsHold'
  <1> SUFFICES ASSUME NEW r \in Requests, reviews'[r].status \in Review!Verdicts
               PROVE  /\ reviews'[r].decided_at < reviews'[r].expires_at
                      /\ reviews'[r].reviewer \in Reviewers /\ Review!Can(reviews'[r].reviewer, "decide", r)
    BY DEF DecisionsHold, Review!Can, Review!Permissions
  <1>1. GoesOn(r) /\ DecidedWell(r) BY DEF RowsGoOn
  <1>2. CASE reviews[r].status \notin Review!Verdicts BY <1>1, <1>2 DEF DecidedWell
  <1>3. CASE reviews[r].status \in Review!Verdicts
    <2>1. reviews[r] # Review!NoReview BY <1>3 DEF Review!NoReview, Review!Verdicts
    <2> QED BY <1>1, <1>3, <2>1 DEF GoesOn, DecisionsHold
  <1> QED BY <1>2, <1>3

LEMMA CallGoesOn ==
  ASSUME RowsGoOn, NEW p \in Reviewers, CallHolds(p), call'[p] = call[p] PROVE CallHolds(p)'
  <1>1. CASE call[p].op = "idle" BY <1>1 DEF CallHolds
  <1>2. CASE call[p].op # "idle"
    <2>1. GoesOn(call[p].review) BY <1>2 DEF RowsGoOn, CallHolds
    <2> QED BY <1>2, <2>1 DEF GoesOn, CallHolds, Review!Can, Review!Permissions
  <1> QED BY <1>1, <1>2

LEMMA RecordsGoOn ==
  ASSUME Review!TypeOK, RowsGoOn
  PROVE  /\ Review!AnsweredStands /\ answered' = answered => Review!AnsweredStands'
         /\ Review!RawViewRecorded /\ seen' = seen => Review!RawViewRecorded'
  BY DEF Review!TypeOK, RowsGoOn, GoesOn, Review!AnsweredStands, Review!RawViewRecorded

\* The agent's side when only the rows, the clock and the reviewers move.
LEMMA AgentGoesOn ==
  ASSUME Review!TypeOK, Review!TypeOK', AgentHolds, RowsGoOn, NEW r \in Requests,
         request'[r] = request[r] \/ request'[r] # "held", request[r] = "held" => request'[r] = "held",
         poll'[r] = poll[r] \/ poll'[r] = Review!NoReview,
         told'[r] = told[r], r \in released' => r \in released,
         wavered \subseteq wavered', now' = now \/ now' = now + 1
  PROVE  PollHolds(r)' /\ ToldHolds(r)' /\ ReleaseHolds(r)'
  <1>0. PollHolds(r) /\ ToldHolds(r) /\ ReleaseHolds(r) BY DEF AgentHolds
  <1>1. GoesOn(r) /\ LatenessShown(r) BY DEF RowsGoOn
  <1>2. now \in Int /\ reviews[r].expires_at \in Int BY DEF Review!TypeOK, Review!Rows, Review!Times
  <1>3. PollHolds(r)' BY <1>0, <1>1 DEF PollHolds, GoesOn, Review!NoReview
  <1>4. ReleaseHolds(r)' BY <1>0, <1>1 DEF ReleaseHolds, GoesOn, Review!Verdicts
  <1>5. told[r] \in Review!Verdicts => /\ reviews'[r].status = told[r]
                                       /\ poll'[r] # Review!NoReview => poll'[r].status = told[r]
    BY <1>0, <1>1 DEF ToldHolds, GoesOn
  <1>6. ASSUME told[r] = "expired", r \notin wavered'
        PROVE  /\ reviews'[r].status = "pending" /\ now' >= reviews'[r].expires_at
               /\ poll'[r] # Review!NoReview => poll'[r].status = "pending"
    <2>1. /\ reviews[r].status = "pending" /\ now >= reviews[r].expires_at
          /\ poll[r] # Review!NoReview => poll[r].status = "pending"
      BY <1>0, <1>6 DEF ToldHolds
    <2>2. reviews'[r].status = "pending" BY <1>1, <1>2, <1>6, <2>1 DEF LatenessShown
    <2>3. reviews[r] # Review!NoReview BY <2>1 DEF Review!NoReview
    <2>4. reviews'[r].expires_at = reviews[r].expires_at BY <1>1, <2>3 DEF GoesOn
    <2> QED BY <1>2, <2>1, <2>2, <2>4
  <1>7. ToldHolds(r)' BY <1>5, <1>6 DEF ToldHolds
  <1> QED BY <1>3, <1>4, <1>7

-----------------------------------------------------------------------------
(* Every step *)

LEMMA ReviewInitHolds == ASSUME Review!ReviewAssumption, Review!Init PROVE ReviewInv
  <1>1. \A r \in Requests : reviews[r] = Review!NoReview /\ poll[r] = Review!NoReview /\ told[r] = "none"
                            /\ request[r] = "new"
    BY DEF Review!Init
  <1>2. \A p \in Reviewers : call[p] = Review!Idle BY DEF Review!Init
  <1>3. answered = {} /\ seen = {} /\ released = {} BY DEF Review!Init
  <1>4. DecisionsHold BY <1>1 DEF DecisionsHold, Review!NoReview, Review!Verdicts
  <1>5. CallsHold BY <1>2 DEF CallsHold, CallHolds, Review!Idle
  <1>6. AgentHolds BY <1>1, <1>3 DEF AgentHolds, PollHolds, ToldHolds, ReleaseHolds, Review!Verdicts
  <1> QED BY <1>3, <1>4, <1>5, <1>6 DEF ReviewInv, Review!AnsweredStands, Review!RawViewRecorded

\* The agent's request and its polls.
LEMMA AgentStep ==
  ASSUME Review!ReviewAssumption, Review!TypeOK, Review!TypeOK', ReviewInv, NEW r \in Requests,
         Review!File(r) \/ Review!Create(r) \/ Review!Hold(r) \/ Review!Block(r) \/ Review!Agent(r) \/ Review!PollFails(r)
  PROVE  ReviewInv'
  <1>0. /\ DecisionsHold /\ CallsHold /\ AgentHolds /\ Review!AnsweredStands /\ Review!RawViewRecorded
        /\ PollHolds(r) /\ ToldHolds(r) /\ ReleaseHolds(r)
    BY DEF ReviewInv, AgentHolds
  <1>1. UNCHANGED <<now, call, answered, seen>>
    BY DEF Review!File, Review!Create, Review!Hold, Review!Block, Review!Agent, Review!PollReads, Review!PollAnswers, Review!PollFails
  <1>2. reviews' = reviews \/ Review!Create(r)
    BY DEF Review!File, Review!Create, Review!Hold, Review!Block, Review!Agent, Review!PollReads, Review!PollAnswers, Review!PollFails
  <1>3. RowsGoOn BY <1>2, SameRowsGoOn, CreatedGoesOn
  <1>4. wavered \subseteq wavered'
    BY DEF Review!File, Review!Create, Review!Hold, Review!Block, Review!Agent, Review!PollReads, Review!PollAnswers, Review!PollFails
  <1>5. DecisionsHold' /\ Review!AnsweredStands' /\ Review!RawViewRecorded'
    BY <1>0, <1>1, <1>3, DecisionsGoOn, RecordsGoOn
  <1>6. CallsHold' BY <1>0, <1>1, <1>3, CallGoesOn DEF CallsHold
  \* The other requests.
  <1>7. ASSUME NEW q \in Requests \ {r} PROVE PollHolds(q)' /\ ToldHolds(q)' /\ ReleaseHolds(q)'
    <2>1. request'[q] = request[q] /\ poll'[q] = poll[q] /\ told'[q] = told[q]
      BY DEF Review!File, Review!Create, Review!Hold, Review!Block, Review!Agent, Review!PollReads, Review!PollAnswers, Review!PollFails, Review!TypeOK
    <2>2. q \in released' => q \in released
      BY DEF Review!File, Review!Create, Review!Hold, Review!Block, Review!Agent, Review!PollReads, Review!PollAnswers, Review!PollFails
    <2> QED BY <1>0, <1>1, <1>3, <1>4, <2>1, <2>2, AgentGoesOn
  <1>8. PollHolds(r)' /\ ToldHolds(r)' /\ ReleaseHolds(r)'
    <2>1. CASE Review!File(r) \/ Review!Create(r) \/ Review!Block(r) \/ Review!PollFails(r)
      <3>1. /\ request'[r] = request[r] \/ request'[r] # "held"
            /\ request[r] = "held" => request'[r] = "held"
            /\ poll'[r] = poll[r] \/ poll'[r] = Review!NoReview
            /\ told'[r] = told[r] /\ (r \in released' => r \in released)
        BY <2>1 DEF Review!File, Review!Create, Review!Block, Review!PollFails, Review!TypeOK
      <3> QED BY <1>0, <1>1, <1>3, <1>4, <3>1, AgentGoesOn
    <2>2. CASE Review!Hold(r)
      BY <1>0, <2>2 DEF Review!Hold, Review!TypeOK, PollHolds, ToldHolds, ReleaseHolds
    <2>3. CASE Review!PollReads(r)
      <3>1. /\ request[r] = "held" /\ reviews[r] # Review!NoReview /\ poll'[r] = reviews[r]
            /\ UNCHANGED <<now, reviews, request, told, released, wavered>>
        BY <1>0, <2>3 DEF Review!PollReads, PollHolds, Review!TypeOK
      <3> QED BY <1>0, <3>1 DEF PollHolds, ToldHolds, ReleaseHolds, Review!NoReview, Review!Verdicts
    <2>4. CASE Review!PollAnswers(r)
      <3> DEFINE line == poll[r]
                 status == Review!effective_status(line)
      <3>1. /\ line # Review!NoReview /\ poll'[r] = Review!NoReview /\ told'[r] = status
            /\ UNCHANGED <<now, reviews, request>>
            /\ r \in released' => r \in released \/ status = "approved"
            /\ status = "expired" /\ reviews[r].status # "pending" => r \in wavered'
        BY <2>4 DEF Review!PollAnswers, Review!Releases, Review!TypeOK
      <3>2. line.status \in Review!Statuses BY DEF Review!TypeOK, Review!Rows
      <3>3. /\ status = line.status \/ status = "expired"
            /\ status = "expired" => line.status = "pending" /\ now >= line.expires_at
        BY <3>2 DEF Review!effective_status, Review!Statuses, Review!Verdicts
      <3>4. /\ request[r] = "held" /\ reviews[r] # Review!NoReview
            /\ line.expires_at = reviews[r].expires_at
            /\ line.status \in Review!Verdicts => reviews[r].status = line.status
        BY <1>0, <3>1 DEF PollHolds
      <3> HIDE DEF line, status
      <3>5. PollHolds(r)' BY <3>1, <3>4 DEF PollHolds
      <3>6. ToldHolds(r)' BY <3>1, <3>3, <3>4 DEF ToldHolds, Review!Verdicts
      <3>7. ReleaseHolds(r)' BY <1>0, <3>1, <3>3, <3>4 DEF ReleaseHolds, Review!Verdicts
      <3> QED BY <3>5, <3>6, <3>7
    <2> QED BY <2>1, <2>2, <2>3, <2>4 DEF Review!Agent
  <1>9. AgentHolds' BY <1>7, <1>8 DEF AgentHolds
  <1> QED BY <1>5, <1>6, <1>9 DEF ReviewInv

LEMMA ReviewerStep ==
  ASSUME Review!ReviewAssumption, Review!TypeOK, Review!TypeOK', ReviewInv, NEW p \in Reviewers, Reviewer(p)
  PROVE  ReviewInv'
  <1>0. DecisionsHold /\ CallsHold /\ AgentHolds /\ Review!AnsweredStands /\ Review!RawViewRecorded /\ CallHolds(p)
    BY DEF ReviewInv, CallsHold
  <1> USE DEF Review!Return
  <1>1. UNCHANGED <<now, request, poll, told, released>> /\ wavered \subseteq wavered'
    BY DEF Reviewer, Review!Decide, Review!ViewRaw, Review!DecideWrites, Review!DecideReturns, Review!ViewRecorded, Review!ViewReturns, Review!CallFails
  <1>2. reviews' = reviews \/ Review!DecideWrites(p) \/ Review!ViewRecorded(p)
    BY DEF Reviewer, Review!Decide, Review!ViewRaw, Review!DecideWrites, Review!DecideReturns, Review!ViewRecorded, Review!ViewReturns, Review!CallFails
  <1>3. RowsGoOn BY <1>0, <1>2, SameRowsGoOn, DecidedGoesOn, ViewedGoesOn
  <1>4. DecisionsHold' BY <1>0, <1>3, DecisionsGoOn
  <1>5. AgentHolds' BY <1>0, <1>1, <1>3, AgentGoesOn DEF AgentHolds
  <1>6. \A q \in Reviewers \ {p} : call'[q] = call[q]
    BY DEF Reviewer, Review!Decide, Review!ViewRaw, Review!DecideWrites, Review!DecideReturns, Review!ViewRecorded, Review!ViewReturns,
           Review!CallFails, Review!TypeOK
  <1>7. Review!Idle.op = "idle" BY DEF Review!Idle
  <1>8. CallHolds(p)'
    <2>1. ASSUME NEW r \in Requests, NEW verdict \in {"approved", "rejected"}, Review!Decide(p, r, verdict)
          PROVE  CallHolds(p)'
      <3>1. call'[p] = [op |-> "decide", review |-> r, verdict |-> verdict, decided_at |-> now]
        BY <2>1 DEF Review!Decide, Review!TypeOK
      <3>2. Review!Can(p, "decide", r) BY <2>1 DEF Review!Decide
      <3>3. call'[p].op = "decide" /\ call'[p].review = r /\ call'[p].verdict \in Review!Verdicts
        BY <3>1 DEF Review!Verdicts
      <3> QED BY <3>2, <3>3 DEF CallHolds
    <2>2. ASSUME NEW r \in Requests, Review!ViewRaw(p, r) PROVE CallHolds(p)'
      <3>1. call'[p] = [Review!Idle EXCEPT !.op = "view", !.review = r] BY <2>2 DEF Review!ViewRaw, Review!TypeOK
      <3>2. call'[p].op = "view" /\ call'[p].review = r BY <3>1 DEF Review!Idle
      <3> QED BY <3>2 DEF CallHolds
    <2>3. CASE Review!DecideWrites(p)
      <3>1. CASE ~Review!Wins(p)
        <4>1. call'[p] = Review!Idle BY <2>3, <3>1 DEF Review!DecideWrites, Review!TypeOK
        <4> QED BY <1>7, <4>1 DEF CallHolds
      <3>2. CASE Review!Wins(p)
        <4> DEFINE r == call[p].review
        <4>1. r \in Requests /\ call[p].verdict \in Review!Verdicts
          BY <1>0, <2>3 DEF Review!DecideWrites, CallHolds
        <4>2. call[p] \in CallStates BY DEF Review!TypeOK, CallStates
        <4>3. call'[p] = [call[p] EXCEPT !.op = "decided"] BY <2>3, <3>2 DEF Review!DecideWrites, Review!TypeOK
        <4>4. /\ call'[p].op = "decided" /\ call'[p].review = r
              /\ call'[p].verdict = call[p].verdict
          BY <4>2, <4>3 DEF CallStates
        <4>5. reviews'[r] = Review!DecidedRow(p) /\ reviews[r] \in Review!Rows
          BY <2>3, <3>2, <4>1 DEF Review!DecideWrites, Review!TypeOK
        <4>6. reviews'[r].status = call[p].verdict /\ reviews'[r].reviewer = p
          BY <4>5 DEF Review!DecidedRow, Review!Rows
        <4> QED BY <4>1, <4>4, <4>6 DEF CallHolds
      <3> QED BY <3>1, <3>2
    <2>4. CASE Review!ViewRecorded(p)
      <3>1. call[p].review \in Requests BY <1>0, <2>4 DEF Review!ViewRecorded, CallHolds
      <3>2. call[p] \in CallStates BY DEF Review!TypeOK, CallStates
      <3>3. call'[p] = [call[p] EXCEPT !.op = "viewed"] BY <2>4 DEF Review!ViewRecorded, Review!TypeOK
      <3>4. call'[p].op = "viewed" /\ call'[p].review = call[p].review BY <3>2, <3>3 DEF CallStates
      <3>5. p \in reviews'[call[p].review].raw_viewed_by BY <1>0, <2>4, ViewedGoesOn
      <3> QED BY <3>1, <3>4, <3>5 DEF CallHolds
    <2>5. CASE Review!DecideReturns(p) \/ Review!ViewReturns(p) \/ Review!CallFails(p)
      <3>1. call'[p] = Review!Idle BY <2>5 DEF Review!DecideReturns, Review!ViewReturns, Review!CallFails, Review!TypeOK
      <3> QED BY <1>7, <3>1 DEF CallHolds
    <2> QED BY <2>1, <2>2, <2>3, <2>4, <2>5 DEF Reviewer
  <1>9. CallsHold' BY <1>0, <1>3, <1>6, <1>8, CallGoesOn DEF CallsHold
  <1>10. Review!AnsweredStands'
    <2>1. CASE ~Review!DecideReturns(p)
      <3>1. answered' = answered
        BY <2>1 DEF Reviewer, Review!Decide, Review!ViewRaw, Review!DecideWrites, Review!DecideReturns, Review!ViewRecorded, Review!ViewReturns,
                    Review!CallFails
      <3> QED BY <1>0, <1>3, <3>1, RecordsGoOn
    <2>2. CASE Review!DecideReturns(p)
      <3>1. reviews[call[p].review].status = call[p].verdict /\ reviews[call[p].review].reviewer = p
        BY <1>0, <2>2 DEF Review!DecideReturns, CallHolds
      <3>2. reviews' = reviews /\ answered' = answered \cup
              {[by |-> p, review |-> call[p].review, verdict |-> call[p].verdict]}
        BY <2>2 DEF Review!DecideReturns
      <3> QED BY <1>0, <3>1, <3>2 DEF Review!AnsweredStands
    <2> QED BY <2>1, <2>2
  <1>11. Review!RawViewRecorded'
    <2>1. CASE ~Review!ViewReturns(p)
      <3>1. seen' = seen
        BY <2>1 DEF Reviewer, Review!Decide, Review!ViewRaw, Review!DecideWrites, Review!DecideReturns, Review!ViewRecorded, Review!ViewReturns,
                    Review!CallFails
      <3> QED BY <1>0, <1>3, <3>1, RecordsGoOn
    <2>2. CASE Review!ViewReturns(p)
      <3>1. p \in reviews[call[p].review].raw_viewed_by BY <1>0, <2>2 DEF Review!ViewReturns, CallHolds
      <3>2. reviews' = reviews /\ seen' = seen \cup {<<p, call[p].review>>}
        BY <2>2 DEF Review!ViewReturns
      <3> QED BY <1>0, <3>1, <3>2 DEF Review!RawViewRecorded
    <2> QED BY <2>1, <2>2
  <1> QED BY <1>4, <1>5, <1>9, <1>10, <1>11 DEF ReviewInv

LEMMA ReviewNextHolds ==
  ASSUME Review!ReviewAssumption, Review!TypeOK, ReviewInv, [Review!Next]_(Review!vars) PROVE Review!TypeOK' /\ ReviewInv'
  <1>1. Review!TypeOK' BY ReviewNextTypes DEF ReviewInv
  <1>2. CASE Review!Tick \/ UNCHANGED Review!vars
    <2>1. /\ UNCHANGED <<reviews, request, poll, told, released, call, answered, seen, wavered>>
          /\ now' = now \/ now' = now + 1
      BY <1>2 DEF Review!Tick, Review!vars
    <2>2. RowsGoOn BY <2>1, SameRowsGoOn
    <2>3. AgentHolds' BY <1>1, <2>1, <2>2, AgentGoesOn DEF ReviewInv, AgentHolds
    <2>4. CallsHold' BY <2>1, <2>2, CallGoesOn DEF ReviewInv, CallsHold
    <2>5. DecisionsHold' /\ Review!AnsweredStands' /\ Review!RawViewRecorded'
      BY <2>1, <2>2, DecisionsGoOn, RecordsGoOn DEF ReviewInv
    <2> QED BY <1>1, <2>3, <2>4, <2>5 DEF ReviewInv
  <1> QED BY <1>1, <1>2, AgentStep, ReviewerStep DEF Review!Next, Reviewer

-----------------------------------------------------------------------------
(* What the agent gets, what it is told, and what reviewers are told *)

LEMMA ReviewIsEnough ==
  ASSUME Review!TypeOK, ReviewInv PROVE Review!ReleasedIfApproved /\ Review!AnsweredStands /\ Review!RawViewRecorded
  <1>1. Review!ReleasedIfApproved
    <2> SUFFICES ASSUME NEW r \in released
                 PROVE  /\ request[r] = "held"
                        /\ reviews[r].status = "approved"
                        /\ reviews[r].decided_at < reviews[r].expires_at
                        /\ Review!Can(reviews[r].reviewer, "decide", r)
                        /\ \A a \in answered : a.review = r => a.verdict = "approved"
      BY DEF Review!ReleasedIfApproved
    <2>1. r \in Requests BY DEF Review!TypeOK
    <2>2. request[r] = "held" /\ reviews[r].status = "approved"
      BY <2>1 DEF ReviewInv, AgentHolds, ReleaseHolds
    <2>3. /\ reviews[r].decided_at < reviews[r].expires_at
          /\ Review!Can(reviews[r].reviewer, "decide", r)
      BY <2>1, <2>2 DEF ReviewInv, DecisionsHold, Review!Verdicts
    <2>4. \A a \in answered : a.review = r => a.verdict = "approved"
      BY <2>2 DEF ReviewInv, Review!AnsweredStands
    <2> QED BY <2>2, <2>3, <2>4
  <1> QED BY <1>1 DEF ReviewInv

LEMMA ToldOnce == ASSUME Review!ReviewAssumption, Review!TypeOK, ReviewInv, [Review!Next]_(Review!vars) PROVE Review!AnswerIsFinal
  <1> SUFFICES ASSUME NEW r \in Requests, told[r] \in {"approved", "rejected", "expired"},
                      told'[r] # told[r]
               PROVE  told[r] = "expired" /\ r \in wavered
    BY DEF Review!AnswerIsFinal
  <1>1. Review!PollAnswers(r)
    <2>1. ASSUME NEW q \in Requests, Review!PollAnswers(q) PROVE q = r BY <2>1 DEF Review!PollAnswers, Review!TypeOK
    <2>2. told' = told \/ \E q \in Requests : Review!PollAnswers(q)
      BY DEF Review!Next, Review!File, Review!Create, Review!Hold, Review!Block, Review!Agent, Review!PollReads, Review!PollFails, Review!Decide, Review!ViewRaw,
             Review!DecideWrites, Review!DecideReturns, Review!ViewRecorded, Review!ViewReturns, Review!CallFails, Review!Tick, Review!vars
    <2> QED BY <2>1, <2>2
  <1>2. poll[r] # Review!NoReview /\ told'[r] = Review!effective_status(poll[r])
    BY <1>1 DEF Review!PollAnswers, Review!TypeOK
  <1>3. PollHolds(r) /\ ToldHolds(r) BY DEF ReviewInv, AgentHolds
  <1>4. told[r] \notin Review!Verdicts
    BY <1>2, <1>3 DEF ToldHolds, Review!effective_status, Review!Verdicts
  <1>5. SUFFICES ASSUME r \notin wavered PROVE FALSE BY <1>4 DEF Review!Verdicts
  <1>6. /\ now >= reviews[r].expires_at /\ poll[r].status = "pending"
        /\ poll[r].expires_at = reviews[r].expires_at
    BY <1>2, <1>3, <1>4, <1>5 DEF ToldHolds, PollHolds, Review!Verdicts
  <1> QED BY <1>2, <1>4, <1>6 DEF Review!effective_status, Review!Verdicts

\* "The payload is only released once approved" (reviews.py:119), "two reviewers deciding at once
\* can't both win" (postgres.py:389-390) and "viewing the raw payload [...] is recorded"
\* (reviews.py:6): for any requests and reviewers, whichever calls overlap and fail, an agent has the
\* payload only of a request that a person who may approved before its deadline, what reviewers were
\* told they decided stands, and whoever was shown a raw payload is named in the review.
THEOREM ReviewsHold ==
  Review!ReviewAssumption /\ Review!Spec =>
    [](Review!TypeOK /\ Review!ReleasedIfApproved /\ Review!AnsweredStands /\ Review!RawViewRecorded)
  <1>1. Review!ReviewAssumption /\ Review!Init => Review!TypeOK /\ ReviewInv BY ReviewInitTypes, ReviewInitHolds
  <1>2. Review!ReviewAssumption /\ Review!TypeOK /\ ReviewInv /\ [Review!Next]_(Review!vars) => (Review!TypeOK /\ ReviewInv)'
    BY ReviewNextHolds
  <1>3. Review!TypeOK /\ ReviewInv => Review!ReleasedIfApproved /\ Review!AnsweredStands /\ Review!RawViewRecorded
    BY ReviewIsEnough
  <1> SUFFICES ASSUME Review!ReviewAssumption
               PROVE  Review!Spec => [](Review!TypeOK /\ Review!ReleasedIfApproved /\ Review!AnsweredStands /\ Review!RawViewRecorded)
    OBVIOUS
  <1>4. Review!Init => Review!TypeOK /\ ReviewInv BY <1>1
  <1>5. Review!TypeOK /\ ReviewInv /\ [Review!Next]_(Review!vars) => (Review!TypeOK /\ ReviewInv)' BY <1>2
  <1> QED BY <1>3, <1>4, <1>5, PTL DEF Review!Spec

\* status_for_gateway() (reviews.py:118-140): approved and rejected are final; an agent that was told
\* "expired" hears something else only when a decision, or the answer itself, crossed the deadline.
THEOREM AnswersAreFinal == Review!ReviewAssumption /\ Review!Spec => [][Review!AnswerIsFinal]_(Review!vars)
  <1>1. Review!ReviewAssumption /\ Review!Init => Review!TypeOK /\ ReviewInv BY ReviewInitTypes, ReviewInitHolds
  <1>2. Review!ReviewAssumption /\ Review!TypeOK /\ ReviewInv /\ [Review!Next]_(Review!vars) => (Review!TypeOK /\ ReviewInv)'
    BY ReviewNextHolds
  <1>3. Review!ReviewAssumption /\ Review!TypeOK /\ ReviewInv /\ [Review!Next]_(Review!vars) => Review!AnswerIsFinal BY ToldOnce
  <1> SUFFICES ASSUME Review!ReviewAssumption PROVE Review!Spec => [][Review!AnswerIsFinal]_(Review!vars)
    OBVIOUS
  <1>4. Review!Init => Review!TypeOK /\ ReviewInv BY <1>1
  <1>5. Review!TypeOK /\ ReviewInv /\ [Review!Next]_(Review!vars) => (Review!TypeOK /\ ReviewInv)' BY <1>2
  <1>6. Review!TypeOK /\ ReviewInv /\ [Review!Next]_(Review!vars) => Review!AnswerIsFinal BY <1>3
  <1> QED BY <1>4, <1>5, <1>6, PTL DEF Review!Spec

\* Both: what reviewers and agents are promised (reviews.py:4-6, 118-140).
THEOREM ReviewsAreKept == Review!ReviewAssumption /\ Review!Spec => Review!ReviewsStand
  <1> SUFFICES ASSUME Review!ReviewAssumption PROVE Review!Spec => Review!ReviewsStand
    OBVIOUS
  <1>1. Review!Spec => [](Review!TypeOK /\ Review!ReleasedIfApproved /\ Review!AnsweredStands /\ Review!RawViewRecorded)
    BY ReviewsHold
  <1>2. Review!Spec => [][Review!AnswerIsFinal]_(Review!vars)
    BY AnswersAreFinal
  <1> QED BY <1>1, <1>2, PTL DEF Review!ReviewsStand

HIDE DEF now, reviews, request, poll, told, released, call, answered, seen, wavered, reviewFailures

-----------------------------------------------------------------------------
(* What holds of human review holds of the composition.                    *)

\* reviews.py, postgres.py:385-406, hooks.py:100-115: whoever decides when, what review answers for
\* is kept when it is the part that runs: only an approved payload goes out, the decision that was
\* confirmed stands, raw views are on record, and an outcome that was told is final.
THEOREM ReviewsStandInAll == EachSpec => ReviewsStand
<1> DEFINE I == part = "review" => Review!TypeOK /\ ReviewInv
<1>1. EachInit => I
  BY ReviewsAssumption, ReviewInitTypes, ReviewInitHolds DEF EachInit
<1>2. I /\ [EachNext]_all => I'
  <2> SUFFICES ASSUME I, [EachNext]_all, part' = "review"
               PROVE  (Review!TypeOK /\ ReviewInv)'
    OBVIOUS
  <2>1. part = "review"
    BY DEF EachNext, all
  <2>2. [Review!Next]_(Review!vars)
    BY <2>1 DEF EachNext, all, To11, Review!vars
  <2> QED BY <2>1, <2>2, ReviewsAssumption, ReviewNextTypes, ReviewNextHolds DEF ReviewInv
<1>3. I => (part = "review" => Review!TypeOK /\ Review!ReleasedIfApproved /\ Review!AnsweredStands
                              /\ Review!RawViewRecorded)
  BY ReviewsAssumption, ReviewIsEnough
<1>4. I /\ [EachNext]_all => [part = "review" => Review!AnswerIsFinal]_all
  BY ReviewsAssumption, ToldOnce DEF EachNext, all, To11, Review!vars
<1> QED BY <1>1, <1>2, <1>3, <1>4, PTL DEF EachSpec, ReviewsStand
=============================================================================
