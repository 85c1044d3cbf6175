---------------------------- MODULE AdvisorPanel ----------------------------
(***************************************************************************)
(* The advisor panel of the gateway (advise/panel.py): one request's       *)
(* questions to its advisors, asked at once, and how their answers count.  *)
(* A Bedrock advisor works in a thread of a pool that the gateway shares.  *)
(*                                                                         *)
(* Confidence is in quarters; a label weighs 0, 1 or 2 halves.             *)
(***************************************************************************)
EXTENDS Integers, Sequences, FiniteSets, FiniteSetsExt, SequencesExt

CONSTANTS
  Specs,      \* advisor -> Spec
  TotalCap,
  Bands,      \* risk bands in which advisors run
  Threads,    \* threads of the pool
  Contexts,   \* what a request may be, see Context
  Replies,    \* valid answers a hosted advisor may give
  MaxRequests \* bound: requests

Kinds == {"exfiltration", "injection"}
Classes == {"INTERNAL", "CONFIDENTIAL", "PII"}
AdvisorSpec == [provider : {"local", "http", "bedrock"}, mode : {"shadow", "enforce"},
          questions : SUBSET Kinds, cap : Nat, allowVerify : BOOLEAN]
Answer == [label : {"benign", "suspicious", "malicious"}, confidence : 0..4, verify : BOOLEAN]

Context == [band : {"low", "elevated", "high", "critical"}, class : Classes,
            labels : SUBSET {"CONFIDENTIAL", "PII"}, consent : SUBSET Classes]

SpecsAssumption ==
  /\ \A a \in DOMAIN Specs : Specs[a] \in AdvisorSpec /\ Specs[a].questions # {}
  /\ {TotalCap, Threads, MaxRequests} \subseteq Nat /\ Contexts \subseteq Context /\ Replies \subseteq Answer

Jobs == {job \in (DOMAIN Specs) \X Kinds : job[2] \in Specs[job[1]].questions}
Hosted(a) == Specs[a].provider # "local"

VARIABLES
  pc,        \* "idle", "asking" or "done"
  request,   \* the Context the panel is asked about
  status,    \* job -> where its question is
  answers,   \* job -> Answer, for the jobs that are "answered"
  threads,   \* jobs whose call occupies a thread, awaited or not
  advisory,  \* [points, verify, shadowPoints, shadowVerify]
  left,      \* questions that have left the gateway for the current request
  served     \* requests so far

vars == <<pc, request, status, answers, threads, advisory, left, served>>

NoAdvice == [points |-> 0, verify |-> FALSE, shadowPoints |-> 0, shadowVerify |-> FALSE]
Unasked == [j \in Jobs |-> "none"]
Unanswered == [j \in Jobs |-> [label |-> "benign", confidence |-> 0, verify |-> FALSE]]
NoSignal == {"timeout", "error", "invalid", "skipped_policy"}

-----------------------------------------------------------------------------
(* Answers.                                                                *)

\* Python's round(n / d): to the nearest, a half to the even neighbour.
Rounded(n, d) ==
  LET floor == n \div d
      twice == 2 * (n % d)
  IN  IF twice > d \/ (twice = d /\ floor % 2 = 1) THEN floor + 1 ELSE floor

Weight(label) == CASE label = "benign" -> 0 [] label = "suspicious" -> 1 [] OTHER -> 2
PointsFor(answer, cap) ==
  Max({0, Min({cap, Rounded(cap * Weight(answer.label) * answer.confidence, 8)})})

\* The local model's answer for a probability in quarters, its thresholds at 2, 3 and 4.
LocalAnswer(p) ==
  [label |-> IF p >= 3 THEN "malicious" ELSE IF p >= 2 THEN "suspicious" ELSE "benign",
   confidence |-> IF p >= 2 THEN p ELSE 4 - p, verify |-> p >= 4]

\* What a language model may say: prose, one object, a brace that is never closed, white space.
Texts == {<<"object">>, <<"prose", "object", "space">>, <<"object", "prose">>,
          <<"brace", "object">>, <<"prose">>, <<"object", "object">>}
\* From the first brace one object, and nothing but white space after it.
OneObject(text) ==
  LET starts == {i \in DOMAIN text : text[i] \in {"object", "brace"}}
  IN  /\ starts # {} /\ text[Min(starts)] = "object"
      /\ \A i \in DOMAIN text : i > Min(starts) => text[i] = "space"

-----------------------------------------------------------------------------
(* Which questions are asked.                                              *)

Needed(r) == {r.class} \cup r.labels
\* Mutant of HostedAllowed: what the session already holds does not count.
ClassAllowed(r) == r.class \in r.consent
HostedAllowed(r) == Needed(r) \subseteq r.consent

Ask ==
  /\ pc = "idle" /\ served < MaxRequests
  /\ request' \in Contexts
  /\ IF request'.band \in Bands
     THEN /\ pc' = "asking"
          /\ status' = [j \in Jobs |-> IF Hosted(j[1]) /\ ~HostedAllowed(request') THEN "skipped_policy"
                                       ELSE IF Specs[j[1]].provider = "bedrock" THEN "queued"
                                       ELSE "sent"]
          /\ left' = {j \in Jobs : Specs[j[1]].provider = "http" /\ status'[j] = "sent"}
     ELSE pc' = "done" /\ UNCHANGED <<status, left>>
  /\ served' = served + 1
  /\ UNCHANGED <<answers, threads, advisory>>

\* A thread takes the question up.
TakeUp(j) ==
  /\ status[j] = "queued" /\ Cardinality(threads) < Threads /\ j \notin threads
  /\ threads' = threads \cup {j} /\ left' = left \cup {j}
  /\ status' = [status EXCEPT ![j] = "sent"]
  /\ UNCHANGED <<pc, request, answers, advisory, served>>

\* A thread ends after its question was given up on.
ThreadEnds(j) ==
  /\ j \in threads /\ status[j] # "sent"
  /\ threads' = threads \ {j}
  /\ UNCHANGED <<pc, request, status, answers, advisory, left, served>>

Answered(j, answer) ==
  /\ status' = [status EXCEPT ![j] = "answered"]
  /\ answers' = [answers EXCEPT ![j] = answer]

Reply(j) ==
  /\ status[j] = "sent"
  /\ CASE Specs[j[1]].provider = "local" -> \E p \in 0..4 : Answered(j, LocalAnswer(p))
       [] OTHER ->
            \/ \E answer \in Replies, text \in Texts :
                 IF Specs[j[1]].provider = "bedrock" /\ ~OneObject(text)
                 THEN status' = [status EXCEPT ![j] = "error"] /\ UNCHANGED answers
                 ELSE Answered(j, answer)
            \/ \* extra fields or wrong types; another status, a redirect, no object, an exception
               \E s \in {"invalid", "error"} : status' = [status EXCEPT ![j] = s] /\ UNCHANGED answers
  /\ threads' = threads \ {j}
  /\ UNCHANGED <<pc, request, advisory, left, served>>

MayExpire(j) == status[j] \in {"queued", "sent"}

\* wait_for() gives up: a question still queued is withdrawn, a thread that has it goes on.
Expire(j) ==
  /\ MayExpire(j)
  /\ status' = [status EXCEPT ![j] = "timeout"]
  /\ UNCHANGED <<pc, request, answers, threads, advisory, left, served>>

-----------------------------------------------------------------------------
(* combine()                                                               *)

Counted(mode) == {j \in Jobs : Specs[j[1]].mode = mode /\ status[j] = "answered"}
Worth(j) == PointsFor(answers[j], Specs[j[1]].cap)
Asks(j) == answers[j].verify /\ Specs[j[1]].allowVerify /\ answers[j].label # "benign"

Best(mode, a) == Max({0} \cup {Worth(j) : j \in {i \in Counted(mode) : i[1] = a}})
Points(mode) == Min({TotalCap, MapThenSumSet(LAMBDA a : Best(mode, a), DOMAIN Specs)})
AskedToVerify(mode) == \E j \in Counted(mode) : Asks(j)

Combine ==
  /\ pc = "asking"
  /\ \A j \in Jobs : status[j] \in NoSignal \cup {"answered"}
  /\ advisory' = [points |-> Points("enforce"), verify |-> AskedToVerify("enforce"),
                  shadowPoints |-> Points("shadow"), shadowVerify |-> AskedToVerify("shadow")]
  /\ pc' = "done"
  /\ UNCHANGED <<request, status, answers, threads, left, served>>

\* The gateway goes on to the next request.
Finish ==
  /\ pc = "done" /\ pc' = "idle"
  /\ status' = Unasked /\ answers' = Unanswered /\ left' = {} /\ advisory' = NoAdvice
  /\ UNCHANGED <<request, threads, served>>

Init ==
  /\ pc = "idle" /\ request = [band |-> "low", class |-> "INTERNAL", labels |-> {}, consent |-> {}]
  /\ status = Unasked /\ answers = Unanswered /\ threads = {} /\ advisory = NoAdvice
  /\ left = {} /\ served = 0

Next ==
  \/ Ask \/ Combine \/ Finish
  \/ \E j \in Jobs : TakeUp(j) \/ ThreadEnds(j) \/ Reply(j) \/ Expire(j)

Spec == Init /\ [][Next]_vars

-----------------------------------------------------------------------------

TypeOK ==
  /\ pc \in {"idle", "asking", "done"} /\ request \in Context /\ served \in 0..MaxRequests
  /\ \A j \in Jobs : status[j] \in {"none", "queued", "sent", "answered"} \cup NoSignal
  /\ answers \in [Jobs -> Answer] /\ threads \subseteq Jobs /\ left \subseteq Jobs

(* No question about a request reaches a hosted advisor unless the tenant  *)
(* opted in for its data class and for what its session holds, in a thread *)
(* that was late to start either (panel.py:144-150, 185; remote.py:172).   *)
ConsentHolds ==
  \A j \in left : request.class \in request.consent /\ request.labels \subseteq request.consent

(* One advisor adds its cap at most, however many questions it answers,    *)
(* all together the total cap; advisors in shadow, too slow or without a   *)
(* valid answer leave the enforced part as it would be without them        *)
(* (panel.py:232-248).                                                     *)
EnforcedIsEarned ==
  LET speaking == {a \in DOMAIN Specs : Specs[a].mode = "enforce"
                     /\ \E k \in Kinds : <<a, k>> \in Jobs /\ status[<<a, k>>] = "answered"
                                           /\ answers[<<a, k>>].label # "benign"}
  IN  /\ advisory.points <= Min({TotalCap, MapThenSumSet(LAMBDA a : Specs[a].cap, speaking)})
      /\ (speaking = {} => ~advisory.verify)

(* A request that waits for its advisors, and one that does not any more   *)
(* (panel.py:205, remote.py:172).                                          *)
Asking == pc = "asking"
Done == pc = "done"
=============================================================================
