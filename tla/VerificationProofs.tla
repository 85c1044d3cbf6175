------------------------- MODULE VerificationProofs -------------------------
(***************************************************************************)
(* Proofs about Verification, for every set of requests and confirm calls, *)
(* every action, every set of faulty calls and every bound.                *)
(***************************************************************************)
EXTENDS Verification, TLAPS

-----------------------------------------------------------------------------
(* What a plan is *)

\* The loop over the combinations always has a cheapest candidate to return.
LEMMA CheapestIsChosen ==
  ASSUME NEW gap, NEW available \in SUBSET MachineKinds,
         ~Closed(gap), Candidates(gap, available) # {}
  PROVE  /\ PlanFor(gap, available) \in Candidates(gap, available)
         /\ \A other \in Candidates(gap, available) : Cost(PlanFor(gap, available)) <= Cost(other)
<1> DEFINE C == Candidates(gap, available)
           d == {"dry_run"}
           u == {"user_confirmation"}
           Cheapest(p) == p \in C /\ \A other \in C : Cost(p) <= Cost(other)
<1>1. \A p \in C : p \in SUBSET MachineKinds /\ p # {}
  BY DEF Candidates
<1>2. \A p \in C : p = d \/ p = u \/ p = MachineKinds
  BY <1>1 DEF MachineKinds
<1>3. /\ Cost(d) = 5
      /\ Cost(u) = 500
      /\ Cost(MachineKinds) = 505
  BY DEF Cost, MachineKinds
<1>4. \E p : Cheapest(p)
  <2> HIDE DEF d, u
  <2>0. C # {}
    OBVIOUS
  <2> HIDE DEF C
  <2>1. CASE d \in C
    <3>1. Cheapest(d)
      BY <2>1, <1>2, <1>3
    <3> QED BY <3>1
  <2>2. CASE d \notin C /\ u \in C
    <3>1. Cheapest(u)
      BY <2>2, <1>2, <1>3
    <3> QED BY <3>1
  <2>3. CASE d \notin C /\ u \notin C
    <3>1. Cheapest(MachineKinds)
      BY <2>0, <2>3, <1>2, <1>3
    <3> QED BY <3>1
  <2> QED BY <2>1, <2>2, <2>3
<1>5. PlanFor(gap, available)
        = CHOOSE p \in C : \A other \in C : Cost(p) <= Cost(other)
  BY DEF PlanFor
<1> QED BY <1>4, <1>5

\* plan() returns None, a non-empty set of the available machine verifiers, or the human.
LEMMA PlanForType ==
  ASSUME NEW gap, NEW available \in SUBSET MachineKinds
  PROVE  PlanFor(gap, available) \in Plans
<1>1. CASE Closed(gap)
  BY <1>1 DEF PlanFor, Plans, NoPlan
<1>2. CASE ~Closed(gap) /\ Candidates(gap, available) = {}
  BY <1>2 DEF PlanFor, Plans
<1>3. CASE ~Closed(gap) /\ Candidates(gap, available) # {}
  BY <1>3, CheapestIsChosen DEF Candidates, Plans
<1> QED BY <1>1, <1>2, <1>3

LEMMA PlanOfType ==
  ASSUME NEW c, NEW items
  PROVE  PlanOf(c, items) \in Plans
<1>1. Available(c) \in SUBSET MachineKinds
  BY DEF Available
<1> QED BY <1>1, PlanForType DEF PlanOf

-----------------------------------------------------------------------------
(* Types *)

LEMMA InitTypeOK == Init => TypeOK
BY TimeAssumption
   DEF Init, TypeOK, NoPlan, Plans, RequestPC, ConfirmPC, Outcomes, Statuses

LEMMA DryEvidenceType ==
  ASSUME TypeOK, NEW r \in Requests
  PROVE  DryEvidence(r) \in EvidenceRecord
BY TimeAssumption DEF TypeOK, DryEvidence, EvidenceRecord, MachineKinds

LEMMA AnswerEvidenceType ==
  ASSUME TypeOK, NEW c \in Confirms
  PROVE  AnswerEvidence(c) \in EvidenceRecord
BY TimeAssumption DEF TypeOK, AnswerEvidence, EvidenceRecord, MachineKinds

PCType == pc \in [Requests -> RequestPC] /\ outcome \in [Requests -> Outcomes]
StoreType ==
  /\ evidence \subseteq EvidenceRecord
  /\ spent \in [Requests -> SUBSET EvidenceRecord]
  /\ raced \subseteq Requests
LocalType == held \in [Requests -> SUBSET EvidenceRecord] /\ plan \in [Requests -> Plans]

LEMMA GotoType ==
  ASSUME TypeOK, NEW r \in Requests, NEW where \in RequestPC, Goto(r, where),
         UNCHANGED outcome
  PROVE  PCType'
BY DEF TypeOK, Goto, PCType

LEMMA FinishType ==
  ASSUME TypeOK, NEW r \in Requests, NEW result \in Outcomes, Finish(r, result)
  PROVE  PCType'
<1>1. "done" \in RequestPC
  BY DEF RequestPC
<1> QED BY <1>1 DEF TypeOK, Finish, Goto, PCType

LEMMA FollowType ==
  ASSUME TypeOK, NEW r \in Requests, NEW p, Follow(r, p)
  PROVE  PCType'
<1>1. {"dry_run", "pend_key"} \subseteq RequestPC /\ "hold" \in Outcomes
  BY DEF RequestPC, Outcomes
<1>2. CASE p = HumanPlan
  BY <1>1, <1>2, FinishType DEF Follow
<1>3. CASE p # HumanPlan
  BY <1>1, <1>3 DEF Follow, Goto, TypeOK, PCType
<1> QED BY <1>2, <1>3

LEMMA ReleaseType ==
  ASSUME TypeOK, NEW r \in Requests, NEW result \in Outcomes, Release(r, result)
  PROVE  PCType' /\ overruled' \subseteq Requests
<1>1. PCType'
  BY FinishType DEF Release
<1>2. overruled' \in {overruled, overruled \cup {r}}
  BY DEF Release, RecordForbids, OpenNow
<1> QED BY <1>1, <1>2 DEF TypeOK

LEMMA HoldType ==
  ASSUME TypeOK, NEW r \in Requests, HoldOnError(r)
  PROVE  PCType' /\ overruled' \subseteq Requests
<1>1. "hold" \in Outcomes
  BY DEF Outcomes
<1>2. Finish(r, "hold") /\ overruled' = overruled
  BY DEF HoldOnError
<1> QED BY <1>1, <1>2, FinishType DEF TypeOK

LEMMA OthersType ==
  ASSUME TypeOK, NEW r \in Requests
  PROVE  Others(r) \subseteq Requests
BY DEF TypeOK, Others, InFlight

LEMMA TakeType ==
  ASSUME TypeOK, NEW r \in Requests, TakeEvidence(r) \/ NoWrite
  PROVE  StoreType'
<1>1. CASE TakeEvidence(r)
  <2>1. spent[r] \cup evidence \in SUBSET EvidenceRecord
    BY DEF TypeOK
  <2>2. spent' \in [Requests -> SUBSET EvidenceRecord]
    BY <1>1, <2>1 DEF TakeEvidence, TypeOK
  <2>3. raced' \subseteq Requests
    BY <1>1, OthersType DEF TakeEvidence, TypeOK
  <2> QED BY <1>1, <2>2, <2>3 DEF TakeEvidence, StoreType
<1>2. CASE NoWrite
  BY <1>2 DEF NoWrite, StoreType, TypeOK
<1> QED BY <1>1, <1>2

LEMMA LiveType ==
  ASSUME TypeOK
  PROVE  Live(evidence) \in SUBSET EvidenceRecord
BY DEF TypeOK, Live

LEMMA NothingPendingType ==
  ASSUME TypeOK, NEW r \in Requests, NothingPending(r)
  PROVE  PCType' /\ overruled' \subseteq Requests /\ shown' = shown
<1>1. {"open", "take_follow_up"} \subseteq RequestPC /\ "table" \in Outcomes
  BY DEF RequestPC, Outcomes
<1>2. CASE Release(r, "table")
  BY <1>1, <1>2, ReleaseType DEF NothingPending
<1>3. CASE /\ Goto(r, "open") \/ Goto(r, "take_follow_up")
           /\ UNCHANGED <<outcome, overruled>>
  BY <1>1, <1>3, GotoType DEF NothingPending, TypeOK
<1> QED BY <1>2, <1>3 DEF NothingPending

LEMMA FirstStepType ==
  ASSUME TypeOK, NEW r \in Requests, NEW items \in SUBSET EvidenceRecord,
         FirstStep(r, items)
  PROVE  PCType' /\ LocalType'
<1>1. {"deny", "pend_key", "take"} \subseteq RequestPC
  BY DEF RequestPC
<1>2. held' \in [Requests -> SUBSET EvidenceRecord]
  BY DEF FirstStep, TypeOK
<1> DEFINE p == PlanOf(ctx'[r], items)
<1>3. p \in Plans
  BY PlanOfType
<1> HIDE DEF p
<1>4. CASE /\ Goto(r, "deny") \/ Goto(r, "pend_key")
           /\ UNCHANGED <<plan, outcome>>
  BY <1>1, <1>2, <1>4, GotoType DEF TypeOK, LocalType
<1>5. CASE /\ plan' = [plan EXCEPT ![r] = p]
           /\ \/ Goto(r, "take") /\ UNCHANGED outcome
              \/ Follow(r, p)
  <2>1. LocalType'
    BY <1>2, <1>3, <1>5 DEF TypeOK, LocalType
  <2>2. PCType'
    BY <1>1, <1>5, GotoType, FollowType
  <2> QED BY <2>1, <2>2
<1> QED BY <1>4, <1>5 DEF FirstStep, p

LEMMA RequestTypeOK ==
  ASSUME TypeOK, NEW r \in Requests, RequestStep(r)
  PROVE  TypeOK'
<1> USE DEF store, request, confirm, history
<1>0. {"hold", "deny", "allow", "verify"} \subseteq Outcomes
  BY DEF Outcomes
<1>1. CASE ReadEvidence(r)
  <2>1. ctx' \in [Requests -> [entry : {"resolve", "follow_up"}, codes : SUBSET Codes,
                               confirmable : BOOLEAN]]
    <3>1. PICK arrival \in Arrivals : ctx' = [ctx EXCEPT ![r] = arrival]
      BY <1>1 DEF ReadEvidence
    <3>2. arrival \in [entry : {"resolve", "follow_up"}, codes : SUBSET Codes,
                       confirmable : BOOLEAN]
      BY DEF Arrivals, Codes
    <3> QED BY <3>1, <3>2 DEF TypeOK
  <2>2. PCType' /\ LocalType'
    <3>1. PICK items \in {Live(evidence)} \cup (IF r \in Faulty THEN {{}} ELSE {}) :
            FirstStep(r, items)
      BY <1>1 DEF ReadEvidence
    <3>2. items \in SUBSET EvidenceRecord
      BY LiveType
    <3> QED BY <3>1, <3>2, FirstStepType
  <2>3. warned' \subseteq Requests
    BY <1>1 DEF ReadEvidence, NotAgreed, OpenNow, TypeOK
  <2> QED BY <1>1, <2>1, <2>2, <2>3 DEF ReadEvidence, TypeOK, PCType, LocalType
<1>2. CASE DenyRejected(r)
  <2>1. PCType' /\ StoreType'
    BY <1>0, <1>2, FinishType, TakeType DEF DenyRejected
  <2> QED BY <1>2, <2>1 DEF DenyRejected, TypeOK, PCType, StoreType
<1>3. CASE TakeAndDecide(r)
  <2>1. StoreType'
    BY <1>3, TakeType DEF TakeAndDecide
  <2>2. CASE DecideOnTaken(r, Live(evidence))
    <3> DEFINE p == PlanOf(ctx[r], Live(evidence))
    <3>1. p \in Plans
      BY PlanOfType
    <3> HIDE DEF p
    <3>2. LocalType'
      <4>1. held' = [held EXCEPT ![r] = Live(evidence)] /\ plan' = [plan EXCEPT ![r] = p]
        BY <2>2 DEF DecideOnTaken, p
      <4> QED BY <3>1, <4>1, LiveType DEF TypeOK, LocalType
    <3>3. Release(r, "allow") \/ (Follow(r, p) /\ UNCHANGED overruled)
      BY <2>2 DEF DecideOnTaken, p
    <3>4. PCType' /\ overruled' \subseteq Requests
      BY <1>0, <3>3, ReleaseType, FollowType DEF TypeOK
    <3> QED BY <1>3, <2>1, <3>2, <3>4
            DEF TakeAndDecide, TypeOK, PCType, StoreType, LocalType
  <2>3. CASE HoldOnError(r) /\ UNCHANGED <<held, plan>>
    <3>1. PCType' /\ overruled' \subseteq Requests
      BY <2>3, HoldType
    <3> QED BY <1>3, <2>1, <2>3, <3>1 DEF TakeAndDecide, TypeOK, PCType, StoreType
  <2> QED BY <1>3, <2>2, <2>3 DEF TakeAndDecide
<1>4. CASE DryRun(r)
  <2>1. held' \in [Requests -> SUBSET EvidenceRecord]
    <3>1. held[r] \cup {DryEvidence(r)} \in SUBSET EvidenceRecord
      BY DryEvidenceType DEF TypeOK
    <3> QED BY <1>4, <3>1 DEF DryRun, TypeOK
  <2>2. PCType'
    <3>1. {"store_dry", "spend"} \subseteq RequestPC
      BY DEF RequestPC
    <3> QED BY <1>0, <1>4, <3>1, FinishType, GotoType DEF DryRun, AfterInline
  <2> QED BY <1>4, <2>1, <2>2 DEF DryRun, TypeOK, PCType
<1>5. CASE StoreDryRun(r)
  <2>1. evidence' \subseteq EvidenceRecord /\ raced' \subseteq Requests
    BY <1>5, OthersType DEF StoreDryRun, OwnDryRun, TypeOK
  <2>2. PCType' /\ overruled' \subseteq Requests
    <3>1. "pend_key" \in RequestPC
      BY DEF RequestPC
    <3>2. HoldOnError(r) \/ (Goto(r, "pend_key") /\ UNCHANGED <<outcome, overruled>>)
      BY <1>5 DEF StoreDryRun
    <3> QED BY <3>1, <3>2, HoldType, GotoType DEF TypeOK
  <2> QED BY <1>5, <2>1, <2>2 DEF StoreDryRun, TypeOK, PCType
<1>6. CASE ReadPendKey(r)
  <2>1. CASE NothingPending(r)
    BY <1>6, <2>1, NothingPendingType DEF ReadPendKey, TypeOK, PCType
  <2>2. CASE pend # None /\ shown' = [shown EXCEPT ![r] = pend]
             /\ Goto(r, "pend_ver") /\ UNCHANGED <<outcome, overruled>>
    <3>1. "pend_ver" \in RequestPC
      BY DEF RequestPC
    <3>2. PCType'
      BY <2>2, <3>1, GotoType
    <3>3. shown' \in [Requests -> Requests \cup {None}]
      BY <2>2 DEF TypeOK
    <3> QED BY <1>6, <2>2, <3>2, <3>3 DEF ReadPendKey, TypeOK, PCType
  <2> QED BY <1>6, <2>1, <2>2 DEF ReadPendKey
<1>7. CASE ReadPendVerification(r)
  <2>1. CASE NothingPending(r)
    BY <1>7, <2>1, NothingPendingType DEF ReadPendVerification, TypeOK, PCType
  <2>2. CASE Finish(r, "verify") /\ UNCHANGED <<shown, overruled>>
    BY <1>0, <1>7, <2>2, FinishType DEF ReadPendVerification, TypeOK, PCType
  <2> QED BY <1>7, <2>1, <2>2 DEF ReadPendVerification
<1>8. CASE OpenVerification(r)
  <2>1. verifications' \in [Requests -> [status : Statuses, expires : Nat]]
    <3>1. [status |-> "pending", expires |-> now + TTL] \in [status : Statuses, expires : Nat]
      BY TimeAssumption DEF TypeOK, Statuses
    <3> QED BY <1>8, <3>1 DEF OpenVerification, TypeOK
  <2>2. pend' \in Requests \cup {None} /\ raced' \subseteq Requests
    BY <1>8, OthersType DEF OpenVerification, TypeOK
  <2>3. CASE HoldOnError(r) /\ UNCHANGED shown
    BY <1>8, <2>1, <2>2, <2>3, HoldType DEF OpenVerification, TypeOK, PCType
  <2>4. CASE shown' = [shown EXCEPT ![r] = r] /\ Finish(r, "verify") /\ UNCHANGED overruled
    BY <1>0, <1>8, <2>1, <2>2, <2>4, FinishType DEF OpenVerification, TypeOK, PCType
  <2> QED BY <1>8, <2>3, <2>4 DEF OpenVerification
<1>9. CASE SpendAndAllow(r)
  <2>1. StoreType'
    BY <1>9, TakeType DEF SpendAndAllow
  <2>2. PCType' /\ overruled' \subseteq Requests
    BY <1>0, <1>9, ReleaseType, HoldType DEF SpendAndAllow
  <2> QED BY <1>9, <2>1, <2>2 DEF SpendAndAllow, TypeOK, PCType, StoreType
<1>10. CASE TakeFollowUp(r)
  <2>1. StoreType'
    BY <1>10, TakeType DEF TakeFollowUp
  <2>2. PCType' /\ overruled' \subseteq Requests
    BY <1>0, <1>10, ReleaseType, HoldType DEF TakeFollowUp
  <2>3. held' \in [Requests -> SUBSET EvidenceRecord]
    BY <1>10, LiveType DEF TakeFollowUp, TypeOK
  <2> QED BY <1>10, <2>1, <2>2, <2>3 DEF TakeFollowUp, TypeOK, PCType, StoreType
<1> QED BY <1>1, <1>2, <1>3, <1>4, <1>5, <1>6, <1>7, <1>8, <1>9, <1>10 DEF RequestStep

LEMMA ConfirmTypeOK ==
  ASSUME TypeOK, NEW c \in Confirms, ConfirmStep(c)
  PROVE  TypeOK'
<1> USE DEF ConfirmPC, GotoC
<1>1. CASE ReadVerification(c)
  BY <1>1 DEF ReadVerification, TypeOK, store, request, history
<1>2. CASE CheckToken(c)
  BY <1>2 DEF CheckToken, TypeOK, store, request, history
<1>3. CASE AddAnswer(c)
  BY <1>3, AnswerEvidenceType DEF AddAnswer, TypeOK, request, InFlight
<1>4. CASE CloseVerification(c)
  <2> DEFINE v == answer[c].vid
             status == IF answer[c].approve THEN "confirmed" ELSE "rejected"
  <2>1. verifications' \in [Requests -> [status : Statuses, expires : Nat]]
    <3>1. verifications' \in {verifications,
                              [verifications EXCEPT ![v].status = status]}
      BY <1>4 DEF CloseVerification
    <3>2. status \in Statuses
      BY DEF Statuses
    <3> HIDE DEF v, status
    <3>3. [verifications EXCEPT ![v].status = status]
            \in [Requests -> [status : Statuses, expires : Nat]]
      BY <3>2 DEF TypeOK
    <3> QED BY <3>1, <3>3 DEF TypeOK
  <2>2. cpc' \in [Confirms -> ConfirmPC] /\ raced' \subseteq Requests
    BY <1>4 DEF CloseVerification, TypeOK, InFlight
  <2> QED BY <1>4, <2>1, <2>2 DEF CloseVerification, TypeOK, request
<1> QED BY <1>1, <1>2, <1>3, <1>4 DEF ConfirmStep

\* Every variable keeps its type; in particular a request is always at one of the
\* awaits of resolve() or follow_up(), and a plan is one plan() can return.
THEOREM TypeCorrect == Spec => []TypeOK
<1>1. Init => TypeOK
  BY InitTypeOK
<1>2. TypeOK /\ [Next]_vars => TypeOK'
  <2> SUFFICES ASSUME TypeOK, [Next]_vars PROVE TypeOK'
    OBVIOUS
  <2>1. CASE \E r \in Requests : RequestStep(r)
    BY <2>1, RequestTypeOK
  <2>2. CASE \E c \in Confirms : ConfirmStep(c)
    BY <2>2, ConfirmTypeOK
  <2>3. CASE Tick
    BY <2>3, TimeAssumption DEF Tick, TypeOK, store, request, confirm, history
  <2>4. CASE UNCHANGED vars
    BY <2>4 DEF vars, TypeOK, store, request, confirm, history
  <2> QED BY <2>1, <2>2, <2>3, <2>4 DEF Next
<1> QED BY <1>1, <1>2, PTL DEF Spec

-----------------------------------------------------------------------------
(* A confirmation counts once *)

LEMMA TakeOnce ==
  ASSUME TypeOK, StoredOnce, NEW r \in Requests, TakeEvidence(r) \/ NoWrite,
         UNCHANGED cpc
  PROVE  StoredOnce' /\ \A x \in Requests : spent[x] \subseteq spent'[x]
<1>1. CASE NoWrite
  BY <1>1 DEF NoWrite, StoredOnce, Confirmations, Made
<1>2. CASE TakeEvidence(r)
  <2>1. evidence' = {} /\ spent' = [spent EXCEPT ![r] = @ \cup evidence]
    BY <1>2 DEF TakeEvidence
  <2>2. \A x \in Requests :
          spent'[x] = IF x = r THEN spent[x] \cup evidence ELSE spent[x]
    BY <2>1 DEF TypeOK
  <2>3. \A x \in Requests : \A e \in Confirmations(spent[x]') : Made(e)'
    BY <2>2 DEF StoredOnce, Confirmations, Made
  <2>4. ASSUME NEW r1 \in Requests, NEW r2 \in Requests, r1 # r2,
               NEW e \in Confirmations(spent[r1]'), e \in spent[r2]'
        PROVE  FALSE
    BY <2>2, <2>4 DEF StoredOnce, Confirmations
  <2> QED BY <2>1, <2>2, <2>3, <2>4 DEF StoredOnce, Confirmations
<1> QED BY <1>1, <1>2

\* What a step of one request leaves of the others' part of the invariant.
LEMMA OthersKeep ==
  ASSUME TypeOK, NEW r \in Requests,
         \A x \in Requests : AllowedHoldsSpent(x),
         \A x \in Requests : spent[x] \subseteq spent'[x],
         \A x \in Requests \ {r} :
           pc'[x] = pc[x] /\ outcome'[x] = outcome[x] /\ held'[x] = held[x]
  PROVE  \A x \in Requests \ {r} : AllowedHoldsSpent(x)'
BY DEF AllowedHoldsSpent, OwnDryRun

LEMMA OneRequestMoves ==
  ASSUME TypeOK, NEW r \in Requests, RequestStep(r)
  PROVE  \A x \in Requests \ {r} :
           /\ pc'[x] = pc[x] /\ outcome'[x] = outcome[x] /\ held'[x] = held[x]
           /\ ctx'[x] = ctx[x] /\ plan'[x] = plan[x] /\ shown'[x] = shown[x]
<1> USE DEF TypeOK, Goto, Finish, Release, HoldOnError
<1>1. CASE ReadEvidence(r)
  BY <1>1 DEF ReadEvidence, FirstStep, Follow
<1>2. CASE DenyRejected(r)
  BY <1>2 DEF DenyRejected
<1>3. CASE TakeAndDecide(r)
  BY <1>3 DEF TakeAndDecide, DecideOnTaken, Follow
<1>4. CASE DryRun(r)
  BY <1>4 DEF DryRun, AfterInline
<1>5. CASE StoreDryRun(r)
  BY <1>5 DEF StoreDryRun
<1>6. CASE ReadPendKey(r)
  BY <1>6 DEF ReadPendKey, NothingPending
<1>7. CASE ReadPendVerification(r)
  BY <1>7 DEF ReadPendVerification, NothingPending
<1>8. CASE OpenVerification(r)
  BY <1>8 DEF OpenVerification
<1>9. CASE SpendAndAllow(r)
  BY <1>9 DEF SpendAndAllow
<1>10. CASE TakeFollowUp(r)
  BY <1>10 DEF TakeFollowUp
<1> QED BY <1>1, <1>2, <1>3, <1>4, <1>5, <1>6, <1>7, <1>8, <1>9, <1>10 DEF RequestStep

\* A step that neither allows the request nor sends it to the last take.
LEMMA NotAllowing ==
  ASSUME NEW r, outcome'[r] # "allow", pc'[r] # "spend"
  PROVE  AllowedHoldsSpent(r)'
BY DEF AllowedHoldsSpent

LEMMA RequestOnce ==
  ASSUME TypeOK, OnceInvariant, NEW r \in Requests, RequestStep(r)
  PROVE  OnceInvariant'
<1>0. /\ StoredOnce
      /\ \A x \in Requests : AllowedHoldsSpent(x)
      /\ pc[r] # "done" => outcome[r] # "allow"
  BY DEF OnceInvariant, AllowedHoldsSpent
<1> SUFFICES /\ StoredOnce'
             /\ \A x \in Requests : spent[x] \subseteq spent'[x]
             /\ AllowedHoldsSpent(r)'
  BY <1>0, OneRequestMoves, OthersKeep DEF OnceInvariant
<1>1. CASE ReadEvidence(r)
  <2>1. StoredOnce' /\ \A x \in Requests : spent[x] \subseteq spent'[x]
    BY <1>0, <1>1 DEF ReadEvidence, store, confirm, StoredOnce, Confirmations, Made
  <2>2. outcome'[r] # "allow" /\ pc'[r] # "spend"
    BY <1>0, <1>1 DEF ReadEvidence, FirstStep, Follow, Finish, Goto, TypeOK
  <2> QED BY <2>1, <2>2, NotAllowing
<1>2. CASE DenyRejected(r)
  <2>1. StoredOnce' /\ \A x \in Requests : spent[x] \subseteq spent'[x]
    BY <1>0, <1>2, TakeOnce DEF DenyRejected, confirm
  <2>2. outcome'[r] # "allow" /\ pc'[r] # "spend"
    BY <1>2 DEF DenyRejected, Finish, Goto, TypeOK
  <2> QED BY <2>1, <2>2, NotAllowing
<1>3. CASE TakeAndDecide(r)
  <2>1. StoredOnce' /\ \A x \in Requests : spent[x] \subseteq spent'[x]
    BY <1>0, <1>3, TakeOnce DEF TakeAndDecide, confirm
  <2>2. CASE /\ TakeEvidence(r)
             /\ held' = [held EXCEPT ![r] = Live(evidence)]
             /\ Release(r, "allow")
    <3>1. held'[r] \subseteq spent'[r]
      BY <2>2 DEF TakeEvidence, Live, TypeOK
    <3>2. pc'[r] = "done"
      BY <2>2 DEF Release, Finish, Goto, TypeOK
    <3> QED BY <2>1, <3>1, <3>2 DEF AllowedHoldsSpent
  <2>3. CASE HoldOnError(r) \/ Follow(r, PlanOf(ctx[r], Live(evidence)))
    <3>1. outcome'[r] # "allow" /\ pc'[r] # "spend"
      BY <1>0, <1>3, <2>3 DEF TakeAndDecide, HoldOnError, Follow, Finish, Goto, TypeOK
    <3> QED BY <2>1, <3>1, NotAllowing
  <2> QED BY <1>3, <2>2, <2>3 DEF TakeAndDecide, DecideOnTaken
<1>4. CASE DryRun(r)
  <2>1. StoredOnce' /\ \A x \in Requests : spent[x] \subseteq spent'[x]
    BY <1>0, <1>4 DEF DryRun, store, confirm, history, StoredOnce, Confirmations, Made
  <2>2. outcome'[r] # "allow"
    BY <1>0, <1>4 DEF DryRun, AfterInline, Finish, Goto, TypeOK
  <2>3. pc'[r] = "spend" => OwnDryRun(r)' # {}
    <3> SUFFICES ASSUME pc'[r] = "spend" PROVE DryEvidence(r) \in OwnDryRun(r)'
      OBVIOUS
    <3>1. held' = [held EXCEPT ![r] = held[r] \cup {DryEvidence(r)}]
      BY <1>4 DEF DryRun, Finish, Goto, TypeOK
    <3>2. DryEvidence(r) \in held'[r]
      BY <3>1 DEF TypeOK
    <3>3. DryEvidence(r).by = r /\ DryEvidence(r).kind = "dry_run"
      BY DEF DryEvidence
    <3> QED BY <3>2, <3>3 DEF OwnDryRun
  <2> QED BY <2>1, <2>2, <2>3 DEF AllowedHoldsSpent
<1>5. CASE StoreDryRun(r)
  <2>1. Confirmations(evidence') \subseteq evidence
    BY <1>5 DEF StoreDryRun, Confirmations, OwnDryRun
  <2>2. StoredOnce' /\ \A x \in Requests : spent[x] \subseteq spent'[x]
    BY <1>0, <1>5, <2>1 DEF StoreDryRun, confirm, StoredOnce, Confirmations, Made
  <2>3. outcome'[r] # "allow" /\ pc'[r] # "spend"
    BY <1>0, <1>5 DEF StoreDryRun, HoldOnError, Finish, Goto, TypeOK
  <2> QED BY <2>2, <2>3, NotAllowing
<1>6. CASE ReadPendKey(r) \/ ReadPendVerification(r) \/ OpenVerification(r)
  <2>1. UNCHANGED <<evidence, spent, cpc>>
    BY <1>6 DEF ReadPendKey, ReadPendVerification, OpenVerification, store, confirm
  <2>2. StoredOnce' /\ \A x \in Requests : spent[x] \subseteq spent'[x]
    BY <1>0, <2>1 DEF StoredOnce, Confirmations, Made
  <2>3. outcome'[r] # "allow" /\ pc'[r] # "spend"
    BY <1>0, <1>6
       DEF ReadPendKey, ReadPendVerification, OpenVerification, NothingPending, Release,
           HoldOnError, Finish, Goto, TypeOK
  <2> QED BY <2>2, <2>3, NotAllowing
<1>7. CASE SpendAndAllow(r)
  <2>1. StoredOnce' /\ \A x \in Requests : spent[x] \subseteq spent'[x]
    BY <1>0, <1>7, TakeOnce DEF SpendAndAllow, confirm
  <2>2. OwnDryRun(r)' # {}
    BY <1>0, <1>7 DEF SpendAndAllow, AllowedHoldsSpent, OwnDryRun
  <2>3. pc'[r] = "done"
    BY <1>7 DEF SpendAndAllow, Release, HoldOnError, Finish, Goto, TypeOK
  <2> QED BY <2>1, <2>2, <2>3 DEF AllowedHoldsSpent
<1>8. CASE TakeFollowUp(r)
  <2>1. StoredOnce' /\ \A x \in Requests : spent[x] \subseteq spent'[x]
    BY <1>0, <1>8, TakeOnce DEF TakeFollowUp, confirm
  <2>2. CASE /\ TakeEvidence(r)
             /\ held' = [held EXCEPT ![r] = Live(evidence)]
             /\ Release(r, "allow")
    <3>1. held'[r] \subseteq spent'[r]
      BY <2>2 DEF TakeEvidence, Live, TypeOK
    <3>2. pc'[r] = "done"
      BY <2>2 DEF Release, Finish, Goto, TypeOK
    <3> QED BY <2>1, <3>1, <3>2 DEF AllowedHoldsSpent
  <2>3. CASE HoldOnError(r)
    <3>1. outcome'[r] # "allow" /\ pc'[r] # "spend"
      BY <2>3 DEF HoldOnError, Finish, Goto, TypeOK
    <3> QED BY <2>1, <3>1, NotAllowing
  <2> QED BY <1>8, <2>2, <2>3 DEF TakeFollowUp
<1> QED BY <1>1, <1>2, <1>3, <1>4, <1>5, <1>6, <1>7, <1>8 DEF RequestStep

LEMMA ConfirmOnce ==
  ASSUME TypeOK, OnceInvariant, NEW c \in Confirms, ConfirmStep(c)
  PROVE  OnceInvariant'
<1>1. UNCHANGED <<spent, pc, outcome, held>>
  BY DEF ConfirmStep, ReadVerification, CheckToken, AddAnswer, CloseVerification,
         request, history
<1>2. \A x \in Requests : AllowedHoldsSpent(x)'
  BY <1>1 DEF OnceInvariant, AllowedHoldsSpent, OwnDryRun
<1>3. \A e : Made(e) => Made(e)'
  <2>1. \A x \in Confirms \ {c} : cpc'[x] = cpc[x]
    BY DEF ConfirmStep, ReadVerification, CheckToken, AddAnswer, CloseVerification,
           GotoC, TypeOK
  <2>2. cpc[c] \notin {"new", "token", "add"} => cpc'[c] \notin {"new", "token", "add"}
    BY DEF ConfirmStep, ReadVerification, CheckToken, AddAnswer, CloseVerification,
           GotoC, TypeOK
  <2> QED BY <2>1, <2>2 DEF Made
<1>4. CASE UNCHANGED evidence
  BY <1>1, <1>2, <1>3, <1>4 DEF OnceInvariant, StoredOnce, Confirmations
<1>5. CASE cpc[c] = "add" /\ evidence' = evidence \cup {AnswerEvidence(c)}
           /\ cpc'[c] \in {"put", "error"}
  <2>1. PICK a : a = AnswerEvidence(c)
    OBVIOUS
  <2>2. evidence' = evidence \cup {a} /\ a.by = c
    BY <1>5, <2>1 DEF AnswerEvidence
  <2>3. ~Made(a) /\ Made(a)'
    BY <1>5, <2>2 DEF Made
  <2>4. \A x \in Requests : a \notin Confirmations(spent[x])
    BY <2>3 DEF OnceInvariant, StoredOnce
  <2>5. \A e \in Confirmations(evidence') : Made(e)'
    BY <1>3, <2>2, <2>3 DEF OnceInvariant, StoredOnce, Confirmations
  <2>6. \A x \in Requests : \A e \in Confirmations(spent[x]) : Made(e)' /\ e \notin evidence'
    BY <1>3, <2>2, <2>4 DEF OnceInvariant, StoredOnce
  <2> QED BY <1>1, <1>2, <2>5, <2>6 DEF OnceInvariant, StoredOnce, Confirmations
<1>6. UNCHANGED evidence
      \/ (cpc[c] = "add" /\ evidence' = evidence \cup {AnswerEvidence(c)}
          /\ cpc'[c] \in {"put", "error"})
  BY DEF ConfirmStep, ReadVerification, CheckToken, AddAnswer, CloseVerification, GotoC,
         TypeOK, store
<1> QED BY <1>4, <1>5, <1>6

\* take_evidence() reads and deletes in one step, so a confirmation allows one request:
\* of any number of retries, with any store failures, no two requests allowed on what
\* they took share one.
THEOREM ConfirmationOnce == Spec => []TakenConfirmationCountsOnce
<1>1. Init => OnceInvariant
  BY DEF Init, OnceInvariant, StoredOnce, AllowedHoldsSpent, Confirmations, OwnDryRun
<1>2. TypeOK /\ OnceInvariant /\ [Next]_vars => OnceInvariant'
  <2> SUFFICES ASSUME TypeOK, OnceInvariant, [Next]_vars PROVE OnceInvariant'
    OBVIOUS
  <2>1. CASE \E r \in Requests : RequestStep(r)
    BY <2>1, RequestOnce
  <2>2. CASE \E c \in Confirms : ConfirmStep(c)
    BY <2>2, ConfirmOnce
  <2>3. CASE Tick \/ UNCHANGED vars
    BY <2>3 DEF Tick, vars, store, request, confirm, history, OnceInvariant, StoredOnce,
                AllowedHoldsSpent, Confirmations, Made, OwnDryRun
  <2> QED BY <2>1, <2>2, <2>3 DEF Next
<1>3. OnceInvariant => TakenConfirmationCountsOnce
  <2> SUFFICES ASSUME OnceInvariant,
                      NEW r1 \in Requests, NEW r2 \in Requests, r1 # r2,
                      outcome[r1] = "allow", OwnDryRun(r1) = {},
                      outcome[r2] = "allow", OwnDryRun(r2) = {},
                      NEW e \in Approvals(held[r1]), e \in Approvals(held[r2])
               PROVE  FALSE
    BY DEF TakenConfirmationCountsOnce
  <2>1. e \in Confirmations(spent[r1]) /\ e \in spent[r2]
    BY DEF OnceInvariant, AllowedHoldsSpent, Approvals, Confirmations
  <2> QED BY <2>1 DEF OnceInvariant, StoredOnce
<1> QED BY <1>1, <1>2, <1>3, TypeCorrect, PTL DEF Spec

-----------------------------------------------------------------------------
(* Evidence, record and answers agree *)

\* What a request holds when it is about to be allowed, and which entry point leads there.
HoldsEnough(r) ==
  /\ pc[r] = "spend" \/ (outcome[r] = "allow" /\ ctx[r].entry = "resolve") =>
       Closed(GapOf(ctx[r], held[r]))
  /\ pc[r] \in {"take", "dry_run", "store_dry", "spend"} => ctx[r].entry = "resolve"
  /\ pc[r] = "take_follow_up" => ctx[r].entry = "follow_up"
  /\ outcome[r] = "allow" => pc[r] = "done"

\* Evidence of a person's answer is of a confirm call that got past its token and said so.
AnsweredBy(items) ==
  \A e \in Confirmations(items) :
    e.by \in Confirms /\ cpc[e.by] \in {"put", "done", "error"} /\ e.passed = answer[e.by].approve
Answered == AnsweredBy(evidence) /\ \A r \in Requests : AnsweredBy(held[r])

\* Nothing stored is lost: it is in the store, or a request took it.  A confirm call that closes its
\* verification has stored its answer, which it never changes.
Kept == evidence \cup UNION {spent[r] : r \in Requests}
HasStored(c, passed) == \E e \in Kept : e.by = c /\ e.passed = passed
StoredFirst ==
  \A c \in Confirms :
    /\ cpc[c] = "put" => HasStored(c, answer[c].approve)
    /\ cpc[c] = "new" => answer[c].vid = None

\* While nothing else writes the store, what a request read of it still holds.
Undisturbed == Requests \ (raced \cup Faulty)
StillAsRead ==
  \A r \in Undisturbed :
    /\ pc[r] \notin {"new", "deny", "done"} => Rejections(Live(evidence)) = {}
    /\ pc[r] = "pend_ver" => shown[r] = pend
    /\ pc[r] = "take_follow_up" => ~OpenNow

EvidenceInvariant ==
  /\ \A r \in Requests : HoldsEnough(r)
  /\ Answered
  /\ StoredFirst /\ AnswerHasEvidence
  /\ StillAsRead /\ UndisturbedRespectsRecord

-----------------------------------------------------------------------------
\* A plan of nothing means that nothing is short, and more evidence leaves nothing short either.
LEMMA NoPlanIsClosed ==
  ASSUME NEW c, NEW items, PlanOf(c, items) = NoPlan
  PROVE  Closed(GapOf(c, items))
<1> DEFINE gap == GapOf(c, items)
           available == Available(c)
<1>1. available \in SUBSET MachineKinds
  BY DEF Available
<1>2. PlanFor(gap, available) = {}
  BY DEF PlanOf, NoPlan
<1> HIDE DEF gap, available
<1> SUFFICES ASSUME ~Closed(gap) PROVE FALSE
  BY DEF gap
<1>3. CASE Candidates(gap, available) = {}
  BY <1>2, <1>3 DEF PlanFor, HumanPlan
<1>4. CASE Candidates(gap, available) # {}
  BY <1>1, <1>2, <1>4, CheapestIsChosen DEF Candidates
<1> QED BY <1>3, <1>4

LEMMA MoreEvidenceCloses ==
  ASSUME NEW c, NEW few, NEW many, few \subseteq many, Closed(GapWith(c, few))
  PROVE  Closed(GapWith(c, many))
BY DEF Closed, GapWith, Gap

LEMMA RequestHoldsEnough ==
  ASSUME TypeOK, NEW r \in Requests, RequestStep(r), \A x \in Requests : HoldsEnough(x)
  PROVE  \A x \in Requests : HoldsEnough(x)'
<1> USE DEF TypeOK, Goto, Finish, Release, HoldOnError
<1>0. action' = action
  BY DEF RequestStep, ReadEvidence, DenyRejected, TakeAndDecide, DryRun, StoreDryRun, ReadPendKey,
         ReadPendVerification, OpenVerification, SpendAndAllow, TakeFollowUp
<1>1. \A x \in Requests \ {r} : HoldsEnough(x)'
  BY <1>0, OneRequestMoves DEF HoldsEnough, GapOf, GapWith
<1>2. pc[r] # "done" => outcome[r] # "allow"
  BY DEF HoldsEnough
<1> SUFFICES HoldsEnough(r)'
  BY <1>1
<1>3. CASE ReadEvidence(r)
  <2>1. outcome'[r] # "allow" /\ pc'[r] \notin {"spend", "take_follow_up"}
    BY <1>2, <1>3 DEF ReadEvidence, FirstStep, Follow
  <2>2. pc'[r] \in {"take", "dry_run", "store_dry"} => ctx'[r].entry = "resolve"
    <3>1. ctx'[r].entry \in {"resolve", "follow_up"}
      BY <1>3 DEF ReadEvidence, Arrivals
    <3>2. pc'[r] \in {"take", "dry_run", "store_dry"} => ctx'[r].entry # "follow_up"
      BY <1>3 DEF ReadEvidence, FirstStep, Follow
    <3> QED BY <3>1, <3>2
  <2> QED BY <2>1, <2>2 DEF HoldsEnough
<1>4. CASE DenyRejected(r)
  <2>1. outcome'[r] = "deny" /\ pc'[r] = "done"
    BY <1>4 DEF DenyRejected
  <2> QED BY <2>1 DEF HoldsEnough
<1>5. CASE TakeAndDecide(r)
  <2> DEFINE taken == Live(evidence)
  <2>1. ctx' = ctx /\ pc[r] = "take"
    BY <1>5 DEF TakeAndDecide
  <2>2. CASE DecideOnTaken(r, taken) /\ PlanOf(ctx[r], taken) = NoPlan
    <3>1. Closed(GapOf(ctx[r], taken))
      BY <2>2, NoPlanIsClosed
    <3>2. held'[r] = taken /\ pc'[r] = "done"
      BY <2>2 DEF DecideOnTaken
    <3> QED BY <1>0, <2>1, <3>1, <3>2 DEF HoldsEnough, GapOf, GapWith
  <2>3. CASE HoldOnError(r) \/ Follow(r, PlanOf(ctx[r], taken))
    <3>1. outcome'[r] # "allow" /\ pc'[r] \notin {"spend", "take_follow_up"}
      BY <1>2, <2>1, <2>3 DEF Follow
    <3> QED BY <2>1, <3>1 DEF HoldsEnough
  <2> QED BY <1>5, <2>2, <2>3 DEF TakeAndDecide, DecideOnTaken
<1>6. CASE DryRun(r)
  <2> DEFINE items == held[r] \cup {DryEvidence(r)}
  <2>1. ctx' = ctx /\ outcome'[r] # "allow" /\ pc'[r] # "take_follow_up" /\ pc[r] = "dry_run"
    BY <1>2, <1>6 DEF DryRun, AfterInline
  <2>2. pc'[r] = "spend" => held'[r] = items /\ Closed(GapOf(ctx[r], items))
    BY <1>6 DEF DryRun, AfterInline
  <2> HIDE DEF items
  <2> QED BY <1>0, <2>1, <2>2 DEF HoldsEnough, GapOf, GapWith
<1>7. CASE StoreDryRun(r)
  <2>1. outcome'[r] # "allow" /\ pc'[r] \in {"pend_key", "done"}
    BY <1>2, <1>7 DEF StoreDryRun
  <2> QED BY <2>1 DEF HoldsEnough
<1>8. CASE ReadPendKey(r) \/ ReadPendVerification(r)
  <2>1. ctx' = ctx /\ outcome'[r] # "allow" /\ pc'[r] \in {"pend_ver", "open", "take_follow_up", "done"}
    BY <1>2, <1>8 DEF ReadPendKey, ReadPendVerification, NothingPending
  <2>2. pc'[r] = "take_follow_up" => ctx[r].entry # "resolve"
    BY <1>8 DEF ReadPendKey, ReadPendVerification, NothingPending
  <2> QED BY <2>1, <2>2 DEF HoldsEnough
<1>9. CASE OpenVerification(r)
  <2>1. outcome'[r] # "allow" /\ pc'[r] = "done"
    BY <1>2, <1>9 DEF OpenVerification
  <2> QED BY <2>1 DEF HoldsEnough
<1>10. CASE SpendAndAllow(r)
  <2>1. ctx' = ctx /\ held' = held /\ pc'[r] = "done" /\ pc[r] = "spend"
    BY <1>10 DEF SpendAndAllow
  <2> QED BY <1>0, <2>1 DEF HoldsEnough, GapOf, GapWith
<1>11. CASE TakeFollowUp(r)
  <2>1. ctx' = ctx /\ pc'[r] = "done" /\ pc[r] = "take_follow_up"
    BY <1>11 DEF TakeFollowUp
  <2> QED BY <2>1 DEF HoldsEnough
<1> QED BY <1>3, <1>4, <1>5, <1>6, <1>7, <1>8, <1>9, <1>10, <1>11 DEF RequestStep

\* What a request takes or holds beyond that is its own dry run.
LEMMA RequestEvidence ==
  ASSUME TypeOK, NEW r \in Requests, RequestStep(r)
  PROVE  /\ Confirmations(evidence') \subseteq evidence
         /\ \A x \in Requests : Confirmations(held'[x]) \subseteq evidence \cup held[x]
         /\ Kept \subseteq Kept'
         /\ UNCHANGED <<now, action, cpc, answer>>
<1> USE DEF TypeOK, store, confirm, history
<1>0. UNCHANGED <<now, action, cpc, answer>>
  BY DEF RequestStep, ReadEvidence, DenyRejected, TakeAndDecide, DryRun, StoreDryRun, ReadPendKey,
         ReadPendVerification, OpenVerification, SpendAndAllow, TakeFollowUp
<1>1. \/ evidence' = evidence /\ spent' = spent
      \/ TakeEvidence(r)
      \/ evidence' = evidence \cup OwnDryRun(r) /\ spent' = spent
  <2>1. CASE ReadEvidence(r) \/ DryRun(r) \/ ReadPendKey(r) \/ ReadPendVerification(r) \/ OpenVerification(r)
    BY <2>1 DEF ReadEvidence, DryRun, ReadPendKey, ReadPendVerification, OpenVerification
  <2>2. CASE DenyRejected(r) \/ TakeAndDecide(r) \/ SpendAndAllow(r) \/ TakeFollowUp(r)
    BY <2>2 DEF DenyRejected, TakeAndDecide, SpendAndAllow, TakeFollowUp, NoWrite
  <2>3. CASE StoreDryRun(r)
    BY <2>3 DEF StoreDryRun
  <2> QED BY <2>1, <2>2, <2>3 DEF RequestStep
<1>2. Confirmations(evidence') \subseteq evidence
  BY <1>1 DEF TakeEvidence, Confirmations, OwnDryRun
<1>3. Kept \subseteq Kept'
  <2>1. CASE TakeEvidence(r)
    <3>1. \A x \in Requests : spent'[x] = IF x = r THEN spent[x] \cup evidence ELSE spent[x]
      BY <2>1 DEF TakeEvidence
    <3>2. ASSUME NEW e \in Kept PROVE e \in Kept'
      BY <2>1, <3>1, <3>2 DEF Kept, TakeEvidence
    <3> QED BY <3>2
  <2> QED BY <1>1, <2>1 DEF Kept
<1>4. \A x \in Requests \ {r} : held'[x] = held[x]
  BY OneRequestMoves
<1>5. Confirmations(held'[r]) \subseteq evidence \cup held[r]
  <2>1. held'[r] \in {held[r], {}, Live(evidence), held[r] \cup {DryEvidence(r)}}
    <3>1. CASE ReadEvidence(r)
      BY <3>1 DEF ReadEvidence, FirstStep
    <3>2. CASE DryRun(r)
      BY <3>2 DEF DryRun
    <3>3. CASE TakeAndDecide(r) \/ TakeFollowUp(r)
      BY <3>3 DEF TakeAndDecide, DecideOnTaken, TakeFollowUp
    <3>4. CASE UNCHANGED held
      BY <3>4
    <3> QED BY <3>1, <3>2, <3>3, <3>4 DEF RequestStep, DenyRejected, StoreDryRun, ReadPendKey,
              ReadPendVerification, OpenVerification, SpendAndAllow
  <2>2. DryEvidence(r).kind # "user_confirmation"
    BY DEF DryEvidence
  <2>3. Live(evidence) \subseteq evidence
    BY DEF Live
  <2> HIDE DEF TypeOK
  <2> QED BY <2>1, <2>2, <2>3 DEF Confirmations
<1> QED BY <1>0, <1>2, <1>3, <1>4, <1>5 DEF Confirmations

LEMMA RequestAnswered ==
  ASSUME TypeOK, NEW r \in Requests, RequestStep(r), Answered, StoredFirst, AnswerHasEvidence
  PROVE  Answered' /\ StoredFirst' /\ AnswerHasEvidence'
<1>1. /\ Confirmations(evidence') \subseteq evidence
      /\ \A x \in Requests : Confirmations(held'[x]) \subseteq evidence \cup held[x]
      /\ Kept \subseteq Kept'
      /\ UNCHANGED <<cpc, answer>>
  BY RequestEvidence
<1>2. Answered'
  BY <1>1 DEF Answered, AnsweredBy, Confirmations
<1>3. StoredFirst'
  BY <1>1 DEF StoredFirst, HasStored
<1>4. \A v \in Requests : verifications'[v].status \in {"confirmed", "rejected"} =>
        verifications'[v].status = verifications[v].status
  <2>1. CASE OpenVerification(r)
    <3>1. \/ verifications' = [verifications EXCEPT ![r] = [status |-> "pending", expires |-> now + TTL]]
          \/ verifications' = verifications
      BY <2>1 DEF OpenVerification
    <3>2. DOMAIN verifications = Requests
      BY DEF TypeOK
    <3>3. \A v \in Requests : verifications'[v] = verifications[v] \/ verifications'[v].status = "pending"
      BY ONLY <3>1, <3>2
    <3> QED BY ONLY <3>3
  <2>2. CASE \/ ReadEvidence(r) \/ DenyRejected(r) \/ TakeAndDecide(r) \/ DryRun(r) \/ StoreDryRun(r)
             \/ ReadPendKey(r) \/ ReadPendVerification(r) \/ SpendAndAllow(r) \/ TakeFollowUp(r)
    <3>1. UNCHANGED verifications
      BY <2>2 DEF ReadEvidence, DenyRejected, TakeAndDecide, DryRun, StoreDryRun, ReadPendKey,
              ReadPendVerification, SpendAndAllow, TakeFollowUp, store
    <3> QED BY <3>1
  <2> QED BY <2>1, <2>2 DEF RequestStep
<1>5. AnswerHasEvidence'
  BY <1>1, <1>4 DEF AnswerHasEvidence, Kept
<1> QED BY <1>2, <1>3, <1>5

LEMMA AnswerIsKept ==
  AnswerHasEvidence <=>
    \A v \in Requests :
      verifications[v].status \in {"confirmed", "rejected"} =>
        \E c \in Confirms : answer[c].vid = v /\ HasStored(c, verifications[v].status = "confirmed")
BY DEF AnswerHasEvidence, HasStored, Kept

\* A confirm call only adds to the store, what it says itself.
LEMMA ConfirmAnswered ==
  ASSUME TypeOK, NEW c \in Confirms, ConfirmStep(c), Answered, StoredFirst, AnswerHasEvidence
  PROVE  Answered' /\ StoredFirst' /\ AnswerHasEvidence'
<1> USE DEF TypeOK, GotoC, request
<1>0. UNCHANGED <<held, spent>>
  BY DEF ConfirmStep, ReadVerification, CheckToken, AddAnswer, CloseVerification, history
<1>1. CASE ReadVerification(c)
  <2>1. UNCHANGED <<evidence, verifications>> /\ cpc[c] = "new" /\ cpc'[c] \in {"token", "closed"}
    BY <1>1 DEF ReadVerification, store
  <2>2. \A x \in Confirms \ {c} : cpc'[x] = cpc[x] /\ answer'[x] = answer[x]
    BY <1>1 DEF ReadVerification
  <2>3. answer[c].vid \notin Requests
    BY <2>1, ActorsAssumption DEF StoredFirst
  <2>4. Answered'
    BY <1>0, <2>1, <2>2 DEF Answered, AnsweredBy, Confirmations
  <2>5. StoredFirst'
    BY <1>0, <2>1, <2>2 DEF StoredFirst, HasStored, Kept
  <2>6. AnswerHasEvidence'
    <3> HIDE DEF TypeOK
    <3> SUFFICES ASSUME NEW v \in Requests, verifications[v].status \in {"confirmed", "rejected"}
                 PROVE  \E x \in Confirms : answer'[x].vid = v /\ HasStored(x, verifications[v].status = "confirmed")
      BY <1>0, <2>1 DEF AnswerHasEvidence, HasStored, Kept
    <3>1. PICK x \in Confirms : answer[x].vid = v /\ HasStored(x, verifications[v].status = "confirmed")
      BY AnswerIsKept
    <3>2. answer'[x] = answer[x]
      BY <2>2, <2>3, <3>1
    <3> QED BY <3>1, <3>2
  <2> QED BY <2>4, <2>5, <2>6
<1>2. CASE CheckToken(c)
  <2>1. UNCHANGED <<evidence, verifications, answer>> /\ cpc[c] = "token" /\ cpc'[c] \in {"add", "refused"}
    BY <1>2 DEF CheckToken, store
  <2>2. \A x \in Confirms \ {c} : cpc'[x] = cpc[x]
    BY <1>2 DEF CheckToken
  <2>3. Answered'
    BY <1>0, <2>1, <2>2 DEF Answered, AnsweredBy, Confirmations
  <2>4. StoredFirst'
    BY <1>0, <2>1, <2>2 DEF StoredFirst, HasStored, Kept
  <2>5. AnswerHasEvidence'
    BY <1>0, <2>1 DEF AnswerHasEvidence
  <2> QED BY <2>3, <2>4, <2>5
<1>3. CASE AddAnswer(c)
  <2>1. UNCHANGED <<verifications, answer>> /\ cpc[c] = "add" /\ cpc'[c] \in {"put", "error"}
    BY <1>3 DEF AddAnswer
  <2>2. \A x \in Confirms \ {c} : cpc'[x] = cpc[x]
    BY <1>3 DEF AddAnswer
  <2>3. PICK a : a = AnswerEvidence(c)
    OBVIOUS
  <2>4. a.by = c /\ a.passed = answer[c].approve
    BY <2>3 DEF AnswerEvidence
  <2>5. evidence' = evidence \cup {a} \/ (evidence' = evidence /\ cpc'[c] = "error")
    BY <1>3, <2>3 DEF AddAnswer
  <2>6. Answered'
    BY <1>0, <2>1, <2>2, <2>4, <2>5 DEF Answered, AnsweredBy, Confirmations
  <2>7. Kept \subseteq Kept' /\ (cpc'[c] = "put" => a \in Kept')
    BY <1>0, <2>5 DEF Kept
  <2>8. StoredFirst'
    BY <2>1, <2>2, <2>4, <2>7 DEF StoredFirst, HasStored
  <2>9. AnswerHasEvidence'
    BY <2>1, <2>7 DEF AnswerHasEvidence, Kept
  <2> QED BY <2>6, <2>8, <2>9
<1>4. CASE CloseVerification(c)
  <2> DEFINE v == answer[c].vid
             status == IF answer[c].approve THEN "confirmed" ELSE "rejected"
  <2>1. UNCHANGED <<evidence, answer>> /\ cpc[c] = "put" /\ cpc'[c] \in {"done", "error"}
    BY <1>4 DEF CloseVerification
  <2>2. \A x \in Confirms \ {c} : cpc'[x] = cpc[x]
    BY <1>4 DEF CloseVerification
  <2>3. Answered'
    BY <1>0, <2>1, <2>2 DEF Answered, AnsweredBy, Confirmations
  <2>4. StoredFirst'
    BY <1>0, <2>1, <2>2 DEF StoredFirst, HasStored, Kept
  <2>5. \A x \in Requests : verifications'[x].status = verifications[x].status
                            \/ (x = v /\ verifications'[x].status = status)
    <3>1. verifications' = verifications \/ verifications' = [verifications EXCEPT ![v].status = status]
      BY <1>4 DEF CloseVerification
    <3> HIDE DEF v, status
    <3>2. CASE verifications' = [verifications EXCEPT ![v].status = status]
      <4>1. \A x \in Requests \ {v} : verifications'[x] = verifications[x]
        BY <3>2
      <4>2. v \in Requests => verifications'[v].status = status
        BY <3>2
      <4> QED BY <4>1, <4>2
    <3> QED BY <3>1, <3>2
  <2>6. \E e \in Kept : e.by = c /\ e.passed = (status = "confirmed")
    BY <2>1 DEF StoredFirst, HasStored
  <2> HIDE DEF status
  <2>7. AnswerHasEvidence'
    BY <1>0, <2>1, <2>5, <2>6 DEF AnswerHasEvidence, Kept
  <2> QED BY <2>3, <2>4, <2>7
<1> QED BY <1>1, <1>2, <1>3, <1>4 DEF ConfirmStep

\* A step that writes the store marks the others that are under way.
LEMMA WritesAreMarked ==
  ASSUME TypeOK, NEW r \in Requests, RequestStep(r)
  PROVE  /\ raced \subseteq raced'
         /\ \/ UNCHANGED store
            \/ \A x \in Requests \ {r} : pc[x] \in {"new", "done"} \/ x \in raced'
<1> USE DEF store, history
<1>1. raced \subseteq Others(r) /\ \A x \in Requests \ {r} : pc[x] \in {"new", "done"} \/ x \in Others(r)
  BY DEF Others, InFlight
<1>2. CASE ReadEvidence(r) \/ DryRun(r) \/ ReadPendKey(r) \/ ReadPendVerification(r)
  BY <1>2 DEF ReadEvidence, DryRun, ReadPendKey, ReadPendVerification
<1>3. CASE DenyRejected(r) \/ TakeAndDecide(r) \/ SpendAndAllow(r) \/ TakeFollowUp(r)
  BY <1>1, <1>3 DEF DenyRejected, TakeAndDecide, SpendAndAllow, TakeFollowUp, NoWrite, TakeEvidence
<1>4. CASE StoreDryRun(r) \/ OpenVerification(r)
  BY <1>1, <1>4 DEF StoreDryRun, OpenVerification
<1> QED BY <1>2, <1>3, <1>4 DEF RequestStep

\* Whoever is about to be released, and was not disturbed, may be.
LEMMA NotForbidden ==
  ASSUME StillAsRead, NEW r \in Undisturbed, HoldsEnough(r),
         pc[r] \in {"take", "spend", "take_follow_up"}
  PROVE  ~RecordForbids(r)
BY DEF StillAsRead, HoldsEnough, RecordForbids

LEMMA RequestRespects ==
  ASSUME TypeOK, NEW r \in Requests, RequestStep(r), \A x \in Requests : HoldsEnough(x),
         StillAsRead, UndisturbedRespectsRecord
  PROVE  StillAsRead' /\ UndisturbedRespectsRecord'
<1> DEFINE Fine(x) ==
             /\ pc[x] \notin {"new", "deny", "done"} => Rejections(Live(evidence)) = {}
             /\ pc[x] = "pend_ver" => shown[x] = pend
             /\ pc[x] = "take_follow_up" => ~OpenNow
<1>0. /\ raced \subseteq raced' /\ now' = now
      /\ \/ UNCHANGED store
         \/ \A x \in Requests \ {r} : pc[x] \in {"new", "done"} \/ x \in raced'
      /\ \A x \in Requests \ {r} : pc'[x] = pc[x] /\ shown'[x] = shown[x]
  BY WritesAreMarked, OneRequestMoves, RequestEvidence
<1>1. \A x \in Requests \ {r} : x \in Undisturbed' => Fine(x)'
  <2> SUFFICES ASSUME NEW x \in Requests \ {r}, x \notin raced', x \notin Faulty PROVE Fine(x)'
    BY DEF Undisturbed
  <2>1. CASE pc[x] \in {"new", "done"}
    BY <1>0, <2>1
  <2>2. CASE UNCHANGED store
    <3>1. Fine(x)
      BY <1>0 DEF StillAsRead, Undisturbed
    <3> QED BY <1>0, <2>2, <3>1 DEF store, Rejections, Live, OpenNow, StatusNow
  <2> QED BY <1>0, <2>1, <2>2
<1> USE DEF TypeOK, Goto, Finish
<1> SUFFICES ASSUME r \notin Faulty, r \notin raced'
             PROVE  Fine(r)' /\ (r \in overruled' => r \in overruled)
  <2>1. overruled' \subseteq overruled \cup {r}
    BY DEF RequestStep, ReadEvidence, DenyRejected, TakeAndDecide, DecideOnTaken, DryRun, StoreDryRun,
           ReadPendKey, ReadPendVerification, NothingPending, OpenVerification, SpendAndAllow,
           TakeFollowUp, Release, HoldOnError, history
  <2> QED BY <1>0, <1>1, <2>1 DEF StillAsRead, UndisturbedRespectsRecord, Undisturbed
<1>2. r \in Undisturbed /\ Fine(r)
  BY <1>0 DEF StillAsRead, Undisturbed
<1> HIDE DEF TypeOK
<1>3. CASE ReadEvidence(r)
  <2>1. FirstStep(r, Live(evidence)) /\ UNCHANGED <<evidence, overruled>>
    BY <1>3 DEF ReadEvidence, store
  <2>2. Rejections(Live(evidence)) # {} => pc'[r] = "deny"
    BY <2>1 DEF FirstStep, TypeOK
  <2>3. pc'[r] \notin {"pend_ver", "take_follow_up"}
    BY <2>1 DEF FirstStep, Follow, TypeOK
  <2> QED BY <1>0, <2>1, <2>2, <2>3 DEF Live, Rejections
<1>4. CASE DenyRejected(r)
  BY <1>4 DEF DenyRejected, TypeOK
<1>5. CASE TakeAndDecide(r)
  <2>1. overruled' = overruled
    BY <1>2, <1>5, NotForbidden DEF TakeAndDecide, DecideOnTaken, Release, HoldOnError
  <2>2. (evidence' = {} /\ pc'[r] \in {"dry_run", "pend_key"}) \/ pc'[r] = "done"
    BY <1>5 DEF TakeAndDecide, DecideOnTaken, Release, HoldOnError, Follow, TakeEvidence, TypeOK
  <2> QED BY <2>1, <2>2 DEF Live, Rejections
<1>6. CASE DryRun(r)
  <2>1. UNCHANGED <<evidence, overruled>> /\ pc[r] = "dry_run" /\ pc'[r] \in {"store_dry", "spend", "done"}
    BY <1>6 DEF DryRun, AfterInline, store, history, TypeOK
  <2> QED BY <1>0, <1>2, <2>1 DEF Live, Rejections
<1>7. CASE StoreDryRun(r)
  <2>1. overruled' = overruled /\ pc[r] = "store_dry" /\ pc'[r] \in {"pend_key", "done"}
    BY <1>7 DEF StoreDryRun, HoldOnError, TypeOK
  <2>2. evidence' \subseteq evidence \cup OwnDryRun(r)
    BY <1>7 DEF StoreDryRun
  <2> QED BY <1>0, <1>2, <2>1, <2>2 DEF Live, Rejections, OwnDryRun
<1>8. CASE ReadPendKey(r) \/ ReadPendVerification(r)
  <2>1. UNCHANGED store /\ pc[r] \in {"pend_key", "pend_ver"}
    BY <1>8 DEF ReadPendKey, ReadPendVerification
  <2>2. Rejections(Live(evidence')) = {}
    BY <1>0, <1>2, <2>1 DEF store
  <2>3. \/ pend # None /\ shown'[r] = pend /\ pc'[r] = "pend_ver" /\ overruled' = overruled
        \/ pc'[r] = "done" /\ overruled' = overruled
        \/ ~OpenNow /\ NothingPending(r)
    <3>1. CASE ReadPendKey(r)
      BY <1>2, <3>1 DEF ReadPendKey, OpenNow, TypeOK
    <3>2. CASE ReadPendVerification(r)
      BY <1>2, <3>2 DEF ReadPendVerification, OpenNow, TypeOK
    <3> QED BY <1>8, <3>1, <3>2
  <2>4. CASE ~OpenNow /\ NothingPending(r)
    <3>1. ~RecordForbids(r)
      BY <1>2, <2>1, <2>4 DEF RecordForbids
    <3>2. overruled' = overruled /\ pc'[r] \in {"open", "take_follow_up", "done"}
      BY <2>4, <3>1 DEF NothingPending, Release, TypeOK
    <3> QED BY <1>0, <2>1, <2>2, <2>4, <3>2 DEF store, OpenNow, StatusNow, Rejections, Live
  <2>5. CASE pend # None /\ shown'[r] = pend /\ pc'[r] = "pend_ver" /\ overruled' = overruled
    BY <1>0, <2>1, <2>2, <2>5 DEF store, Rejections, Live
  <2> QED BY <2>3, <2>4, <2>5
<1>9. CASE OpenVerification(r)
  BY <1>9 DEF OpenVerification, HoldOnError, TypeOK
<1>10. CASE SpendAndAllow(r) \/ TakeFollowUp(r)
  <2>1. pc[r] \in {"spend", "take_follow_up"} /\ pc'[r] = "done"
    BY <1>10 DEF SpendAndAllow, TakeFollowUp, Release, HoldOnError, TypeOK
  <2>2. overruled' = overruled
    BY <1>2, <1>10, <2>1, NotForbidden DEF SpendAndAllow, TakeFollowUp, Release, HoldOnError
  <2> QED BY <2>1, <2>2
<1> QED BY <1>3, <1>4, <1>5, <1>6, <1>7, <1>8, <1>9, <1>10 DEF RequestStep

\* A confirm call that writes the store marks every request under way, and releases none.
LEMMA ConfirmRespects ==
  ASSUME TypeOK, NEW c \in Confirms, ConfirmStep(c), StillAsRead, UndisturbedRespectsRecord
  PROVE  StillAsRead' /\ UndisturbedRespectsRecord'
<1>1. UNCHANGED <<now, request, overruled>>
  BY DEF ConfirmStep, ReadVerification, CheckToken, AddAnswer, CloseVerification, request, history
<1>2. raced \subseteq raced' /\ (UNCHANGED store \/ InFlight \subseteq raced')
  BY DEF ConfirmStep, ReadVerification, CheckToken, AddAnswer, CloseVerification, store, history
<1>3. CASE UNCHANGED store
  BY <1>1, <1>2, <1>3 DEF StillAsRead, UndisturbedRespectsRecord, Undisturbed, request, store, Rejections,
                          Live, OpenNow, StatusNow
<1>4. CASE InFlight \subseteq raced'
  BY <1>1, <1>2, <1>4 DEF StillAsRead, UndisturbedRespectsRecord, Undisturbed, request, InFlight
<1> QED BY <1>2, <1>3, <1>4

\* Time only takes evidence and open questions away.
LEMMA TickRespects ==
  ASSUME TypeOK, Tick, StillAsRead, UndisturbedRespectsRecord
  PROVE  StillAsRead' /\ UndisturbedRespectsRecord'
<1>1. UNCHANGED <<store, request, history>> /\ now' = now + 1 /\ now \in Nat
  BY TimeAssumption DEF Tick, TypeOK
<1>2. Rejections(Live(evidence))' \subseteq Rejections(Live(evidence))
  BY <1>1 DEF store, Rejections, Live, TypeOK, EvidenceRecord
<1>3. OpenNow' => OpenNow
  BY <1>1 DEF store, OpenNow, StatusNow, TypeOK
<1> QED BY <1>1, <1>2, <1>3 DEF StillAsRead, UndisturbedRespectsRecord, Undisturbed, request, store, history

-----------------------------------------------------------------------------
\* Where a dry run is not enough, what closed the gap has a person's yes in it.
LEMMA AllowedIsEvident ==
  ASSUME TypeOK, EvidenceInvariant
  PROVE  AllowedOnEvidence
<1> SUFFICES ASSUME NEW r \in Requests, outcome[r] = "allow", ctx[r].entry = "resolve",
                    ~Closed(GapWith(ctx[r], {"dry_run"}))
             PROVE  \E c \in Confirms : answer[c].approve /\ cpc[c] \in {"put", "done", "error"}
  BY DEF AllowedOnEvidence, EvidenceInvariant, HoldsEnough
<1>1. Closed(GapWith(ctx[r], KindsOf(held[r])))
  BY DEF EvidenceInvariant, HoldsEnough, GapOf
<1>2. ~(KindsOf(held[r]) \subseteq {"dry_run"})
  BY <1>1, MoreEvidenceCloses
<1>3. PICK e \in held[r] : e.passed /\ e.kind # "dry_run"
  BY <1>2 DEF KindsOf
<1>4. e.kind = "user_confirmation"
  BY <1>3 DEF TypeOK, EvidenceRecord, MachineKinds
<1>5. e.by \in Confirms /\ cpc[e.by] \in {"put", "done", "error"} /\ e.passed = answer[e.by].approve
  BY <1>4 DEF EvidenceInvariant, Answered, AnsweredBy, Confirmations
<1> QED BY <1>3, <1>5

LEMMA EvidenceAgrees == Spec => []EvidenceInvariant
<1>1. Init => EvidenceInvariant
  <2> SUFFICES ASSUME Init PROVE EvidenceInvariant
    OBVIOUS
  <2>1. \A r \in Requests : HoldsEnough(r)
    BY DEF Init, HoldsEnough
  <2>2. Answered /\ StoredFirst
    BY DEF Init, Answered, AnsweredBy, Confirmations, StoredFirst
  <2>3. AnswerHasEvidence
    BY DEF Init, AnswerHasEvidence
  <2>4. StillAsRead /\ UndisturbedRespectsRecord
    BY DEF Init, StillAsRead, Undisturbed, UndisturbedRespectsRecord
  <2> QED BY <2>1, <2>2, <2>3, <2>4 DEF EvidenceInvariant
<1>2. TypeOK /\ EvidenceInvariant /\ [Next]_vars => EvidenceInvariant'
  <2> SUFFICES ASSUME TypeOK, EvidenceInvariant, [Next]_vars PROVE EvidenceInvariant'
    OBVIOUS
  <2> USE DEF EvidenceInvariant
  <2>1. CASE \E r \in Requests : RequestStep(r)
    BY <2>1, RequestHoldsEnough, RequestAnswered, RequestRespects
  <2>2. CASE \E c \in Confirms : ConfirmStep(c)
    <3>1. UNCHANGED <<action, request>>
      BY <2>2 DEF ConfirmStep, ReadVerification, CheckToken, AddAnswer, CloseVerification
    <3>2. \A r \in Requests : HoldsEnough(r)'
      BY <3>1 DEF request, HoldsEnough, GapOf, GapWith
    <3> QED BY <2>2, <3>2, ConfirmAnswered, ConfirmRespects
  <2>3. CASE Tick
    <3>1. UNCHANGED <<action, store, request, confirm, history>>
      BY <2>3 DEF Tick
    <3>2. \A r \in Requests : HoldsEnough(r)'
      BY <3>1 DEF request, HoldsEnough, GapOf, GapWith
    <3>3. Answered' /\ StoredFirst' /\ AnswerHasEvidence'
      BY <3>1 DEF store, request, confirm, history, Answered, AnsweredBy, Confirmations, StoredFirst,
                  HasStored, Kept, AnswerHasEvidence
    <3> QED BY <2>3, <3>2, <3>3, TickRespects
  <2>4. CASE UNCHANGED vars
    <3>1. UNCHANGED <<now, action, store, request, confirm, history>>
      BY <2>4 DEF vars
    <3> QED BY <3>1 DEF store, request, confirm, history, HoldsEnough, GapOf, GapWith, Answered, AnsweredBy,
              Confirmations, StoredFirst, HasStored, Kept, AnswerHasEvidence, StillAsRead, Undisturbed,
              UndisturbedRespectsRecord, Rejections, Live, OpenNow, StatusNow
  <2> QED BY <2>1, <2>2, <2>3, <2>4 DEF Next
<1> QED BY <1>1, <1>2, TypeCorrect, PTL DEF Spec

\* Nothing that went to verification is allowed on less than its gap asks for, no verification is
\* answered without stored evidence of the answer, and a rejection or an open question stands
\* against every request that nothing disturbed: for any calls, faults and lifetimes.
THEOREM EvidenceRests == Spec => []RestsOnEvidence
<1>1. TypeOK /\ EvidenceInvariant => RestsOnEvidence
  BY AllowedIsEvident DEF EvidenceInvariant, RestsOnEvidence
<1> QED BY <1>1, EvidenceAgrees, TypeCorrect, PTL

-----------------------------------------------------------------------------
(* A person is asked only when that is needed *)

\* A plan with the person in it is the cheapest there was, so every dry run it could have had falls
\* short; a dry run is under way only when it is one of the available checks.
StillNeeded(r) ==
  /\ ctx[r].entry = "resolve" /\ plan[r] \cap {"user_confirmation", "human_approval"} # {} =>
       ~Closed(GapWith(ctx[r], KindsOf(held[r]) \cup (Available(ctx[r]) \ {"user_confirmation"})))
  /\ pc[r] = "dry_run" => "dry_run" \in Available(ctx[r])
  /\ pc[r] = "new" => plan[r] = NoPlan

LEMMA PlanIsAvailable ==
  ASSUME NEW c, NEW items
  PROVE  "dry_run" \in PlanOf(c, items) => "dry_run" \in Available(c)
<1> DEFINE gap == GapOf(c, items)
           available == Available(c)
<1>1. available \in SUBSET MachineKinds
  BY DEF Available
<1>2. PlanOf(c, items) = PlanFor(gap, available)
  BY DEF PlanOf
<1> HIDE DEF gap, available
<1>3. PlanFor(gap, available) \in {NoPlan, HumanPlan} \/ PlanFor(gap, available) \in Candidates(gap, available)
  BY <1>1, CheapestIsChosen DEF PlanFor
<1>4. "dry_run" \in PlanFor(gap, available) => "dry_run" \in available
  BY <1>3 DEF NoPlan, HumanPlan, Candidates
<1> QED BY <1>2, <1>4 DEF available

LEMMA PersonIsCheapest ==
  ASSUME NEW c, NEW items, PlanOf(c, items) \cap {"user_confirmation", "human_approval"} # {}
  PROVE  ~Closed(GapWith(c, KindsOf(items) \cup (Available(c) \ {"user_confirmation"})))
<1> DEFINE gap == GapOf(c, items)
           available == Available(c)
           d == {"dry_run"}
           p == PlanFor(gap, available)
<1>1. available \in SUBSET MachineKinds /\ available \ {"user_confirmation"} \subseteq d
  BY DEF Available, MachineKinds
<1>2. p \cap {"user_confirmation", "human_approval"} # {}
  BY DEF PlanOf
<1>3. ~Closed(gap)
  BY <1>2 DEF PlanFor, NoPlan
<1>4. SUFFICES ASSUME Closed(GapWith(c, KindsOf(items) \cup (available \ {"user_confirmation"})))
               PROVE  FALSE
  OBVIOUS
<1>5. "dry_run" \in available
  <2>1. CASE available \ {"user_confirmation"} = {}
    BY <1>3, <1>4, <2>1, MoreEvidenceCloses DEF GapOf
  <2> QED BY <1>1, <2>1
<1>6. Covers(d, gap)
  <2>1. Closed(GapWith(c, KindsOf(items) \cup d))
    BY <1>1, <1>4, MoreEvidenceCloses
  <2> QED BY <2>1 DEF Covers, Closed, GapOf, GapWith, Gap
<1> HIDE DEF gap, available
<1>7. d \in Candidates(gap, available)
  BY <1>5, <1>6 DEF Candidates
<1>8. p \in Candidates(gap, available) /\ Cost(p) <= Cost(d)
  BY <1>1, <1>3, <1>7, CheapestIsChosen
<1>9. p \subseteq MachineKinds /\ "user_confirmation" \in p
  BY <1>1, <1>2, <1>8 DEF Candidates, MachineKinds
<1>10. Cost(d) = 5
  BY DEF Cost
<1>11. p = {"user_confirmation"} \/ p = MachineKinds
  <2> HIDE DEF p
  <2> QED BY <1>9 DEF MachineKinds
<1>12. Cost({"user_confirmation"}) = 500 /\ Cost(MachineKinds) = 505
  BY DEF Cost, MachineKinds
<1> HIDE DEF p, d
<1> QED BY <1>8, <1>10, <1>11, <1>12

\* A plan made on what the request then holds.
LEMMA Planned ==
  ASSUME TypeOK, NEW r \in Requests, NEW c, NEW items, ctx'[r] = c, held'[r] = items,
         plan'[r] = PlanOf(c, items), action' = action,
         pc'[r] = "dry_run" => "dry_run" \in plan'[r], pc'[r] # "new"
  PROVE  StillNeeded(r)'
<1>1. Available(c)' = Available(c)
  BY DEF Available
<1>2. "dry_run" \in plan'[r] => "dry_run" \in Available(c)
  BY PlanIsAvailable
<1>3. plan'[r] \cap {"user_confirmation", "human_approval"} # {} =>
        ~Closed(GapWith(c, KindsOf(items) \cup (Available(c) \ {"user_confirmation"})))
  BY PersonIsCheapest
<1>4. \A kinds : GapWith(c, kinds)' = GapWith(c, kinds)
  BY DEF GapWith
<1> QED BY <1>1, <1>2, <1>3, <1>4 DEF StillNeeded

LEMMA RequestStillNeeds ==
  ASSUME TypeOK, NEW r \in Requests, RequestStep(r), HoldsEnough(r), StillNeeded(r)
  PROVE  StillNeeded(r)'
<1> USE DEF TypeOK, Goto, Finish, Release, HoldOnError
<1>0. action' = action
  BY RequestEvidence
<1>1. CASE ReadEvidence(r)
  <2>1. PICK items : FirstStep(r, items)
    BY <1>1 DEF ReadEvidence
  <2> DEFINE p == PlanOf(ctx'[r], items)
  <2>2. \/ plan'[r] = NoPlan /\ pc'[r] \in {"deny", "pend_key"}
        \/ /\ plan'[r] = p /\ held'[r] = items
           /\ Goto(r, "take") \/ Follow(r, p)
    BY <1>1, <2>1 DEF ReadEvidence, FirstStep, StillNeeded
  <2>3. CASE plan'[r] = NoPlan /\ pc'[r] \in {"deny", "pend_key"}
    BY <2>3 DEF StillNeeded, NoPlan
  <2>4. CASE /\ plan'[r] = p /\ held'[r] = items
             /\ Goto(r, "take") \/ Follow(r, p)
    <3>1. pc'[r] # "new" /\ (pc'[r] = "dry_run" => "dry_run" \in p)
      BY <2>4 DEF Follow
    <3> QED BY <1>0, <2>4, <3>1, Planned
  <2> QED BY <2>2, <2>3, <2>4
<1>2. CASE TakeAndDecide(r) /\ DecideOnTaken(r, Live(evidence))
  <2> DEFINE items == Live(evidence)
             p == PlanOf(ctx[r], items)
  <2>1. ctx'[r] = ctx[r] /\ held'[r] = items /\ plan'[r] = p
    BY <1>2 DEF TakeAndDecide, DecideOnTaken
  <2>2. pc'[r] # "new" /\ (pc'[r] = "dry_run" => "dry_run" \in p)
    BY <1>2 DEF DecideOnTaken, Follow
  <2> QED BY <1>0, <2>1, <2>2, Planned
<1>3. CASE DryRun(r)
  <2>1. ctx' = ctx /\ plan' = plan /\ pc'[r] \notin {"new", "dry_run"} /\ pc[r] = "dry_run"
    BY <1>3 DEF DryRun, AfterInline
  <2>2. held'[r] = held[r] \/ held'[r] = held[r] \cup {DryEvidence(r)}
    BY <1>3 DEF DryRun
  <2>3. KindsOf(held'[r]) \subseteq KindsOf(held[r]) \cup {"dry_run"}
    BY <2>2 DEF KindsOf, DryEvidence
  <2> DEFINE checks == Available(ctx[r]) \ {"user_confirmation"}
  <2>4. KindsOf(held'[r]) \cup checks \subseteq KindsOf(held[r]) \cup checks
    BY <2>1, <2>3 DEF StillNeeded
  <2>5. Closed(GapWith(ctx[r], KindsOf(held'[r]) \cup checks)) => Closed(GapWith(ctx[r], KindsOf(held[r]) \cup checks))
    BY <2>4, MoreEvidenceCloses
  <2>6. /\ KindsOf(held[r])' = KindsOf(held'[r])
        /\ Available(ctx[r])' = Available(ctx[r])
        /\ \A kinds : GapWith(ctx[r], kinds)' = GapWith(ctx[r], kinds)
    BY <1>0, <2>1 DEF KindsOf, Available, GapWith
  <2> QED BY <2>1, <2>5, <2>6 DEF StillNeeded
<1>4. CASE TakeFollowUp(r)
  BY <1>4 DEF TakeFollowUp, HoldsEnough, StillNeeded
<1>5. CASE UNCHANGED <<ctx, held, plan>> /\ pc'[r] \notin {"new", "dry_run"}
  BY <1>0, <1>5 DEF StillNeeded, KindsOf, Available, GapWith
<1>6. CASE \/ TakeAndDecide(r) /\ HoldOnError(r) /\ UNCHANGED <<held, plan>>
           \/ DenyRejected(r) \/ StoreDryRun(r) \/ ReadPendKey(r) \/ ReadPendVerification(r)
           \/ OpenVerification(r) \/ SpendAndAllow(r)
  <2>1. UNCHANGED <<ctx, held, plan>> /\ pc'[r] \notin {"new", "dry_run"}
    BY <1>6 DEF TakeAndDecide, DenyRejected, StoreDryRun, ReadPendKey, ReadPendVerification, NothingPending,
                OpenVerification, SpendAndAllow
  <2> QED BY <1>5, <2>1
<1> QED BY <1>1, <1>2, <1>3, <1>4, <1>6 DEF RequestStep, TakeAndDecide

\* A step of the planner's own order: the person is in a plan only when no machine check that is
\* available would have closed the gap, also after the second plan on what was taken.
THEOREM PersonNeeded == Spec => []PersonIsNeeded
<1> DEFINE Needed == \A x \in Requests : StillNeeded(x)
<1>1. Init => Needed
  BY DEF Init, StillNeeded, NoPlan
<1>2. TypeOK /\ EvidenceInvariant /\ Needed /\ [Next]_vars => Needed'
  <2> SUFFICES ASSUME TypeOK, EvidenceInvariant, Needed, [Next]_vars, NEW x \in Requests
               PROVE  StillNeeded(x)'
    OBVIOUS
  <2>1. HoldsEnough(x) /\ StillNeeded(x)
    BY DEF EvidenceInvariant
  <2>2. CASE UNCHANGED action /\ ctx'[x] = ctx[x] /\ held'[x] = held[x] /\ plan'[x] = plan[x] /\ pc'[x] = pc[x]
    BY <2>1, <2>2 DEF StillNeeded, KindsOf, Available, GapWith
  <2>3. ASSUME NEW r \in Requests, RequestStep(r) PROVE StillNeeded(x)'
    BY <2>1, <2>2, <2>3, RequestStillNeeds, RequestEvidence, OneRequestMoves
  <2>4. CASE (\E c \in Confirms : ConfirmStep(c)) \/ Tick \/ UNCHANGED vars
    <3>1. UNCHANGED <<action, request>>
      BY <2>4 DEF ConfirmStep, ReadVerification, CheckToken, AddAnswer, CloseVerification, Tick, vars
    <3> QED BY <2>2, <3>1 DEF request
  <2> QED BY <2>3, <2>4 DEF Next
<1>3. Needed => PersonIsNeeded
  BY DEF PersonIsNeeded, StillNeeded
<1>4. Spec => []EvidenceInvariant
  BY EvidenceAgrees
<1> QED BY <1>1, <1>2, <1>3, <1>4, TypeCorrect, PTL DEF Spec
=============================================================================
