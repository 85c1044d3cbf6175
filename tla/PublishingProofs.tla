-------------------------- MODULE PublishingProofs --------------------------
(***************************************************************************)
(* Proofs about Publishing, for every set of calls, keys and contents.     *)
(***************************************************************************)
EXTENDS Publishing, FiniteSetTheorems, TLAPS

Inv == TypeOK /\ HoldInvariant

\* The part of Inv that speaks of the calls, of the requests and of the rest.
CallInv ==
  /\ pc \in [Calls -> {"new"} \cup Running \cup Results]
  /\ call \in [Calls -> Call]
  /\ \A w \in Writers : WriterHolds(w)
  /\ \A d \in Deciders : DeciderHolds(d)
RequestInv ==
  /\ requests \in [Writers -> Request]
  /\ \A q \in Writers : RequestHolds(q)
SnapshotInv ==
  /\ snapshots \subseteq Snapshot
  /\ current \in Live
  /\ IsFiniteSet(snapshots)
  /\ \A s \in snapshots : SnapshotHolds(s)
RestInv ==
  /\ working \in Docs
  /\ aged \subseteq Writers
  /\ edits \in 0..MaxEdits
  /\ edited \in BOOLEAN
  /\ overtaken \subseteq Calls
  /\ contested \subseteq Writers

LEMMA InvParts == Inv <=> CallInv /\ RequestInv /\ SnapshotInv /\ RestInv
BY DEF Inv, TypeOK, HoldInvariant, CallInv, RequestInv, SnapshotInv, RestInv

LEMMA InvPartsNext == Inv' <=> CallInv' /\ RequestInv' /\ SnapshotInv' /\ RestInv'
BY DEF Inv, TypeOK, HoldInvariant, CallInv, RequestInv, SnapshotInv, RestInv

LEMMA InitInv == Init => Inv
<1> SUFFICES ASSUME Init PROVE Inv
  OBVIOUS
<1>1. CallInv
  BY CallsAssumption
     DEF Init, CallInv, WriterHolds, DeciderHolds, Calls, Call, NoCall, Kinds, Live, Running,
         Deciding
<1>2. RequestInv
  BY DEF Init, RequestInv, RequestHolds, Request, Statuses, Kinds, Live
<1>3. SnapshotInv
  BY FS_EmptySet DEF Init, SnapshotInv, Live
<1>4. RestInv
  BY SettingsAssumption DEF Init, RestInv
<1> QED BY <1>1, <1>2, <1>3, <1>4, InvParts

-----------------------------------------------------------------------------
(* What the steps have in common *)

\* A step that leaves the requests and the snapshots alone keeps what is said of them.
LEMMA RequestsKept ==
  ASSUME RequestInv, UNCHANGED requests
  PROVE  RequestInv'
BY DEF RequestInv, RequestHolds

LEMMA SnapshotsKept ==
  ASSUME SnapshotInv, UNCHANGED <<snapshots, current>>, UNCHANGED requests
  PROVE  SnapshotInv'
BY DEF SnapshotInv, SnapshotHolds

\* A request that exists keeps its content and its key when its status is written.
RequestsPersist ==
  \A q \in Writers :
    requests[q].status # "absent" =>
      /\ requests'[q].status # "absent"
      /\ requests'[q].doc = requests[q].doc
      /\ requests'[q].key = requests[q].key

LEMMA StatusPersists ==
  ASSUME RequestInv, NEW q \in Writers, NEW status \in Statuses \ {"absent"},
         requests[q].status # "absent", PutStatus(q, status)
  PROVE  RequestInv' /\ RequestsPersist
<1>1. requests' \in [Writers -> Request]
  BY DEF RequestInv, PutStatus, Request
<1>2. \A x \in Writers :
        /\ requests'[x].doc = requests[x].doc
        /\ requests'[x].key = requests[x].key
        /\ x # q => requests'[x].status = requests[x].status
  BY DEF RequestInv, PutStatus, Request
<1>3. requests'[q].status = status
  BY DEF RequestInv, PutStatus, Request
<1>4. RequestsPersist
  BY <1>2, <1>3 DEF RequestsPersist
<1>5. \A x \in Writers : RequestHolds(x)'
  BY <1>2, <1>3 DEF RequestHolds, RequestInv
<1> QED BY <1>1, <1>4, <1>5 DEF RequestInv

LEMMA SnapshotsPersist ==
  ASSUME SnapshotInv, RequestsPersist, UNCHANGED <<snapshots, current>>
  PROVE  SnapshotInv'
BY DEF SnapshotInv, SnapshotHolds, RequestsPersist

\* A call that moves: the others keep what they hold when the requests persist and the
\* requests of the writers that have not made one are still absent.
LEMMA CallMoves ==
  ASSUME CallInv, NEW c \in Calls, NEW where \in {"new"} \cup Running \cup Results,
         NEW carried \in Call, Read(c, carried, where), RequestsPersist,
         \A w \in Writers \ {c} : requests'[w].status = "absent" \/ requests[w].status # "absent",
         c \in Writers => WriterHolds(c)',
         c \in Deciders => DeciderHolds(c)'
  PROVE  CallInv'
<1>1. /\ pc' \in [Calls -> {"new"} \cup Running \cup Results]
      /\ call' \in [Calls -> Call]
      /\ \A x \in Calls \ {c} : pc'[x] = pc[x] /\ call'[x] = call[x]
  BY DEF CallInv, Read
<1>2. ASSUME NEW w \in Writers PROVE WriterHolds(w)'
  <2>1. CASE w = c
    BY <2>1
  <2>2. CASE w # c
    <3>1. pc'[w] = pc[w] /\ call'[w] = call[w] /\ WriterHolds(w)
      BY <1>1, <2>2 DEF CallInv, Calls
    <3>2. requests[w].status = "absent" => requests'[w].status = "absent"
      BY <2>2
    <3> QED BY <3>1, <3>2 DEF WriterHolds
  <2> QED BY <2>1, <2>2
<1>3. ASSUME NEW d \in Deciders PROVE DeciderHolds(d)'
  <2>1. CASE d = c
    BY <2>1
  <2>2. CASE d # c
    <3>1. pc'[d] = pc[d] /\ call'[d] = call[d] /\ DeciderHolds(d)
      BY <1>1, <2>2 DEF CallInv, Calls
    <3> QED BY <3>1 DEF DeciderHolds, RequestsPersist, Running, Deciding
  <2> QED BY <2>1, <2>2
<1> QED BY <1>1, <1>2, <1>3 DEF CallInv

\* The same when the step does not write the requests at all.
LEMMA CallMovesAlone ==
  ASSUME CallInv, NEW c \in Calls, NEW where \in {"new"} \cup Running \cup Results,
         NEW carried \in Call, Read(c, carried, where), UNCHANGED requests,
         c \in Writers => WriterHolds(c)',
         c \in Deciders => DeciderHolds(c)'
  PROVE  CallInv'
<1>1. RequestsPersist
  BY DEF RequestsPersist
<1> QED BY <1>1, CallMoves

\* A call that returned holds nothing, so it holds whatever it must.
LEMMA ReturnHolds ==
  ASSUME CallInv, NEW c \in Calls, NEW result \in Results, Return(c, result)
  PROVE  /\ NoCall \in Call
         /\ c \in Writers => WriterHolds(c)'
         /\ c \in Deciders => DeciderHolds(c)'
<1>1. NoCall \in Call
  BY DEF NoCall, Call, Kinds, Live
<1>2. pc'[c] = result /\ result \notin Running /\ result \notin Deciding /\ result # "new"
  BY DEF Return, Read, CallInv, Results, Running, Deciding
<1> QED BY <1>1, <1>2 DEF WriterHolds, DeciderHolds, Running, Deciding

LEMMA ReturnAlone ==
  ASSUME CallInv, NEW c \in Calls, NEW result \in Results, Return(c, result),
         UNCHANGED requests
  PROVE  CallInv'
<1>1. Read(c, NoCall, result)
  BY DEF Return
<1> QED BY <1>1, ReturnHolds, CallMovesAlone

\* goto is a read of nothing new.
LEMMA GotoIsRead ==
  ASSUME CallInv, NEW c \in Calls, NEW where, Goto(c, where)
  PROVE  Read(c, call[c], where) /\ call[c] \in Call
BY DEF CallInv, Goto, Read

-----------------------------------------------------------------------------
(* The actions *)

LEMMA EditInv == ASSUME Inv, Edit PROVE Inv'
<1> USE InvParts
<1>1. CallInv'
  BY DEF CallInv, Edit, WriterHolds, DeciderHolds
<1>2. RequestInv' /\ SnapshotInv'
  BY RequestsKept, SnapshotsKept DEF Edit
<1>3. RestInv'
  BY SettingsAssumption DEF RestInv, Edit
<1> QED BY <1>1, <1>2, <1>3, InvPartsNext

LEMMA AgeInv == ASSUME Inv, NEW q \in Writers, Age(q) PROVE Inv'
<1> USE InvParts DEF Age, database, history
<1>1. CallInv'
  BY DEF CallInv, WriterHolds, DeciderHolds
<1>2. RequestInv' /\ SnapshotInv'
  BY RequestsKept, SnapshotsKept
<1>3. RestInv'
  BY DEF RestInv
<1> QED BY <1>1, <1>2, <1>3, InvPartsNext

LEMMA BeginInv ==
  ASSUME Inv, NEW w \in Writers, NEW kind \in Kinds, NEW doc \in Docs, Begin(w, kind, doc)
  PROVE  Inv'
<1> USE InvParts DEF database, history
<1>1. RequestInv' /\ SnapshotInv' /\ RestInv'
  BY RequestsKept, SnapshotsKept DEF Begin, RestInv
<1>2. w \in Calls /\ w \notin Deciders
  BY CallsAssumption DEF Calls
<1>3. ASSUME NEW key \in Keys,
             Read(w, [NoCall EXCEPT !.key = key, !.kind = kind, !.doc = doc], "compare")
      PROVE  CallInv'
  <2> DEFINE carried == [NoCall EXCEPT !.key = key, !.kind = kind, !.doc = doc]
  <2>1. carried \in Call /\ carried.doc = doc /\ carried.key = key
    BY DEF NoCall, Call, Live
  <2>2. pc'[w] = "compare" /\ call'[w] = carried
    BY <1>2, <1>3 DEF Read, CallInv
  <2>3. requests[w].status = "absent"
    BY DEF Begin, CallInv, WriterHolds
  <2>4. WriterHolds(w)'
    BY <2>1, <2>2, <2>3 DEF WriterHolds, Deciding, Begin
  <2>5. UNCHANGED requests
    BY DEF Begin
  <2>6. "compare" \in Running
    BY DEF Running
  <2> HIDE DEF carried
  <2> QED BY <1>2, <1>3, <2>1, <2>4, <2>5, <2>6, CallMovesAlone DEF carried
<1>4. ASSUME Return(w, "failed") PROVE CallInv'
  <2>1. UNCHANGED requests /\ "failed" \in Results
    BY DEF Begin, Results
  <2> QED BY <1>2, <1>4, <2>1, ReturnAlone
<1>5. CallInv'
  BY <1>3, <1>4 DEF Begin
<1> QED BY <1>1, <1>5, InvPartsNext

LEMMA CompareWithLiveInv == ASSUME Inv, NEW w \in Writers, CompareWithLive(w) PROVE Inv'
<1> USE InvParts DEF database, history
<1>1. RequestInv' /\ SnapshotInv' /\ RestInv'
  BY RequestsKept, SnapshotsKept DEF CompareWithLive, RestInv
<1>2. w \in Calls /\ w \notin Deciders
  BY CallsAssumption DEF Calls
<1>3. UNCHANGED requests
  BY DEF CompareWithLive
<1>4. ASSUME Return(w, "unchanged") PROVE CallInv'
  BY <1>2, <1>3, <1>4, ReturnAlone DEF Results
<1>5. ASSUME NEW where \in {"base", "count"}, Goto(w, where),
             where = "count" => ~Protected \/ call[w].kind = "import"
      PROVE  CallInv'
  <2>1. Read(w, call[w], where) /\ call[w] \in Call
    BY <1>2, <1>5, GotoIsRead
  <2>2. pc'[w] = where /\ call'[w] = call[w] /\ pc[w] = "compare"
    BY <1>2, <2>1 DEF Read, CallInv, CompareWithLive
  <2>3. WriterHolds(w)'
    BY <1>3, <1>5, <2>2 DEF WriterHolds, CallInv, Running, Deciding
  <2>4. where \in Running
    BY DEF Running
  <2> QED BY <1>2, <1>3, <2>1, <2>3, <2>4, CallMovesAlone
<1>6. CallInv'
  <2>1. CASE current # None /\ current.doc = call[w].doc
    BY <2>1, <1>4 DEF CompareWithLive
  <2>2. CASE ~(current # None /\ current.doc = call[w].doc)
    <3>1. CASE Protected /\ call[w].kind # "import"
      BY <2>2, <3>1, <1>5 DEF CompareWithLive
    <3>2. CASE ~(Protected /\ call[w].kind # "import")
      BY <2>2, <3>2, <1>5 DEF CompareWithLive
    <3> QED BY <3>1, <3>2
  <2> QED BY <2>1, <2>2
<1> QED BY <1>1, <1>6, InvPartsNext

LEMMA ReadBaseInv == ASSUME Inv, NEW w \in Writers, ReadBase(w) PROVE Inv'
<1> USE InvParts DEF database, history
<1>1. RequestInv' /\ SnapshotInv' /\ RestInv'
  BY RequestsKept, SnapshotsKept DEF ReadBase, RestInv
<1>2. w \in Calls /\ w \notin Deciders
  BY CallsAssumption DEF Calls
<1> DEFINE carried == [call[w] EXCEPT !.base = current]
<1>3. carried \in Call /\ carried.doc = call[w].doc /\ carried.key = call[w].key
  BY <1>2 DEF CallInv, Call, SnapshotInv
<1>4. Read(w, carried, "request") /\ UNCHANGED requests /\ pc[w] = "base"
  BY DEF ReadBase
<1> HIDE DEF carried
<1>5. pc'[w] = "request" /\ call'[w] = carried
  BY <1>2, <1>4 DEF Read, CallInv
<1>6. WriterHolds(w)'
  BY <1>3, <1>4, <1>5 DEF WriterHolds, CallInv, Running, Deciding
<1>7. CallInv'
  BY <1>2, <1>3, <1>4, <1>6, CallMovesAlone DEF Running
<1> QED BY <1>1, <1>7, InvPartsNext

\* Nobody decides a request before it is there.
LEMMA AddRequestInv == ASSUME Inv, NEW w \in Writers, AddRequest(w) PROVE Inv'
<1> USE InvParts DEF history
<1>1. RestInv'
  BY DEF AddRequest, RestInv
<1>2. w \in Calls /\ w \notin Deciders
  BY CallsAssumption DEF Calls
<1>3. pc[w] = "request" /\ requests[w].status = "absent" /\ call[w].doc \in Docs /\ call[w].key \in Keys
  BY DEF AddRequest, CallInv, WriterHolds, Running
<1>4. \A q \in Writers \ {w} : requests'[q] = requests[q]
  BY DEF AddRequest, RequestInv
<1>5. RequestsPersist
  BY <1>3, <1>4 DEF RequestsPersist
<1>6. requests'[w] = [status |-> "pending", kind |-> call[w].kind, doc |-> call[w].doc,
                      base |-> call[w].base, key |-> call[w].key]
  BY DEF AddRequest, RequestInv
<1>7. requests'[w] \in Request
  BY <1>2, <1>6 DEF CallInv, Call, Request, Statuses
<1>8. requests' \in [Writers -> Request]
  BY <1>7 DEF AddRequest, RequestInv
<1>9. RequestInv'
  BY <1>3, <1>4, <1>6, <1>8 DEF RequestInv, RequestHolds
<1>10. SnapshotInv'
  BY <1>5, SnapshotsPersist DEF AddRequest
<1>11. Return(w, "requested") /\ "requested" \in Results
  BY DEF AddRequest, Results
<1>12. CallInv'
  <2>1. Read(w, NoCall, "requested")
    BY <1>11 DEF Return
  <2> QED BY <1>2, <1>4, <1>5, <1>11, <2>1, ReturnHolds, CallMoves
<1> QED BY <1>1, <1>9, <1>10, <1>12, InvPartsNext

LEMMA CountSnapshotsInv == ASSUME Inv, NEW c \in Calls, CountSnapshots(c) PROVE Inv'
<1> USE InvParts DEF database, history
<1>1. RequestInv' /\ SnapshotInv' /\ RestInv'
  BY RequestsKept, SnapshotsKept DEF CountSnapshots, RestInv
<1>2. Sequence \in Nat
  BY FS_CardinalityType DEF Sequence, SnapshotInv
<1> DEFINE carried == [call[c] EXCEPT !.number = Sequence]
<1>3. carried \in Call /\ carried = [call[c] EXCEPT !.number = carried.number]
  BY <1>2 DEF CallInv, Call
<1>4. /\ carried.doc = call[c].doc /\ carried.key = call[c].key
      /\ carried.request = call[c].request /\ carried.kind = call[c].kind
  BY DEF CallInv, Call
<1>5. Read(c, carried, "commit") /\ UNCHANGED requests /\ pc[c] = "count"
  BY DEF CountSnapshots
<1> HIDE DEF carried
<1>6. pc'[c] = "commit" /\ call'[c] = carried
  BY <1>5 DEF Read, CallInv
<1>7. c \in Writers => WriterHolds(c)'
  BY <1>4, <1>5, <1>6 DEF WriterHolds, CallInv, Running, Deciding
<1>8. c \in Deciders => DeciderHolds(c)'
  BY <1>4, <1>5, <1>6 DEF DeciderHolds, CallInv, Running, Deciding
<1>9. CallInv'
  BY <1>3, <1>5, <1>7, <1>8, CallMovesAlone DEF Running
<1> QED BY <1>1, <1>9, InvPartsNext

\* A call that loses the race for its version writes nothing.
LEMMA ConflictInv ==
  ASSUME Inv, NEW c \in Calls, Commit(c), Taken(VersionOf(c))
  PROVE  Inv'
<1> USE InvParts DEF database, history
<1>1. Return(c, "conflict") /\ UNCHANGED requests /\ "conflict" \in Results
  BY DEF Commit, Results
<1>2. RequestInv' /\ SnapshotInv' /\ RestInv'
  BY RequestsKept, SnapshotsKept DEF Commit, RestInv
<1>3. CallInv'
  BY <1>1, ReturnAlone
<1> QED BY <1>2, <1>3, InvPartsNext

\* The snapshot of a commit obeys the two-person rule: a decider carries the content of
\* its request and another key, and a writer commits an import or is not protected.
LEMMA SnapshotByHolds ==
  ASSUME Inv, NEW c \in Calls, pc[c] = "commit"
  PROVE  SnapshotBy(c) \in Snapshot /\ SnapshotHolds(SnapshotBy(c))
<1> USE InvParts
<1>1. /\ call[c] \in Call /\ call[c].doc \in Docs /\ call[c].key \in Keys
      /\ current \in Live /\ VersionOf(c) \in Version
  <2>1. call[c] \in Call /\ pc[c] \in Running
    BY DEF CallInv, Running
  <2>2. call[c].doc \in Docs /\ call[c].key \in Keys
    <3>1. CASE c \in Writers
      BY <2>1, <3>1 DEF CallInv, WriterHolds
    <3>2. CASE c \in Deciders
      BY <2>1, <3>2 DEF CallInv, DeciderHolds, RequestInv, RequestHolds
    <3> QED BY <3>1, <3>2 DEF Calls
  <2> QED BY <2>1, <2>2 DEF SnapshotInv, VersionOf, Version, Call
<1>2. CASE c \in Deciders
  <2> DEFINE q == call[c].request
  <2>1. /\ q \in Writers /\ requests[q].status # "absent" /\ call[c].doc = requests[q].doc
        /\ call[c].key # requests[q].key /\ requests[q].key \in Keys
    BY <1>2 DEF CallInv, DeciderHolds, RequestInv, RequestHolds, Running
  <2>2. RequestOf(c) = q /\ AuthorOf(c) = requests[q].key /\ ApproverOf(c) = call[c].key
    BY <1>2 DEF RequestOf, AuthorOf, ApproverOf
  <2>3. SnapshotBy(c) \in Snapshot
    BY <1>1, <2>1, <2>2 DEF SnapshotBy, Snapshot, Call
  <2>4. SnapshotHolds(SnapshotBy(c))
    BY <1>1, <2>1, <2>2 DEF SnapshotBy, SnapshotHolds, VersionOf
  <2> QED BY <2>3, <2>4
<1>3. CASE c \in Writers
  <2>1. c \notin Deciders
    BY <1>3, CallsAssumption
  <2>2. RequestOf(c) = None /\ AuthorOf(c) = call[c].key /\ ApproverOf(c) \in Keys \cup {None}
    BY <1>1, <2>1 DEF RequestOf, AuthorOf, ApproverOf
  <2>3. SnapshotBy(c) \in Snapshot
    BY <1>1, <2>2 DEF SnapshotBy, Snapshot, Call
  <2>4. call[c].kind = "import" \/ ~Protected
    BY <1>3 DEF CallInv, WriterHolds
  <2>5. SnapshotHolds(SnapshotBy(c))
    BY <2>4 DEF SnapshotBy, SnapshotHolds
  <2> QED BY <2>3, <2>5
<1> QED BY <1>2, <1>3 DEF Calls

LEMMA CommitInv ==
  ASSUME Inv, NEW c \in Calls, Commit(c), ~Taken(VersionOf(c))
  PROVE  Inv'
<1> USE InvParts
<1>1. /\ pc[c] = "commit"
      /\ snapshots' = snapshots \cup {SnapshotBy(c)}
      /\ current' = VersionOf(c)
      /\ ResetWorkingSet(c)
      /\ c \in Deciders => PutStatus(call[c].request, "approved")
      /\ c \notin Deciders => UNCHANGED requests
      /\ edited' = FALSE
      /\ overtaken' = overtaken \cup Committing(c)
      /\ Return(c, "published")
      /\ UNCHANGED <<aged, edits, contested>>
  BY DEF Commit
<1>2. SnapshotBy(c) \in Snapshot /\ SnapshotHolds(SnapshotBy(c))
  BY <1>1, SnapshotByHolds
<1>3. VersionOf(c) \in Version /\ call[c].doc \in Docs
  <2>1. SnapshotBy(c).version = VersionOf(c)
    BY DEF SnapshotBy
  <2>2. VersionOf(c) \in Version
    BY <1>2, <2>1 DEF Snapshot
  <2> QED BY <2>2 DEF VersionOf, Version
<1>4. RequestInv' /\ RequestsPersist
  <2>1. CASE c \in Deciders
    <3>1. call[c].request \in Writers /\ requests[call[c].request].status # "absent"
      BY <1>1, <2>1 DEF CallInv, DeciderHolds, Running
    <3> QED BY <1>1, <2>1, <3>1, StatusPersists DEF Statuses
  <2>2. CASE c \notin Deciders
    BY <1>1, <2>2, RequestsKept DEF RequestsPersist
  <2> QED BY <2>1, <2>2
<1>5. SnapshotInv'
  <2>1. snapshots' \subseteq Snapshot /\ current' \in Live
    BY <1>1, <1>2, <1>3 DEF SnapshotInv, Live
  <2>2. IsFiniteSet(snapshots')
    BY <1>1, FS_AddElement DEF SnapshotInv
  <2>3. ASSUME NEW s \in snapshots' PROVE SnapshotHolds(s)'
    <3>1. SnapshotHolds(s)
      BY <1>1, <1>2 DEF SnapshotInv
    <3> QED BY <3>1, <1>4 DEF SnapshotHolds, RequestsPersist
  <2> QED BY <2>1, <2>2, <2>3 DEF SnapshotInv
<1>6. RestInv'
  BY <1>1, <1>3 DEF RestInv, ResetWorkingSet, Committing
<1>7. CallInv'
  <2>1. Read(c, NoCall, "published") /\ "published" \in Results
    BY <1>1 DEF Return, Results
  <2>2. ASSUME NEW w \in Writers \ {c}
        PROVE  requests'[w].status = "absent" \/ requests[w].status # "absent"
    <3>1. CASE c \in Deciders
      <4>1. call[c].request \in Writers /\ requests[call[c].request].status # "absent"
        BY <1>1, <3>1 DEF CallInv, DeciderHolds, Running
      <4>2. CASE w = call[c].request
        BY <4>1, <4>2
      <4>3. CASE w # call[c].request
        BY <1>1, <3>1, <4>3 DEF PutStatus, RequestInv
      <4> QED BY <4>2, <4>3
    <3>2. CASE c \notin Deciders
      BY <1>1, <3>2
    <3> QED BY <3>1, <3>2
  <2> QED BY <1>1, <1>4, <2>1, <2>2, ReturnHolds, CallMoves
<1> QED BY <1>4, <1>5, <1>6, <1>7, InvPartsNext

LEMMA ReadRequestInv == ASSUME Inv, NEW d \in Deciders, ReadRequest(d) PROVE Inv'
<1> USE InvParts DEF database
<1>1. UNCHANGED requests
  BY DEF ReadRequest
<1>2. RequestInv' /\ SnapshotInv'
  BY <1>1, RequestsKept, SnapshotsKept DEF ReadRequest
<1>3. RestInv'
  BY DEF ReadRequest, RestInv
<1>4. d \in Calls /\ d \notin Writers
  BY CallsAssumption DEF Calls
<1>5. PICK q \in Writers, key \in Keys, approve \in BOOLEAN :
        /\ requests[q].status # "absent"
        /\ IF Open(q) /\ (q \in aged \/ ~approve \/ OtherKey(q, key))
           THEN Read(d, [NoCall EXCEPT !.request = q, !.key = key, !.kind = requests[q].kind,
                                       !.doc = requests[q].doc, !.base = requests[q].base],
                     FirstLook(q, approve))
           ELSE Return(d, "failed")
  BY DEF ReadRequest
<1>6. CASE Open(q) /\ (q \in aged \/ ~approve \/ OtherKey(q, key))
  <2> DEFINE carried == [NoCall EXCEPT !.request = q, !.key = key, !.kind = requests[q].kind,
                                       !.doc = requests[q].doc, !.base = requests[q].base]
             where == FirstLook(q, approve)
  <2>1. requests[q] \in Request /\ requests[q].doc \in Docs /\ requests[q].key \in Keys
    BY <1>5 DEF RequestInv, RequestHolds
  <2>2. /\ carried \in Call /\ carried.request = q /\ carried.doc = requests[q].doc
        /\ carried.key = key
    BY <2>1 DEF NoCall, Call, Request
  <2>3. where \in {"expire", "reject", "check"}
    BY DEF FirstLook
  <2>4. where = "check" => key # requests[q].key
    <3>1. CASE q \in aged
      BY <3>1 DEF FirstLook
    <3>2. CASE q \notin aged /\ ~approve
      BY <3>2 DEF FirstLook
    <3>3. CASE q \notin aged /\ approve
      BY <1>6, <3>3 DEF OtherKey
    <3> QED BY <3>1, <3>2, <3>3
  <2>5. Read(d, carried, where)
    BY <1>5, <1>6
  <2> HIDE DEF carried, where
  <2>6. pc'[d] = where /\ call'[d] = carried
    BY <1>4, <2>5 DEF Read, CallInv
  <2>7. DeciderHolds(d)'
    BY <1>1, <1>5, <2>2, <2>3, <2>4, <2>6 DEF DeciderHolds
  <2>8. where \in Running
    BY <2>3 DEF Running, Deciding
  <2>9. CallInv'
    BY <1>1, <1>4, <2>2, <2>5, <2>7, <2>8, CallMovesAlone
  <2> QED BY <1>2, <1>3, <2>9, InvPartsNext
<1>7. CASE ~(Open(q) /\ (q \in aged \/ ~approve \/ OtherKey(q, key)))
  <2>1. Return(d, "failed") /\ "failed" \in Results
    BY <1>5, <1>7 DEF Results
  <2>2. CallInv'
    BY <1>1, <1>4, <2>1, ReturnAlone
  <2> QED BY <1>2, <1>3, <2>2, InvPartsNext
<1> QED BY <1>6, <1>7

LEMMA PutDecisionInv ==
  ASSUME Inv, NEW d \in Deciders, NEW where \in Deciding,
         NEW status \in {"expired", "rejected", "stale"}, NEW result \in Results,
         PutDecision(d, where, status, result)
  PROVE  Inv'
<1> USE InvParts DEF history
<1> DEFINE q == call[d].request
<1>1. d \in Calls /\ d \notin Writers
  BY CallsAssumption DEF Calls
<1>2. q \in Writers /\ requests[q].status # "absent" /\ PutStatus(q, status) /\ Return(d, result)
  BY DEF PutDecision, CallInv, DeciderHolds, Running
<1> HIDE DEF q
<1>3. RequestInv' /\ RequestsPersist
  BY <1>2, StatusPersists DEF Statuses
<1>4. SnapshotInv' /\ RestInv'
  BY <1>3, SnapshotsPersist DEF PutDecision, RestInv
<1>5. Read(d, NoCall, result)
  BY <1>2 DEF Return
<1>6. \A w \in Writers : requests'[w].status = "absent" \/ requests[w].status # "absent"
  BY <1>2 DEF PutStatus, RequestInv
<1>7. CallInv'
  BY <1>1, <1>2, <1>3, <1>5, <1>6, ReturnHolds, CallMoves
<1> QED BY <1>3, <1>4, <1>7, InvPartsNext

\* The checks of approve(): a decider goes on with what it holds, or returns.
LEMMA CheckInv ==
  ASSUME Inv, NEW d \in Deciders, CheckBase(d) \/ RecheckBase(d)
  PROVE  Inv'
<1> USE InvParts DEF database, history
<1>1. UNCHANGED requests
  BY DEF CheckBase, RecheckBase
<1>2. RequestInv' /\ SnapshotInv' /\ RestInv'
  BY <1>1, RequestsKept, SnapshotsKept DEF CheckBase, RecheckBase, RestInv
<1>3. d \in Calls /\ d \notin Writers
  BY CallsAssumption DEF Calls
<1>4. pc[d] \in {"check", "recheck"}
  BY DEF CheckBase, RecheckBase
<1>5. \/ \E where \in {"recheck", "stale", "count"} : Goto(d, where)
      \/ Return(d, "failed")
  BY DEF CheckBase, RecheckBase
<1>6. ASSUME NEW where \in {"recheck", "stale", "count"}, Goto(d, where) PROVE CallInv'
  <2>1. Read(d, call[d], where) /\ call[d] \in Call
    BY <1>3, <1>6, GotoIsRead
  <2>2. pc'[d] = where /\ call'[d] = call[d]
    BY <1>3, <2>1 DEF Read, CallInv
  <2>3. DeciderHolds(d)'
    BY <1>1, <1>4, <2>2 DEF DeciderHolds, CallInv, Running, Deciding
  <2>4. where \in Running
    BY DEF Running, Deciding
  <2> QED BY <1>1, <1>3, <2>1, <2>3, <2>4, CallMovesAlone
<1>7. ASSUME Return(d, "failed") PROVE CallInv'
  BY <1>1, <1>3, <1>7, ReturnAlone DEF Results
<1> QED BY <1>2, <1>5, <1>6, <1>7, InvPartsNext

-----------------------------------------------------------------------------
(* The theorems *)

LEMMA NextInv == ASSUME Inv, Next PROVE Inv'
<1>1. CASE Edit
  BY <1>1, EditInv
<1>2. ASSUME NEW q \in Writers, Age(q) PROVE Inv'
  BY <1>2, AgeInv
<1>3. ASSUME NEW w \in Writers, WriterStep(w) PROVE Inv'
  <2>1. CASE BeginPublish(w)
    <3>1. working \in Docs /\ "publish" \in Kinds
      BY DEF Inv, TypeOK, Kinds
    <3> QED BY <2>1, <3>1, BeginInv DEF BeginPublish
  <2>2. CASE BeginRollback(w)
    <3>1. PICK s \in snapshots : Begin(w, "rollback", s.version.doc)
      BY <2>2 DEF BeginRollback
    <3>2. s.version.doc \in Docs /\ "rollback" \in Kinds
      BY DEF Inv, TypeOK, Snapshot, Version, Kinds
    <3> QED BY <3>1, <3>2, BeginInv
  <2>3. CASE BeginImport(w)
    BY <2>3, BeginInv DEF BeginImport, Kinds
  <2>4. CASE CompareWithLive(w)
    BY <2>4, CompareWithLiveInv
  <2>5. CASE ReadBase(w)
    BY <2>5, ReadBaseInv
  <2>6. CASE AddRequest(w)
    BY <2>6, AddRequestInv
  <2> QED BY <1>3, <2>1, <2>2, <2>3, <2>4, <2>5, <2>6 DEF WriterStep
<1>4. ASSUME NEW d \in Deciders, DeciderStep(d) PROVE Inv'
  <2>1. CASE ReadRequest(d)
    BY <2>1, ReadRequestInv
  <2>2. CASE Expire(d)
    BY <2>2, PutDecisionInv DEF Expire, Deciding, Results
  <2>3. CASE Reject(d)
    BY <2>3, PutDecisionInv DEF Reject, Deciding, Results
  <2>4. CASE MarkStale(d)
    BY <2>4, PutDecisionInv DEF MarkStale, Deciding, Results
  <2>5. CASE CheckBase(d) \/ RecheckBase(d)
    BY <2>5, CheckInv
  <2> QED BY <1>4, <2>1, <2>2, <2>3, <2>4, <2>5 DEF DeciderStep
<1>5. ASSUME NEW c \in Calls, CountSnapshots(c) \/ Commit(c) PROVE Inv'
  BY <1>5, CountSnapshotsInv, ConflictInv, CommitInv
<1> QED BY <1>1, <1>2, <1>3, <1>4, <1>5 DEF Next

LEMMA Invariance == Spec => []Inv
<1>1. Inv /\ [Next]_vars => Inv'
  <2>1. ASSUME Inv, UNCHANGED vars PROVE Inv'
    BY <2>1
       DEF vars, database, history, Inv, TypeOK, HoldInvariant, RequestHolds, WriterHolds,
           DeciderHolds, SnapshotHolds
  <2> QED BY <2>1, NextInv
<1> QED BY <1>1, InitInv, PTL DEF Spec

\* Publishing keeps its types: no call, whenever it runs, leaves the tables or itself in a
\* state the code has no case for.
THEOREM TypeCorrect == Spec => []TypeOK
<1>1. Inv => TypeOK
  BY DEF Inv
<1> QED BY <1>1, Invariance, PTL

\* publishing.py's two-person rule, for any number of concurrent calls, keys and contents.
THEOREM TwoPersons == Spec => []TwoPersonRule
<1>1. Inv => TwoPersonRule
  BY CallsAssumption DEF Inv, HoldInvariant, SnapshotHolds, TwoPersonRule
<1> QED BY <1>1, Invariance, PTL

-----------------------------------------------------------------------------
(* LiveAsDecided *)

\* A decider carries the version its request was based on, and from its second look at
\* what is live until its commit that version is live, or it was overtaken.
BaseHolds(d) ==
  /\ pc[d] \in Running => call[d].base = requests[call[d].request].base
  /\ pc[d] \in {"count", "commit"} => current = call[d].base \/ d \in overtaken

\* A snapshot's request is there, and the snapshot replaced what that was based on.
OverHolds(s) ==
  s.request # None =>
    /\ s.request \in Writers
    /\ requests[s.request].status # "absent"
    /\ s.over = requests[s.request].base \/ s.overtaken

\* While one call decides a request the record is pending, and no other call decides it.
DecidedByOne(q) ==
  \A d \in Deciders :
    call[d].request = q =>
      /\ requests[q].status = "pending"
      /\ \A x \in Deciders \ {d} : call[x].request # q

\* One snapshot came of an approved request and none of another.
AsRecorded(q) ==
  /\ requests[q].status = "approved" =>
       \E s \in snapshots : s.request = q /\ \A t \in snapshots : t.request = q => t = s
  /\ requests[q].status # "approved" => \A t \in snapshots : t.request # q

BaseInv ==
  /\ \A d \in Deciders : BaseHolds(d)
  /\ \A s \in snapshots : OverHolds(s)
RecordInv == \A q \in Writers \ contested : DecidedByOne(q) /\ AsRecorded(q)
LiveInv == BaseInv /\ RecordInv /\ RollbackSticks

\* What the steps have in common: one call moves, and a request keeps its base.
Moves(c) == \A x \in Calls \ {c} : pc'[x] = pc[x] /\ call'[x] = call[x]
BasesPersist ==
  \A q \in Writers :
    requests[q].status # "absent" =>
      requests'[q].status # "absent" /\ requests'[q].base = requests[q].base

LEMMA ReadMoves ==
  ASSUME Inv, NEW c \in Calls, NEW where, NEW carried, Read(c, carried, where)
  PROVE  Moves(c) /\ pc'[c] = where /\ call'[c] = carried
BY DEF Read, Moves, Inv, TypeOK

LEMMA BaseMoves ==
  ASSUME Inv, BaseInv, NEW c \in Calls, Moves(c), BasesPersist,
         UNCHANGED <<current, snapshots, overtaken>>, c \in Deciders => BaseHolds(c)'
  PROVE  BaseInv'
<1>1. ASSUME NEW d \in Deciders \ {c} PROVE BaseHolds(d)'
  <2>1. pc'[d] = pc[d] /\ call'[d] = call[d] /\ BaseHolds(d)
    BY DEF Moves, Calls, BaseInv
  <2>2. pc[d] \in Running => call[d].request \in Writers /\ requests[call[d].request].status # "absent"
    BY DEF Inv, HoldInvariant, DeciderHolds
  <2> QED BY <2>1, <2>2 DEF BaseHolds, BasesPersist
<1>2. \A s \in snapshots : OverHolds(s)'
  BY DEF BaseInv, OverHolds, BasesPersist
<1> QED BY <1>1, <1>2 DEF BaseInv

LEMMA RecordMoves ==
  ASSUME RecordInv, NEW c \in Calls, Moves(c), UNCHANGED <<requests, snapshots, contested>>,
         call'[c].request \in {call[c].request, None}
  PROVE  RecordInv'
<1> SUFFICES ASSUME NEW q \in Writers \ contested PROVE DecidedByOne(q)' /\ AsRecorded(q)'
  BY DEF RecordInv
<1>1. \A d \in Deciders : call'[d].request = q => call[d].request = q
  BY CallsAssumption DEF Moves, Calls
<1>2. DecidedByOne(q) /\ AsRecorded(q)
  BY DEF RecordInv
<1> QED BY <1>1, <1>2 DEF DecidedByOne, AsRecorded

\* A step that only moves a call on.
LEMMA QuietStep ==
  ASSUME Inv, LiveInv, NEW c \in Calls, NEW where, NEW carried, Read(c, carried, where),
         UNCHANGED <<database, history>>, carried.request \in {call[c].request, None},
         c \in Deciders => BaseHolds(c)'
  PROVE  LiveInv'
<1>1. Moves(c) /\ call'[c] = carried
  BY ReadMoves
<1>2. UNCHANGED <<requests, snapshots, current, working, edited, overtaken, contested>>
  BY DEF database, history
<1>3. BaseInv'
  BY <1>1, <1>2, BaseMoves DEF BasesPersist, LiveInv
<1>4. RecordInv'
  BY <1>1, <1>2, RecordMoves DEF LiveInv
<1>5. RollbackSticks'
  BY <1>2 DEF LiveInv, RollbackSticks
<1> QED BY <1>3, <1>4, <1>5 DEF LiveInv

LEMMA QuietReturn ==
  ASSUME Inv, LiveInv, NEW c \in Calls, NEW result \in Results, Return(c, result),
         UNCHANGED <<database, history>>
  PROVE  LiveInv'
<1>1. Read(c, NoCall, result) /\ NoCall.request = None
  BY DEF Return, NoCall
<1>2. pc'[c] = result
  BY <1>1, ReadMoves
<1>3. BaseHolds(c)'
  BY <1>2 DEF BaseHolds, Running, Deciding, Results
<1> QED BY <1>1, <1>3, QuietStep

LEMMA QuietGoto ==
  ASSUME Inv, LiveInv, NEW c \in Calls, NEW where, Goto(c, where),
         UNCHANGED <<database, history>>, c \in Deciders => BaseHolds(c)'
  PROVE  LiveInv'
<1>1. Read(c, call[c], where)
  BY DEF Goto, Read, Inv, TypeOK
<1> QED BY <1>1, QuietStep

LEMMA BeginLive ==
  ASSUME Inv, LiveInv, NEW w \in Writers, NEW kind \in Kinds, NEW doc \in Docs,
         Begin(w, kind, doc)
  PROVE  LiveInv'
<1>1. w \in Calls /\ w \notin Deciders /\ UNCHANGED <<database, history>>
  BY CallsAssumption DEF Calls, Begin
<1>2. ASSUME NEW key \in Keys,
             Read(w, [NoCall EXCEPT !.key = key, !.kind = kind, !.doc = doc], "compare")
      PROVE  LiveInv'
  <2> DEFINE carried == [NoCall EXCEPT !.key = key, !.kind = kind, !.doc = doc]
  <2>1. carried.request = None
    BY DEF NoCall
  <2> HIDE DEF carried
  <2> QED BY <1>1, <1>2, <2>1, QuietStep DEF carried
<1>3. ASSUME Return(w, "failed") PROVE LiveInv'
  BY <1>1, <1>3, QuietReturn DEF Results
<1> QED BY <1>2, <1>3 DEF Begin

LEMMA CompareWithLiveLive ==
  ASSUME Inv, LiveInv, NEW w \in Writers, CompareWithLive(w) PROVE LiveInv'
<1>1. w \in Calls /\ w \notin Deciders /\ UNCHANGED <<database, history>>
  BY CallsAssumption DEF Calls, CompareWithLive
<1>2. Return(w, "unchanged") \/ Goto(w, "base") \/ Goto(w, "count")
  <2>1. CASE current # None /\ current.doc = call[w].doc
    BY <2>1 DEF CompareWithLive
  <2>2. CASE ~(current # None /\ current.doc = call[w].doc)
    BY <2>2 DEF CompareWithLive
  <2> QED BY <2>1, <2>2
<1> QED BY <1>1, <1>2, QuietReturn, QuietGoto DEF Results

LEMMA ReadBaseLive == ASSUME Inv, LiveInv, NEW w \in Writers, ReadBase(w) PROVE LiveInv'
<1>1. w \in Calls /\ w \notin Deciders /\ UNCHANGED <<database, history>>
  BY CallsAssumption DEF Calls, ReadBase
<1> DEFINE carried == [call[w] EXCEPT !.base = current]
<1>2. carried.request = call[w].request
  BY <1>1 DEF Inv, TypeOK, Call
<1>3. Read(w, carried, "request")
  BY DEF ReadBase
<1> HIDE DEF carried
<1> QED BY <1>1, <1>2, <1>3, QuietStep

\* A decider counts with the version it found live, or after it was overtaken.
LEMMA CountSnapshotsLive ==
  ASSUME Inv, LiveInv, NEW c \in Calls, CountSnapshots(c) PROVE LiveInv'
<1> DEFINE carried == [call[c] EXCEPT !.number = Sequence]
<1>1. carried.request = call[c].request /\ carried.base = call[c].base
  BY DEF Inv, TypeOK, Call
<1>2. Read(c, carried, "commit") /\ pc[c] = "count" /\ UNCHANGED <<database, history>>
  BY DEF CountSnapshots
<1> HIDE DEF carried
<1>3. pc'[c] = "commit" /\ call'[c] = carried
  BY <1>2, ReadMoves
<1>4. UNCHANGED <<requests, current, overtaken>>
  BY <1>2 DEF database, history
<1>5. c \in Deciders => BaseHolds(c)'
  BY <1>1, <1>2, <1>3, <1>4 DEF BaseHolds, LiveInv, BaseInv, Running
<1> QED BY <1>1, <1>2, <1>5, QuietStep

\* RecheckBase is where a decider learns that its base is still live.
LEMMA CheckLive ==
  ASSUME Inv, LiveInv, NEW d \in Deciders, CheckBase(d) \/ RecheckBase(d) PROVE LiveInv'
<1>1. d \in Calls /\ UNCHANGED <<database, history>> /\ pc[d] \in {"check", "recheck"}
  BY DEF Calls, CheckBase, RecheckBase
<1>2. UNCHANGED <<requests, current, overtaken>>
  BY <1>1 DEF database, history
<1>3. \/ \E where \in {"recheck", "stale", "count"} :
           Goto(d, where) /\ (where = "count" => current = call[d].base)
      \/ Return(d, "failed")
  BY DEF CheckBase, RecheckBase
<1>4. ASSUME NEW where \in {"recheck", "stale", "count"}, Goto(d, where),
             where = "count" => current = call[d].base
      PROVE  LiveInv'
  <2>1. pc'[d] = where /\ call'[d] = call[d]
    BY <1>1, <1>4 DEF Goto, Inv, TypeOK
  <2>2. pc[d] \in Running /\ BaseHolds(d)
    BY <1>1 DEF Running, Deciding, LiveInv, BaseInv
  <2>3. BaseHolds(d)'
    BY <1>2, <1>4, <2>1, <2>2 DEF BaseHolds
  <2> QED BY <1>1, <1>4, <2>3, QuietGoto
<1>5. ASSUME Return(d, "failed") PROVE LiveInv'
  BY <1>1, <1>5, QuietReturn DEF Results
<1> QED BY <1>3, <1>4, <1>5

\* Nobody decided the request before it was there, and nothing came of it.
LEMMA AddRequestLive == ASSUME Inv, LiveInv, NEW w \in Writers, AddRequest(w) PROVE LiveInv'
<1>1. w \in Calls /\ w \notin Deciders
  BY CallsAssumption DEF Calls
<1>2. requests[w].status = "absent"
  BY DEF AddRequest, Inv, HoldInvariant, WriterHolds
<1>3. /\ \A q \in Writers \ {w} : requests'[q] = requests[q]
      /\ requests'[w].status = "pending"
  BY DEF AddRequest, Inv, TypeOK
<1>4. UNCHANGED <<current, snapshots, working, edited, overtaken, contested>>
  BY DEF AddRequest, history
<1>5. Moves(w) /\ call'[w] = NoCall
  BY <1>1, ReadMoves DEF AddRequest, Return
<1>6. BaseInv'
  BY <1>1, <1>2, <1>3, <1>4, <1>5, BaseMoves DEF BasesPersist, LiveInv
<1>7. RecordInv'
  <2> SUFFICES ASSUME NEW q \in Writers \ contested PROVE DecidedByOne(q)' /\ AsRecorded(q)'
    BY <1>4 DEF RecordInv
  <2>1. DecidedByOne(q) /\ AsRecorded(q)
    BY DEF LiveInv, RecordInv
  <2>2. \A d \in Deciders : call'[d] = call[d]
    BY <1>1, <1>5 DEF Moves, Calls
  <2>3. CASE q = w
    BY <1>2, <1>3, <1>4, <2>1, <2>2, <2>3 DEF DecidedByOne, AsRecorded
  <2>4. CASE q # w
    BY <1>3, <1>4, <2>1, <2>2, <2>4 DEF DecidedByOne, AsRecorded
  <2> QED BY <2>3, <2>4
<1>8. RollbackSticks'
  BY <1>4 DEF LiveInv, RollbackSticks
<1> QED BY <1>6, <1>7, <1>8 DEF LiveInv

\* A second call that begins to decide a request contests it.
LEMMA ReadRequestLive == ASSUME Inv, LiveInv, NEW d \in Deciders, ReadRequest(d) PROVE LiveInv'
<1>1. d \in Calls /\ d \notin Writers
  BY CallsAssumption DEF Calls
<1>2. UNCHANGED <<requests, snapshots, current, working, edited, overtaken>>
  BY DEF ReadRequest, database
<1>3. PICK q \in Writers, key \in Keys, approve \in BOOLEAN :
        /\ requests[q].status # "absent"
        /\ IF Open(q) /\ (q \in aged \/ ~approve \/ OtherKey(q, key))
           THEN Read(d, [NoCall EXCEPT !.request = q, !.key = key, !.kind = requests[q].kind,
                                       !.doc = requests[q].doc, !.base = requests[q].base],
                     FirstLook(q, approve))
           ELSE Return(d, "failed")
        /\ contested' = IF BeingDecided(q) THEN contested \cup {q} ELSE contested
  BY DEF ReadRequest
<1>4. PICK carried, where :
        /\ Read(d, carried, where)
        /\ \/ carried.request = None /\ where = "failed"
           \/ /\ carried.request = q /\ Open(q) /\ carried.base = requests[q].base
              /\ where \in {"expire", "reject", "check"}
  <2>1. CASE Open(q) /\ (q \in aged \/ ~approve \/ OtherKey(q, key))
    <3> DEFINE c == [NoCall EXCEPT !.request = q, !.key = key, !.kind = requests[q].kind,
                                   !.doc = requests[q].doc, !.base = requests[q].base]
    <3>1. c.request = q /\ c.base = requests[q].base
      BY DEF NoCall
    <3>2. FirstLook(q, approve) \in {"expire", "reject", "check"}
      BY DEF FirstLook
    <3>3. Read(d, c, FirstLook(q, approve))
      BY <1>3, <2>1
    <3> HIDE DEF c
    <3> QED BY <2>1, <3>1, <3>2, <3>3
  <2>2. CASE ~(Open(q) /\ (q \in aged \/ ~approve \/ OtherKey(q, key)))
    <3>1. Read(d, NoCall, "failed") /\ NoCall.request = None
      BY <1>3, <2>2 DEF Return, NoCall
    <3> QED BY <3>1
  <2> QED BY <2>1, <2>2
<1>5. Moves(d) /\ pc'[d] = where /\ call'[d] = carried
  BY <1>1, <1>4, ReadMoves
<1>6. BaseHolds(d)'
  BY <1>2, <1>4, <1>5 DEF BaseHolds, Running, Deciding
<1>7. BaseInv'
  BY <1>1, <1>2, <1>5, <1>6, BaseMoves DEF BasesPersist, LiveInv
<1>8. RecordInv'
  <2> SUFFICES ASSUME NEW x \in Writers \ contested' PROVE DecidedByOne(x)' /\ AsRecorded(x)'
    BY DEF RecordInv
  <2>1. x \notin contested /\ (x = q => ~BeingDecided(q))
    BY <1>3
  <2>2. DecidedByOne(x) /\ AsRecorded(x)
    BY <2>1 DEF LiveInv, RecordInv
  <2>3. \A e \in Deciders \ {d} : call'[e] = call[e]
    BY <1>5 DEF Moves, Calls
  <2>4. CASE x = q
    BY <1>2, <1>4, <1>5, <2>1, <2>2, <2>3, <2>4, CallsAssumption
       DEF DecidedByOne, AsRecorded, BeingDecided, Open
  <2>5. CASE x # q
    <3>1. call'[d].request # x
      BY <1>4, <1>5, <2>5, CallsAssumption
    <3> QED BY <1>2, <2>2, <2>3, <3>1 DEF DecidedByOne, AsRecorded
  <2> QED BY <2>4, <2>5
<1>9. RollbackSticks'
  BY <1>2 DEF LiveInv, RollbackSticks
<1> QED BY <1>7, <1>8, <1>9 DEF LiveInv

\* The record as it was read, with the new status: it was pending.
LEMMA PutDecisionLive ==
  ASSUME Inv, LiveInv, NEW d \in Deciders, NEW where \in Deciding,
         NEW status \in {"expired", "rejected", "stale"}, NEW result \in Results,
         PutDecision(d, where, status, result)
  PROVE  LiveInv'
<1> DEFINE q == call[d].request
<1>1. d \in Calls /\ d \notin Writers
  BY CallsAssumption DEF Calls
<1>2. q \in Writers /\ requests[q].status # "absent"
  BY DEF PutDecision, Inv, HoldInvariant, DeciderHolds, Running
<1>3. /\ \A x \in Writers : requests'[x].base = requests[x].base
      /\ \A x \in Writers \ {q} : requests'[x] = requests[x]
      /\ requests'[q].status = status
  BY <1>2 DEF PutDecision, PutStatus, Inv, TypeOK, Request
<1>4. UNCHANGED <<current, snapshots, working, edited, overtaken, contested>>
  BY DEF PutDecision, history
<1>5. Moves(d) /\ pc'[d] = result /\ call'[d] = NoCall
  BY <1>1, ReadMoves DEF PutDecision, Return
<1>6. BaseHolds(d)'
  BY <1>5 DEF BaseHolds, Running, Deciding, Results
<1>7. BasesPersist
  BY <1>2, <1>3 DEF BasesPersist
<1>8. BaseInv'
  BY <1>1, <1>4, <1>5, <1>6, <1>7, BaseMoves DEF LiveInv
<1>9. RecordInv'
  <2> SUFFICES ASSUME NEW x \in Writers \ contested PROVE DecidedByOne(x)' /\ AsRecorded(x)'
    BY <1>4 DEF RecordInv
  <2>1. DecidedByOne(x) /\ AsRecorded(x)
    BY DEF LiveInv, RecordInv
  <2>2. \A e \in Deciders \ {d} : call'[e] = call[e]
    BY <1>5 DEF Moves, Calls
  <2>3. call'[d].request # x
    BY <1>5, CallsAssumption DEF NoCall
  <2>4. CASE x = q
    <3>1. requests[x].status = "pending" /\ \A e \in Deciders \ {d} : call[e].request # x
      BY <2>1, <2>4 DEF DecidedByOne
    <3> HIDE DEF q
    <3> QED BY <1>3, <1>4, <2>1, <2>2, <2>3, <2>4, <3>1 DEF DecidedByOne, AsRecorded
  <2>5. CASE x # q
    BY <1>3, <1>4, <2>1, <2>2, <2>3, <2>5 DEF DecidedByOne, AsRecorded
  <2> QED BY <2>4, <2>5
<1>10. RollbackSticks'
  BY <1>4 DEF LiveInv, RollbackSticks
<1> QED BY <1>8, <1>9, <1>10 DEF LiveInv

\* A commit overtakes every call between its last look and its own commit, and its version
\* is a new one, so nothing older becomes live again.
LEMMA CommitLive ==
  ASSUME Inv, LiveInv, NEW c \in Calls, Commit(c), ~Taken(VersionOf(c))
  PROVE  LiveInv'
<1> DEFINE q == call[c].request
<1>0. PICK new : new = SnapshotBy(c)
  OBVIOUS
<1>1. /\ pc[c] = "commit"
      /\ snapshots' = snapshots \cup {new}
      /\ current' = VersionOf(c)
      /\ ResetWorkingSet(c)
      /\ c \in Deciders => PutStatus(q, "approved")
      /\ c \notin Deciders => UNCHANGED requests
      /\ edited' = FALSE
      /\ overtaken' = overtaken \cup Committing(c)
      /\ Return(c, "published")
      /\ UNCHANGED contested
  BY <1>0 DEF Commit
<1>2. Moves(c) /\ pc'[c] = "published" /\ call'[c] = NoCall
  BY <1>1, ReadMoves DEF Return
<1>3. /\ new.version = VersionOf(c) /\ new.kind = call[c].kind /\ new.request = RequestOf(c)
      /\ new.over = current /\ new.overtaken = (c \in overtaken)
      /\ new.version.doc = call[c].doc
  BY <1>0 DEF SnapshotBy, VersionOf
<1>4. c \in Deciders => q \in Writers /\ requests[q].status # "absent"
  BY <1>1 DEF Inv, HoldInvariant, DeciderHolds, Running
<1>5. /\ \A x \in Writers : requests'[x].base = requests[x].base
      /\ \A x \in Writers : c \notin Deciders \/ x # q => requests'[x] = requests[x]
      /\ c \in Deciders => requests'[q].status = "approved"
  <2>1. CASE c \in Deciders
    BY <1>1, <1>4, <2>1 DEF PutStatus, Inv, TypeOK, Request
  <2>2. CASE c \notin Deciders
    BY <1>1, <2>2
  <2> QED BY <2>1, <2>2
<1>6. RequestOf(c) = IF c \in Deciders THEN q ELSE None
  BY DEF RequestOf
<1> HIDE DEF q
<1>7. BasesPersist
  BY <1>4, <1>5 DEF BasesPersist
<1>8. BaseInv'
  <2>1. ASSUME NEW d \in Deciders PROVE BaseHolds(d)'
    <3>1. CASE d = c
      BY <1>2, <3>1 DEF BaseHolds, Running, Deciding
    <3>2. CASE d # c
      <4>1. pc'[d] = pc[d] /\ call'[d] = call[d] /\ BaseHolds(d) /\ d \in Calls \ {c}
        BY <1>2, <3>2 DEF Moves, Calls, LiveInv, BaseInv
      <4>2. pc[d] \in Running =>
              call[d].request \in Writers /\ requests[call[d].request].status # "absent"
        BY DEF Inv, HoldInvariant, DeciderHolds
      <4>3. pc[d] \in {"count", "commit"} => d \in overtaken'
        BY <1>1, <4>1 DEF Committing
      <4> QED BY <1>7, <4>1, <4>2, <4>3 DEF BaseHolds, BasesPersist
    <3> QED BY <3>1, <3>2
  <2>2. ASSUME NEW s \in snapshots PROVE OverHolds(s)'
    BY <1>7 DEF LiveInv, BaseInv, OverHolds, BasesPersist
  <2>3. OverHolds(new)'
    <3>1. CASE c \in Deciders
      <4>1. current = requests[q].base \/ c \in overtaken
        BY <1>1, <3>1 DEF LiveInv, BaseInv, BaseHolds, q, Running
      <4> QED BY <1>3, <1>4, <1>6, <1>7, <3>1, <4>1 DEF OverHolds, BasesPersist
    <3>2. CASE c \notin Deciders
      BY <1>3, <1>6, <3>2 DEF OverHolds
    <3> QED BY <3>1, <3>2
  <2> QED BY <1>1, <2>1, <2>2, <2>3 DEF BaseInv
<1>9. RecordInv'
  <2> SUFFICES ASSUME NEW x \in Writers \ contested PROVE DecidedByOne(x)' /\ AsRecorded(x)'
    BY <1>1 DEF RecordInv
  <2>1. DecidedByOne(x) /\ AsRecorded(x)
    BY DEF LiveInv, RecordInv
  <2>2. \A e \in Deciders \ {c} : call'[e] = call[e]
    BY <1>2 DEF Moves, Calls
  <2>3. c \in Deciders => call'[c].request # x
    BY <1>2, CallsAssumption DEF NoCall
  <2>4. CASE c \in Deciders /\ x = q
    <3>1. requests[x].status = "pending" /\ \A e \in Deciders \ {c} : call[e].request # x
      BY <2>1, <2>4 DEF DecidedByOne, q
    <3>2. \A t \in snapshots : t.request # x
      BY <2>1, <3>1 DEF AsRecorded
    <3>3. AsRecorded(x)'
      BY <1>1, <1>3, <1>5, <1>6, <2>4, <3>2 DEF AsRecorded
    <3>4. DecidedByOne(x)'
      BY <2>2, <2>3, <3>1 DEF DecidedByOne
    <3> QED BY <3>3, <3>4
  <2>5. CASE c \notin Deciders \/ x # q
    <3>1. new.request # x
      BY <1>3, <1>6, <2>5, CallsAssumption
    <3>2. requests'[x] = requests[x]
      BY <1>5, <2>5
    <3>3. AsRecorded(x)'
      BY <1>1, <2>1, <3>1, <3>2 DEF AsRecorded
    <3>4. DecidedByOne(x)'
      BY <2>1, <2>2, <2>3, <3>2 DEF DecidedByOne
    <3> QED BY <3>3, <3>4
  <2> QED BY <2>4, <2>5
<1>10. RollbackSticks'
  <2> SUFFICES ASSUME NEW s \in snapshots', s.version = current', s.kind # "publish"
               PROVE  working' = s.version.doc
    BY DEF RollbackSticks
  <2>1. s = new
    BY <1>1, <1>3 DEF Taken
  <2>2. call[c].kind \in Kinds
    BY DEF Inv, TypeOK, Call
  <2> QED BY <1>1, <1>3, <2>1, <2>2 DEF ResetWorkingSet, Kinds
<1> QED BY <1>8, <1>9, <1>10 DEF LiveInv

LEMMA ConflictLive ==
  ASSUME Inv, LiveInv, NEW c \in Calls, Commit(c), Taken(VersionOf(c))
  PROVE  LiveInv'
BY QuietReturn DEF Commit, Results, history

LEMMA EditLive == ASSUME Inv, LiveInv, Edit PROVE LiveInv'
<1>1. /\ UNCHANGED <<requests, snapshots, current, pc, call, overtaken, contested>>
      /\ edited' = TRUE
  BY DEF Edit
<1>2. BaseInv' /\ RecordInv'
  BY <1>1 DEF LiveInv, BaseInv, BaseHolds, OverHolds, RecordInv, DecidedByOne, AsRecorded
<1> QED BY <1>1, <1>2 DEF LiveInv, RollbackSticks

LEMMA StillLive ==
  ASSUME LiveInv, UNCHANGED <<database, pc, call, history>> PROVE LiveInv'
BY DEF database, history, LiveInv, BaseInv, BaseHolds, OverHolds, RecordInv, DecidedByOne,
       AsRecorded, RollbackSticks

LEMMA NextLive == ASSUME Inv, LiveInv, Next PROVE LiveInv'
<1>1. CASE Edit
  BY <1>1, EditLive
<1>2. ASSUME NEW q \in Writers, Age(q) PROVE LiveInv'
  BY <1>2, StillLive DEF Age
<1>3. ASSUME NEW w \in Writers, WriterStep(w) PROVE LiveInv'
  <2>1. CASE BeginPublish(w)
    <3>1. working \in Docs /\ "publish" \in Kinds
      BY DEF Inv, TypeOK, Kinds
    <3> QED BY <2>1, <3>1, BeginLive DEF BeginPublish
  <2>2. CASE BeginRollback(w)
    <3>1. PICK s \in snapshots : Begin(w, "rollback", s.version.doc)
      BY <2>2 DEF BeginRollback
    <3>2. s.version.doc \in Docs /\ "rollback" \in Kinds
      BY DEF Inv, TypeOK, Snapshot, Version, Kinds
    <3> QED BY <3>1, <3>2, BeginLive
  <2>3. CASE BeginImport(w)
    BY <2>3, BeginLive DEF BeginImport, Kinds
  <2>4. CASE CompareWithLive(w)
    BY <2>4, CompareWithLiveLive
  <2>5. CASE ReadBase(w)
    BY <2>5, ReadBaseLive
  <2>6. CASE AddRequest(w)
    BY <2>6, AddRequestLive
  <2> QED BY <1>3, <2>1, <2>2, <2>3, <2>4, <2>5, <2>6 DEF WriterStep
<1>4. ASSUME NEW d \in Deciders, DeciderStep(d) PROVE LiveInv'
  <2>1. CASE ReadRequest(d)
    BY <2>1, ReadRequestLive
  <2>2. CASE Expire(d)
    BY <2>2, PutDecisionLive DEF Expire, Deciding, Results
  <2>3. CASE Reject(d)
    BY <2>3, PutDecisionLive DEF Reject, Deciding, Results
  <2>4. CASE MarkStale(d)
    BY <2>4, PutDecisionLive DEF MarkStale, Deciding, Results
  <2>5. CASE CheckBase(d) \/ RecheckBase(d)
    BY <2>5, CheckLive
  <2> QED BY <1>4, <2>1, <2>2, <2>3, <2>4, <2>5 DEF DeciderStep
<1>5. ASSUME NEW c \in Calls, CountSnapshots(c) \/ Commit(c) PROVE LiveInv'
  BY <1>5, CountSnapshotsLive, ConflictLive, CommitLive
<1> QED BY <1>1, <1>2, <1>3, <1>4, <1>5 DEF Next

LEMMA InitLive == Init => LiveInv
BY CallsAssumption
   DEF Init, LiveInv, BaseInv, BaseHolds, RecordInv, DecidedByOne, AsRecorded, RollbackSticks,
       Calls, NoCall, Running, Deciding

\* The record of a request is its snapshots.
LEMMA OneSnapshot ==
  ASSUME NEW q, AsRecorded(q)
  PROVE  Cardinality({s \in snapshots : s.request = q})
           = (IF requests[q].status = "approved" THEN 1 ELSE 0)
<1>1. CASE requests[q].status = "approved"
  <2>1. PICK s \in snapshots : s.request = q /\ \A t \in snapshots : t.request = q => t = s
    BY <1>1 DEF AsRecorded
  <2>2. {t \in snapshots : t.request = q} = {s}
    BY <2>1
  <2> QED BY <1>1, <2>2, FS_Singleton
<1>2. CASE requests[q].status # "approved"
  <2>1. {t \in snapshots : t.request = q} = {}
    BY <1>2 DEF AsRecorded
  <2> QED BY <1>2, <2>1, FS_EmptySet
<1> QED BY <1>1, <1>2

\* What publishing.py says of a commit, for any number of calls, keys and contents: an
\* approval publishes over the version its request was based on ("a concurrent publish won
\* the race" otherwise), the record of a request says whether a snapshot came of it, and
\* the next publish does not undo a rollback.
THEOREM LiveIsAsDecided == Spec => []LiveAsDecided
<1>1. Inv /\ LiveInv /\ [Next]_vars => LiveInv'
  <2>1. ASSUME Inv, LiveInv, UNCHANGED vars PROVE LiveInv'
    BY <2>1, StillLive DEF vars
  <2> QED BY <2>1, NextLive
<1>2. LiveInv => LiveAsDecided
  BY OneSnapshot
     DEF LiveInv, BaseInv, OverHolds, RecordInv, LiveAsDecided, ApprovedOnItsBase,
         DecidedAsRecorded
<1> QED BY <1>1, <1>2, InitLive, Invariance, PTL DEF Spec
=============================================================================
