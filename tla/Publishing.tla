------------------------------ MODULE Publishing ------------------------------
(***************************************************************************)
(* Publishing of policy snapshots by the control plane, for one            *)
(* environment: services/publishing.py on store/postgres.py.               *)
(*                                                                         *)
(* Writers are calls that propose content (publish, rollback, the CLI's    *)
(* import), Deciders are calls that approve or reject a publish request.   *)
(* They run concurrently on any number of replicas.  A step ends where the *)
(* code awaits the database.  PgStore.transaction() runs at PostgreSQL's   *)
(* default level, read committed: each statement sees what is committed    *)
(* when it starts, so the reads of a transaction are steps of their own    *)
(* and its writes take effect together, when it commits.                   *)
(***************************************************************************)
EXTENDS Naturals, FiniteSets
LOCAL INSTANCE TLC

CONSTANTS
  Writers,    \* calls of publish(), rollback() and import_snapshot()
  Deciders,   \* calls of approve() and reject()
  Keys,       \* platform API keys that may do either (role admin)
  Docs,       \* contents of a snapshot, as its content hash tells them apart
  Protected,  \* the environment is in two_person_environments
  MaxEdits,   \* bound on the edits of the working set
  None        \* nothing published; no request

ASSUME CallsAssumption ==
  /\ Writers \cap Deciders = {}
  /\ None \notin Writers \cup Deciders \cup Keys \cup Docs
ASSUME SettingsAssumption == Protected \in BOOLEAN /\ MaxEdits \in Nat

VARIABLES
  working,    \* the working set (table assignments)
  snapshots,  \* table snapshots
  current,    \* environment_state: the version that is live, None before the first
  requests,   \* table publish_requests; a request is named by the call that made it
  aged,       \* the requests older than publish_request_ttl_hours
  pc,         \* where each call is
  call,       \* what each call was asked, and what it has read so far
  edits,      \* number of edits so far
  edited,     \* history: the working set was edited since the last commit
  overtaken,  \* history: calls between their last look at what is live and their
              \* commit when another call committed
  contested   \* history: requests a second call began to decide before the first ended

database == <<working, snapshots, current, requests>>
history == <<edited, overtaken, contested>>
vars == <<database, aged, pc, call, edits, history>>

Calls == Writers \cup Deciders
Kinds == {"publish", "rollback", "import"}

\* snapshot_version(): the sequence number and the hash of the content.
Version == [number : Nat, doc : Docs]
Live == Version \cup {None}

Snapshot ==
  [version : Version, kind : Kinds, request : Writers \cup {None},
   author : Keys, approver : Keys \cup {None},
   over : Live,           \* history: what it replaced
   overtaken : BOOLEAN]   \* history: its call was overtaken

Statuses == {"absent", "pending", "approved", "rejected", "expired", "stale"}
Request ==
  [status : Statuses, kind : Kinds, doc : Docs \cup {None}, base : Live,
   key : Keys \cup {None}]

\* "unchanged" is the no-op of publishing what is live, "failed" any error that wrote
\* nothing (invalid document, wrong key or status, stale base), "conflict" the violated
\* unique constraint.
Deciding == {"expire", "check", "stale", "recheck", "reject"}
Running == {"compare", "base", "request", "count", "commit"} \cup Deciding
Results == {"published", "requested", "unchanged", "rejected", "failed", "conflict"}

\* What a running call carries: the request it decides, the key it came with, and the
\* content, live version and number it has read.
Call == [request : Writers \cup {None}, key : Keys \cup {None}, kind : Kinds,
         doc : Docs \cup {None}, base : Live, number : Nat]
NoCall == [request |-> None, key |-> None, kind |-> "publish", doc |-> None,
           base |-> None, number |-> 0]

-----------------------------------------------------------------------------
Goto(c, where) == pc' = [pc EXCEPT ![c] = where] /\ UNCHANGED call
Read(c, carried, where) ==
  pc' = [pc EXCEPT ![c] = where] /\ call' = [call EXCEPT ![c] = carried]
Return(c, result) == Read(c, NoCall, result)
PutStatus(q, status) == requests' = [requests EXCEPT ![q].status = status]

BeingDecided(q) == \E d \in Deciders : call[d].request = q

\* Calls whose view of what is live another commit invalidates.
Committing(c) == {x \in Calls \ {c} : pc[x] \in {"count", "commit"}}

VersionOf(c) == [number |-> call[c].number, doc |-> call[c].doc]
Taken(version) == \E s \in snapshots : s.version = version

\* count_snapshots() + 1.
Sequence == Cardinality(snapshots) + 1

-----------------------------------------------------------------------------
(* Edits of the working set and the passing of time. *)

\* services/assignments.py, any change of the set.
Edit ==
  /\ edits < MaxEdits
  /\ edits' = edits + 1
  /\ \E doc \in Docs \ {working} : working' = doc
  /\ edited' = TRUE
  /\ UNCHANGED <<snapshots, current, requests, aged, pc, call, overtaken, contested>>

Age(q) ==
  /\ requests[q].status = "pending"
  /\ q \notin aged
  /\ aged' = aged \cup {q}
  /\ UNCHANGED <<database, pc, call, edits, history>>

-----------------------------------------------------------------------------
(* Writers. *)

\* Reads the content and compiles it; a document that is not valid goes no further.
Begin(w, kind, doc) ==
  /\ pc[w] = "new"
  /\ \/ \E key \in Keys :
          Read(w, [NoCall EXCEPT !.key = key, !.kind = kind, !.doc = doc], "compare")
     \/ Return(w, "failed")
  /\ UNCHANGED <<database, aged, edits, history>>

BeginPublish(w) == Begin(w, "publish", working)
BeginRollback(w) == \E s \in snapshots : Begin(w, "rollback", s.version.doc)
BeginImport(w) == \E doc \in Docs : Begin(w, "import", doc)

\* _is_unchanged(): publishing identical content is a no-op.
CompareWithLive(w) ==
  /\ pc[w] = "compare"
  /\ IF current # None /\ current.doc = call[w].doc
     THEN Return(w, "unchanged")
     ELSE Goto(w, IF Protected /\ call[w].kind # "import" THEN "base" ELSE "count")
  /\ UNCHANGED <<database, aged, edits, history>>

\* _submit() in a protected environment: the request names the version live now.
ReadBase(w) ==
  /\ pc[w] = "base"
  /\ Read(w, [call[w] EXCEPT !.base = current], "request")
  /\ UNCHANGED <<database, aged, edits, history>>

AddRequest(w) ==
  /\ pc[w] = "request"
  /\ requests' = [requests EXCEPT ![w] =
                    [status |-> "pending", kind |-> call[w].kind, doc |-> call[w].doc,
                     base |-> call[w].base, key |-> call[w].key]]
  /\ Return(w, "requested")
  /\ UNCHANGED <<working, snapshots, current, aged, edits, history>>

-----------------------------------------------------------------------------
(* _commit(), inside the transaction of a writer or of an approval. *)

CountSnapshots(c) ==
  /\ pc[c] = "count"
  /\ Read(c, [call[c] EXCEPT !.number = Sequence], "commit")
  /\ UNCHANGED <<database, aged, edits, history>>

\* The request of a snapshot, and who approved it.
RequestOf(c) == IF c \in Deciders THEN call[c].request ELSE None
AuthorOf(c) == IF c \in Deciders THEN requests[call[c].request].key ELSE call[c].key
ApproverOf(c) ==
  IF c \in Deciders \/ call[c].kind = "import" THEN call[c].key ELSE None

SnapshotBy(c) ==
  [version |-> VersionOf(c), kind |-> call[c].kind, request |-> RequestOf(c),
   author |-> AuthorOf(c), approver |-> ApproverOf(c), over |-> current,
   overtaken |-> c \in overtaken]

\* replace_assignments(), "so the next publish does not undo the rollback".
ResetWorkingSet(c) ==
  working' = IF call[c].kind \in {"rollback", "import"} THEN call[c].doc ELSE working

\* A version taken by a transaction that committed first violates uq_snapshot_version
\* and aborts this one.
Commit(c) ==
  /\ pc[c] = "commit"
  /\ IF Taken(VersionOf(c))
     THEN Return(c, "conflict") /\ UNCHANGED <<database, edited, overtaken>>
     ELSE /\ snapshots' = snapshots \cup {SnapshotBy(c)}
          /\ current' = VersionOf(c)
          /\ ResetWorkingSet(c)
          /\ IF c \in Deciders
             THEN PutStatus(call[c].request, "approved")
             ELSE UNCHANGED requests
          /\ edited' = FALSE
          /\ overtaken' = overtaken \cup Committing(c)
          /\ Return(c, "published")
  /\ UNCHANGED <<aged, edits, contested>>

-----------------------------------------------------------------------------
(* Deciders. *)

\* _pending(): only a pending request is decided.
Open(q) == requests[q].status = "pending"

\* Mutation: a key may approve its own request.
OwnKeyToo(q, key) == TRUE
\* The two-person rule of approve().
OtherKey(q, key) == requests[q].key # key

FirstLook(q, approve) ==
  IF q \in aged THEN "expire" ELSE IF ~approve THEN "reject" ELSE "check"

ReadRequest(d) ==
  /\ pc[d] = "new"
  /\ \E q \in Writers, key \in Keys, approve \in BOOLEAN :
       /\ requests[q].status # "absent"
       /\ IF Open(q) /\ (q \in aged \/ ~approve \/ OtherKey(q, key))
          THEN Read(d, [NoCall EXCEPT !.request = q, !.key = key, !.kind = requests[q].kind,
                                      !.doc = requests[q].doc, !.base = requests[q].base],
                    FirstLook(q, approve))
          ELSE Return(d, "failed")
       /\ contested' = IF BeingDecided(q) THEN contested \cup {q} ELSE contested
  /\ UNCHANGED <<database, aged, edits, edited, overtaken>>

\* put_publish_request() writes the record as it was read, with the new status.
PutDecision(d, where, status, result) ==
  /\ pc[d] = where
  /\ PutStatus(call[d].request, status)
  /\ Return(d, result)
  /\ UNCHANGED <<working, snapshots, current, aged, edits, history>>

Expire(d) == PutDecision(d, "expire", "expired", "failed")
Reject(d) == PutDecision(d, "reject", "rejected", "rejected")
MarkStale(d) == PutDecision(d, "stale", "stale", "failed")

\* _base_matches(), before the transaction; then the content is compiled again.
CheckBase(d) ==
  /\ pc[d] = "check"
  /\ IF current = call[d].base
     THEN Goto(d, "recheck") \/ Return(d, "failed")
     ELSE Goto(d, "stale")
  /\ UNCHANGED <<database, aged, edits, history>>

\* Mutation: the check before the transaction is enough.
NoRecheck(d) ==
  /\ pc[d] = "recheck"
  /\ Goto(d, "count")
  /\ UNCHANGED <<database, aged, edits, history>>

\* "a concurrent publish won the race"
RecheckBase(d) ==
  /\ pc[d] = "recheck"
  /\ IF current = call[d].base THEN Goto(d, "count") ELSE Return(d, "failed")
  /\ UNCHANGED <<database, aged, edits, history>>

-----------------------------------------------------------------------------
Init ==
  /\ working \in Docs
  /\ snapshots = {}
  /\ current = None
  /\ requests = [w \in Writers |-> [status |-> "absent", kind |-> "publish", doc |-> None,
                                    base |-> None, key |-> None]]
  /\ aged = {}
  /\ pc = [c \in Calls |-> "new"]
  /\ call = [c \in Calls |-> NoCall]
  /\ edits = 0
  /\ edited = TRUE
  /\ overtaken = {}
  /\ contested = {}

WriterStep(w) ==
  \/ BeginPublish(w) \/ BeginRollback(w) \/ BeginImport(w)
  \/ CompareWithLive(w) \/ ReadBase(w) \/ AddRequest(w)

DeciderStep(d) ==
  \/ ReadRequest(d) \/ Expire(d) \/ Reject(d) \/ MarkStale(d)
  \/ CheckBase(d) \/ RecheckBase(d)

Next ==
  \/ Edit
  \/ \E q \in Writers : Age(q)
  \/ \E w \in Writers : WriterStep(w)
  \/ \E d \in Deciders : DeciderStep(d)
  \/ \E c \in Calls : CountSnapshots(c) \/ Commit(c)

Spec == Init /\ [][Next]_vars

-----------------------------------------------------------------------------
(* Properties *)

TypeOK ==
  /\ working \in Docs
  /\ snapshots \subseteq Snapshot
  /\ current \in Live
  /\ requests \in [Writers -> Request]
  /\ aged \subseteq Writers
  /\ pc \in [Calls -> {"new"} \cup Running \cup Results]
  /\ call \in [Calls -> Call]
  /\ edits \in 0..MaxEdits
  /\ edited \in BOOLEAN
  /\ overtaken \subseteq Calls
  /\ contested \subseteq Writers

\* The two-person rule.  What went live in a protected environment, other than by an
\* operator's import, is the content of a request, and the key that approved it is not
\* the key that asked for it, however requests, approvals and edits interleave.
TwoPersonRule ==
  Protected =>
    \A s \in snapshots :
      s.kind # "import" =>
        /\ s.request # None
        /\ requests[s.request].doc = s.version.doc
        /\ requests[s.request].key = s.author
        /\ s.approver \in Keys \ {s.author}

\* What makes it inductive: what the calls hold between their reads and their commit.
\* A request exists before anybody decides it and keeps its content and its key, a
\* decider past the checks of approve() holds the content of the request and another
\* key, and in a protected environment only an import commits without a decider.
RequestHolds(q) ==
  requests[q].status # "absent" => requests[q].doc \in Docs /\ requests[q].key \in Keys
WriterHolds(w) ==
  /\ pc[w] \notin Deciding
  /\ pc[w] \in {"new", "compare", "base", "request"} => requests[w].status = "absent"
  /\ pc[w] \in Running => call[w].doc \in Docs /\ call[w].key \in Keys
  /\ pc[w] \in {"count", "commit"} => call[w].kind = "import" \/ ~Protected
DeciderHolds(d) ==
  /\ pc[d] \notin {"compare", "base", "request"}
  /\ pc[d] \in Running =>
       /\ call[d].request \in Writers
       /\ requests[call[d].request].status # "absent"
       /\ call[d].doc = requests[call[d].request].doc
       /\ call[d].key \in Keys
  /\ pc[d] \in {"check", "recheck", "count", "commit"} =>
       call[d].key # requests[call[d].request].key
SnapshotHolds(s) ==
  Protected /\ s.kind # "import" =>
    /\ s.request \in Writers
    /\ requests[s.request].status # "absent"
    /\ requests[s.request].doc = s.version.doc
    /\ requests[s.request].key = s.author
    /\ s.approver \in Keys \ {s.author}
HoldInvariant ==
  /\ IsFiniteSet(snapshots)
  /\ \A q \in Writers : RequestHolds(q)
  /\ \A w \in Writers : WriterHolds(w)
  /\ \A d \in Deciders : DeciderHolds(d)
  /\ \A s \in snapshots : SnapshotHolds(s)

\* "nobody approves a diff they did not see": an approved snapshot replaces the version
\* its request was based on, unless another commit landed after the last look at what is
\* live (the second _base_matches) and before its own commit.
ApprovedOnItsBase ==
  \A s \in snapshots :
    s.request # None => s.over = requests[s.request].base \/ s.overtaken

\* The record of a request is what happened to it: one snapshot came of it if it is
\* approved, none otherwise, unless two calls decided it at the same time.
DecidedAsRecorded ==
  \A q \in Writers \ contested :
    Cardinality({s \in snapshots : s.request = q})
      = (IF requests[q].status = "approved" THEN 1 ELSE 0)

\* After a rollback or an import, until somebody edits or something else goes live, the
\* working set is what is live, so that the next publish does not undo it.
RollbackSticks ==
  \A s \in snapshots :
    s.version = current /\ s.kind # "publish" /\ ~edited => working = s.version.doc

\* What is live, what was decided and what is edited agree (the three above), whichever publishes,
\* approvals, rollbacks, imports and edits cross.
LiveAsDecided == ApprovedOnItsBase /\ DecidedAsRecorded /\ RollbackSticks

-----------------------------------------------------------------------------
(* For TLC: calls of one sort, the keys and the contents are interchangeable. *)
Symmetric ==
  Permutations(Writers) \cup Permutations(Deciders) \cup Permutations(Keys)
    \cup Permutations(Docs)
=============================================================================
