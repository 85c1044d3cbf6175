----------------------------- MODULE ConfigSync -----------------------------
(***************************************************************************)
(* How a gateway follows the documents that the control plane publishes:   *)
(* engine/remote.py with SnapshotHolder of engine/registry.py, and the     *)
(* endpoints of the control plane's internal.py.                           *)
(*                                                                         *)
(* Three tasks refresh: start() before the others exist, poll() for one    *)
(* kind after the other, listen() for the kind an announcement names.  A   *)
(* refresh sends the etag it finds, and applies the answer when it comes;  *)
(* a snapshot compiles across awaits, everything else after the answer is  *)
(* one step.  Contents are what the properties tell apart: those in Bad    *)
(* this gateway rejects (an unknown field, a plugin that is not installed).*)
(***************************************************************************)
EXTENDS Integers, Sequences, SequencesExt

CONSTANTS
  Contents, Bad,   \* what may be published; what this gateway cannot load
  Empty,           \* the catalog of a fresh install
  MaxPublished,    \* bound on documents
  MaxFaults,       \* bound on answers that do not come, writes that fail, plugins that do not set up
  MaxCrashes

ASSUME ConfigAssumption ==
  /\ Bad \subseteq Contents /\ Empty \in Contents \ Bad
  /\ MaxPublished \in Nat /\ MaxFaults \in Nat /\ MaxCrashes \in Nat

Kinds == {"catalog", "snapshot"}
Tasks == {"start", "poll", "listen"}

VARIABLES
  published,   \* what the control plane published, oldest first
  announced,   \* kinds that Redis will announce; two announcements that wait are one
  expired,     \* the date of the catalog's API key has passed
  phase,       \* of the gateway process
  served,      \* snapshots.current and catalog.doc
  keyLoaded,   \* the API key is in catalog._keys
  etags,       \* _etags
  cache,       \* CACHE_DIR
  task,        \* what each task is doing
  unsaved,     \* kinds whose last accepted document could not be written
  setupFailed, \* a plugin did not set up in this life
  faults, crashes

cp == <<published, announced, expired>>
gateway == <<served, keyLoaded, etags, cache, unsaved>>
bounds == <<faults, crashes>>
vars == <<cp, phase, gateway, task, setupFailed, bounds>>

\* A document: its content, its number (its version), and whether it contains the API key.
NoDoc == [content |-> "none", n |-> 0, key |-> FALSE]
NoTag == NoDoc
Current(kind) == IF published[kind] = <<>> THEN NoDoc ELSE Last(published[kind])

\* A catalog's etag is the hash of its content, a snapshot's of the whole document.
Etag(kind, doc) == IF kind = "catalog" THEN [doc EXCEPT !.n = 0] ELSE doc

IdleTask == [step |-> "idle", kind |-> "catalog", tag |-> NoTag, answer |-> NoDoc]
Idle == [t \in Tasks |-> IdleTask]

Due(kind) == [IdleTask EXCEPT !.step = "due", !.kind = kind]

-----------------------------------------------------------------------------
(* The control plane *)

Add(kind, content) ==
  published' = [published EXCEPT ![kind] =
    Append(@, [content |-> content, n |-> Len(@) + 1, key |-> kind = "catalog" /\ ~expired])]

\* An announcement that is sent may be lost, and one that nobody listens to is.
Publish(kind) ==
  /\ Len(published["catalog"]) + Len(published["snapshot"]) < MaxPublished
  /\ \E content \in Contents : content # Current(kind).content /\ Add(kind, content)
  /\ announced' \in {announced, announced \cup {kind}}
  /\ UNCHANGED <<expired, phase, gateway, task, setupFailed, bounds>>

Expire == ~expired /\ expired' = TRUE
          /\ UNCHANGED <<published, announced, phase, gateway, task, setupFailed, bounds>>

-----------------------------------------------------------------------------
(* refresh() *)

Fetch(t) ==
  /\ task[t].step = "due"
  /\ task' = [task EXCEPT ![t].step = "sent", ![t].tag = etags[task[t].kind]]
  /\ UNCHANGED <<cp, phase, gateway, setupFailed, bounds>>

\* _conditional(): the document, or 304, or 404 when no snapshot was published.
Answer(t) ==
  LET kind == task[t].kind
      now == Current(kind) IN
  /\ task[t].step = "sent" /\ (now # NoDoc \/ kind = "snapshot")
  /\ task' = [task EXCEPT ![t].step = "answered",
                          ![t].answer = IF Etag(kind, now) = task[t].tag THEN NoDoc ELSE now]
  /\ UNCHANGED <<cp, phase, gateway, setupFailed, bounds>>

\* The first catalog is published by the request for it.
FirstCatalog(t) ==
  /\ task[t].step = "sent" /\ task[t].kind = "catalog" /\ published["catalog"] = <<>>
  /\ Add("catalog", Empty)
  /\ UNCHANGED <<announced, expired, phase, gateway, task, setupFailed, bounds>>

\* Mutation: poll() leaves the snapshot to the announcements.
RestAfterCatalog(t) == IdleTask

\* What a task does after a refresh: poll() turns to the other kind, start() as Started says.
Rest(t) == IF t = "poll" /\ task[t].kind = "catalog" THEN Due("snapshot") ELSE IdleTask

\* Both holders swap in one step, and the etag and the file on disk follow before anything else.
Accept(kind, doc) ==
  /\ served' = [served EXCEPT ![kind] = doc]
  /\ etags' = [etags EXCEPT ![kind] = Etag(kind, doc)]
  /\ keyLoaded' = IF kind = "catalog" THEN doc.key /\ ~expired ELSE keyLoaded
  /\ \/ cache' = [cache EXCEPT ![kind] = doc] /\ unsaved' = unsaved \ {kind} /\ UNCHANGED faults
     \/ /\ faults < MaxFaults /\ faults' = faults + 1
        /\ unsaved' = unsaved \cup {kind} /\ UNCHANGED cache

\* The last good document goes on being served; last_error is only reported.
Reject(kind, doc) == UNCHANGED <<gateway, faults>>

Finish(t) == task' = [task EXCEPT ![t] = IF t = "start" THEN [@ EXCEPT !.step = "ended"] ELSE Rest(t)]

\* 304, 404, a catalog, or a snapshot whose version is the one served.
Receive(t) ==
  LET kind == task[t].kind
      doc == task[t].answer IN
  /\ task[t].step = "answered"
  /\ IF doc = NoDoc THEN UNCHANGED <<gateway, faults>>
     ELSE IF doc.content \in Bad THEN Reject(kind, doc)
     ELSE /\ kind = "catalog" \/ served["snapshot"] = doc
          /\ Accept(kind, doc)
  /\ Finish(t)
  /\ UNCHANGED <<cp, phase, setupFailed, crashes>>

\* registry.compile() awaits the set-up of every plugin.
Compile(t) ==
  /\ task[t].step = "answered" /\ task[t].kind = "snapshot"
  /\ task[t].answer \notin {NoDoc, served["snapshot"]} /\ task[t].answer.content \notin Bad
  /\ task' = [task EXCEPT ![t].step = "compiling"]
  /\ UNCHANGED <<cp, phase, gateway, setupFailed, bounds>>

Compiled(t) ==
  /\ task[t].step = "compiling"
  /\ Accept("snapshot", task[t].answer)
  /\ Finish(t)
  /\ UNCHANGED <<cp, phase, setupFailed, crashes>>

SetupFails(t) ==
  /\ task[t].step = "compiling" /\ faults < MaxFaults /\ faults' = faults + 1
  /\ setupFailed' = TRUE
  /\ Finish(t)
  /\ UNCHANGED <<cp, phase, gateway, crashes>>

\* No answer, or an error status: httpx.HTTPError.
Unreachable(t) ==
  /\ task[t].step \in {"sent", "answered"} /\ faults < MaxFaults /\ faults' = faults + 1
  /\ Finish(t)
  /\ UNCHANGED <<cp, phase, gateway, setupFailed, crashes>>

-----------------------------------------------------------------------------
(* start(), poll(), listen() *)

\* Mutation: only a control plane that does not answer sends start() to the disk.
NoCacheIfAnswered(kind) == served[kind] = NoDoc /\ published[kind] = <<>>

\* The refresh failed or brought nothing.
NeedsCache(kind) == served[kind] = NoDoc

\* Nothing runs yet beside start(), so loading the file is one step; a plugin may not set up here
\* either, and then nothing is served.
Load(kind) ==
  /\ served' = [served EXCEPT ![kind] = cache[kind]]
  /\ etags' = [etags EXCEPT ![kind] = Etag(kind, cache[kind])]
  /\ keyLoaded' = IF kind = "catalog" THEN cache[kind].key /\ ~expired ELSE keyLoaded

Started ==
  LET kind == task["start"].kind
      load == NeedsCache(kind) /\ cache[kind] # NoDoc IN
  /\ task["start"].step = "ended"
  /\ \/ /\ IF load THEN Load(kind) ELSE UNCHANGED <<served, etags, keyLoaded>>
        /\ UNCHANGED <<setupFailed, faults>>
     \/ /\ load /\ kind = "snapshot"
        /\ faults < MaxFaults /\ faults' = faults + 1 /\ setupFailed' = TRUE
        /\ UNCHANGED <<served, etags, keyLoaded>>
  /\ IF kind = "catalog"
     THEN task' = [task EXCEPT !["start"] = Due("snapshot")] /\ UNCHANGED phase
     ELSE task' = Idle /\ phase' = "up"
  /\ UNCHANGED <<cp, cache, unsaved, crashes>>

PollWakes ==
  /\ phase = "up" /\ task["poll"].step = "idle"
  /\ task' = [task EXCEPT !["poll"] = Due("catalog")]
  /\ UNCHANGED <<cp, phase, gateway, setupFailed, bounds>>

Announced(kind) ==
  /\ kind \in announced /\ announced' = announced \ {kind}
  /\ IF phase = "up" THEN /\ task["listen"].step = "idle"
                          /\ task' = [task EXCEPT !["listen"] = Due(kind)]
                     ELSE UNCHANGED task
  /\ UNCHANGED <<published, expired, phase, gateway, setupFailed, bounds>>

Crash ==
  /\ phase # "down" /\ crashes < MaxCrashes /\ crashes' = crashes + 1
  /\ phase' = "down" /\ task' = Idle
  /\ served' = [k \in Kinds |-> NoDoc] /\ etags' = [k \in Kinds |-> NoTag] /\ keyLoaded' = FALSE
  /\ UNCHANGED <<cp, cache, unsaved, setupFailed, faults>>

Boot ==
  /\ phase = "down" /\ phase' = "starting"
  /\ task' = [task EXCEPT !["start"] = Due("catalog")]
  /\ setupFailed' = FALSE
  /\ UNCHANGED <<cp, gateway, bounds>>

-----------------------------------------------------------------------------
Init ==
  /\ published = [k \in Kinds |-> <<>>] /\ announced = {} /\ expired = FALSE
  /\ phase = "down" /\ served = [k \in Kinds |-> NoDoc] /\ keyLoaded = FALSE
  /\ etags = [k \in Kinds |-> NoTag] /\ cache = [k \in Kinds |-> NoDoc]
  /\ task = Idle /\ unsaved = {} /\ setupFailed = FALSE /\ faults = 0 /\ crashes = 0

Step(t) == Fetch(t) \/ Answer(t) \/ FirstCatalog(t) \/ Receive(t) \/ Compile(t) \/ Compiled(t)

Next ==
  \/ \E k \in Kinds : Publish(k) \/ Announced(k)
  \/ \E t \in Tasks : Step(t) \/ SetupFails(t) \/ Unreachable(t)
  \/ Started \/ PollWakes \/ Expire \/ Crash \/ Boot

\* The event loop runs what is ready, poll() always wakes again, and the process is restarted.
\* Nothing is assumed of announcements.
Spec == /\ Init /\ [][Next]_vars
        /\ \A t \in Tasks : WF_vars(Step(t))
        /\ WF_vars(Started) /\ WF_vars(PollWakes) /\ WF_vars(Boot)

-----------------------------------------------------------------------------
Docs == [content : Contents \cup {"none"}, n : 0..MaxPublished + 1, key : BOOLEAN]

TypeOK ==
  /\ published \in [Kinds -> Seq(Docs)] /\ announced \subseteq Kinds
  /\ expired \in BOOLEAN /\ phase \in {"down", "starting", "up"}
  /\ served \in [Kinds -> Docs] /\ keyLoaded \in BOOLEAN
  /\ etags \in [Kinds -> Docs] /\ cache \in [Kinds -> Docs]
  /\ task \in [Tasks -> [step : {"idle", "due", "sent", "answered", "compiling", "ended"},
                         kind : Kinds, tag : Docs, answer : Docs]]
  /\ unsaved \subseteq Kinds /\ setupFailed \in BOOLEAN
  /\ faults \in 0..MaxFaults /\ crashes \in 0..MaxCrashes

\* "Every accepted document is written" (remote.py:5), _etags set after apply() (remote.py:235-237):
\* the etag a refresh sends is always the one of the document served, never of one rejected or
\* overtaken, so a 304 is never for another document; and unless a write failed the disk holds it.
OneDocument ==
  \A k \in Kinds :
    /\ etags[k] = Etag(k, served[k])
    /\ phase = "up" /\ k \notin unsaved /\ served[k] # NoDoc => cache[k] = served[k]

\* "the gateway loads the last good copies from disk and keeps serving" (remote.py:5-7): once a
\* document was saved, every later start ends with one, also when what is published is rejected.
StartKeepsServing ==
  phase = "up" /\ ~setupFailed => \A k \in Kinds : cache[k] # NoDoc => served[k] # NoDoc

\* What is served, saved and asked for agree (the two above), though refreshes overlap, documents
\* are rejected, writes fail and the process crashes.
KeepsServing == TypeOK /\ OneDocument /\ StartKeepsServing

\* "A lost event only delays a change by one poll" (remote.py:4): when the last document of a kind
\* is one this gateway can load, in the end it serves its content and goes on doing so, and a catalog
\* published after a key's date takes the key from it.
Converges ==
  \A k \in Kinds :
    <>[](Current(k).content \in Contents \ Bad =>
           /\ served[k].content = Current(k).content
           /\ k = "catalog" /\ keyLoaded => Current(k).key)
=============================================================================
