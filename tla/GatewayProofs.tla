--------------------------- MODULE GatewayProofs ---------------------------
(***************************************************************************)
(* What the configuration that a gateway serves, access, user tokens, the  *)
(* SDK's hooks, AuthZEN and the guardrail engine guarantee; the last five  *)
(* each by itself and as a part of the composition.                        *)
(***************************************************************************)
EXTENDS MCGateway, ConfigSync, FiniteSetTheorems, SequenceTheorems, WellFoundedInduction, TLAPS

-----------------------------------------------------------------------------
(* ConfigSync: what a gateway serves, what it has saved and what it asks   *)
(* for agree, for any contents and any number of documents, faults and     *)
(* crashes.                                                                *)

\* What a task is doing: its record's type.
TaskStates ==
  [step : {"idle", "due", "sent", "answered", "compiling", "ended"},
   kind : Kinds, tag : Docs, answer : Docs]

LEMMA NoDocIsDoc == NoDoc \in Docs /\ NoTag \in Docs
  BY ConfigAssumption DEF NoDoc, NoTag, Docs

LEMMA EtagIsDoc ==
  ASSUME NEW k \in Kinds, NEW doc \in Docs PROVE Etag(k, doc) \in Docs
  BY ConfigAssumption DEF Etag, Docs

LEMMA IdleIsTask == IdleTask \in TaskStates /\ Idle \in [Tasks -> TaskStates]
  BY NoDocIsDoc DEF IdleTask, Idle, TaskStates, Kinds

LEMMA DueIsTask == ASSUME NEW k \in Kinds PROVE Due(k) \in TaskStates
  BY NoDocIsDoc DEF Due, IdleTask, TaskStates

LEMMA RestIsTask ==
  ASSUME NEW t \in Tasks, task \in [Tasks -> TaskStates] PROVE Rest(t) \in TaskStates
  BY IdleIsTask, DueIsTask DEF Rest, Kinds

\* The end of a refresh leaves a task of the right type, and start() on the kind it was on.
LEMMA FinishTypes ==
  ASSUME NEW t \in Tasks, task \in [Tasks -> TaskStates], Finish(t)
  PROVE  task' \in [Tasks -> TaskStates]
  <1>1. [task[t] EXCEPT !.step = "ended"] \in TaskStates
    BY DEF TaskStates
  <1> QED BY <1>1, RestIsTask DEF Finish

LEMMA CurrentIsDoc ==
  ASSUME NEW k \in Kinds, published \in [Kinds -> Seq(Docs)] PROVE Current(k) \in Docs
  <1>1. CASE published[k] = <<>> BY <1>1, NoDocIsDoc DEF Current
  <1>2. CASE published[k] # <<>>
    <2>1. published[k] \in Seq(Docs) BY DEF Kinds
    <2>2. Len(published[k]) \in 1..Len(published[k]) BY <1>2, <2>1, LenProperties, EmptySeq
    <2>3. published[k][Len(published[k])] \in Docs BY <2>1, <2>2, ElementOfSeq
    <2> QED BY <1>2, <2>3 DEF Current, Last
  <1> QED BY <1>1, <1>2

-----------------------------------------------------------------------------
(* The types *)

\* A document that is added has a number within the bound.
LEMMA AddTypes ==
  ASSUME NEW k \in Kinds, NEW content \in Contents, TypeOK, Add(k, content),
         Len(published[k]) <= MaxPublished
  PROVE  published' \in [Kinds -> Seq(Docs)]
  <1>1. published \in [Kinds -> Seq(Docs)] /\ published[k] \in Seq(Docs) BY DEF TypeOK
  <1>2. Len(published[k]) \in Nat BY <1>1, LenProperties
  <1> DEFINE doc == [content |-> content, n |-> Len(published[k]) + 1,
                     key |-> k = "catalog" /\ ~expired]
  <1>3. doc \in Docs BY <1>2, ConfigAssumption DEF Docs
  <1>4. published' = [published EXCEPT ![k] = Append(published[k], doc)] BY DEF Add
  <1> HIDE DEF doc
  <1>5. Append(published[k], doc) \in Seq(Docs) BY <1>1, <1>3, AppendProperties
  <1> QED BY <1>1, <1>4, <1>5

\* The document that both holders take, and the write that may fail.
LEMMA AcceptTypes ==
  ASSUME NEW k \in Kinds, NEW doc \in Docs, TypeOK, Accept(k, doc)
  PROVE  /\ served' \in [Kinds -> Docs] /\ etags' \in [Kinds -> Docs] /\ cache' \in [Kinds -> Docs]
         /\ keyLoaded' \in BOOLEAN /\ unsaved' \subseteq Kinds /\ faults' \in 0..MaxFaults
  <1>1. Etag(k, doc) \in Docs BY EtagIsDoc
  <1>2. doc.key \in BOOLEAN BY DEF Docs
  <1>3. served' \in [Kinds -> Docs] /\ etags' \in [Kinds -> Docs] /\ cache' \in [Kinds -> Docs]
    <2>1. served' \in [Kinds -> Docs] BY DEF Accept, TypeOK
    <2>2. etags' \in [Kinds -> Docs] BY <1>1 DEF Accept, TypeOK
    <2>3. cache' \in [Kinds -> Docs] BY DEF Accept, TypeOK
    <2> QED BY <2>1, <2>2, <2>3
  <1>4. keyLoaded' \in BOOLEAN BY <1>2 DEF Accept, TypeOK
  <1>5. unsaved' \subseteq Kinds /\ faults' \in 0..MaxFaults
    BY ConfigAssumption DEF Accept, TypeOK
  <1> QED BY <1>3, <1>4, <1>5

\* Every step of a refresh keeps the types.
LEMMA RefreshTypes ==
  ASSUME TypeOK, NEW t \in Tasks, Step(t) \/ SetupFails(t) \/ Unreachable(t) PROVE TypeOK'
  <1> USE DEF cp, gateway, bounds
  <1>0. /\ task \in [Tasks -> TaskStates] /\ task[t] \in TaskStates
        /\ task[t].kind \in Kinds /\ task[t].tag \in Docs /\ task[t].answer \in Docs
    BY DEF TypeOK, TaskStates
  <1>1. CASE Fetch(t)
    <2>1. etags[task[t].kind] \in Docs BY <1>0 DEF TypeOK
    <2>2. [task[t] EXCEPT !.step = "sent", !.tag = etags[task[t].kind]] \in TaskStates
      BY <1>0, <2>1 DEF TaskStates
    <2>3. task' = [task EXCEPT ![t] = [task[t] EXCEPT !.step = "sent", !.tag = etags[task[t].kind]]]
      BY <1>1, <1>0 DEF Fetch, TaskStates
    <2>4. task' \in [Tasks -> TaskStates] BY <1>0, <2>2, <2>3
    <2> QED BY <1>1, <2>4 DEF Fetch, TypeOK, TaskStates
  <1>2. CASE Answer(t)
    <2> DEFINE now == Current(task[t].kind)
               answer == IF Etag(task[t].kind, now) = task[t].tag THEN NoDoc ELSE now
    <2>1. answer \in Docs BY <1>0, CurrentIsDoc, NoDocIsDoc DEF TypeOK
    <2>2. task' = [task EXCEPT ![t].step = "answered", ![t].answer = answer]
      BY <1>2 DEF Answer
    <2> HIDE DEF answer
    <2>3. task' = [task EXCEPT ![t] = [task[t] EXCEPT !.step = "answered", !.answer = answer]]
      BY <1>0, <2>2 DEF TaskStates
    <2>4. [task[t] EXCEPT !.step = "answered", !.answer = answer] \in TaskStates
      BY <1>0, <2>1 DEF TaskStates
    <2>5. task' \in [Tasks -> TaskStates] BY <1>0, <2>3, <2>4
    <2> QED BY <1>2, <2>5 DEF Answer, TypeOK, TaskStates
  <1>3. CASE FirstCatalog(t)
    <2>1. Len(published["catalog"]) = 0 BY <1>3, EmptySeq DEF FirstCatalog
    <2>2. published' \in [Kinds -> Seq(Docs)]
      BY <1>3, <2>1, AddTypes, ConfigAssumption DEF FirstCatalog, Kinds
    <2> QED BY <1>3, <2>2 DEF FirstCatalog, TypeOK
  <1>4. CASE Receive(t)
    <2>1. task' \in [Tasks -> TaskStates] BY <1>4, <1>0, FinishTypes DEF Receive
    <2>2. \/ UNCHANGED <<gateway, faults>>
          \/ Accept(task[t].kind, task[t].answer)
      BY <1>4 DEF Receive, Reject
    <2>3. UNCHANGED <<cp, phase, setupFailed, crashes>> BY <1>4 DEF Receive
    <2>4. /\ served' \in [Kinds -> Docs] /\ etags' \in [Kinds -> Docs] /\ cache' \in [Kinds -> Docs]
          /\ keyLoaded' \in BOOLEAN /\ unsaved' \subseteq Kinds /\ faults' \in 0..MaxFaults
      BY <1>0, <2>2, AcceptTypes DEF TypeOK
    <2> QED BY <2>1, <2>3, <2>4 DEF TypeOK, TaskStates
  <1>5. CASE Compile(t)
    <2>1. [task[t] EXCEPT !.step = "compiling"] \in TaskStates BY <1>0 DEF TaskStates
    <2>2. task' \in [Tasks -> TaskStates] BY <1>5, <1>0, <2>1 DEF Compile
    <2> QED BY <1>5, <2>2 DEF Compile, TypeOK, TaskStates
  <1>6. CASE Compiled(t)
    <2>1. task' \in [Tasks -> TaskStates] BY <1>6, <1>0, FinishTypes DEF Compiled
    <2>2. /\ served' \in [Kinds -> Docs] /\ etags' \in [Kinds -> Docs] /\ cache' \in [Kinds -> Docs]
          /\ keyLoaded' \in BOOLEAN /\ unsaved' \subseteq Kinds /\ faults' \in 0..MaxFaults
      BY <1>0, <1>6, AcceptTypes DEF Compiled, Kinds
    <2> QED BY <1>6, <2>1, <2>2 DEF Compiled, TypeOK, TaskStates
  <1>7. CASE SetupFails(t)
    <2>1. task' \in [Tasks -> TaskStates] BY <1>7, <1>0, FinishTypes DEF SetupFails
    <2>2. faults' \in 0..MaxFaults BY <1>7, ConfigAssumption DEF SetupFails, TypeOK
    <2> QED BY <1>7, <2>1, <2>2 DEF SetupFails, TypeOK, TaskStates
  <1>8. CASE Unreachable(t)
    <2>1. task' \in [Tasks -> TaskStates] BY <1>8, <1>0, FinishTypes DEF Unreachable
    <2>2. faults' \in 0..MaxFaults BY <1>8, ConfigAssumption DEF Unreachable, TypeOK
    <2> QED BY <1>8, <2>1, <2>2 DEF Unreachable, TypeOK, TaskStates
  <1> QED BY <1>1, <1>2, <1>3, <1>4, <1>5, <1>6, <1>7, <1>8 DEF Step

\* Every step keeps the types.
LEMMA ConfigNextTypes == ASSUME TypeOK, [Next]_vars PROVE TypeOK'
  <1> USE DEF cp, gateway, bounds
  <1>0. task \in [Tasks -> TaskStates] BY DEF TypeOK, TaskStates
  <1>1. ASSUME NEW k \in Kinds, Publish(k) PROVE TypeOK'
    <2>1. Len(published["catalog"]) \in Nat /\ Len(published["snapshot"]) \in Nat
      BY LenProperties DEF TypeOK, Kinds
    <2>2. Len(published["catalog"]) + Len(published["snapshot"]) < MaxPublished
      BY <1>1 DEF Publish
    <2>3. k = "catalog" \/ k = "snapshot" BY DEF Kinds
    <2>4. Len(published[k]) <= MaxPublished
      <3> DEFINE a == Len(published["catalog"])
                 b == Len(published["snapshot"])
      <3>1. a \in Nat /\ b \in Nat /\ a + b < MaxPublished /\ MaxPublished \in Nat
        BY <2>1, <2>2, ConfigAssumption
      <3>2. Len(published[k]) = a \/ Len(published[k]) = b BY <2>3
      <3> HIDE DEF a, b
      <3> QED BY <3>1, <3>2
    <2>5. published' \in [Kinds -> Seq(Docs)] BY <1>1, <2>4, AddTypes DEF Publish
    <2>6. announced' \subseteq Kinds BY <1>1 DEF Publish, TypeOK
    <2> QED BY <1>1, <2>5, <2>6 DEF Publish, TypeOK
  <1>2. ASSUME NEW k \in Kinds, Announced(k) PROVE TypeOK'
    <2>1. task' \in [Tasks -> TaskStates] BY <1>0, <1>2, DueIsTask DEF Announced
    <2> QED BY <1>2, <2>1 DEF Announced, TypeOK, TaskStates
  <1>3. CASE Started
    <2> DEFINE k == task["start"].kind
    <2>1. k \in Kinds BY <1>0 DEF Tasks, TaskStates
    <2>2. /\ served' \in [Kinds -> Docs] /\ etags' \in [Kinds -> Docs] /\ keyLoaded' \in BOOLEAN
          /\ setupFailed' \in BOOLEAN /\ faults' \in 0..MaxFaults
      <3>1. CASE Load(k) /\ UNCHANGED <<setupFailed, faults>>
        <4>1. cache[k] \in Docs /\ Etag(k, cache[k]) \in Docs /\ cache[k].key \in BOOLEAN
          BY <2>1, EtagIsDoc DEF TypeOK, Docs
        <4> HIDE DEF k
        <4> QED BY <3>1, <4>1 DEF Load, TypeOK
      <3>2. CASE UNCHANGED <<served, etags, keyLoaded, setupFailed, faults>>
        BY <3>2 DEF TypeOK
      <3>3. CASE /\ UNCHANGED <<served, etags, keyLoaded>>
                 /\ faults < MaxFaults /\ faults' = faults + 1 /\ setupFailed' = TRUE
        BY <3>3, ConfigAssumption DEF TypeOK
      <3> QED BY <1>3, <3>1, <3>2, <3>3 DEF Started
    <2>3. task' \in [Tasks -> TaskStates] /\ phase' \in {"down", "starting", "up"}
      BY <1>0, <1>3, IdleIsTask, DueIsTask DEF Started, TypeOK, Kinds
    <2> QED BY <1>3, <2>2, <2>3 DEF Started, TypeOK, TaskStates
  <1>4. CASE PollWakes
    <2>1. task' \in [Tasks -> TaskStates] BY <1>0, <1>4, DueIsTask DEF PollWakes, Kinds
    <2> QED BY <1>4, <2>1 DEF PollWakes, TypeOK, TaskStates
  <1>5. CASE Expire BY <1>5 DEF Expire, TypeOK
  <1>6. CASE Crash
    <2>1. task' \in [Tasks -> TaskStates] BY <1>6, IdleIsTask DEF Crash
    <2>2. served' \in [Kinds -> Docs] /\ etags' \in [Kinds -> Docs] BY <1>6, NoDocIsDoc DEF Crash
    <2>3. crashes' \in 0..MaxCrashes BY <1>6, ConfigAssumption DEF Crash, TypeOK
    <2> QED BY <1>6, <2>1, <2>2, <2>3 DEF Crash, TypeOK, TaskStates
  <1>7. CASE Boot
    <2>1. task' \in [Tasks -> TaskStates] BY <1>0, <1>7, DueIsTask DEF Boot, Kinds
    <2> QED BY <1>7, <2>1 DEF Boot, TypeOK, TaskStates
  <1>8. CASE UNCHANGED vars BY <1>8 DEF vars, TypeOK
  <1> QED BY <1>1, <1>2, <1>3, <1>4, <1>5, <1>6, <1>7, <1>8, RefreshTypes DEF Next

LEMMA ConfigInitTypes == Init => TypeOK
  <1> SUFFICES ASSUME Init PROVE TypeOK OBVIOUS
  <1>1. published \in [Kinds -> Seq(Docs)] BY EmptySeq DEF Init
  <1>2. /\ served \in [Kinds -> Docs] /\ etags \in [Kinds -> Docs] /\ cache \in [Kinds -> Docs]
    BY NoDocIsDoc DEF Init
  <1>3. task \in [Tasks -> TaskStates] BY IdleIsTask DEF Init
  <1>4. faults \in 0..MaxFaults /\ crashes \in 0..MaxCrashes BY ConfigAssumption DEF Init
  <1>5. announced \subseteq Kinds /\ unsaved \subseteq Kinds BY DEF Init
  <1>6. /\ expired \in BOOLEAN /\ phase \in {"down", "starting", "up"}
        /\ keyLoaded \in BOOLEAN /\ setupFailed \in BOOLEAN
    BY DEF Init
  <1> QED BY <1>1, <1>2, <1>3, <1>4, <1>5, <1>6 DEF TypeOK, TaskStates

-----------------------------------------------------------------------------
(* The invariant *)

\* A snapshot that compiles is a document; start() runs only while the process starts.
TasksHold ==
  /\ \A t \in Tasks : task[t].step = "compiling" =>
       task[t].kind = "snapshot" /\ task[t].answer # NoDoc
  /\ phase # "starting" => task["start"].step = "idle"

\* Whatever the phase, the etag sent is that of the document served, and the disk holds it
\* unless the last write failed.
EtagsFollow == \A k \in Kinds : etags[k] = Etag(k, served[k])
SavedAsServed == \A k \in Kinds : k \notin unsaved /\ served[k] # NoDoc => cache[k] = served[k]

\* start() has turned to the disk for kind k, if it had to.
Turned(k) == \/ phase = "up" /\ ~setupFailed
             \/ phase = "starting" /\ k = "catalog" /\ task["start"].kind = "snapshot"

TurnedServes == \A k \in Kinds : Turned(k) /\ cache[k] # NoDoc => served[k] # NoDoc

ServingInv == TasksHold /\ EtagsFollow /\ SavedAsServed /\ TurnedServes

LEMMA ConfigInitServes == Init => ServingInv
  BY DEF Init, ServingInv, TasksHold, EtagsFollow, SavedAsServed, TurnedServes, Turned, Idle,
         IdleTask, Tasks, Kinds, NoDoc, NoTag, Etag

\* The end of a refresh: start() stays on its kind, and no task compiles that did not.
LEMMA FinishHolds ==
  ASSUME TypeOK, TasksHold, NEW t \in Tasks, task[t].step # "idle", Finish(t), phase' = phase
  PROVE  TasksHold' /\ task'["start"].kind = task["start"].kind
  <1>0. task \in [Tasks -> TaskStates] BY DEF TypeOK, TaskStates
  <1>1. task' \in [Tasks -> TaskStates] BY <1>0, FinishTypes
  <1>2. task'[t].step # "compiling"
    BY <1>0 DEF Finish, Rest, Due, IdleTask, TaskStates
  <1>3. \A u \in Tasks \ {t} : task'[u] = task[u] BY <1>0 DEF Finish
  <1>4. CASE t = "start"
    <2>1. phase' = "starting" BY <1>4 DEF TasksHold
    <2>2. task'["start"] = [task["start"] EXCEPT !.step = "ended"] BY <1>0, <1>4 DEF Finish
    <2>3. task'["start"].kind = task["start"].kind BY <1>0, <1>4, <2>2 DEF TaskStates
    <2> QED BY <1>2, <1>3, <2>1, <2>3 DEF TasksHold
  <1>5. CASE t # "start"
    <2>1. task'["start"] = task["start"] BY <1>3, <1>5 DEF Tasks
    <2> QED BY <1>2, <1>3, <2>1 DEF TasksHold
  <1> QED BY <1>4, <1>5

\* A document that is accepted is served, is asked for, and is saved or recorded as unsaved.
LEMMA AcceptServes ==
  ASSUME TypeOK, EtagsFollow, SavedAsServed, TurnedServes,
         NEW k \in Kinds, NEW doc \in Docs, doc # NoDoc, Accept(k, doc),
         \A j \in Kinds : Turned(j)' => Turned(j)
  PROVE  EtagsFollow' /\ SavedAsServed' /\ TurnedServes'
  <1>1. served'[k] = doc /\ etags'[k] = Etag(k, doc) BY DEF Accept, TypeOK
  <1>2. \A j \in Kinds \ {k} : /\ served'[j] = served[j] /\ etags'[j] = etags[j]
                               /\ cache'[j] = cache[j] /\ (j \in unsaved' <=> j \in unsaved)
    BY DEF Accept, TypeOK
  <1>3. k \in unsaved' \/ cache'[k] = doc BY DEF Accept, TypeOK
  <1>4. EtagsFollow' BY <1>1, <1>2 DEF EtagsFollow, Etag
  <1>5. SavedAsServed' BY <1>1, <1>2, <1>3 DEF SavedAsServed
  <1>6. TurnedServes' BY <1>1, <1>2 DEF TurnedServes
  <1> QED BY <1>4, <1>5, <1>6

\* Nothing served, saved or asked for changes, and no kind is turned to.
LEMMA KeepServes ==
  ASSUME EtagsFollow, SavedAsServed, TurnedServes,
         UNCHANGED <<served, etags, cache, unsaved>>,
         \A j \in Kinds : Turned(j)' => Turned(j)
  PROVE  EtagsFollow' /\ SavedAsServed' /\ TurnedServes'
  BY DEF EtagsFollow, SavedAsServed, TurnedServes, Etag

\* Every step of a refresh keeps the invariant.
LEMMA RefreshServes ==
  ASSUME TypeOK, ServingInv, NEW t \in Tasks, Step(t) \/ SetupFails(t) \/ Unreachable(t)
  PROVE  ServingInv'
  <1> USE DEF cp, gateway, bounds
  <1>0. /\ task \in [Tasks -> TaskStates] /\ task[t] \in TaskStates
        /\ task[t].kind \in Kinds /\ task[t].answer \in Docs /\ "start" \in Tasks
    BY DEF TypeOK, TaskStates, Tasks
  <1>1. TasksHold /\ EtagsFollow /\ SavedAsServed /\ TurnedServes BY DEF ServingInv
  \* A step that leaves start() on its kind, and never undoes a failure of this life.
  <1>2. ASSUME phase' = phase, setupFailed => setupFailed',
               task'["start"].kind = task["start"].kind, NEW j \in Kinds, Turned(j)'
        PROVE  Turned(j)
    BY <1>2 DEF Turned, TypeOK
  <1>3. CASE Fetch(t) \/ Answer(t) \/ Compile(t)
    <2>1. /\ task'["start"].kind = task["start"].kind
          /\ \A u \in Tasks \ {t} : task'[u] = task[u]
          /\ task[t].step # "idle"
      BY <1>0, <1>3 DEF Fetch, Answer, Compile, TaskStates
    <2>2. task'[t].step = "compiling" => task'[t].kind = "snapshot" /\ task'[t].answer # NoDoc
      BY <1>0, <1>3 DEF Fetch, Answer, Compile, TaskStates
    <2>3. phase' = phase /\ setupFailed' = setupFailed /\ UNCHANGED <<served, etags, cache, unsaved>>
      BY <1>3 DEF Fetch, Answer, Compile
    <2>4. TasksHold' BY <1>0, <1>1, <2>1, <2>2, <2>3 DEF TasksHold
    <2> QED BY <1>1, <1>2, <2>1, <2>3, <2>4, KeepServes DEF ServingInv
  <1>4. CASE FirstCatalog(t)
    <2>1. UNCHANGED <<phase, setupFailed, task, served, etags, cache, unsaved>>
      BY <1>4 DEF FirstCatalog
    <2>2. TasksHold' BY <1>1, <2>1 DEF TasksHold
    <2> QED BY <1>1, <1>2, <2>1, <2>2, KeepServes DEF ServingInv
  <1>5. ASSUME task[t].step # "idle", Finish(t), phase' = phase, setupFailed => setupFailed',
               \/ UNCHANGED <<served, etags, cache, unsaved>>
               \/ task[t].answer # NoDoc /\ Accept(task[t].kind, task[t].answer)
        PROVE  ServingInv'
    <2>1. TasksHold' /\ task'["start"].kind = task["start"].kind BY <1>1, <1>5, FinishHolds
    <2>2. \A j \in Kinds : Turned(j)' => Turned(j) BY <1>2, <1>5, <2>1
    <2>3. EtagsFollow' /\ SavedAsServed' /\ TurnedServes'
      BY <1>0, <1>1, <1>5, <2>2, AcceptServes, KeepServes
    <2> QED BY <2>1, <2>3 DEF ServingInv
  <1>6. CASE Receive(t)
    <2>1. /\ task[t].step # "idle" /\ Finish(t) /\ phase' = phase /\ setupFailed' = setupFailed
      BY <1>6 DEF Receive
    <2>2. \/ UNCHANGED <<served, etags, cache, unsaved>>
          \/ task[t].answer # NoDoc /\ Accept(task[t].kind, task[t].answer)
      BY <1>6 DEF Receive, Reject
    <2> QED BY <1>5, <2>1, <2>2
  <1>7. CASE Compiled(t)
    <2>1. /\ task[t].step # "idle" /\ Finish(t) /\ phase' = phase /\ setupFailed' = setupFailed
      BY <1>7 DEF Compiled
    <2>2. task[t].answer # NoDoc /\ task[t].kind = "snapshot" BY <1>1, <1>7 DEF Compiled, TasksHold
    <2>3. Accept(task[t].kind, task[t].answer) BY <1>7, <2>2 DEF Compiled
    <2> QED BY <1>5, <2>1, <2>2, <2>3
  <1>8. CASE SetupFails(t)
    <2>1. /\ task[t].step # "idle" /\ Finish(t) /\ phase' = phase /\ setupFailed'
          /\ UNCHANGED <<served, etags, cache, unsaved>>
      BY <1>8 DEF SetupFails
    <2> QED BY <1>5, <2>1
  <1>9. CASE Unreachable(t)
    <2>1. /\ task[t].step # "idle" /\ Finish(t) /\ phase' = phase /\ setupFailed' = setupFailed
          /\ UNCHANGED <<served, etags, cache, unsaved>>
      BY <1>9 DEF Unreachable
    <2> QED BY <1>5, <2>1
  <1> QED BY <1>3, <1>4, <1>6, <1>7, <1>8, <1>9 DEF Step

\* start() ends a kind with what it serves, or with what the disk has.
LEMMA StartedServes == ASSUME TypeOK, ServingInv, Started PROVE ServingInv'
  <1> USE DEF cp, gateway, bounds
  <1> DEFINE k == task["start"].kind
  <1>0. /\ task \in [Tasks -> TaskStates] /\ task["start"] \in TaskStates /\ k \in Kinds
        /\ task["start"].step = "ended" /\ phase = "starting"
    BY DEF TypeOK, TaskStates, Tasks, Started, ServingInv, TasksHold
  <1>1. TasksHold /\ EtagsFollow /\ SavedAsServed /\ TurnedServes BY DEF ServingInv
  <1>2. TasksHold'
    <2>1. CASE k = "catalog"
      <3>1. task' = [task EXCEPT !["start"] = Due("snapshot")] /\ phase' = phase
        BY <2>1 DEF Started
      <3>2. task'["start"].step = "due" BY <1>0, <3>1 DEF Due, IdleTask, Tasks
      <3> QED BY <1>0, <1>1, <3>1, <3>2 DEF TasksHold
    <2>2. CASE k # "catalog"
      <3>1. task' = Idle BY <2>2 DEF Started
      <3> QED BY <3>1 DEF TasksHold, Idle, IdleTask, Tasks
    <2> QED BY <2>1, <2>2
  \* The kind that start() leaves: it has a document if the disk does, or its plugins failed.
  <1>3. (cache'[k] # NoDoc => served'[k] # NoDoc) \/ (k = "snapshot" /\ setupFailed')
    BY <1>0 DEF Started, Load, NeedsCache, TypeOK
  <1>4. \A j \in Kinds \ {k} : served'[j] = served[j] /\ etags'[j] = etags[j]
    BY <1>0 DEF Started, Load, TypeOK
  <1>5. cache' = cache /\ unsaved' = unsaved BY DEF Started
  <1>6. etags'[k] = Etag(k, served'[k]) /\ (served'[k] = served[k] \/ served'[k] = cache[k])
    <2>1. etags[k] = Etag(k, served[k]) BY <1>0, <1>1 DEF EtagsFollow
    <2>2. UNCHANGED <<served, etags>> \/ Load(k) BY DEF Started
    <2>3. CASE UNCHANGED <<served, etags>> BY <2>1, <2>3
    <2>4. CASE Load(k)
      <3>1. served'[k] = cache[k] BY <1>0, <2>4 DEF Load, TypeOK
      <3>2. etags'[k] = Etag(k, cache[k]) BY <1>0, <2>4 DEF Load, TypeOK
      <3> QED BY <3>1, <3>2
    <2> QED BY <2>2, <2>3, <2>4
  <1>7. EtagsFollow'
    <2>1. \A j \in Kinds : etags[j] = Etag(j, served[j]) BY <1>1 DEF EtagsFollow
    <2>2. \A j \in Kinds \ {k} : etags'[j] = Etag(j, served'[j]) BY <1>4, <2>1
    <2>3. \A j \in Kinds : etags'[j] = Etag(j, served'[j]) BY <1>6, <2>2
    <2> QED BY <2>3 DEF EtagsFollow, Etag
  <1>8. SavedAsServed' BY <1>1, <1>4, <1>5, <1>6 DEF SavedAsServed
  <1>9. TurnedServes'
    <2> SUFFICES ASSUME NEW j \in Kinds, Turned(j)', cache'[j] # NoDoc PROVE served'[j] # NoDoc
      BY DEF TurnedServes
    <2>1. CASE j = k BY <1>3, <2>1 DEF Turned
    <2>2. CASE j # k
      <3>1. k # "catalog" \/ phase' = "starting" BY <1>0 DEF Started
      <3>2. j = "catalog" /\ k = "snapshot" BY <1>0, <2>2, <3>1 DEF Turned, Kinds
      <3>3. Turned(j) BY <1>0, <3>2 DEF Turned
      <3>4. served[j] # NoDoc BY <1>1, <1>5, <3>3 DEF TurnedServes
      <3> QED BY <1>4, <2>2, <3>4
    <2> QED BY <2>1, <2>2
  <1> QED BY <1>2, <1>7, <1>8, <1>9 DEF ServingInv

\* Every step keeps the invariant.
LEMMA ConfigNextServes == ASSUME TypeOK, ServingInv, [Next]_vars PROVE ServingInv'
  <1> USE DEF cp, gateway, bounds
  <1>0. task \in [Tasks -> TaskStates] BY DEF TypeOK, TaskStates
  <1>1. TasksHold /\ EtagsFollow /\ SavedAsServed /\ TurnedServes BY DEF ServingInv
  \* A step of another task than start().
  <1>2. ASSUME UNCHANGED <<phase, setupFailed, served, etags, cache, unsaved>>,
               task'["start"] = task["start"],
               \A u \in Tasks : task'[u] = task[u] \/ task'[u].step # "compiling"
        PROVE  ServingInv'
    <2>1. TasksHold' BY <1>1, <1>2 DEF TasksHold
    <2>2. \A j \in Kinds : Turned(j)' => Turned(j) BY <1>2 DEF Turned
    <2> QED BY <1>1, <1>2, <2>1, <2>2, KeepServes DEF ServingInv
  <1>3. ASSUME NEW k \in Kinds, Publish(k) \/ Announced(k) PROVE ServingInv'
    <2>1. UNCHANGED <<phase, setupFailed, served, etags, cache, unsaved>>
      BY <1>3 DEF Publish, Announced
    <2>2. task' = task \/ task' = [task EXCEPT !["listen"] = Due(k)]
      BY <1>3 DEF Publish, Announced
    <2>3. task'["start"] = task["start"] BY <1>0, <2>2 DEF Tasks
    <2>4. \A u \in Tasks : task'[u] = task[u] \/ task'[u].step # "compiling"
      BY <1>0, <2>2 DEF Due, IdleTask
    <2> QED BY <1>2, <2>1, <2>3, <2>4
  <1>4. CASE PollWakes
    <2>1. UNCHANGED <<phase, setupFailed, served, etags, cache, unsaved>>
      BY <1>4 DEF PollWakes
    <2>2. task' = [task EXCEPT !["poll"] = Due("catalog")] BY <1>4 DEF PollWakes
    <2>3. task'["start"] = task["start"] BY <1>0, <2>2 DEF Tasks
    <2>4. \A u \in Tasks : task'[u] = task[u] \/ task'[u].step # "compiling"
      BY <1>0, <2>2 DEF Due, IdleTask
    <2> QED BY <1>2, <2>1, <2>3, <2>4
  <1>5. CASE Expire \/ UNCHANGED vars
    BY <1>2, <1>5 DEF Expire, vars
  <1>6. CASE Crash
    BY <1>6 DEF Crash, ServingInv, TasksHold, EtagsFollow, SavedAsServed, TurnedServes, Turned,
                Idle, IdleTask, Tasks, Kinds, NoDoc, NoTag, Etag
  <1>7. CASE Boot
    <2>1. task'["start"] = Due("catalog") /\ \A u \in Tasks \ {"start"} : task'[u] = task[u]
      BY <1>0, <1>7 DEF Boot, Tasks
    <2>2. task'["start"].kind = "catalog" /\ task'["start"].step = "due"
      BY <2>1 DEF Due, IdleTask
    <2>3. TasksHold' BY <1>1, <1>7, <2>1, <2>2 DEF TasksHold, Boot
    <2>4. \A j \in Kinds : ~Turned(j)' BY <1>7, <2>2 DEF Turned, Boot
    <2>5. UNCHANGED <<served, etags, cache, unsaved>> BY <1>7 DEF Boot
    <2> QED BY <1>1, <2>3, <2>4, <2>5, KeepServes DEF ServingInv
  <1> QED BY <1>3, <1>4, <1>5, <1>6, <1>7, RefreshServes, StartedServes DEF Next

\* The invariant is what the property says, and more.
LEMMA ServingIsEnough == TypeOK /\ ServingInv => KeepsServing
  BY DEF ServingInv, EtagsFollow, SavedAsServed, TurnedServes, Turned, KeepsServing, OneDocument,
         StartKeepsServing

\* "The gateway loads the last good copies from disk and keeps serving" (remote.py:5-7), and an
\* etag is only ever set with the document it is of (remote.py:235-237): for any documents, in any
\* order of refreshes, failures and crashes, a gateway that is up, and whose plugins set up, serves
\* every kind it ever saved; what it asks with is the etag of what it serves, and the disk holds
\* that too unless the write of it failed.
THEOREM GoesOnServing == Spec => []KeepsServing
  <1>1. Init => TypeOK /\ ServingInv BY ConfigInitTypes, ConfigInitServes
  <1>2. TypeOK /\ ServingInv /\ [Next]_vars => (TypeOK /\ ServingInv)'
    BY ConfigNextTypes, ConfigNextServes
  <1> QED BY <1>1, <1>2, ServingIsEnough, PTL DEF Spec

-----------------------------------------------------------------------------
(* GatewayAccess: cached keys and token buckets.                           *)
now == v1
row == v2
changed == v3
rowCache == v4
buckets == v5
call == v6
answered == v7
ideal == v8
early == v9
changes == v10
USE DEF now, row, changed, rowCache, buckets, call, answered, ideal, early, changes

\* How long what a lookup found is cached.
TtlOf(r) == IF r = Access!NoKey THEN NegTtl ELSE Ttl

\* A lookup under way asks for a key, and what it found is out of date only if the key changed
\* after the request came.
CallHolds(c) ==
  /\ call[c].now <= now
  /\ call[c].step # "idle" => call[c].key \in Keys
  /\ call[c].step = "found" => \/ call[c].row = row[call[c].key]
                               \/ call[c].now <= changed[call[c].key]
CallsHold == \A c \in Callers : CallHolds(c)

\* A cached row is the key's, or it ends with the time to live after the key's last change.
EntryHolds(k) ==
  /\ rowCache[k].until <= now + TtlOf(rowCache[k].row)
  /\ \/ rowCache[k].row = row[k]
     \/ rowCache[k].until <= changed[k] + TtlOf(rowCache[k].row)
EntriesHold == \A k \in Keys : EntryHolds(k)

\* No bucket was refilled later than now.
BucketsHold == \A k \in Keys : buckets[k].last <= now /\ ideal[k].last <= now

AccessInv == /\ Access!TypeOK /\ CallsHold /\ EntriesHold /\ BucketsHold
             /\ Access!ChangeTakesEffect /\ Access!ForgettingChangesNothing

-----------------------------------------------------------------------------
\* The instance counts as the library does.
LEMMA Counts == \A S : Access!Cardinality(S) = Cardinality(S)
BY DEF Access!Cardinality, Cardinality

LEMMA AccessNumbers ==
  ASSUME Access!AccessAssumption
  PROVE  /\ Limits \subseteq Nat /\ Minute \in Nat /\ Minute > 0 /\ MaxTime \in Nat
         /\ NegTtl \in Nat /\ NegTtl > 0 /\ Ttl \in Nat /\ Ttl > 0
         /\ MaxKeys \in Nat /\ MaxChanges \in Nat
         /\ Access!Largest \in Limits /\ \A m \in Limits : m <= Access!Largest
         /\ \A r \in Access!Rows : TtlOf(r) \in Nat /\ TtlOf(r) > 0 /\ TtlOf(r) <= Ttl + NegTtl
         /\ Access!NoKey \in Int
<1>1. Access!Largest \in Limits /\ \A m \in Limits : m <= Access!Largest
  BY DEF Access!AccessAssumption, Access!Largest
<1> QED BY <1>1 DEF Access!AccessAssumption, TtlOf, Access!NoKey

\* A row of the limiter holds no more than a minute's tokens.
LEMMA FullFits ==
  ASSUME Access!AccessAssumption, NEW limit \in Limits
  PROVE  /\ limit * Minute \in Nat /\ Access!Largest * Minute \in Nat
         /\ limit * Minute <= Access!Largest * Minute
<1>1. limit \in Nat /\ Access!Largest \in Nat /\ limit <= Access!Largest /\ Minute \in Nat
  BY AccessNumbers
<1>2. \A a, b, m \in Nat : a <= b => a * m \in Nat /\ a * m <= b * m
  OBVIOUS
<1> QED BY <1>1, <1>2

Bucket == [parts : 0..Access!Largest * Minute, last : -1..MaxTime]

LEMMA SpendType ==
  ASSUME Access!AccessAssumption, NEW b \in Bucket, NEW limit \in Limits, now \in 0..MaxTime, b.last <= now
  PROVE  Access!Spend(b, limit) \in Bucket /\ Access!Spend(b, limit).last = now
<1>1. /\ limit \in Nat /\ Minute \in Nat /\ MaxTime \in Nat
  BY AccessNumbers
<1> DEFINE full == limit * Minute
           most == Access!Largest * Minute
           filled == IF b = Access!NoBucket THEN full ELSE b.parts + (now - b.last) * limit
           parts == IF filled > full THEN full ELSE filled
           left == IF parts >= Minute THEN parts - Minute ELSE parts
<1>2. full \in Nat /\ most \in Nat /\ full <= most
  BY FullFits
<1>3. filled \in Nat
  <2>1. b.parts \in Nat /\ now - b.last \in Nat
    BY <1>1, <1>2 DEF Bucket
  <2>2. (now - b.last) * limit \in Nat
    BY <1>1, <2>1
  <2> HIDE DEF full
  <2> QED BY <1>2, <2>1, <2>2
<1> HIDE DEF full, filled, most
<1>4. left \in 0..most
  BY <1>1, <1>2, <1>3
<1>5. Access!Spend(b, limit) = [parts |-> left, last |-> now]
  BY DEF Access!Spend, full, filled
<1> QED BY <1>1, <1>4, <1>5 DEF Bucket, most

\* A bucket that was idle for a minute is full, like one that was forgotten.
LEMMA IdleIsFull ==
  ASSUME Access!AccessAssumption, NEW b \in Bucket, NEW limit \in Limits, now \in 0..MaxTime,
         now - b.last >= Minute
  PROVE  Access!Spend(b, limit) = Access!Spend(Access!NoBucket, limit)
<1>1. /\ limit \in Nat /\ Minute \in Nat /\ MaxTime \in Nat /\ limit * Minute \in Nat
      /\ Access!Largest * Minute \in Nat
  BY AccessNumbers, FullFits
<1>2. b.parts \in Nat /\ now - b.last \in Nat
  BY <1>1 DEF Bucket
<1>3. \A i, m, l \in Nat : i >= m => i * l \in Nat /\ i * l >= l * m
  OBVIOUS
<1> DEFINE full == limit * Minute
           gained == (now - b.last) * limit
<1>4. gained \in Nat /\ full \in Nat /\ gained >= full
  BY <1>1, <1>2, <1>3
<1> HIDE DEF full, gained
<1>5. b.parts + gained > full \/ b.parts + gained = full
  BY <1>2, <1>4
<1> QED BY <1>2, <1>4, <1>5 DEF Access!Spend, full, gained

\* check() (ratelimit.py): the bucket of the key is spent as a limiter that forgets less would.
LEMMA LimitKeeps ==
  ASSUME Access!AccessAssumption, AccessInv, NEW k \in Keys, NEW limit \in Limits, Access!CheckLimit(k, limit),
         now' = now
  PROVE  /\ buckets' \in Access!Buckets /\ ideal' \in Access!Buckets /\ early' \subseteq Keys
         /\ BucketsHold' /\ Access!ForgettingChangesNothing'
<1>1. /\ now \in 0..MaxTime /\ MaxTime \in Nat /\ Minute \in Nat /\ Minute > 0 /\ MaxKeys \in Nat
      /\ buckets \in [Keys -> Bucket] /\ ideal \in [Keys -> Bucket] /\ early \subseteq Keys
      /\ \A q \in Keys : buckets[q].last <= now /\ ideal[q].last <= now
      /\ Access!Buckets = [Keys -> Bucket]
  BY AccessNumbers DEF AccessInv, Access!TypeOK, BucketsHold, Access!Buckets, Bucket
<1>2. CASE limit = 0
  BY <1>1, <1>2 DEF Access!CheckLimit, AccessInv, BucketsHold, Access!ForgettingChangesNothing, Access!Held
<1>3. CASE limit # 0
  <2> DEFINE spent == [buckets EXCEPT ![k] = Access!Spend(@, limit)]
  <2>1. PICK gone \in Access!Evictions(spent) :
          /\ buckets' = [q \in Keys |-> IF q \in gone THEN Access!NoBucket ELSE spent[q]]
          /\ early' = early \cup (gone \ Access!Forgotten(spent))
          /\ ideal' = [q \in Keys |-> IF q \in early' THEN Access!NoBucket
                                      ELSE IF q = k THEN Access!Spend(ideal[k], limit) ELSE ideal[q]]
    BY <1>3 DEF Access!CheckLimit
  <2>2. /\ spent[k] = Access!Spend(buckets[k], limit) /\ spent[k] \in Bucket /\ spent[k].last = now
        /\ \A q \in Keys : q # k => spent[q] = buckets[q]
        /\ Access!Spend(ideal[k], limit) \in Bucket /\ Access!Spend(ideal[k], limit).last = now
    BY <1>1, SpendType
  <2>3. Access!NoBucket \in Bucket /\ Access!NoBucket.last = -1 /\ spent[k] # Access!NoBucket
    BY <1>1, <2>2, FullFits, AccessNumbers DEF Access!NoBucket, Bucket
  <2> HIDE DEF spent
  <2>4. /\ gone \subseteq Keys
        /\ Cardinality(Access!Held(spent) \ gone) <= MaxKeys
    <3>1. Access!Held(spent) \ {} = Access!Held(spent) /\ Access!Forgotten(spent) \subseteq Keys /\ Access!Held(spent) \subseteq Keys
      BY DEF Access!Held, Access!Forgotten
    <3>2. CASE gone = {} /\ Cardinality(Access!Held(spent)) <= MaxKeys
      BY <3>1, <3>2
    <3>3. CASE gone = Access!Forgotten(spent) /\ Cardinality(Access!Held(spent) \ Access!Forgotten(spent)) <= MaxKeys
      BY <3>1, <3>3
    <3>4. ASSUME NEW l \in SUBSET (Access!Held(spent) \ Access!Forgotten(spent)), gone = Access!Forgotten(spent) \cup l,
                 Cardinality((Access!Held(spent) \ Access!Forgotten(spent)) \ l) = MaxKeys \div 2
          PROVE  /\ gone \subseteq Keys
                 /\ Cardinality(Access!Held(spent) \ gone) <= MaxKeys
      <4>1. Access!Held(spent) \ gone = (Access!Held(spent) \ Access!Forgotten(spent)) \ l
        BY <3>4
      <4>2. gone \subseteq Keys
        BY <3>1, <3>4
      <4>3. MaxKeys \div 2 <= MaxKeys
        BY <1>1
      <4> QED BY <3>4, <4>1, <4>2, <4>3
    <3> QED BY <2>1, <3>2, <3>3, <3>4, Counts DEF Access!Evictions
  <2>5. Access!Held(buckets') = Access!Held(spent) \ gone
    BY <2>1, <2>3 DEF Access!Held
  <2>6. /\ buckets' \in [Keys -> Bucket] /\ early' \subseteq Keys
        /\ \A q \in Keys : buckets'[q].last <= now
    BY <1>1, <2>1, <2>2, <2>3, <2>4
  <2>7. /\ ideal' \in [Keys -> Bucket]
        /\ \A q \in Keys : ideal'[q].last <= now
    BY <1>1, <2>1, <2>2, <2>3
  <2>8. ASSUME NEW q \in Keys, q \notin early'
        PROVE  \/ buckets'[q] = ideal'[q]
               \/ buckets'[q] = Access!NoBucket /\ now - ideal'[q].last >= Minute
    <3>1. \/ buckets[q] = ideal[q]
          \/ buckets[q] = Access!NoBucket /\ now - ideal[q].last >= Minute
      BY <2>1, <2>8 DEF AccessInv, Access!ForgettingChangesNothing
    <3>2. CASE q = k
      <4>1. k \notin gone
        BY <1>1, <2>1, <2>2, <2>8, <3>2 DEF Access!Forgotten
      <4>2. buckets'[k] = Access!Spend(buckets[k], limit) /\ ideal'[k] = Access!Spend(ideal[k], limit)
        BY <2>1, <2>2, <2>8, <3>2, <4>1
      <4> QED BY <1>1, <3>1, <3>2, <4>2, IdleIsFull
    <3>3. CASE q # k /\ q \notin gone
      BY <2>1, <2>2, <2>8, <3>1, <3>3
    <3>4. CASE q # k /\ q \in gone
      <4>1. q \in Access!Forgotten(spent)
        BY <2>1, <2>8, <3>4
      <4>2. buckets[q] # Access!NoBucket /\ now - buckets[q].last >= Minute
        BY <2>2, <3>4, <4>1 DEF Access!Forgotten, Access!Held
      <4> QED BY <2>1, <2>8, <3>1, <3>4, <4>2
    <3> QED BY <3>2, <3>3, <3>4
  <2> QED BY <1>1, <2>4, <2>5, <2>6, <2>7, <2>8, Counts DEF BucketsHold, Access!ForgettingChangesNothing
<1> QED BY <1>2, <1>3

\* An answer: who is unknown is not counted.
LEMMA AnswerKeeps ==
  ASSUME Access!AccessAssumption, AccessInv, NEW k \in Keys, NEW started \in 0..now, NEW found \in Access!Rows,
         Access!Answer(k, started, found), now' = now, UNCHANGED <<row, changed>>,
         started >= changed[k] + TtlOf(found) => found = row[k]
  PROVE  /\ buckets' \in Access!Buckets /\ ideal' \in Access!Buckets /\ early' \subseteq Keys
         /\ BucketsHold' /\ Access!ForgettingChangesNothing' /\ Access!ChangeTakesEffect'
         /\ answered' \in [key : Keys \cup {Access!NoKey}, started : 0..MaxTime, row : Access!Rows]
<1>1. answered' = [key |-> k, started |-> started, row |-> found]
  BY DEF Access!Answer
<1>2. Access!ChangeTakesEffect'
  BY <1>1 DEF Access!ChangeTakesEffect, TtlOf
<1>3. started \in 0..MaxTime
  BY AccessNumbers DEF AccessInv, Access!TypeOK
<1>4. CASE found = Access!NoKey
  <2>1. UNCHANGED <<buckets, ideal, early>>
    BY <1>4 DEF Access!Answer
  <2> QED BY <1>1, <1>2, <1>3, <2>1 DEF AccessInv, Access!TypeOK, BucketsHold, Access!ForgettingChangesNothing, Access!Held
<1>5. CASE found # Access!NoKey
  BY <1>1, <1>2, <1>3, <1>5, LimitKeeps DEF Access!Answer, Access!Rows
<1> QED BY <1>4, <1>5

LEMMA UnansweredKeeps ==
  ASSUME Access!AccessAssumption, AccessInv, Access!Unanswered, now' \in {now, now + 1}
  PROVE  /\ buckets' \in Access!Buckets /\ ideal' \in Access!Buckets /\ early' \subseteq Keys
         /\ BucketsHold' /\ Access!ForgettingChangesNothing' /\ Access!ChangeTakesEffect'
         /\ answered' \in [key : Keys \cup {Access!NoKey}, started : 0..MaxTime, row : Access!Rows]
<1>1. /\ answered' = Access!NoAnswer /\ UNCHANGED <<buckets, ideal, early>>
  BY DEF Access!Unanswered
<1>2. /\ now \in Nat /\ now' \in Nat /\ now' >= now /\ Minute \in Nat /\ MaxTime \in Nat
      /\ buckets \in [Keys -> Bucket] /\ ideal \in [Keys -> Bucket]
      /\ \A q \in Keys : buckets[q].last \in Int /\ ideal[q].last \in Int
  BY AccessNumbers DEF AccessInv, Access!TypeOK, Access!Buckets, Bucket
<1>3. BucketsHold' /\ Access!ForgettingChangesNothing'
  <2>1. \A q \in Keys : buckets[q].last <= now' /\ ideal[q].last <= now'
    BY <1>2 DEF AccessInv, BucketsHold
  <2>2. \A q \in Keys : now - ideal[q].last >= Minute => now' - ideal[q].last >= Minute
    BY <1>2
  <2> QED BY <1>1, <2>1, <2>2 DEF AccessInv, BucketsHold, Access!ForgettingChangesNothing, Access!Held
<1>4. answered' \in [key : Keys \cup {Access!NoKey}, started : 0..MaxTime, row : Access!Rows]
  BY <1>1, <1>2 DEF Access!NoAnswer, Access!Rows
<1> QED BY <1>1, <1>3, <1>4 DEF AccessInv, Access!TypeOK, Access!ChangeTakesEffect, Access!NoAnswer

-----------------------------------------------------------------------------
(* The steps *)

LEMMA CallIs ==
  ASSUME Access!AccessAssumption, AccessInv
  PROVE  /\ now \in 0..MaxTime /\ now \in Nat /\ row \in [Keys -> Access!Rows]
         /\ changed \in [Keys -> 0..MaxTime] /\ \A k \in Keys : changed[k] \in Nat
         /\ \A k \in Keys : /\ rowCache[k].until \in Nat /\ rowCache[k].row \in Access!Rows
         /\ \A c \in Callers : /\ call[c].step \in {"idle", "looking", "found"}
                               /\ call[c].now \in Nat /\ call[c].now \in 0..now
                               /\ call[c].row \in Access!Rows
                               /\ call[c].step # "idle" => call[c].key \in Keys
BY AccessNumbers DEF AccessInv, Access!TypeOK, CallsHold, CallHolds

LEMMA HitKeeps ==
  ASSUME Access!AccessAssumption, AccessInv, NEW c \in Callers, Access!Hit(c)
  PROVE  AccessInv'
<1>1. PICK k \in Keys : rowCache[k].until > now /\ Access!Answer(k, now, rowCache[k].row)
  BY DEF Access!Hit
<1>2. UNCHANGED <<now, row, changed, rowCache, call, changes>>
  BY DEF Access!Hit
<1>3. now >= changed[k] + TtlOf(rowCache[k].row) => rowCache[k].row = row[k]
  BY <1>1, CallIs, AccessNumbers DEF AccessInv, EntriesHold, EntryHolds
<1>4. /\ buckets' \in Access!Buckets /\ ideal' \in Access!Buckets /\ early' \subseteq Keys
      /\ BucketsHold' /\ Access!ForgettingChangesNothing' /\ Access!ChangeTakesEffect'
      /\ answered' \in [key : Keys \cup {Access!NoKey}, started : 0..MaxTime, row : Access!Rows]
  <2>1. now \in 0..now /\ rowCache[k].row \in Access!Rows
    BY CallIs
  <2> QED BY <1>1, <1>2, <1>3, <2>1, AnswerKeeps
<1> QED BY <1>2, <1>4 DEF AccessInv, Access!TypeOK, CallsHold, CallHolds, EntriesHold, EntryHolds

\* A call goes on, or is given up, and nothing is answered.
LEMMA CallMoves ==
  ASSUME Access!AccessAssumption, AccessInv, NEW c \in Callers, Access!Unanswered,
         NEW j \in [step : {"idle", "looking", "found"}, key : Keys \cup {Access!NoKey},
                    now : 0..MaxTime, row : Access!Rows],
         call' = [call EXCEPT ![c] = j], UNCHANGED <<now, row, changed, rowCache, changes>>,
         j.now <= now, j.step # "idle" => j.key \in Keys,
         j.step = "found" => j.row = row[j.key] \/ j.now <= changed[j.key]
  PROVE  AccessInv'
<1>1. /\ buckets' \in Access!Buckets /\ ideal' \in Access!Buckets /\ early' \subseteq Keys
      /\ BucketsHold' /\ Access!ForgettingChangesNothing' /\ Access!ChangeTakesEffect'
      /\ answered' \in [key : Keys \cup {Access!NoKey}, started : 0..MaxTime, row : Access!Rows]
  BY UnansweredKeeps
<1>2. Access!TypeOK'
  BY <1>1 DEF AccessInv, Access!TypeOK
<1>3. CallsHold'
  BY <1>2 DEF AccessInv, Access!TypeOK, CallsHold, CallHolds
<1> QED BY <1>1, <1>2, <1>3 DEF AccessInv, EntriesHold, EntryHolds

LEMMA MissKeeps ==
  ASSUME Access!AccessAssumption, AccessInv, NEW c \in Callers, Access!Miss(c)
  PROVE  AccessInv'
<1>1. PICK k \in Keys :
        call' = [call EXCEPT ![c] = [step |-> "looking", key |-> k, now |-> now, row |-> Access!NoKey]]
  BY DEF Access!Miss
<1> DEFINE j == [step |-> "looking", key |-> k, now |-> now, row |-> Access!NoKey]
<1>2. now \in 0..MaxTime /\ now <= now /\ Access!NoKey \in Access!Rows
  BY CallIs DEF Access!Rows
<1>3. /\ j \in [step : {"idle", "looking", "found"}, key : Keys \cup {Access!NoKey},
                now : 0..MaxTime, row : Access!Rows]
      /\ j.step = "looking" /\ j.key \in Keys /\ j.now = now
  BY <1>2
<1>4. call' = [call EXCEPT ![c] = j] /\ Access!Unanswered /\ UNCHANGED <<now, row, changed, rowCache, changes>>
  BY <1>1 DEF Access!Miss
<1> HIDE DEF j
<1> QED BY <1>2, <1>3, <1>4, CallMoves

LEMMA AccessLookupKeeps ==
  ASSUME Access!AccessAssumption, AccessInv, NEW c \in Callers, Access!Lookup(c)
  PROVE  AccessInv'
<1> DEFINE j == [call[c] EXCEPT !.step = "found", !.row = row[call[c].key]]
<1>1. call[c].step = "looking" /\ call[c].key \in Keys /\ call[c].now <= now
  BY CallIs DEF Access!Lookup
<1>2. call' = [call EXCEPT ![c] = j]
  BY DEF Access!Lookup, AccessInv, Access!TypeOK
<1>3. /\ j \in [step : {"idle", "looking", "found"}, key : Keys \cup {Access!NoKey},
                now : 0..MaxTime, row : Access!Rows]
      /\ j.now = call[c].now /\ j.key = call[c].key /\ j.row = row[j.key]
  BY <1>1 DEF AccessInv, Access!TypeOK
<1> HIDE DEF j
<1> QED BY <1>1, <1>2, <1>3, CallMoves DEF Access!Lookup

LEMMA FailsKeeps ==
  ASSUME Access!AccessAssumption, AccessInv, NEW c \in Callers, Access!LookupFails(c)
  PROVE  AccessInv'
<1>1. 0 \in 0..MaxTime /\ 0 <= now /\ Access!NoKey \in Access!Rows
  BY CallIs, AccessNumbers DEF Access!Rows
<1>2. Access!NoCall \in [step : {"idle", "looking", "found"}, key : Keys \cup {Access!NoKey},
                  now : 0..MaxTime, row : Access!Rows]
      /\ Access!NoCall.step = "idle" /\ Access!NoCall.now = 0
  BY <1>1 DEF Access!NoCall
<1> QED BY <1>1, <1>2, CallMoves DEF Access!LookupFails

LEMMA FoundKeeps ==
  ASSUME Access!AccessAssumption, AccessInv, NEW c \in Callers, Access!Found(c)
  PROVE  AccessInv'
<1> DEFINE k == call[c].key
           after == [rowCache EXCEPT ![k] = Access!Entry(c)]
           live == {q \in Keys : after[q].until > call[c].now}
<1>1. /\ call[c].step = "found"
      /\ rowCache' = IF Cardinality({q \in Keys : after[q] # Access!NoEntry}) <= MaxCached THEN after
                  ELSE [q \in Keys |-> IF q \in live THEN after[q] ELSE Access!NoEntry]
      /\ Access!Answer(k, call[c].now, call[c].row)
      /\ call' = [call EXCEPT ![c] = Access!NoCall]
      /\ UNCHANGED <<now, row, changed, changes>>
  BY Counts DEF Access!Found
<1>2. /\ k \in Keys /\ call[c].row \in Access!Rows /\ call[c].now \in 0..now
      /\ call[c].row = row[k] \/ call[c].now <= changed[k]
  BY <1>1, CallIs DEF AccessInv, CallsHold, CallHolds
<1>3. /\ TtlOf(call[c].row) \in Nat /\ TtlOf(call[c].row) > 0
      /\ TtlOf(call[c].row) <= Ttl + NegTtl
      /\ now \in 0..MaxTime /\ MaxTime \in Nat /\ Ttl \in Nat /\ NegTtl \in Nat
      /\ changed[k] \in Nat /\ 0 \in 0..MaxTime
  BY <1>2, AccessNumbers, CallIs
<1>4. Access!Entry(c) = [until |-> call[c].now + TtlOf(call[c].row), row |-> call[c].row]
  BY DEF Access!Entry, TtlOf
<1>5. /\ buckets' \in Access!Buckets /\ ideal' \in Access!Buckets /\ early' \subseteq Keys
      /\ BucketsHold' /\ Access!ForgettingChangesNothing' /\ Access!ChangeTakesEffect'
      /\ answered' \in [key : Keys \cup {Access!NoKey}, started : 0..MaxTime, row : Access!Rows]
  <2>1. call[c].now >= changed[k] + TtlOf(call[c].row) => call[c].row = row[k]
    BY <1>2, <1>3
  <2> HIDE DEF k
  <2> QED BY <1>1, <1>2, <2>1, AnswerKeeps
<1>6. \A q \in Keys : rowCache'[q] \in {rowCache[q], Access!NoEntry} \/ (q = k /\ rowCache'[q] = Access!Entry(c))
  <2>1. \A q \in Keys : after[q] = rowCache[q] \/ (q = k /\ after[q] = Access!Entry(c))
    BY DEF AccessInv, Access!TypeOK
  <2> HIDE DEF after, live, k
  <2> QED BY <1>1, <2>1
<1>7. /\ Access!NoEntry \in [until : 0..MaxTime + Ttl + NegTtl, row : Access!Rows]
      /\ Access!NoEntry.until = 0 /\ Access!NoEntry.row = Access!NoKey
      /\ Access!Entry(c) \in [until : 0..MaxTime + Ttl + NegTtl, row : Access!Rows]
      /\ Access!Entry(c).until = call[c].now + TtlOf(call[c].row) /\ Access!Entry(c).row = call[c].row
  BY <1>2, <1>3, <1>4 DEF Access!NoEntry, Access!Rows
<1>8. EntriesHold'
  <2> SUFFICES ASSUME NEW q \in Keys
               PROVE  /\ rowCache'[q].until <= now + TtlOf(rowCache'[q].row)
                      /\ \/ rowCache'[q].row = row[q]
                         \/ rowCache'[q].until <= changed[q] + TtlOf(rowCache'[q].row)
    BY <1>1 DEF EntriesHold, EntryHolds
  <2>1. changed[q] \in Nat /\ EntryHolds(q)
    BY CallIs DEF AccessInv, EntriesHold
  <2>2. CASE rowCache'[q] = rowCache[q]
    BY <2>1, <2>2 DEF EntryHolds
  <2>3. CASE rowCache'[q] = Access!NoEntry
    <3>1. TtlOf(Access!NoKey) \in Nat
      BY AccessNumbers DEF Access!Rows
    <3> QED BY <1>3, <1>7, <2>1, <2>3, <3>1
  <2>4. CASE q = k /\ rowCache'[q] = Access!Entry(c)
    BY <1>2, <1>3, <1>7, <2>4
  <2> QED BY <1>6, <2>2, <2>3, <2>4
<1> HIDE DEF k
<1>9. rowCache' \in [Keys -> [until : 0..MaxTime + Ttl + NegTtl, row : Access!Rows]]
  <2>1. rowCache \in [Keys -> [until : 0..MaxTime + Ttl + NegTtl, row : Access!Rows]]
    BY DEF AccessInv, Access!TypeOK
  <2>2. \E f : rowCache' = [q \in Keys |-> f[q]]
    <3>1. after = [q \in Keys |-> after[q]]
      BY <2>1
    <3> HIDE DEF after
    <3>2. CASE Cardinality({q \in Keys : after[q] # Access!NoEntry}) <= MaxCached
      BY <1>1, <3>1, <3>2
    <3> DEFINE f == [q \in Keys |-> IF q \in live THEN after[q] ELSE Access!NoEntry]
    <3>3. CASE ~ Cardinality({q \in Keys : after[q] # Access!NoEntry}) <= MaxCached
      <4>1. rowCache' = f /\ f = [q \in Keys |-> f[q]]
        BY <1>1, <3>3
      <4> QED BY <4>1
    <3> QED BY <3>2, <3>3
  <2> QED BY <1>6, <1>7, <2>1, <2>2
<1>10. /\ Access!NoCall \in [step : {"idle", "looking", "found"}, key : Keys \cup {Access!NoKey},
                      now : 0..MaxTime, row : Access!Rows]
       /\ Access!NoCall.step = "idle" /\ Access!NoCall.now = 0
  BY <1>3 DEF Access!NoCall, Access!Rows
<1>11. Access!TypeOK'
  BY <1>1, <1>5, <1>9, <1>10 DEF AccessInv, Access!TypeOK
<1>12. CallsHold'
  BY <1>1, <1>3, <1>10 DEF AccessInv, Access!TypeOK, CallsHold, CallHolds
<1> QED BY <1>5, <1>8, <1>11, <1>12 DEF AccessInv

LEMMA ChangeKeeps ==
  ASSUME Access!AccessAssumption, AccessInv, NEW k \in Keys, Access!Change(k)
  PROVE  AccessInv'
<1>1. /\ changes' = changes + 1 /\ changes < MaxChanges
      /\ changed' = [changed EXCEPT ![k] = now] /\ UNCHANGED <<now, rowCache, call>> /\ Access!Unanswered
  BY DEF Access!Change
<1>2. PICK r \in Access!Rows : row' = [row EXCEPT ![k] = r]
  BY DEF Access!Change
<1>3. /\ buckets' \in Access!Buckets /\ ideal' \in Access!Buckets /\ early' \subseteq Keys
      /\ BucketsHold' /\ Access!ForgettingChangesNothing' /\ Access!ChangeTakesEffect'
      /\ answered' \in [key : Keys \cup {Access!NoKey}, started : 0..MaxTime, row : Access!Rows]
  BY <1>1, UnansweredKeeps
<1>4. /\ row' \in [Keys -> Access!Rows] /\ changed' \in [Keys -> 0..MaxTime]
      /\ changed'[k] = now
      /\ \A q \in Keys : q # k => row'[q] = row[q] /\ changed'[q] = changed[q]
  BY <1>1, <1>2 DEF AccessInv, Access!TypeOK
<1>5. Access!TypeOK'
  <2>1. changes' \in 0..MaxChanges
    BY <1>1, AccessNumbers DEF AccessInv, Access!TypeOK
  <2> QED BY <1>1, <1>3, <1>4, <2>1 DEF AccessInv, Access!TypeOK
<1>6. CallsHold'
  <2> SUFFICES ASSUME NEW c \in Callers
               PROVE  CallHolds(c)'
    BY DEF CallsHold, CallHolds
  <2>1. CallHolds(c)
    BY DEF AccessInv, CallsHold
  <2> QED BY <1>1, <1>4, <2>1 DEF CallHolds
<1>7. EntriesHold'
  <2> SUFFICES ASSUME NEW q \in Keys
               PROVE  EntryHolds(q)'
    BY DEF EntriesHold, EntryHolds
  <2>1. EntryHolds(q)
    BY DEF AccessInv, EntriesHold
  <2> QED BY <1>1, <1>4, <2>1 DEF EntryHolds, TtlOf
<1> QED BY <1>3, <1>5, <1>6, <1>7 DEF AccessInv

LEMMA AccessTickKeeps ==
  ASSUME Access!AccessAssumption, AccessInv, Access!Tick
  PROVE  AccessInv'
<1>1. now < MaxTime /\ now' = now + 1 /\ Access!Unanswered /\ UNCHANGED <<row, changed, rowCache, call, changes>>
  BY DEF Access!Tick
<1>2. /\ buckets' \in Access!Buckets /\ ideal' \in Access!Buckets /\ early' \subseteq Keys
      /\ BucketsHold' /\ Access!ForgettingChangesNothing' /\ Access!ChangeTakesEffect'
      /\ answered' \in [key : Keys \cup {Access!NoKey}, started : 0..MaxTime, row : Access!Rows]
  BY <1>1, UnansweredKeeps
<1>3. now \in Nat /\ now' \in Nat /\ now' \in 0..MaxTime /\ now <= now'
  BY <1>1, AccessNumbers DEF AccessInv, Access!TypeOK
<1>4. Access!TypeOK'
  BY <1>1, <1>2, <1>3 DEF AccessInv, Access!TypeOK
<1>5. CallsHold'
  <2> SUFFICES ASSUME NEW c \in Callers
               PROVE  CallHolds(c)'
    BY DEF CallsHold, CallHolds
  <2> QED BY <1>1, <1>3, CallIs DEF CallHolds, AccessInv, CallsHold
<1>6. EntriesHold'
  <2> SUFFICES ASSUME NEW q \in Keys
               PROVE  EntryHolds(q)'
    BY DEF EntriesHold, EntryHolds
  <2>1. EntryHolds(q) /\ TtlOf(rowCache[q].row) \in Nat /\ rowCache[q].until \in Nat
    BY CallIs, AccessNumbers DEF AccessInv, EntriesHold
  <2> QED BY <1>1, <1>3, <2>1 DEF EntryHolds, TtlOf
<1> QED BY <1>2, <1>4, <1>5, <1>6 DEF AccessInv

-----------------------------------------------------------------------------
LEMMA AccessInitHolds == Access!AccessAssumption /\ Access!Init => AccessInv
<1> SUFFICES ASSUME Access!AccessAssumption, Access!Init
             PROVE  AccessInv
  OBVIOUS
<1>0. /\ MaxTime \in Nat /\ MaxChanges \in Nat /\ MaxKeys \in Nat /\ Ttl \in Nat /\ NegTtl \in Nat
      /\ 0 \in 0..MaxTime /\ 0 \in 0..MaxTime + Ttl + NegTtl /\ 0 \in 0..MaxChanges /\ Access!NoKey \in Access!Rows
      /\ TtlOf(Access!NoKey) \in Nat
  BY AccessNumbers DEF Access!Rows
<1>1. Access!NoBucket \in Bucket /\ Access!NoBucket.last = -1 /\ Access!Buckets = [Keys -> Bucket]
  <2>1. -1 \in -1..MaxTime /\ 0 \in 0..Access!Largest * Minute
    BY <1>0, AccessNumbers, FullFits
  <2> QED BY <2>1 DEF Access!NoBucket, Bucket, Access!Buckets
<1>2. /\ Access!NoEntry \in [until : 0..MaxTime + Ttl + NegTtl, row : Access!Rows]
      /\ Access!NoEntry.until = 0 /\ Access!NoEntry.row = Access!NoKey
      /\ Access!NoCall \in [step : {"idle", "looking", "found"}, key : Keys \cup {Access!NoKey},
                     now : 0..MaxTime, row : Access!Rows]
      /\ Access!NoCall.step = "idle" /\ Access!NoCall.now = 0
      /\ Access!NoAnswer \in [key : Keys \cup {Access!NoKey}, started : 0..MaxTime, row : Access!Rows]
      /\ Access!NoAnswer.key = Access!NoKey
  BY <1>0 DEF Access!NoEntry, Access!NoCall, Access!NoAnswer
<1>3. Access!TypeOK
  BY <1>0, <1>1, <1>2 DEF Access!Init, Access!TypeOK
<1>4. CallsHold /\ EntriesHold
  BY <1>0, <1>2 DEF Access!Init, CallsHold, CallHolds, EntriesHold, EntryHolds
<1>5. BucketsHold
  BY <1>1 DEF Access!Init, BucketsHold
<1>6. Access!Held(buckets) = {} /\ Cardinality({}) = 0
  BY FS_EmptySet DEF Access!Init, Access!Held
<1>7. Access!ForgettingChangesNothing
  BY <1>0, <1>6, Counts DEF Access!Init, Access!ForgettingChangesNothing
<1> QED BY <1>2, <1>3, <1>4, <1>5, <1>7 DEF AccessInv, Access!Init, Access!ChangeTakesEffect

LEMMA AccessNextKeeps == Access!AccessAssumption /\ AccessInv /\ [Access!Next]_(Access!vars) => AccessInv'
<1> SUFFICES ASSUME Access!AccessAssumption, AccessInv, [Access!Next]_(Access!vars)
             PROVE  AccessInv'
  OBVIOUS
<1>1. CASE UNCHANGED Access!vars
  BY <1>1 DEF Access!vars, AccessInv, Access!TypeOK, CallsHold, CallHolds, EntriesHold, EntryHolds, BucketsHold,
              Access!ChangeTakesEffect, Access!ForgettingChangesNothing, Access!Held
<1>2. CASE Access!Next
  BY <1>2, HitKeeps, MissKeeps, AccessLookupKeeps, FoundKeeps, FailsKeeps, ChangeKeeps, AccessTickKeeps DEF Access!Next
<1> QED BY <1>1, <1>2

\* auth.py:46, ratelimit.py:52-53: for any callers, keys and limits, sizes of the two caches and
\* times to live: whoever asks after the time to live since a key changed is answered by the key as
\* it is, and forgetting a bucket changes nothing for its key.
THEOREM AccessHolds == Access!AccessAssumption /\ Access!Spec => []Access!AccessIsCurrent
<1>1. AccessInv => Access!AccessIsCurrent
  BY DEF AccessInv, Access!AccessIsCurrent
<1> SUFFICES ASSUME Access!AccessAssumption
             PROVE  Access!Spec => []Access!AccessIsCurrent
  OBVIOUS
<1>2. Access!Init => AccessInv
  BY AccessInitHolds
<1>3. AccessInv /\ [Access!Next]_(Access!vars) => AccessInv'
  BY AccessNextKeeps
<1> QED BY <1>1, <1>2, <1>3, PTL DEF Access!Spec

HIDE DEF now, row, changed, rowCache, buckets, call, answered, ideal, early, changes

-----------------------------------------------------------------------------
(* UserTokens: the keys of the identity provider.                          *)
idp == v1
withdrawn == v2
cached == v3
cachedFor == v4
fetchedFor == v5
failing == v6
confirms == v7
USE DEF idp, withdrawn, cached, cachedFor, fetchedFor, failing, confirms

IsFetching(c) == confirms[c].pc \in {"sent", "back"}

\* The provider's own keys are not withdrawn, and what a fetch has read, or the gateway has
\* cached, was withdrawn after the fetch began.
AgesHold ==
  /\ \A k \in idp : withdrawn[k] = 0
  /\ \A k \in cached : withdrawn[k] <= cachedFor
  /\ \A c \in Confirms : confirms[c].pc = "back" =>
       \A k \in confirms[c].keys : withdrawn[k] <= confirms[c].age

\* No fetch under way began after the last one, and if none is and none failed, the cached keys
\* are not much older than it.
TokensFetchesHold ==
  /\ \A c \in Confirms : IsFetching(c) => confirms[c].age >= fetchedFor
  /\ failing \/ Tokens!Fetching \/ cachedFor <= fetchedFor + FetchTime

KidsHold == \A c \in Confirms : confirms[c].pc # "idle" => confirms[c].kid \in TokenKeys

TokensInv == Tokens!TypeOK /\ AgesHold /\ TokensFetchesHold /\ KidsHold /\ Tokens!WithdrawnKeyIsRefused /\ Tokens!ProviderIsSpared

-----------------------------------------------------------------------------
LEMMA TokensNumbers ==
  ASSUME Tokens!TimesAssumption
  PROVE  /\ CacheTime \in Nat /\ RefetchTime \in Nat /\ FetchTime \in Nat /\ Tokens!Long \in Nat
         /\ RefetchTime > 0 /\ FetchTime > 0
         /\ RefetchTime + FetchTime <= CacheTime
         /\ CacheTime < Tokens!Long /\ RefetchTime < Tokens!Long /\ FetchTime < Tokens!Long
         /\ MadeUp \subseteq TokenKeys
<1>1. /\ CacheTime \in Nat /\ RefetchTime \in Nat /\ FetchTime \in Nat
      /\ RefetchTime > 0 /\ FetchTime > 0
  BY DEF Tokens!TimesAssumption
<1> QED BY <1>1 DEF Tokens!TimesAssumption, Tokens!Long

LEMMA OlderIs ==
  ASSUME Tokens!TimesAssumption, NEW n \in Tokens!Ages
  PROVE  /\ Tokens!Older(n) \in Tokens!Ages /\ Tokens!Older(n) = IF n = Tokens!Long THEN Tokens!Long ELSE n + 1
<1>1. Tokens!Long \in Nat /\ n \in Nat /\ n <= Tokens!Long
  BY TokensNumbers DEF Tokens!Ages
<1>2. \A a, b \in Nat : Tokens!Min({a, b}) = IF a <= b THEN a ELSE b
  <2> SUFFICES ASSUME NEW a \in Nat, NEW b \in Nat
               PROVE  Tokens!Min({a, b}) = IF a <= b THEN a ELSE b
    OBVIOUS
  <2>1. \E x \in {a, b} : \A y \in {a, b} : x <= y
    OBVIOUS
  <2>2. Tokens!Min({a, b}) \in {a, b} /\ \A y \in {a, b} : Tokens!Min({a, b}) <= y
    BY <2>1 DEF Tokens!Min
  <2> QED BY <2>2
<1> QED BY <1>1, <1>2 DEF Tokens!Older, Tokens!Ages

LEMMA VerdictIs ==
  ASSUME NEW kid, NEW ks, NEW m
  PROVE  /\ Tokens!Verdict(kid, ks, m) \in {"rejected", "meanwhile", "accepted"}
         /\ Tokens!Verdict(kid, ks, m) = "accepted" => kid \in ks /\ ~m
BY DEF Tokens!Verdict

Confirm == [pc : {"idle", "sent", "back", "accepted", "meanwhile", "rejected"},
            kid : TokenKeys \cup {"none"}, keys : SUBSET TokenKeys, age : 0..FetchTime]

LEMMA IdleIs ==
  ASSUME Tokens!TimesAssumption
  PROVE  Tokens!Idle \in Confirm /\ Tokens!Idle.pc = "idle" /\ Tokens!Idle.age = 0 /\ Tokens!Idle.keys = {}
<1>1. 0 \in 0..FetchTime
  BY TokensNumbers
<1> QED BY <1>1 DEF Tokens!Idle, Confirm

LEMMA TokensStateIs ==
  ASSUME Tokens!TimesAssumption, TokensInv
  PROVE  /\ idp \subseteq TokenKeys /\ cached \subseteq TokenKeys /\ failing \in BOOLEAN
         /\ withdrawn \in [TokenKeys -> Tokens!Ages] /\ \A k \in TokenKeys : withdrawn[k] \in Nat
         /\ cachedFor \in Nat /\ fetchedFor \in Nat /\ cachedFor \in Tokens!Ages /\ fetchedFor \in Tokens!Ages
         /\ 0 \in Tokens!Ages
         /\ confirms \in [Confirms -> Confirm]
         /\ \A c \in Confirms : confirms[c] \in Confirm /\ confirms[c].age \in Nat
                                /\ confirms[c].age <= FetchTime
BY TokensNumbers DEF TokensInv, Tokens!TypeOK, Tokens!Ages, Confirm

\* One confirmation ends or is begun anew without a fetch.
LEMMA SettledKeeps ==
  ASSUME Tokens!TimesAssumption, TokensInv, NEW c \in Confirms, NEW j \in Confirm,
         confirms' = [confirms EXCEPT ![c] = j], UNCHANGED <<idp, withdrawn, fetchedFor>>,
         j.pc \notin {"sent", "back"}, j.pc # "idle" => j.kid \in TokenKeys,
         j.pc = "accepted" => withdrawn[j.kid] <= CacheTime,
         cached' \subseteq TokenKeys, cachedFor' \in Tokens!Ages, failing' \in BOOLEAN,
         \A k \in cached' : withdrawn[k] <= cachedFor',
         \/ failing' \/ cachedFor' <= fetchedFor + FetchTime
         \/ ~IsFetching(c) /\ failing' = failing /\ cachedFor' = cachedFor
  PROVE  TokensInv'
<1>1. /\ confirms'[c] = j /\ \A d \in Confirms : d # c => confirms'[d] = confirms[d]
      /\ confirms' \in [Confirms -> Confirm]
  BY TokensStateIs
<1>2. Tokens!TypeOK'
  BY <1>1 DEF TokensInv, Tokens!TypeOK, Confirm
<1>3. AgesHold'
  BY <1>1 DEF TokensInv, AgesHold
<1>4. TokensFetchesHold'
  <2>1. ASSUME NEW d \in Confirms, confirms'[d].pc \in {"sent", "back"}
        PROVE  d # c /\ confirms'[d] = confirms[d] /\ confirms[d].age >= fetchedFor
    BY <1>1, <2>1 DEF TokensInv, TokensFetchesHold, IsFetching
  <2>2. failing' \/ Tokens!Fetching' \/ cachedFor' <= fetchedFor + FetchTime
    <3>1. CASE failing' \/ cachedFor' <= fetchedFor + FetchTime
      BY <3>1
    <3>2. CASE ~IsFetching(c) /\ failing' = failing /\ cachedFor' = cachedFor
      <4>1. Tokens!Fetching => Tokens!Fetching'
        BY <1>1, <3>2 DEF Tokens!Fetching, IsFetching
      <4> QED BY <3>2, <4>1 DEF TokensInv, TokensFetchesHold
    <3> QED BY <3>1, <3>2
  <2> QED BY <2>1, <2>2 DEF TokensFetchesHold, IsFetching
<1>5. KidsHold' /\ Tokens!WithdrawnKeyIsRefused' /\ Tokens!ProviderIsSpared'
  BY <1>1 DEF TokensInv, KidsHold, Tokens!WithdrawnKeyIsRefused, Tokens!ProviderIsSpared
<1> QED BY <1>2, <1>3, <1>4, <1>5 DEF TokensInv

LEMMA PresentKeeps ==
  ASSUME Tokens!TimesAssumption, TokensInv, NEW c \in Confirms, Tokens!Present(c)
  PROVE  TokensInv'
<1>0. /\ confirms[c].pc = "idle" /\ UNCHANGED <<idp, withdrawn, cached, cachedFor, failing>>
  BY DEF Tokens!Present
<1>1. PICK kid \in TokenKeys :
       IF Tokens!MustFetch(kid) /\ Tokens!Due
       THEN /\ confirms' = [confirms EXCEPT ![c] = [Tokens!Idle EXCEPT !.pc = "sent", !.kid = kid]]
            /\ fetchedFor' = Tokens!FetchBegun
       ELSE /\ confirms' = [confirms EXCEPT ![c] =
                 [Tokens!Idle EXCEPT !.pc = Tokens!Verdict(kid, cached, failing \/ Tokens!Fetching), !.kid = kid]]
            /\ UNCHANGED fetchedFor
  BY DEF Tokens!Present
<1>2. CASE Tokens!MustFetch(kid) /\ Tokens!Due
  <2> DEFINE j == [Tokens!Idle EXCEPT !.pc = "sent", !.kid = kid]
  <2>1. j \in Confirm /\ j.pc = "sent" /\ j.kid = kid /\ j.age = 0
    BY IdleIs DEF Confirm
  <2>2. confirms' = [confirms EXCEPT ![c] = j] /\ fetchedFor' = 0 /\ fetchedFor > RefetchTime
    BY <1>1, <1>2 DEF Tokens!FetchBegun, Tokens!Due
  <2> HIDE DEF j
  <2>3. /\ confirms'[c] = j /\ \A d \in Confirms : d # c => confirms'[d] = confirms[d]
        /\ confirms' \in [Confirms -> Confirm]
    BY <2>1, <2>2, TokensStateIs
  <2>4. Tokens!TypeOK'
    BY <1>0, <2>2, <2>3, TokensStateIs DEF TokensInv, Tokens!TypeOK, Confirm
  <2>5. AgesHold' /\ KidsHold' /\ Tokens!WithdrawnKeyIsRefused'
    BY <1>0, <2>1, <2>3 DEF TokensInv, AgesHold, KidsHold, Tokens!WithdrawnKeyIsRefused
  <2>6. Tokens!Fetching' /\ \A d \in Confirms : confirms'[d].age \in Nat
    BY <2>1, <2>3, TokensStateIs DEF Tokens!Fetching
  <2>7. TokensFetchesHold'
    BY <2>2, <2>6 DEF TokensFetchesHold, IsFetching
  <2>8. ASSUME NEW d \in Confirms, d # c, confirms'[d].pc \in {"sent", "back"}
        PROVE  confirms'[d].age - confirms'[c].age > RefetchTime
    <3>1. confirms[d].age >= fetchedFor /\ confirms[d].age \in Nat /\ confirms'[d] = confirms[d]
      BY <2>3, <2>8, TokensStateIs DEF TokensInv, TokensFetchesHold, IsFetching
    <3> QED BY <2>1, <2>2, <2>3, <3>1, TokensStateIs, TokensNumbers
  <2>9. Tokens!ProviderIsSpared'
    <3> SUFFICES ASSUME NEW a \in Confirms, NEW b \in Confirms, a # b,
                        confirms'[a].pc \in {"sent", "back"}, confirms'[b].pc \in {"sent", "back"}
                 PROVE  \/ confirms'[a].age - confirms'[b].age > RefetchTime
                        \/ confirms'[b].age - confirms'[a].age > RefetchTime
      BY DEF Tokens!ProviderIsSpared
    <3>1. CASE a = c
      BY <2>8, <3>1
    <3>2. CASE b = c
      BY <2>8, <3>2
    <3>3. CASE a # c /\ b # c
      BY <2>3, <3>3 DEF TokensInv, Tokens!ProviderIsSpared
    <3> QED BY <3>1, <3>2, <3>3
  <2> QED BY <2>4, <2>5, <2>7, <2>9 DEF TokensInv
<1>3. CASE ~(Tokens!MustFetch(kid) /\ Tokens!Due)
  <2> DEFINE meanwhile == failing \/ Tokens!Fetching
             verdict == Tokens!Verdict(kid, cached, meanwhile)
             j == [Tokens!Idle EXCEPT !.pc = verdict, !.kid = kid]
  <2>1. /\ verdict \in {"rejected", "meanwhile", "accepted"}
        /\ verdict = "accepted" => kid \in cached /\ ~meanwhile
    BY VerdictIs
  <2>2. confirms' = [confirms EXCEPT ![c] = j] /\ UNCHANGED fetchedFor
    BY <1>1, <1>3
  <2> HIDE DEF verdict
  <2>3. j \in Confirm /\ j.pc = verdict /\ j.kid = kid
    BY <2>1, IdleIs DEF Confirm
  <2> HIDE DEF j
  <2>4. ASSUME verdict = "accepted"
        PROVE  withdrawn[kid] <= CacheTime
    <3>1. cachedFor <= CacheTime
      <4>1. CASE ~Tokens!Stale
        BY <4>1, TokensStateIs, TokensNumbers DEF Tokens!Stale
      <4>2. CASE ~Tokens!Due
        <5>1. fetchedFor <= RefetchTime
          BY <4>2, TokensStateIs, TokensNumbers DEF Tokens!Due
        <5>2. cachedFor <= fetchedFor + FetchTime
          BY <2>1, <2>4 DEF TokensInv, TokensFetchesHold
        <5> QED BY <5>1, <5>2, TokensStateIs, TokensNumbers
      <4> QED BY <1>3, <4>1, <4>2 DEF Tokens!MustFetch
    <3>2. withdrawn[kid] <= cachedFor
      BY <2>1, <2>4 DEF TokensInv, AgesHold
    <3> QED BY <3>1, <3>2, TokensStateIs, TokensNumbers
  <2> HIDE DEF meanwhile
  <2>5. ~IsFetching(c)
    BY <1>0 DEF IsFetching
  <2> QED BY <1>0, <2>1, <2>2, <2>3, <2>4, <2>5, TokensStateIs, SettledKeeps DEF TokensInv, AgesHold
<1> QED BY <1>2, <1>3

LEMMA ServeKeeps ==
  ASSUME Tokens!TimesAssumption, TokensInv, NEW c \in Confirms, Tokens!Serve(c)
  PROVE  TokensInv'
<1> DEFINE j == [confirms[c] EXCEPT !.pc = "back", !.keys = idp]
<1>1. /\ confirms[c].pc = "sent" /\ confirms' = [confirms EXCEPT ![c] = j]
      /\ UNCHANGED <<idp, withdrawn, cached, cachedFor, fetchedFor, failing>>
  BY TokensStateIs DEF Tokens!Serve
<1>2. j \in Confirm /\ j.pc = "back" /\ j.keys = idp /\ j.kid = confirms[c].kid /\ j.age = confirms[c].age
  BY TokensStateIs DEF Confirm
<1> HIDE DEF j
<1>3. /\ confirms'[c] = j /\ \A d \in Confirms : d # c => confirms'[d] = confirms[d]
      /\ confirms' \in [Confirms -> Confirm]
  BY <1>1, <1>2, TokensStateIs
<1>4. Tokens!TypeOK'
  BY <1>1, <1>3 DEF TokensInv, Tokens!TypeOK, Confirm
<1>5. AgesHold'
  <2>1. \A k \in idp : withdrawn[k] <= j.age
    BY <1>2, TokensStateIs DEF TokensInv, AgesHold
  <2> QED BY <1>1, <1>2, <1>3, <2>1 DEF TokensInv, AgesHold
<1>6. TokensFetchesHold'
  <2>1. Tokens!Fetching' /\ \A d \in Confirms : confirms'[d].age = confirms[d].age
                                         /\ (IsFetching(d)' => IsFetching(d))
    BY <1>1, <1>2, <1>3 DEF Tokens!Fetching, IsFetching
  <2> QED BY <1>1, <2>1 DEF TokensInv, TokensFetchesHold
<1>7. KidsHold' /\ Tokens!WithdrawnKeyIsRefused' /\ Tokens!ProviderIsSpared'
  BY <1>1, <1>2, <1>3 DEF TokensInv, KidsHold, Tokens!WithdrawnKeyIsRefused, Tokens!ProviderIsSpared
<1> QED BY <1>4, <1>5, <1>6, <1>7 DEF TokensInv

LEMMA ReceiveKeeps ==
  ASSUME Tokens!TimesAssumption, TokensInv, NEW c \in Confirms, Tokens!Receive(c)
  PROVE  TokensInv'
<1> DEFINE verdict == Tokens!Verdict(confirms[c].kid, confirms[c].keys, FALSE)
           j == [confirms[c] EXCEPT !.pc = verdict, !.keys = {}, !.age = 0]
<1>1. /\ confirms[c].pc = "back" /\ confirms' = [confirms EXCEPT ![c] = j]
      /\ cached' = confirms[c].keys /\ cachedFor' = confirms[c].age /\ failing' = FALSE
      /\ UNCHANGED <<idp, withdrawn, fetchedFor>>
  BY TokensStateIs DEF Tokens!Receive
<1>2. /\ verdict \in {"rejected", "meanwhile", "accepted"}
      /\ verdict = "accepted" => confirms[c].kid \in confirms[c].keys
  BY VerdictIs
<1>3. \A k \in confirms[c].keys : withdrawn[k] <= confirms[c].age
  BY <1>1 DEF TokensInv, AgesHold
<1>4. /\ confirms[c].keys \subseteq TokenKeys /\ confirms[c].kid \in TokenKeys
      /\ confirms[c].age \in Nat /\ confirms[c].age <= FetchTime /\ confirms[c].age \in Tokens!Ages
  BY <1>1, TokensStateIs, TokensNumbers DEF TokensInv, KidsHold, Confirm, Tokens!Ages
<1> HIDE DEF verdict
<1>5. j \in Confirm /\ j.pc = verdict /\ j.kid = confirms[c].kid
  <2>1. 0 \in 0..FetchTime
    BY TokensNumbers
  <2> QED BY <1>2, <2>1, TokensStateIs DEF Confirm
<1> HIDE DEF j
<1>6. verdict = "accepted" => withdrawn[j.kid] <= CacheTime
  BY <1>2, <1>3, <1>4, <1>5, TokensStateIs, TokensNumbers
<1>7. cachedFor' <= fetchedFor + FetchTime
  BY <1>1, <1>4, TokensStateIs, TokensNumbers
<1> QED BY <1>1, <1>2, <1>3, <1>4, <1>5, <1>6, <1>7, SettledKeeps

LEMMA TokensFetchFailsKeeps ==
  ASSUME Tokens!TimesAssumption, TokensInv, NEW c \in Confirms, Tokens!FetchFails(c)
  PROVE  TokensInv'
<1> DEFINE verdict == Tokens!Verdict(confirms[c].kid, cached, TRUE)
           j == [confirms[c] EXCEPT !.pc = verdict, !.keys = {}, !.age = 0]
<1>1. /\ confirms[c].pc # "idle" /\ confirms' = [confirms EXCEPT ![c] = j] /\ failing' = TRUE
      /\ UNCHANGED <<idp, withdrawn, cached, cachedFor, fetchedFor>>
  BY TokensStateIs DEF Tokens!FetchFails
<1>2. verdict \in {"rejected", "meanwhile"}
  BY VerdictIs
<1> HIDE DEF verdict
<1>3. j \in Confirm /\ j.pc = verdict /\ j.kid = confirms[c].kid /\ j.kid \in TokenKeys
  <2>1. 0 \in 0..FetchTime
    BY TokensNumbers
  <2> QED BY <1>1, <1>2, <2>1, TokensStateIs DEF Confirm, TokensInv, KidsHold
<1> HIDE DEF j
<1>4. /\ cached' \subseteq TokenKeys /\ cachedFor' \in Tokens!Ages
      /\ \A k \in cached' : withdrawn[k] <= cachedFor'
  BY <1>1, TokensStateIs DEF TokensInv, AgesHold
<1> QED BY <1>1, <1>2, <1>3, <1>4, SettledKeeps

LEMMA AnsweredKeeps ==
  ASSUME Tokens!TimesAssumption, TokensInv, NEW c \in Confirms, Tokens!Answered(c)
  PROVE  TokensInv'
<1>1. /\ ~IsFetching(c) /\ confirms' = [confirms EXCEPT ![c] = Tokens!Idle]
      /\ UNCHANGED <<idp, withdrawn, cached, cachedFor, fetchedFor, failing>>
  BY DEF Tokens!Answered, IsFetching
<1>2. /\ cached' \subseteq TokenKeys /\ cachedFor' \in Tokens!Ages /\ failing' \in BOOLEAN
      /\ \A k \in cached' : withdrawn[k] <= cachedFor'
  BY <1>1, TokensStateIs DEF TokensInv, AgesHold
<1> QED BY <1>1, <1>2, IdleIs, SettledKeeps

LEMMA RotateKeeps ==
  ASSUME Tokens!TimesAssumption, TokensInv, Tokens!Rotate
  PROVE  TokensInv'
<1>1. UNCHANGED <<cached, cachedFor, fetchedFor, failing, confirms>>
  BY DEF Tokens!Rotate
<1>2. PICK k \in TokenKeys \ MadeUp :
        /\ withdrawn' = [withdrawn EXCEPT ![k] = 0]
        /\ idp' = idp \cup {k} \/ idp' = idp \ {k}
  BY DEF Tokens!Rotate
<1>3. /\ withdrawn' \in [TokenKeys -> Tokens!Ages] /\ withdrawn'[k] = 0
      /\ \A q \in TokenKeys : q # k => withdrawn'[q] = withdrawn[q]
      /\ \A q \in TokenKeys : withdrawn'[q] <= withdrawn[q] /\ withdrawn'[q] \in Nat
  BY <1>2, TokensStateIs
<1>4. Tokens!TypeOK'
  BY <1>1, <1>2, <1>3 DEF TokensInv, Tokens!TypeOK
<1>5. AgesHold'
  <2>1. \A q \in idp' : withdrawn'[q] = 0
    BY <1>2, <1>3, TokensStateIs DEF TokensInv, AgesHold
  <2>2. \A q \in cached : withdrawn'[q] <= cachedFor
    BY <1>3, TokensStateIs DEF TokensInv, AgesHold
  <2>3. ASSUME NEW c \in Confirms, confirms[c].pc = "back", NEW q \in confirms[c].keys
        PROVE  withdrawn'[q] <= confirms[c].age
    <3>1. q \in TokenKeys /\ withdrawn[q] <= confirms[c].age
      BY <2>3, TokensStateIs DEF TokensInv, AgesHold, Confirm
    <3> QED BY <1>3, <3>1, TokensStateIs
  <2> QED BY <1>1, <2>1, <2>2, <2>3 DEF AgesHold
<1>6. TokensFetchesHold' /\ KidsHold' /\ Tokens!ProviderIsSpared'
  BY <1>1 DEF TokensInv, TokensFetchesHold, IsFetching, Tokens!Fetching, KidsHold, Tokens!ProviderIsSpared
<1>7. Tokens!WithdrawnKeyIsRefused'
  <2> SUFFICES ASSUME NEW c \in Confirms, confirms[c].pc = "accepted"
               PROVE  withdrawn'[confirms[c].kid] <= CacheTime
    BY <1>1 DEF Tokens!WithdrawnKeyIsRefused
  <2>1. confirms[c].kid \in TokenKeys /\ withdrawn[confirms[c].kid] <= CacheTime
    BY DEF TokensInv, KidsHold, Tokens!WithdrawnKeyIsRefused
  <2> QED BY <1>3, <2>1, TokensStateIs, TokensNumbers
<1> QED BY <1>4, <1>5, <1>6, <1>7 DEF TokensInv

LEMMA TokensTickKeeps ==
  ASSUME Tokens!TimesAssumption, TokensInv, Tokens!Tick
  PROVE  TokensInv'
<1>1. /\ \A c \in Confirms : confirms[c].pc \in {"idle", "sent", "back"} /\ confirms[c].age < FetchTime
      /\ withdrawn' = [k \in TokenKeys |-> IF k \in idp THEN 0 ELSE Tokens!Older(withdrawn[k])]
      /\ cachedFor' = Tokens!Older(cachedFor) /\ fetchedFor' = Tokens!Older(fetchedFor)
      /\ confirms' = [c \in Confirms |-> IF confirms[c].pc = "idle" THEN confirms[c]
                                         ELSE [confirms[c] EXCEPT !.age = @ + 1]]
      /\ UNCHANGED <<idp, cached, failing>>
  BY DEF Tokens!Tick
<1>2. ASSUME NEW c \in Confirms
      PROVE  /\ confirms'[c] \in Confirm /\ confirms'[c].pc = confirms[c].pc
             /\ confirms'[c].kid = confirms[c].kid /\ confirms'[c].keys = confirms[c].keys
             /\ confirms[c].pc # "idle" => confirms'[c].age = confirms[c].age + 1
  <2>1. CASE confirms[c].pc = "idle"
    BY <1>1, <2>1, TokensStateIs
  <2>2. CASE confirms[c].pc # "idle"
    <3>1. confirms[c].age + 1 \in 0..FetchTime
      BY <1>1, TokensStateIs, TokensNumbers
    <3>2. confirms'[c] = [confirms[c] EXCEPT !.age = confirms[c].age + 1]
      BY <1>1, <2>2
    <3> QED BY <3>1, <3>2, TokensStateIs DEF Confirm
  <2> QED BY <2>1, <2>2
<1>3. /\ cachedFor' \in Tokens!Ages /\ fetchedFor' \in Tokens!Ages /\ cachedFor' \in Nat /\ fetchedFor' \in Nat
      /\ cachedFor' = IF cachedFor = Tokens!Long THEN Tokens!Long ELSE cachedFor + 1
      /\ fetchedFor' = IF fetchedFor = Tokens!Long THEN Tokens!Long ELSE fetchedFor + 1
  BY <1>1, TokensStateIs, OlderIs DEF Tokens!Ages
<1>4. ASSUME NEW k \in TokenKeys
      PROVE  /\ withdrawn'[k] \in Tokens!Ages /\ withdrawn'[k] \in Nat /\ withdrawn'[k] <= Tokens!Long
             /\ withdrawn'[k] <= withdrawn[k] + 1
             /\ k \in idp => withdrawn'[k] = 0
  <2>1. withdrawn[k] \in Tokens!Ages /\ withdrawn[k] \in Nat /\ 0 \in Tokens!Ages /\ Tokens!Long \in Nat
    BY TokensStateIs, TokensNumbers
  <2>2. Tokens!Older(withdrawn[k]) \in Tokens!Ages /\ Tokens!Older(withdrawn[k]) <= withdrawn[k] + 1
    BY <2>1, OlderIs
  <2>3. withdrawn'[k] = IF k \in idp THEN 0 ELSE Tokens!Older(withdrawn[k])
    BY <1>1
  <2>4. \A n \in Tokens!Ages : n \in Nat /\ n <= Tokens!Long
    BY <2>1 DEF Tokens!Ages
  <2> QED BY <2>1, <2>2, <2>3, <2>4
<1>5. Tokens!TypeOK'
  <2>1. withdrawn' \in [TokenKeys -> Tokens!Ages]
    BY <1>1, <1>4
  <2>2. confirms' \in [Confirms -> Confirm]
    BY <1>1, <1>2
  <2> QED BY <1>1, <1>3, <2>1, <2>2 DEF TokensInv, Tokens!TypeOK, Confirm
<1>6. AgesHold'
  <2>1. \A k \in idp' : withdrawn'[k] = 0
    BY <1>1, <1>4, TokensStateIs
  <2>2. ASSUME NEW k \in cached
        PROVE  withdrawn'[k] <= cachedFor'
    <3>1. k \in TokenKeys /\ withdrawn[k] <= cachedFor
      BY <2>2, TokensStateIs DEF TokensInv, AgesHold
    <3> QED BY <1>3, <1>4, <3>1, TokensStateIs, TokensNumbers
  <2>3. ASSUME NEW c \in Confirms, confirms[c].pc = "back", NEW k \in confirms[c].keys
        PROVE  withdrawn'[k] <= confirms'[c].age
    <3>1. k \in TokenKeys /\ withdrawn[k] <= confirms[c].age
      BY <2>3, TokensStateIs DEF TokensInv, AgesHold, Confirm
    <3>2. confirms'[c].age = confirms[c].age + 1
      BY <1>2, <2>3
    <3> QED BY <1>4, <3>1, <3>2, TokensStateIs
  <2> QED BY <1>1, <1>2, <2>1, <2>2, <2>3 DEF AgesHold
<1>7. TokensFetchesHold'
  <2>1. ASSUME NEW c \in Confirms, IsFetching(c)'
        PROVE  confirms'[c].age >= fetchedFor'
    <3>1. IsFetching(c) /\ confirms'[c].age = confirms[c].age + 1
      BY <1>2, <2>1 DEF IsFetching
    <3>2. confirms[c].age >= fetchedFor
      BY <3>1 DEF TokensInv, TokensFetchesHold
    <3> QED BY <1>3, <3>1, <3>2, TokensStateIs, TokensNumbers
  <2>2. Tokens!Fetching => Tokens!Fetching'
    BY <1>2 DEF Tokens!Fetching
  <2>3. cachedFor <= fetchedFor + FetchTime => cachedFor' <= fetchedFor' + FetchTime
    BY <1>3, TokensStateIs, TokensNumbers DEF Tokens!Ages
  <2> QED BY <1>1, <2>1, <2>2, <2>3 DEF TokensInv, TokensFetchesHold
<1>8. KidsHold' /\ Tokens!WithdrawnKeyIsRefused'
  BY <1>1, <1>2 DEF TokensInv, KidsHold, Tokens!WithdrawnKeyIsRefused
<1>9. Tokens!ProviderIsSpared'
  <2> SUFFICES ASSUME NEW a \in Confirms, NEW b \in Confirms, a # b,
                      confirms[a].pc \in {"sent", "back"}, confirms[b].pc \in {"sent", "back"}
               PROVE  \/ confirms'[a].age - confirms'[b].age > RefetchTime
                      \/ confirms'[b].age - confirms'[a].age > RefetchTime
    BY <1>2 DEF Tokens!ProviderIsSpared
  <2>1. confirms'[a].age = confirms[a].age + 1 /\ confirms'[b].age = confirms[b].age + 1
    BY <1>2
  <2>2. \/ confirms[a].age - confirms[b].age > RefetchTime
        \/ confirms[b].age - confirms[a].age > RefetchTime
    BY DEF TokensInv, Tokens!ProviderIsSpared
  <2> QED BY <2>1, <2>2, TokensStateIs, TokensNumbers
<1> QED BY <1>5, <1>6, <1>7, <1>8, <1>9 DEF TokensInv

-----------------------------------------------------------------------------
LEMMA TokensInitHolds == Tokens!TimesAssumption /\ Tokens!Init => TokensInv
<1> SUFFICES ASSUME Tokens!TimesAssumption, Tokens!Init
             PROVE  TokensInv
  OBVIOUS
<1>0. Tokens!Long \in Nat /\ FetchTime \in Nat /\ Tokens!Long \in Tokens!Ages /\ 0 \in Tokens!Ages
  BY TokensNumbers DEF Tokens!Ages
<1>1. Tokens!TypeOK
  BY <1>0, IdleIs DEF Tokens!Init, Tokens!TypeOK, Confirm
<1>2. AgesHold /\ TokensFetchesHold
  BY <1>0, IdleIs DEF Tokens!Init, AgesHold, TokensFetchesHold, IsFetching
<1> QED BY <1>1, <1>2, IdleIs DEF Tokens!Init, TokensInv, KidsHold, Tokens!WithdrawnKeyIsRefused, Tokens!ProviderIsSpared

LEMMA TokensNextKeeps == Tokens!TimesAssumption /\ TokensInv /\ [Tokens!Next]_(Tokens!vars) => TokensInv'
<1> SUFFICES ASSUME Tokens!TimesAssumption, TokensInv, [Tokens!Next]_(Tokens!vars)
             PROVE  TokensInv'
  OBVIOUS
<1>1. CASE UNCHANGED Tokens!vars
  BY <1>1 DEF Tokens!vars, TokensInv, Tokens!TypeOK, AgesHold, TokensFetchesHold, IsFetching, Tokens!Fetching, KidsHold,
              Tokens!WithdrawnKeyIsRefused, Tokens!ProviderIsSpared
<1>2. CASE Tokens!Next
  BY <1>2, RotateKeeps, TokensTickKeeps, PresentKeeps, ServeKeeps, ReceiveKeeps, TokensFetchFailsKeeps,
     AnsweredKeeps DEF Tokens!Next
<1> QED BY <1>1, <1>2

\* user_token.py:87-147: for any confirmations and keys of the provider, however long it fails: a
\* withdrawn key is refused once the cache is too old, and the provider is asked at most once in the
\* time between fetches.
THEOREM KeysHold == Tokens!TimesAssumption /\ Tokens!Spec => []Tokens!KeysAreFresh
<1>1. TokensInv => Tokens!KeysAreFresh
  BY DEF TokensInv, Tokens!KeysAreFresh
<1> SUFFICES ASSUME Tokens!TimesAssumption
             PROVE  Tokens!Spec => []Tokens!KeysAreFresh
  OBVIOUS
<1>2. Tokens!Init => TokensInv
  BY TokensInitHolds
<1>3. TokensInv /\ [Tokens!Next]_(Tokens!vars) => TokensInv'
  BY TokensNextKeeps
<1> QED BY <1>1, <1>2, <1>3, PTL DEF Tokens!Spec

HIDE DEF idp, withdrawn, cached, cachedFor, fetchedFor, failing, confirms

-----------------------------------------------------------------------------
(* AgentHooks: one question to an agent that uses the SDK's hooks.         *)
step == v1
pc == v2
found == v3
docs == v4
seen == v5
clock == v6
deadline == v7
wake == v8
review == v9
read == v10
approved == v11
decidedAt == v12
crossed == v13
why == v14
USE DEF step, pc, found, docs, seen, clock, deadline, wake, review, read, approved, decidedAt, crossed, why

Steps == {"prompt", "docs", "args", "result", "answer"}
Ready == [what : Steps, by : {"gateway", "reviewer"}]

(* The agent's values: which step, what was let out, what was approved. *)
ValuesHold ==
  /\ step \in Steps /\ pc \in {"call", "held", "asked", "stopped", "done"}
  /\ found \in Hooks!Found /\ approved \subseteq Steps
  /\ seen \in [{"search", "llm", "tool", "user"} -> SUBSET Ready]

(* The client's clock. *)
ClocksHold ==
  /\ deadline \in Nat /\ deadline <= Wait /\ clock \in Nat /\ clock <= deadline + PollEvery
  /\ decidedAt \in Nat /\ decidedAt <= Hooks!Never /\ crossed \in BOOLEAN

(* A review that waits has no time of decision, an approved one has its step approved, and a poll
                        that found a decision found the one that stands. *)
ReviewsHold ==
  pc \in {"held", "asked"} =>
    /\ review \in {"pending", "approved", "rejected", "expired"}
    /\ review = "pending" => decidedAt = Hooks!Never
    /\ review = "approved" => step \in approved
    /\ pc = "asked" => read \in {"pending", review}

(* A poll that found the review waiting and is still looked at after the deadline was either sent
                        after the deadline or was under way when it passed. *)
LateOnlyIfCrossed ==
  pc = "asked" /\ read = "pending" /\ clock >= deadline => crossed \/ decidedAt >= deadline

(* Only a client that has stopped has given up. *)
WaitingIsOver == why = "waiting" => pc = "stopped"

HooksInv == /\ ValuesHold /\ ClocksHold /\ ReviewsHold /\ LateOnlyIfCrossed /\ WaitingIsOver
            /\ Hooks!HeldNeedsApproval /\ Hooks!DocsKeepPlace /\ Hooks!GivesUpInTime

LEMMA HooksNumbers ==
  ASSUME Hooks!BoundsAssumption
  PROVE  Wait \in Nat /\ PollEvery \in Nat /\ PollEvery > 0 /\ Hooks!Never \in Nat /\ Hooks!Never > Wait + PollEvery
BY DEF Hooks!BoundsAssumption, Hooks!Never

LEMMA HooksTypesHold ==
  ASSUME Hooks!BoundsAssumption, HooksInv
  PROVE  Hooks!TypeOK
<1>1. clock \in 0..(Wait + PollEvery) /\ decidedAt \in 0..Hooks!Never
  BY HooksNumbers DEF HooksInv, ClocksHold
<1> QED BY <1>1 DEF HooksInv, ValuesHold, ClocksHold, Hooks!TypeOK, Steps

LEMMA HooksInitHolds ==
  ASSUME Hooks!BoundsAssumption, Hooks!Init
  PROVE  HooksInv
<1>1. ValuesHold
  BY DEF Hooks!Init, ValuesHold, Steps, Ready
<1>2. ClocksHold
  <2>1. deadline \in Nat /\ deadline <= Wait /\ clock \in Nat /\ clock <= deadline + PollEvery
    BY HooksNumbers DEF Hooks!Init
  <2>2. decidedAt \in Nat /\ decidedAt <= Hooks!Never
    BY HooksNumbers DEF Hooks!Init
  <2>3. crossed \in BOOLEAN
    BY DEF Hooks!Init
  <2> QED BY <2>1, <2>2, <2>3 DEF ClocksHold
<1> QED BY <1>1, <1>2
        DEF HooksInv, Hooks!Init, ReviewsHold, LateOnlyIfCrossed, WaitingIsOver, Hooks!HeldNeedsApproval, Hooks!DocsKeepPlace, Hooks!GivesUpInTime

(* A value that is used was let out by the gateway, or by a reviewer who approved its step; and the
                        documents that are used keep their places. *)
LEMMA KeptIsInPlace ==
  ASSUME NEW by \in {"gateway", "reviewer"}, found \in Hooks!Found, NEW kept \in Hooks!Kept(by), NEW i \in DOMAIN Hooks!ToDocuments(kept)
  PROVE  LET ds == Hooks!ToDocuments(kept)
         IN  /\ ds[i].pos \in DOMAIN found /\ ds[i].text[1] = ds[i].pos
             /\ \A j \in DOMAIN ds : i < j => ds[i].pos < ds[j].pos
<1> DEFINE Fits(n, ids) ==
             /\ \A a, b \in DOMAIN ids : a < b => ids[a] < ids[b]
             /\ kept = [a \in DOMAIN ids |-> [id |-> ids[a], text |-> <<ids[a], by>>]]
<1>0. PICK n \in 0..Len(found) : \E ids \in [1..n -> DOMAIN found] : Fits(n, ids)
  BY DEF Hooks!Kept
<1>1. PICK ids \in [1..n -> DOMAIN found] : Fits(n, ids)
  BY <1>0
<1>2. Hooks!ToDocuments(kept) = [a \in 1..n |-> [pos |-> ids[a], text |-> <<ids[a], by>>]]
  BY <1>1 DEF Hooks!ToDocuments
<1>3. i \in 1..n /\ ids[i] \in DOMAIN found
  BY <1>2
<1>4. Hooks!ToDocuments(kept)[i].pos = ids[i] /\ Hooks!ToDocuments(kept)[i].text = <<ids[i], by>>
  BY <1>2, <1>3
<1>5. ASSUME NEW j \in DOMAIN Hooks!ToDocuments(kept), i < j
      PROVE  Hooks!ToDocuments(kept)[i].pos < Hooks!ToDocuments(kept)[j].pos
  <2>1. j \in 1..n /\ Hooks!ToDocuments(kept)[j].pos = ids[j]
    BY <1>2
  <2> QED BY <1>1, <1>3, <1>4, <1>5, <2>1
<1> QED BY <1>3, <1>4, <1>5

LEMMA UseKeeps ==
  ASSUME Hooks!BoundsAssumption, HooksInv, NEW by \in {"gateway", "reviewer"}, Hooks!Use(by), UNCHANGED Hooks!clocks,
         by = "reviewer" => step \in approved, pc \in {"call", "asked"}
  PROVE  HooksInv'
<1>1. /\ step' \in Steps /\ pc' \in {"call", "done"} /\ UNCHANGED <<found, why>>
      /\ UNCHANGED <<clock, deadline, wake, review, read, approved, decidedAt, crossed>>
  BY DEF Hooks!Use, Hooks!After, Hooks!clocks, Steps, HooksInv, ValuesHold
<1>2. seen' \in [{"search", "llm", "tool", "user"} -> SUBSET Ready] /\ Hooks!HeldNeedsApproval'
  <2>1. Hooks!Value(step, by) \in Ready /\ Hooks!Value(step, by).by = by /\ Hooks!Value(step, by).what = step
    BY DEF Hooks!Value, Ready, HooksInv, ValuesHold
  <2>2. seen' = [p \in {"search", "llm", "tool", "user"} |->
                   IF p \in Hooks!Gives(step) THEN seen[p] \cup {Hooks!Value(step, by)} ELSE seen[p]]
    BY DEF Hooks!Use, HooksInv, ValuesHold
  <2>3. seen \in [{"search", "llm", "tool", "user"} -> SUBSET Ready] /\ Hooks!HeldNeedsApproval
    BY DEF HooksInv, ValuesHold
  <2>4. \A p \in {"search", "llm", "tool", "user"} : \A v \in seen'[p] :
          v \in seen[p] \/ v = Hooks!Value(step, by)
    BY <2>2
  <2>5. Hooks!HeldNeedsApproval'
    BY <1>1, <2>1, <2>2, <2>3, <2>4 DEF Hooks!HeldNeedsApproval
  <2> QED BY <2>1, <2>2, <2>3, <2>5
<1>3. Hooks!DocsKeepPlace'
  <2>1. CASE step = "docs"
    <3>1. PICK kept \in Hooks!Kept(by) : docs' = Hooks!ToDocuments(kept)
      BY <2>1 DEF Hooks!Use
    <3>2. found \in Hooks!Found
      BY DEF HooksInv, ValuesHold
    <3> QED BY <1>1, <3>1, <3>2, KeptIsInPlace DEF Hooks!DocsKeepPlace
  <2>2. CASE step # "docs"
    BY <1>1, <2>2 DEF Hooks!Use, HooksInv, Hooks!DocsKeepPlace
  <2> QED BY <2>1, <2>2
<1>4. why # "waiting"
  BY DEF HooksInv, WaitingIsOver
<1> QED BY <1>1, <1>2, <1>3, <1>4
        DEF HooksInv, ValuesHold, ClocksHold, ReviewsHold, LateOnlyIfCrossed, WaitingIsOver, Hooks!GivesUpInTime, Hooks!Never

LEMMA StopKeeps ==
  ASSUME Hooks!BoundsAssumption, HooksInv, NEW reason, Hooks!Stop(reason), UNCHANGED Hooks!clocks,
         reason = "waiting" => clock >= deadline /\ (decidedAt < deadline => crossed)
  PROVE  HooksInv'
<1>1. /\ pc' = "stopped" /\ why' = reason /\ UNCHANGED <<step, found, docs, seen>>
      /\ UNCHANGED <<clock, deadline, wake, review, read, approved, decidedAt, crossed>>
  BY DEF Hooks!Stop, Hooks!clocks
<1> QED BY <1>1
        DEF HooksInv, ValuesHold, ClocksHold, ReviewsHold, LateOnlyIfCrossed, WaitingIsOver,
            Hooks!HeldNeedsApproval, Hooks!DocsKeepPlace, Hooks!GivesUpInTime, Hooks!Never

LEMMA NothingFoundKeeps ==
  ASSUME Hooks!BoundsAssumption, HooksInv, Hooks!NothingFound
  PROVE  HooksInv'
<1>1. /\ docs' = <<>> /\ step' \in Steps /\ pc = "call" /\ UNCHANGED <<pc, found, seen, why>>
      /\ UNCHANGED <<clock, deadline, wake, review, read, approved, decidedAt, crossed>>
  BY DEF Hooks!NothingFound, Hooks!After, Steps, Hooks!clocks
<1> QED BY <1>1
        DEF HooksInv, ValuesHold, ClocksHold, ReviewsHold, LateOnlyIfCrossed, WaitingIsOver,
            Hooks!HeldNeedsApproval, Hooks!DocsKeepPlace, Hooks!GivesUpInTime, Hooks!Never

LEMMA HeldKeeps ==
  ASSUME Hooks!BoundsAssumption, HooksInv, Hooks!Held
  PROVE  HooksInv'
<1>1. /\ pc = "call" /\ pc' = "held" /\ clock' = 0 /\ deadline' = Wait
      /\ review' = "pending" /\ decidedAt' = Hooks!Never /\ crossed' = FALSE
      /\ UNCHANGED <<step, found, docs, seen, approved, why>>
  BY DEF Hooks!Held, Hooks!Calls
<1>2. why # "waiting"
  BY <1>1 DEF HooksInv, WaitingIsOver
<1>3. ClocksHold'
  <2>1. deadline' \in Nat /\ deadline' <= Wait /\ clock' \in Nat /\ clock' <= deadline' + PollEvery
    BY <1>1, HooksNumbers
  <2>2. decidedAt' \in Nat /\ decidedAt' <= Hooks!Never
    BY <1>1, HooksNumbers
  <2>3. crossed' \in BOOLEAN
    BY <1>1
  <2>4. Hooks!Never' = Hooks!Never
    BY DEF Hooks!Never
  <2> QED BY <2>1, <2>2, <2>3, <2>4 DEF ClocksHold
<1> QED BY <1>1, <1>2, <1>3
        DEF HooksInv, ValuesHold, ReviewsHold, LateOnlyIfCrossed, WaitingIsOver,
            Hooks!HeldNeedsApproval, Hooks!DocsKeepPlace, Hooks!GivesUpInTime, Hooks!Never

LEMMA PollKeeps ==
  ASSUME Hooks!BoundsAssumption, HooksInv, Hooks!Poll
  PROVE  HooksInv'
<1>1. /\ pc = "held" /\ pc' = "asked" /\ read' = review
      /\ UNCHANGED <<step, found, docs, seen, why, clock, deadline, wake, review, approved, decidedAt, crossed>>
  BY DEF Hooks!Poll
<1>2. why # "waiting"
  BY <1>1 DEF HooksInv, WaitingIsOver
<1>3. LateOnlyIfCrossed'
  <2>1. review = "pending" => decidedAt = Hooks!Never
    BY <1>1 DEF HooksInv, ReviewsHold
  <2>2. Hooks!Never \in Nat /\ Hooks!Never >= deadline
    BY HooksNumbers DEF HooksInv, ClocksHold
  <2> QED BY <1>1, <2>1, <2>2 DEF LateOnlyIfCrossed
<1> QED BY <1>1, <1>2, <1>3
        DEF HooksInv, ValuesHold, ClocksHold, ReviewsHold, WaitingIsOver,
            Hooks!HeldNeedsApproval, Hooks!DocsKeepPlace, Hooks!GivesUpInTime, Hooks!Never

LEMMA SleepKeeps ==
  ASSUME Hooks!BoundsAssumption, HooksInv, Hooks!Sleep
  PROVE  HooksInv'
<1>1. /\ pc = "asked" /\ pc' = "held"
      /\ UNCHANGED <<step, found, docs, seen, why, clock, deadline, review, read, approved, decidedAt, crossed>>
  BY DEF Hooks!Sleep
<1> QED BY <1>1
        DEF HooksInv, ValuesHold, ClocksHold, ReviewsHold, LateOnlyIfCrossed, WaitingIsOver,
            Hooks!HeldNeedsApproval, Hooks!DocsKeepPlace, Hooks!GivesUpInTime, Hooks!Never

LEMMA DecidedKeeps ==
  ASSUME Hooks!BoundsAssumption, HooksInv, Hooks!Decided
  PROVE  HooksInv'
<1>1. pc = "asked" /\ (read # "pending" \/ clock >= deadline) /\ UNCHANGED Hooks!clocks
  BY DEF Hooks!Decided, Hooks!GivesUp
<1>2. CASE read = "approved"
  <2>1. step \in approved
    BY <1>1, <1>2 DEF HooksInv, ReviewsHold
  <2>2. Hooks!Use("reviewer")
    BY <1>2 DEF Hooks!Decided, Hooks!Approves
  <2> QED BY <1>1, <2>1, <2>2, UseKeeps
<1>3. CASE read # "approved"
  <2> DEFINE reason == IF read = "pending" THEN "waiting" ELSE "refused"
  <2>1. Hooks!Stop(reason)
    BY <1>3 DEF Hooks!Decided, Hooks!Approves
  <2>2. reason = "waiting" => clock >= deadline /\ (decidedAt < deadline => crossed)
    <3>1. SUFFICES ASSUME read = "pending"
                   PROVE  clock >= deadline /\ (decidedAt < deadline => crossed)
      OBVIOUS
    <3>2. clock >= deadline /\ (crossed \/ decidedAt >= deadline)
      BY <1>1, <3>1 DEF HooksInv, LateOnlyIfCrossed
    <3>3. deadline \in Nat /\ decidedAt \in Nat
      BY HooksNumbers DEF HooksInv, ClocksHold
    <3> QED BY <3>2, <3>3
  <2> HIDE DEF reason
  <2> QED BY <1>1, <2>1, <2>2, StopKeeps
<1> QED BY <1>2, <1>3

LEMMA ReviewEndsKeeps ==
  ASSUME Hooks!BoundsAssumption, HooksInv, Hooks!ReviewEnds
  PROVE  HooksInv'
<1>1. /\ pc \in {"held", "asked"} /\ review = "pending"
      /\ review' \in {"approved", "rejected", "expired"}
      /\ decidedAt' = clock
      /\ UNCHANGED <<step, pc, found, docs, seen, why, clock, deadline, wake, read, crossed>>
  BY DEF Hooks!ReviewEnds
<1>2. approved \subseteq approved' /\ approved' \subseteq Steps /\ (review' = "approved" => step \in approved')
  BY DEF Hooks!ReviewEnds, HooksInv, ValuesHold
<1>3. why # "waiting"
  BY <1>1 DEF HooksInv, WaitingIsOver
<1>4. ClocksHold'
  BY <1>1, HooksNumbers DEF HooksInv, ClocksHold, Hooks!Never
<1>5. LateOnlyIfCrossed'
  BY <1>1 DEF LateOnlyIfCrossed
<1>6. ReviewsHold'
  BY <1>1, <1>2 DEF HooksInv, ReviewsHold, Hooks!Never
<1> QED BY <1>1, <1>2, <1>3, <1>4, <1>5, <1>6
        DEF HooksInv, ValuesHold, WaitingIsOver, Hooks!HeldNeedsApproval, Hooks!DocsKeepPlace, Hooks!GivesUpInTime

LEMMA HooksTickKeeps ==
  ASSUME Hooks!BoundsAssumption, HooksInv, Hooks!Tick
  PROVE  HooksInv'
<1>1. /\ pc \in {"held", "asked"} /\ clock < deadline + PollEvery /\ clock' = clock + 1
      /\ UNCHANGED <<step, pc, found, docs, seen, why, deadline, wake, review, read, approved, decidedAt>>
  BY DEF Hooks!Tick
<1>2. /\ crossed' \in BOOLEAN
      /\ crossed => crossed'
      /\ pc = "asked" /\ clock < deadline /\ clock + 1 >= deadline => crossed'
  BY DEF Hooks!Tick, HooksInv, ClocksHold
<1>3. why # "waiting"
  BY <1>1 DEF HooksInv, WaitingIsOver
<1>4. clock \in Nat /\ deadline \in Nat /\ decidedAt \in Nat
  BY HooksNumbers DEF HooksInv, ClocksHold
<1>5. ClocksHold'
  <2>1. clock' \in Nat /\ clock' <= deadline + PollEvery
    BY <1>1, <1>4, HooksNumbers
  <2>2. deadline <= Wait /\ decidedAt <= Hooks!Never
    BY DEF HooksInv, ClocksHold
  <2>3. Hooks!Never' = Hooks!Never
    BY DEF Hooks!Never
  <2> QED BY <1>1, <1>2, <1>4, <2>1, <2>2, <2>3 DEF ClocksHold
<1>6. LateOnlyIfCrossed'
  <2>1. SUFFICES ASSUME pc = "asked", read = "pending", clock + 1 >= deadline, ~crossed'
                 PROVE  decidedAt >= deadline
    BY <1>1 DEF LateOnlyIfCrossed
  <2>2. ~(clock < deadline)
    BY <1>2, <2>1
  <2>3. clock >= deadline
    BY <1>4, <2>2
  <2>4. crossed \/ decidedAt >= deadline
    BY <2>1, <2>3 DEF HooksInv, LateOnlyIfCrossed
  <2> QED BY <1>2, <2>1, <2>4
<1> QED BY <1>1, <1>3, <1>5, <1>6
        DEF HooksInv, ValuesHold, ReviewsHold, WaitingIsOver, Hooks!HeldNeedsApproval, Hooks!DocsKeepPlace, Hooks!GivesUpInTime, Hooks!Never

LEMMA HooksNextKeeps ==
  ASSUME Hooks!BoundsAssumption, HooksInv, [Hooks!Next]_(Hooks!vars)
  PROVE  HooksInv'
<1>1. CASE Hooks!Released
  BY <1>1, UseKeeps DEF Hooks!Released, Hooks!Calls
<1>2. CASE Hooks!NothingFound
  BY <1>2, NothingFoundKeeps
<1>3. CASE Hooks!Raised
  BY <1>3, StopKeeps DEF Hooks!Raised
<1>4. CASE Hooks!Held
  BY <1>4, HeldKeeps
<1>5. CASE Hooks!Poll
  BY <1>5, PollKeeps
<1>6. CASE Hooks!Sleep
  BY <1>6, SleepKeeps
<1>7. CASE Hooks!Decided
  BY <1>7, DecidedKeeps
<1>8. CASE Hooks!PollFails
  BY <1>8, StopKeeps DEF Hooks!PollFails
<1>9. CASE Hooks!ReviewEnds
  BY <1>9, ReviewEndsKeeps
<1>10. CASE Hooks!Tick
  BY <1>10, HooksTickKeeps
<1>11. CASE UNCHANGED Hooks!vars
  BY <1>11 DEF Hooks!vars, Hooks!clocks, HooksInv, ValuesHold, ClocksHold, ReviewsHold, LateOnlyIfCrossed, WaitingIsOver,
            Hooks!HeldNeedsApproval, Hooks!DocsKeepPlace, Hooks!GivesUpInTime, Hooks!Never
<1> QED BY <1>1, <1>2, <1>3, <1>4, <1>5, <1>6, <1>7, <1>8, <1>9, <1>10, <1>11 DEF Hooks!Next, Hooks!Client

\* hooks.py:110-162, client.py:121-131, langgraph.py:113-145: for any number of documents, any wait and
\* any interval of polls: what was held is used only if its step was approved, documents keep their
\* places, and a client gives up only when its time is over and no answer came that it could have read.
THEOREM HooksHold == Hooks!BoundsAssumption /\ Hooks!Spec => []Hooks!HooksWait
<1> SUFFICES ASSUME Hooks!BoundsAssumption
             PROVE  Hooks!Spec => []Hooks!HooksWait
  OBVIOUS
<1>1. Hooks!Init => HooksInv
  BY HooksInitHolds
<1>2. HooksInv /\ [Hooks!Next]_(Hooks!vars) => HooksInv'
  BY HooksNextKeeps
<1>3. HooksInv => Hooks!HooksWait
  BY HooksTypesHold DEF Hooks!HooksWait, HooksInv
<1> QED BY <1>1, <1>2, <1>3, PTL DEF Hooks!Spec

HIDE DEF step, pc, found, docs, seen, clock, deadline, wake, review, read, approved, decidedAt, crossed, why

-----------------------------------------------------------------------------
(* AuthZen: batches of evaluations that share a key and its token bucket.  *)
sent == v1
tokens == v2
refilled == v3
runs == v4
calls == v5
USE DEF sent, tokens, refilled, runs, calls

Outcomes == {"allow", "allow_restricted", "modify", "verify", "hold", "deny", "unavailable", "invalid"}
Result == [decision : BOOLEAN, outcome : Outcomes, of : Nat]

\* A call that runs, one that was answered, and one that was refused.
Running == [pc : {"run"}, batch : PdpBatches, results : Seq(Result)]
Ended == [pc : {"done"}, status : {200}, batch : PdpBatches, results : Seq(Result)]
Refused == [pc : {"done"}, status : {400, 401, 429}, batch : PdpBatches \cup {[items |-> <<>>]}, results : {<<>>}]
CallStates == {Pdp!Idle} \cup Running \cup Ended \cup Refused

\* Each result is of its own place: the pipeline's outcome for the evaluation that was asked there.
ResultIs(b, i, r) ==
  /\ r.of = i /\ r.decision = Pdp!Permits(r.outcome, Pdp!Asked(b, i))
  /\ r.outcome # "invalid" => Pdp!Complete(Pdp!Asked(b, i))
ResultsAre(b, rs) == \A i \in 1..Len(rs) : ResultIs(b, i, rs[i])

\* A batch that was charged has a semantic, and none of its first n results ends it.
Charged(b) == Pdp!Single(b) \/ b.semantic \in Pdp!Semantics
GoesOn(b, rs, n) == \A i \in 1..n : ~Pdp!Stops(b, rs[i].decision)

RunHolds(x) ==
  x.pc = "run" => /\ Charged(x.batch) /\ ResultsAre(x.batch, x.results)
                  /\ Len(x.results) < Pdp!Count(x.batch)
                  /\ GoesOn(x.batch, x.results, Len(x.results))

EndHolds(x) ==
  x.pc = "done" /\ x.status = 200 =>
    /\ Charged(x.batch) /\ ResultsAre(x.batch, x.results)
    /\ Len(x.results) \in 1..Pdp!Count(x.batch)
    /\ GoesOn(x.batch, x.results, Len(x.results) - 1)
    /\ Len(x.results) < Pdp!Count(x.batch) => Pdp!Stops(x.batch, x.results[Len(x.results)].decision)

PdpCallsHold == \A c \in Callers : RunHolds(sent[c]) /\ EndHolds(sent[c])

\* The evaluations that were charged and have not run yet.
Owes(x, i) == x.pc = "run" /\ Len(x.results) < i /\ i <= Pdp!Count(x.batch)
Owed == {p \in Callers \X Nat : Owes(sent[p[1]], p[2])}

\* Whatever ran or is still to run was paid for.
PaidFor == IsFiniteSet(Owed) /\ Cardinality(Owed) + runs + tokens <= Limit + refilled

TypesHold ==
  /\ sent \in [Callers -> CallStates]
  /\ tokens \in 0..Limit /\ refilled \in 0..MaxRefills /\ calls \in 0..MaxCalls /\ runs \in Nat

PdpInv == TypesHold /\ PdpCallsHold /\ PaidFor

PdpAssumption == Pdp!BatchesAssumption /\ Pdp!BoundsAssumption

-----------------------------------------------------------------------------
LEMMA PdpNumbers ==
  ASSUME PdpAssumption
  PROVE  /\ Limit \in Nat /\ MaxCalls \in Nat /\ MaxRefills \in Nat
         /\ \A b \in PdpBatches : b \in Pdp!Batch /\ Pdp!Count(b) \in Nat /\ Pdp!Count(b) > 0
<1>1. ASSUME NEW b \in PdpBatches PROVE b \in Pdp!Batch /\ Pdp!Count(b) \in Nat /\ Pdp!Count(b) > 0
  <2>1. b \in Pdp!Batch /\ b.items \in Seq(Pdp!Evaluation)
    BY DEF PdpAssumption, Pdp!BatchesAssumption, Pdp!Batch
  <2>2. Len(b.items) \in Nat /\ (b.items # <<>> => Len(b.items) > 0)
    BY <2>1, EmptySeq, LenProperties
  <2> QED BY <2>1, <2>2 DEF Pdp!Count, Pdp!Single
<1> QED BY <1>1 DEF PdpAssumption, Pdp!BoundsAssumption

LEMMA AskedIs ==
  ASSUME PdpAssumption, NEW b \in PdpBatches, NEW i \in 1..Pdp!Count(b)
  PROVE  /\ Pdp!Asked(b, i) \in Pdp!Evaluation
         /\ LET own == IF Pdp!Single(b) THEN b.defaults ELSE b.items[i]
            IN  /\ Pdp!Asked(b, i).subject => own.subject \/ b.defaults.subject
                /\ Pdp!Asked(b, i).action => own.action \/ b.defaults.action
                /\ Pdp!Asked(b, i).accepts = "yes" =>
                     own.accepts = "yes" \/ (own.accepts = "silent" /\ b.defaults.accepts = "yes")
<1>1. b.defaults \in Pdp!Evaluation /\ b.items \in Seq(Pdp!Evaluation)
  BY PdpNumbers DEF Pdp!Batch
<1>2. CASE Pdp!Single(b)
  BY <1>1, <1>2 DEF Pdp!Asked
<1>3. CASE ~Pdp!Single(b)
  <2>1. b.items[i] \in Pdp!Evaluation
    BY <1>1, <1>3, ElementOfSeq DEF Pdp!Count
  <2>2. Pdp!Asked(b, i) = Pdp!Merge(b.defaults, b.items[i])
    BY <1>3 DEF Pdp!Asked
  <2> QED BY <1>1, <1>3, <2>1, <2>2 DEF Pdp!Merge, Pdp!Evaluation
<1> QED BY <1>2, <1>3

LEMMA RunIs ==
  ASSUME PdpAssumption, PdpInv, NEW c \in Callers, sent[c].pc = "run"
  PROVE  /\ sent[c] \in Running /\ sent[c].batch \in PdpBatches /\ sent[c].results \in Seq(Result)
         /\ Len(sent[c].results) \in Nat /\ Pdp!Count(sent[c].batch) \in Nat
         /\ Len(sent[c].results) + 1 \in 1..Pdp!Count(sent[c].batch)
         /\ RunHolds(sent[c])
<1>1. sent[c] \in CallStates /\ RunHolds(sent[c])
  BY DEF PdpInv, TypesHold, PdpCallsHold
<1>2. sent[c] \in Running
  BY <1>1 DEF CallStates, Running, Ended, Refused, Pdp!Idle
<1>3. sent[c].batch \in PdpBatches /\ sent[c].results \in Seq(Result)
  BY <1>2 DEF Running
<1> QED BY <1>1, <1>2, <1>3, LenProperties, PdpNumbers DEF RunHolds

-----------------------------------------------------------------------------
\* A call that was refused or answered owes nothing.
LEMMA NothingOwed ==
  ASSUME PdpAssumption, PdpInv, NEW c \in Callers, sent[c].pc # "run", NEW x, x.pc # "run",
         sent' = [sent EXCEPT ![c] = x]
  PROVE  Owed' = Owed
<1>1. sent \in [Callers -> CallStates]
  BY DEF PdpInv, TypesHold
<1> QED BY <1>1 DEF Owed, Owes

LEMMA RefuseKeeps ==
  ASSUME PdpAssumption, PdpInv, NEW c \in Callers, sent[c].pc # "run", NEW x \in Refused,
         sent' = [sent EXCEPT ![c] = x], UNCHANGED <<refilled, runs>>,
         tokens' \in 0..Limit, tokens' <= tokens, calls' \in 0..MaxCalls
  PROVE  PdpInv'
<1>1. sent \in [Callers -> CallStates] /\ x.pc = "done" /\ x.status # 200
  BY DEF PdpInv, TypesHold, Refused
<1>2. TypesHold'
  BY <1>1 DEF PdpInv, TypesHold, CallStates
<1>3. PdpCallsHold'
  <2> SUFFICES ASSUME NEW d \in Callers PROVE RunHolds(sent'[d]) /\ EndHolds(sent'[d])
    BY DEF PdpCallsHold
  <2>1. CASE d = c
    BY <1>1, <2>1 DEF RunHolds, EndHolds
  <2>2. CASE d # c
    BY <1>1, <2>2 DEF PdpInv, PdpCallsHold
  <2> QED BY <2>1, <2>2
<1>4. Owed' = Owed
  BY <1>1, NothingOwed
<1>5. PaidFor'
  <2>1. Cardinality(Owed) \in Nat /\ IsFiniteSet(Owed)
    BY FS_CardinalityType DEF PdpInv, PaidFor
  <2> QED BY <1>4, <2>1, PdpNumbers DEF PdpInv, PaidFor, TypesHold
<1> QED BY <1>2, <1>3, <1>5 DEF PdpInv

\* The evaluations of a batch that was charged are owed.
LEMMA ChargeKeeps ==
  ASSUME PdpAssumption, PdpInv, NEW c \in Callers, sent[c].pc # "run", NEW b \in PdpBatches, Charged(b),
         tokens >= Pdp!Cost(b), tokens' = tokens - Pdp!Cost(b), UNCHANGED <<refilled, runs>>, calls' \in 0..MaxCalls,
         sent' = [sent EXCEPT ![c] = [pc |-> "run", batch |-> b, results |-> <<>>]]
  PROVE  PdpInv'
<1> DEFINE x == [pc |-> "run", batch |-> b, results |-> <<>>]
           new == {c} \X (1..Pdp!Count(b))
<1>1. /\ sent \in [Callers -> CallStates] /\ tokens \in 0..Limit /\ refilled \in Nat /\ runs \in Nat /\ Limit \in Nat
      /\ Pdp!Count(b) \in Nat /\ Pdp!Count(b) > 0 /\ Pdp!Cost(b) = Pdp!Count(b)
  BY PdpNumbers DEF PdpInv, TypesHold, Pdp!Cost
<1>2. x \in Running /\ x.results = <<>> /\ Len(<<>>) = 0
  <2>1. <<>> \in Seq(Result) /\ Len(<<>>) = 0
    BY EmptySeq
  <2> QED BY <2>1 DEF Running
<1>3. tokens' \in 0..Limit
  BY <1>1
<1>4. TypesHold'
  BY <1>1, <1>2, <1>3 DEF PdpInv, TypesHold, CallStates
<1>5. PdpCallsHold'
  <2> SUFFICES ASSUME NEW d \in Callers PROVE RunHolds(sent'[d]) /\ EndHolds(sent'[d])
    BY DEF PdpCallsHold
  <2>1. CASE d = c
    BY <1>1, <1>2, <2>1 DEF RunHolds, EndHolds, ResultsAre, GoesOn
  <2>2. CASE d # c
    BY <1>1, <2>2 DEF PdpInv, PdpCallsHold
  <2> QED BY <2>1, <2>2
<1>6. Owed' = Owed \cup new /\ Owed \cap new = {}
  BY <1>1, <1>2 DEF Owed, Owes
<1>7. IsFiniteSet(new) /\ Cardinality(new) = Pdp!Count(b)
  <2>1. IsFiniteSet({c}) /\ Cardinality({c}) = 1
    BY FS_Singleton
  <2>2. IsFiniteSet(1..Pdp!Count(b)) /\ Cardinality(1..Pdp!Count(b)) = Pdp!Count(b)
    <3>1. 1 \in Int /\ Pdp!Count(b) \in Int /\ ~(1 > Pdp!Count(b)) /\ Pdp!Count(b) - 1 + 1 = Pdp!Count(b)
      BY <1>1
    <3> HIDE DEF new
    <3> QED BY <3>1, FS_Interval
  <2>3. IsFiniteSet(new) /\ Cardinality(new) = Cardinality({c}) * Cardinality(1..Pdp!Count(b))
    BY <2>1, <2>2, FS_Product
  <2> QED BY <1>1, <2>1, <2>2, <2>3
<1>8. IsFiniteSet(Owed) /\ Cardinality(Owed) \in Nat
  BY FS_CardinalityType DEF PdpInv, PaidFor
<1>9. IsFiniteSet(Owed') /\ Cardinality(Owed') = Cardinality(Owed) + Pdp!Count(b)
  <2> HIDE DEF new
  <2>1. /\ IsFiniteSet(Owed \cup new)
        /\ Cardinality(Owed \cup new) = Cardinality(Owed) + Cardinality(new) - Cardinality(Owed \cap new)
    BY <1>7, <1>8, FS_Union
  <2>2. Cardinality(Owed \cap new) = 0
    BY <1>6, FS_EmptySet
  <2> QED BY <1>1, <1>6, <1>7, <1>8, <2>1, <2>2
<1>10. PaidFor'
  BY <1>1, <1>8, <1>9 DEF PdpInv, PaidFor
<1> QED BY <1>4, <1>5, <1>10 DEF PdpInv

LEMMA ArriveKeeps == ASSUME PdpAssumption, PdpInv, NEW c \in Callers, Pdp!Arrive(c) PROVE PdpInv'
<1>1. /\ sent[c].pc # "run" /\ calls' \in 0..MaxCalls /\ tokens \in 0..Limit /\ Limit \in Nat /\ MaxCalls \in Nat
      /\ UNCHANGED <<refilled, runs>>
  BY PdpNumbers DEF Pdp!Arrive, PdpInv, TypesHold
<1>2. PICK b \in PdpBatches :
       IF tokens < Pdp!Cost(b)
       THEN /\ tokens' = 0
            /\ sent' = [sent EXCEPT ![c] = [pc |-> "done", status |-> 429, batch |-> b, results |-> <<>>]]
       ELSE /\ tokens' = tokens - Pdp!Cost(b)
            /\ sent' = [sent EXCEPT ![c] =
                 IF ~Pdp!Single(b) /\ b.semantic \notin Pdp!Semantics
                 THEN [pc |-> "done", status |-> 400, batch |-> b, results |-> <<>>]
                 ELSE [pc |-> "run", batch |-> b, results |-> <<>>]]
  BY DEF Pdp!Arrive
<1>3. Pdp!Cost(b) \in Nat
  BY PdpNumbers DEF Pdp!Cost
<1>4. CASE tokens < Pdp!Cost(b)
  <2>1. [pc |-> "done", status |-> 429, batch |-> b, results |-> <<>>] \in Refused
    BY DEF Refused
  <2> QED BY <1>1, <1>2, <1>4, <2>1, RefuseKeeps
<1>5. CASE tokens >= Pdp!Cost(b) /\ ~Charged(b)
  <2>1. [pc |-> "done", status |-> 400, batch |-> b, results |-> <<>>] \in Refused
    BY DEF Refused
  <2>2. sent' = [sent EXCEPT ![c] = [pc |-> "done", status |-> 400, batch |-> b, results |-> <<>>]]
    BY <1>1, <1>2, <1>3, <1>5 DEF Charged
  <2>3. tokens' \in 0..Limit /\ tokens' <= tokens
    BY <1>1, <1>2, <1>3, <1>5
  <2> QED BY <1>1, <2>1, <2>2, <2>3, RefuseKeeps
<1>6. CASE tokens >= Pdp!Cost(b) /\ Charged(b)
  <2>1. sent' = [sent EXCEPT ![c] = [pc |-> "run", batch |-> b, results |-> <<>>]] /\ tokens' = tokens - Pdp!Cost(b)
    BY <1>1, <1>2, <1>3, <1>6 DEF Charged
  <2> QED BY <1>1, <1>6, <2>1, ChargeKeeps
<1> QED BY <1>1, <1>3, <1>4, <1>5, <1>6

LEMMA TurnAwayKeeps == ASSUME PdpAssumption, PdpInv, NEW c \in Callers, Pdp!TurnAway(c) PROVE PdpInv'
<1>1. /\ sent[c].pc # "run" /\ calls' \in 0..MaxCalls /\ tokens' \in 0..Limit /\ tokens' <= tokens
      /\ UNCHANGED <<refilled, runs>>
  BY PdpNumbers DEF Pdp!TurnAway, PdpInv, TypesHold
<1>2. PICK x \in Refused : sent' = [sent EXCEPT ![c] = x]
  <2>1. PICK status \in {401, 400} :
          sent' = [sent EXCEPT ![c] = [pc |-> "done", status |-> status, batch |-> [items |-> <<>>], results |-> <<>>]]
    BY DEF Pdp!TurnAway
  <2> DEFINE x == [pc |-> "done", status |-> status, batch |-> [items |-> <<>>], results |-> <<>>]
  <2>2. x \in Refused /\ sent' = [sent EXCEPT ![c] = x]
    BY <2>1 DEF Refused
  <2> HIDE DEF x
  <2> QED BY <2>2
<1> QED BY <1>1, <1>2, RefuseKeeps

-----------------------------------------------------------------------------
\* An evaluation's answer is at its place, the batch ends where it should, and the evaluation is
\* owed no more.
LEMMA AddKeeps ==
  ASSUME PdpAssumption, PdpInv, NEW c \in Callers, sent[c].pc = "run", NEW outcome \in Outcomes, Pdp!Add(c, outcome),
         outcome # "invalid" => Pdp!Complete(Pdp!Asked(sent[c].batch, Len(sent[c].results) + 1))
  PROVE  /\ sent' \in [Callers -> CallStates] /\ PdpCallsHold'
         /\ <<c, Len(sent[c].results) + 1>> \in Owed
         /\ Owed' \subseteq Owed \ {<<c, Len(sent[c].results) + 1>>}
<1> DEFINE b == sent[c].batch
           rs == sent[c].results
           i == Len(rs) + 1
           decision == Pdp!Permits(outcome, Pdp!Asked(b, i))
           r == [decision |-> decision, outcome |-> outcome, of |-> i]
           more == Append(rs, r)
<1>1. /\ sent \in [Callers -> CallStates] /\ sent[c] \in Running /\ b \in PdpBatches /\ rs \in Seq(Result)
      /\ Len(rs) \in Nat /\ Pdp!Count(b) \in Nat /\ i \in 1..Pdp!Count(b) /\ RunHolds(sent[c])
  BY RunIs DEF PdpInv, TypesHold
<1>2. decision \in BOOLEAN
  BY <1>1, AskedIs DEF Pdp!Permits
<1>3. r \in Result
  BY <1>1, <1>2 DEF Result
<1>4. /\ more \in Seq(Result) /\ Len(more) = i /\ more[i] = r
      /\ \A k \in 1..Len(rs) : more[k] = rs[k]
  BY <1>1, <1>3, AppendProperties
<1>5. ResultsAre(b, more)
  <2> SUFFICES ASSUME NEW k \in 1..Len(more) PROVE ResultIs(b, k, more[k])
    BY DEF ResultsAre
  <2>1. CASE k = i
    BY <1>4, <2>1 DEF ResultIs
  <2>2. CASE k # i
    <3>1. k \in 1..Len(rs)
      BY <1>1, <1>4, <2>2
    <3> QED BY <1>1, <1>4, <3>1 DEF RunHolds, ResultsAre
  <2> QED BY <2>1, <2>2
<1>6. GoesOn(b, more, Len(rs))
  BY <1>1, <1>4 DEF RunHolds, GoesOn
<1> DEFINE done == [pc |-> "done", status |-> 200, batch |-> b, results |-> more]
           on == [sent[c] EXCEPT !.results = more]
           x == IF i = Pdp!Count(b) \/ Pdp!Stops(b, decision) THEN done ELSE on
<1>7. sent' = [sent EXCEPT ![c] = x]
  BY <1>1 DEF Pdp!Add, Pdp!Finish
<1>8. on \in Running /\ on.pc = "run" /\ on.batch = b /\ on.results = more
  BY <1>1, <1>4 DEF Running
<1>9. done \in Ended
  BY <1>1, <1>4 DEF Ended
<1>10. r.decision = decision /\ Charged(b)
  BY <1>1 DEF RunHolds
<1> HIDE DEF b, rs, i, decision, r, more
<1>11. RunHolds(x) /\ EndHolds(x)
  <2>1. CASE i = Pdp!Count(b) \/ Pdp!Stops(b, decision)
    <3>1. GoesOn(b, more, Len(more) - 1) /\ Len(more) \in 1..Pdp!Count(b)
      BY <1>1, <1>4, <1>6 DEF i
    <3>2. Len(more) < Pdp!Count(b) => Pdp!Stops(b, more[Len(more)].decision)
      BY <1>1, <1>4, <1>10, <2>1
    <3> QED BY <1>5, <1>10, <2>1, <3>1, <3>2 DEF RunHolds, EndHolds
  <2>2. CASE ~(i = Pdp!Count(b) \/ Pdp!Stops(b, decision))
    <3>1. x = on /\ Len(more) < Pdp!Count(b)
      BY <1>1, <1>4, <2>2
    <3>2. GoesOn(b, more, Len(more))
      <4> SUFFICES ASSUME NEW k \in 1..Len(more) PROVE ~Pdp!Stops(b, more[k].decision)
        BY DEF GoesOn
      <4>1. k \in 1..Len(rs) \/ k = i
        BY <1>1, <1>4 DEF i
      <4> QED BY <1>4, <1>6, <1>10, <2>2, <4>1 DEF GoesOn
    <3> QED BY <1>5, <1>8, <1>10, <3>1, <3>2 DEF RunHolds, EndHolds
  <2> QED BY <2>1, <2>2
<1>12. x \in CallStates
  BY <1>8, <1>9 DEF CallStates
<1>13. x.pc = "run" => x.batch = b /\ Len(x.results) = i
  BY <1>4, <1>8
<1> HIDE DEF x
<1>14. sent' \in [Callers -> CallStates]
  BY <1>1, <1>7, <1>12
<1>15. PdpCallsHold'
  <2> SUFFICES ASSUME NEW d \in Callers PROVE RunHolds(sent'[d]) /\ EndHolds(sent'[d])
    BY DEF PdpCallsHold
  <2>1. CASE d = c
    BY <1>1, <1>7, <1>11, <2>1
  <2>2. CASE d # c
    BY <1>1, <1>7, <2>2 DEF PdpInv, PdpCallsHold
  <2> QED BY <2>1, <2>2
<1>16. <<c, i>> \in Owed
  BY <1>1 DEF Owed, Owes, b, rs, i
<1>17. Owed' \subseteq Owed \ {<<c, i>>}
  <2> SUFFICES ASSUME NEW p \in Owed' PROVE p \in Owed /\ p # <<c, i>>
    OBVIOUS
  <2>1. p \in Callers \X Nat /\ p = <<p[1], p[2]>> /\ p[1] \in Callers /\ p[2] \in Nat /\ Owes(sent'[p[1]], p[2])
    BY DEF Owed
  <2>2. CASE p[1] # c
    BY <1>1, <1>7, <2>1, <2>2 DEF Owed
  <2>3. CASE p[1] = c
    <3>1. Owes(x, p[2])
      BY <1>1, <1>7, <2>1, <2>3
    <3>2. i < p[2] /\ p[2] <= Pdp!Count(b)
      BY <1>13, <3>1 DEF Owes
    <3>3. Len(rs) < p[2]
      BY <1>1, <2>1, <3>2 DEF i
    <3>4. Owes(sent[c], p[2])
      BY <3>2, <3>3 DEF Owes, b, rs, RunHolds
    <3> QED BY <1>1, <2>1, <2>3, <3>2, <3>4 DEF Owed
  <2> QED BY <2>2, <2>3
<1> QED BY <1>14, <1>15, <1>16, <1>17 DEF i, rs

\* What is owed gets less by an evaluation.
LEMMA OwedFalls ==
  ASSUME PdpAssumption, PdpInv, NEW p \in Owed, Owed' \subseteq Owed \ {p}
  PROVE  /\ IsFiniteSet(Owed') /\ Cardinality(Owed') \in Nat /\ Cardinality(Owed) \in Nat
         /\ Cardinality(Owed') + 1 <= Cardinality(Owed)
<1>1. IsFiniteSet(Owed) /\ Cardinality(Owed) \in Nat
  BY FS_CardinalityType DEF PdpInv, PaidFor
<1>2. IsFiniteSet(Owed \ {p}) /\ Cardinality(Owed \ {p}) = Cardinality(Owed) - 1
  BY <1>1, FS_RemoveElement
<1>3. /\ IsFiniteSet(Owed') /\ Cardinality(Owed') <= Cardinality(Owed \ {p})
      /\ Cardinality(Owed') \in Nat
  BY <1>2, FS_Subset, FS_CardinalityType
<1> QED BY <1>1, <1>2, <1>3

LEMMA EvaluateIncompleteKeeps ==
  ASSUME PdpAssumption, PdpInv, NEW c \in Callers, Pdp!EvaluateIncomplete(c) PROVE PdpInv'
<1>1. /\ sent[c].pc = "run" /\ Pdp!Add(c, "invalid") /\ UNCHANGED <<tokens, refilled, runs, calls>>
      /\ "invalid" \in Outcomes
  BY DEF Pdp!EvaluateIncomplete, Pdp!Evaluates, Outcomes
<1>2. sent' \in [Callers -> CallStates] /\ PdpCallsHold'
  BY <1>1, AddKeeps
<1>3. PICK p \in Owed : Owed' \subseteq Owed \ {p}
  BY <1>1, AddKeeps
<1>4. TypesHold'
  BY <1>1, <1>2 DEF PdpInv, TypesHold
<1>5. PaidFor'
  BY <1>1, <1>3, OwedFalls, PdpNumbers DEF PdpInv, PaidFor, TypesHold
<1> QED BY <1>2, <1>4, <1>5 DEF PdpInv

LEMMA EvaluateKeeps == ASSUME PdpAssumption, PdpInv, NEW c \in Callers, Pdp!Evaluate(c) PROVE PdpInv'
<1>1. /\ sent[c].pc = "run" /\ runs' = runs + 1 /\ UNCHANGED <<tokens, refilled, calls>>
      /\ Pdp!Complete(Pdp!Asked(sent[c].batch, Len(sent[c].results) + 1))
  BY DEF Pdp!Evaluate, Pdp!Evaluates
<1>2. PICK o \in Outcomes : Pdp!Add(c, o)
  BY DEF Pdp!Evaluate, Outcomes
<1>3. sent' \in [Callers -> CallStates] /\ PdpCallsHold'
  BY <1>1, <1>2, AddKeeps
<1>4. PICK p \in Owed : Owed' \subseteq Owed \ {p}
  BY <1>1, <1>2, AddKeeps
<1>5. TypesHold'
  BY <1>1, <1>3 DEF PdpInv, TypesHold
<1>6. PaidFor'
  BY <1>1, <1>4, OwedFalls, PdpNumbers DEF PdpInv, PaidFor, TypesHold
<1> QED BY <1>3, <1>5, <1>6 DEF PdpInv

LEMMA RefillKeeps == ASSUME PdpAssumption, PdpInv, Pdp!Refill PROVE PdpInv'
<1>1. /\ tokens' = tokens + 1 /\ refilled' = refilled + 1 /\ tokens < Limit /\ refilled < MaxRefills
      /\ UNCHANGED <<sent, runs, calls>>
  BY DEF Pdp!Refill
<1>2. Owed' = Owed /\ PdpCallsHold'
  BY <1>1 DEF PdpInv, Owed, Owes, PdpCallsHold
<1>3. TypesHold'
  BY <1>1, PdpNumbers DEF PdpInv, TypesHold
<1>4. PaidFor'
  <2>1. IsFiniteSet(Owed) /\ Cardinality(Owed) \in Nat
    BY FS_CardinalityType DEF PdpInv, PaidFor
  <2> QED BY <1>1, <1>2, <2>1, PdpNumbers DEF PdpInv, PaidFor, TypesHold
<1> QED BY <1>2, <1>3, <1>4 DEF PdpInv

-----------------------------------------------------------------------------
LEMMA PdpInitHolds == PdpAssumption /\ Pdp!Init => PdpInv
<1> SUFFICES ASSUME PdpAssumption, Pdp!Init PROVE PdpInv
  OBVIOUS
<1>1. sent \in [Callers -> CallStates] /\ \A c \in Callers : sent[c].pc = "idle"
  BY DEF Pdp!Init, CallStates, Pdp!Idle
<1>2. TypesHold
  BY <1>1, PdpNumbers DEF Pdp!Init, TypesHold
<1>3. PdpCallsHold
  BY <1>1 DEF PdpCallsHold, RunHolds, EndHolds
<1>4. Owed = {}
  BY <1>1 DEF Owed, Owes
<1>5. PaidFor
  BY <1>4, FS_EmptySet, PdpNumbers DEF PaidFor, Pdp!Init
<1> QED BY <1>2, <1>3, <1>5 DEF PdpInv

LEMMA PdpNextKeeps == PdpAssumption /\ PdpInv /\ [Pdp!Next]_(Pdp!vars) => PdpInv'
<1> SUFFICES ASSUME PdpAssumption, PdpInv, [Pdp!Next]_(Pdp!vars) PROVE PdpInv'
  OBVIOUS
<1>1. CASE UNCHANGED Pdp!vars
  BY <1>1 DEF Pdp!vars, PdpInv, TypesHold, PdpCallsHold, PaidFor, Owed, Owes
<1>2. CASE Pdp!Next
  BY <1>2, ArriveKeeps, TurnAwayKeeps, EvaluateIncompleteKeeps, EvaluateKeeps, RefillKeeps DEF Pdp!Next
<1> QED BY <1>1, <1>2

LEMMA PdpIsEnough == PdpAssumption /\ PdpInv => Pdp!PermitsAreAsked
<1> SUFFICES ASSUME PdpAssumption, PdpInv PROVE Pdp!PermitsAreAsked
  OBVIOUS
<1>1. Pdp!TypeOK
  BY DEF PdpInv, TypesHold, Pdp!TypeOK, CallStates, Running, Ended, Refused, Pdp!Idle
<1>2. ASSUME NEW c \in Pdp!Answered
      PROVE  /\ c \in Callers /\ sent[c].batch \in PdpBatches /\ sent[c].results \in Seq(Result)
             /\ EndHolds(sent[c]) /\ sent[c].pc = "done" /\ sent[c].status = 200
             /\ Len(sent[c].results) \in Nat /\ Pdp!Count(sent[c].batch) \in Nat
             /\ DOMAIN sent[c].results = 1..Len(sent[c].results)
  <2>1. c \in Callers /\ sent[c].pc = "done" /\ sent[c].status = 200 /\ sent[c] \in CallStates /\ EndHolds(sent[c])
    BY <1>2 DEF Pdp!Answered, PdpInv, TypesHold, PdpCallsHold
  <2>2. sent[c] \in Ended
    BY <2>1 DEF CallStates, Pdp!Idle, Running, Ended, Refused
  <2>3. sent[c].batch \in PdpBatches /\ sent[c].results \in Seq(Result)
    BY <2>2 DEF Ended
  <2> QED BY <2>1, <2>3, LenProperties, PdpNumbers
<1>3. Pdp!PermitIsAsAsked
  <2> SUFFICES ASSUME NEW c \in Pdp!Answered, NEW i \in DOMAIN sent[c].results, sent[c].results[i].decision
               PROVE  LET b == sent[c].batch  r == sent[c].results[i]
                          own == IF Pdp!Single(b) THEN b.defaults ELSE b.items[i]
                      IN  /\ r.of = i
                          /\ own.subject \/ b.defaults.subject
                          /\ own.action \/ b.defaults.action
                          /\ r.outcome \in {"allow", "allow_restricted", "modify"}
                          /\ r.outcome = "modify" =>
                               own.accepts = "yes" \/ (own.accepts = "silent" /\ b.defaults.accepts = "yes")
    BY DEF Pdp!PermitIsAsAsked
  <2> DEFINE b == sent[c].batch
             r == sent[c].results[i]
  <2>1. i \in 1..Pdp!Count(b) /\ ResultIs(b, i, r) /\ b \in PdpBatches
    BY <1>2 DEF EndHolds, ResultsAre
  <2>2. Pdp!Permits(r.outcome, Pdp!Asked(b, i))
    BY <2>1 DEF ResultIs
  <2>3. r.of = i /\ r.outcome \in {"allow", "allow_restricted", "modify"} /\ Pdp!Complete(Pdp!Asked(b, i))
    BY <2>1, <2>2 DEF ResultIs, Pdp!Permits
  <2>4. r.outcome = "modify" => Pdp!Asked(b, i).accepts = "yes"
    BY <2>2 DEF Pdp!Permits
  <2>5. LET own == IF Pdp!Single(b) THEN b.defaults ELSE b.items[i]
        IN  /\ Pdp!Asked(b, i).subject => own.subject \/ b.defaults.subject
            /\ Pdp!Asked(b, i).action => own.action \/ b.defaults.action
            /\ Pdp!Asked(b, i).accepts = "yes" =>
                 own.accepts = "yes" \/ (own.accepts = "silent" /\ b.defaults.accepts = "yes")
    BY <2>1, AskedIs
  <2>6. Pdp!Asked(b, i).subject /\ Pdp!Asked(b, i).action
    BY <2>3 DEF Pdp!Complete
  <2> HIDE DEF b, r
  <2>7. LET own == IF Pdp!Single(b) THEN b.defaults ELSE b.items[i]
        IN  /\ r.of = i
            /\ own.subject \/ b.defaults.subject
            /\ own.action \/ b.defaults.action
            /\ r.outcome \in {"allow", "allow_restricted", "modify"}
            /\ r.outcome = "modify" =>
                 own.accepts = "yes" \/ (own.accepts = "silent" /\ b.defaults.accepts = "yes")
    BY <2>3, <2>4, <2>5, <2>6
  <2> QED BY <2>7 DEF b, r
<1>4. Pdp!EndsAsAsked
  <2> SUFFICES ASSUME NEW c \in Pdp!Answered
               PROVE  LET b == sent[c].batch  rs == sent[c].results
                          ends(d) == IF b.semantic = "execute_all" THEN FALSE
                                     ELSE IF b.semantic = "deny_on_first_deny" THEN ~d ELSE d
                      IN  /\ Len(rs) < Pdp!Count(b) => ends(rs[Len(rs)].decision)
                          /\ ~Pdp!Single(b) => \A i \in 1..(Len(rs) - 1) : ~ends(rs[i].decision)
    BY DEF Pdp!EndsAsAsked
  <2> DEFINE b == sent[c].batch
             rs == sent[c].results
  <2>1. /\ Charged(b) /\ Len(rs) \in 1..Pdp!Count(b) /\ GoesOn(b, rs, Len(rs) - 1)
        /\ Len(rs) < Pdp!Count(b) => Pdp!Stops(b, rs[Len(rs)].decision)
    BY <1>2 DEF EndHolds
  <2>2. CASE Pdp!Single(b)
    <3>1. Pdp!Count(b) = 1
      BY <2>2 DEF Pdp!Count
    <3>2. Len(rs) \in 1..1
      BY <2>1, <3>1
    <3>3. ~(Len(rs) < Pdp!Count(b))
      <4> HIDE DEF b, rs
      <4> QED BY <3>1, <3>2
    <3> QED BY <2>2, <3>3
  <2>3. CASE ~Pdp!Single(b)
    <3>1. b.semantic \in Pdp!Semantics
      BY <2>1, <2>3 DEF Charged
    <3> QED BY <2>1, <2>3, <3>1 DEF Pdp!Semantics, Pdp!Stops, GoesOn
  <2> QED BY <2>2, <2>3
<1>5. Pdp!RunsWithinLimit
  <2>1. Cardinality(Owed) \in Nat
    BY FS_CardinalityType DEF PdpInv, PaidFor
  <2> QED BY <2>1, PdpNumbers DEF PdpInv, PaidFor, TypesHold, Pdp!RunsWithinLimit
<1> QED BY <1>1, <1>3, <1>4, <1>5 DEF Pdp!PermitsAreAsked

\* routers/authzen.py:54-63, 112-144: for any callers, batches, limit and refills, whichever batches
\* run side by side: a yes is for what stands at its place, a batch ends where its semantic says, and
\* the pipeline runs no more often than was paid for.
THEOREM PermitsHold == PdpAssumption /\ Pdp!Spec => []Pdp!PermitsAreAsked
<1> SUFFICES ASSUME PdpAssumption PROVE Pdp!Spec => []Pdp!PermitsAreAsked
  OBVIOUS
<1>1. Pdp!Init => PdpInv
  BY PdpInitHolds
<1>2. PdpInv /\ [Pdp!Next]_(Pdp!vars) => PdpInv'
  BY PdpNextKeeps
<1>3. PdpInv => Pdp!PermitsAreAsked
  BY PdpIsEnough
<1> QED BY <1>1, <1>2, <1>3, PTL DEF Pdp!Spec

HIDE DEF sent, tokens, refilled, runs, calls

-----------------------------------------------------------------------------
\* A set of naturals up to a bound has a largest.
LEMMA HasLargest ==
  ASSUME NEW N \in Nat, NEW S \in SUBSET (0..N), S # {}
  PROVE  \E i \in S : \A j \in S : j <= i
<1> DEFINE Gaps == {n \in Nat : \E i \in S : n = N - i}
           Less == OpToRel(<, Nat)
<1>1. Gaps # {} /\ Gaps \subseteq Nat
  <2>1. PICK i \in S : TRUE
    OBVIOUS
  <2>2. i \in 0..N /\ N - i \in Nat
    OBVIOUS
  <2> QED BY <2>1, <2>2
<1>2. PICK x \in Gaps : \A y \in Gaps : ~ (<<y, x>> \in Less)
  <2> HIDE DEF Gaps, Less
  <2>1. IsWellFoundedOn(Less, Nat)
    BY NatLessThanWellFounded DEF Less
  <2> QED BY <1>1, <2>1, WFMin
<1>3. \A y \in Gaps : ~ (y < x)
  BY <1>2 DEF OpToRel
<1>4. PICK i \in S : x = N - i
  OBVIOUS
<1>5. \A j \in S : N - j \in Gaps
  OBVIOUS
<1> HIDE DEF Gaps, Less
<1>6. \A j \in S : j <= i
  BY <1>3, <1>4, <1>5
<1> QED BY <1>6

\* How many of a finite set are up to a member numbers its members from 1 to how many there are.
LEMMA RankIsPlace ==
  ASSUME NEW S, IsFiniteSet(S), NEW rank \in [S -> Nat],
         \A a \in S, b \in S : rank[a] = rank[b] => a = b,
         NEW upTo, upTo = [a \in S |-> {b \in S : rank[b] <= rank[a]}],
         NEW place, place = [a \in S |-> Cardinality(upTo[a])]
  PROVE  /\ Cardinality(S) \in Nat
         /\ \A n \in 1..Cardinality(S) : \E a \in S : place[a] = n
         /\ \A a \in S, b \in S : place[a] = place[b] => a = b
<1> DEFINE N == Cardinality(S)
<1>1. N \in Nat
  BY FS_CardinalityType
<1>2. ASSUME NEW a \in S
      PROVE  IsFiniteSet(upTo[a]) /\ place[a] \in 1..N
  <2>1. upTo[a] \in SUBSET S /\ a \in upTo[a]
    OBVIOUS
  <2>2. IsFiniteSet(upTo[a]) /\ Cardinality(upTo[a]) <= N
    BY <2>1, FS_Subset
  <2>3. Cardinality(upTo[a]) \in Nat /\ Cardinality(upTo[a]) # 0
    BY <2>1, <2>2, FS_CardinalityType, FS_EmptySet
  <2>4. place[a] = Cardinality(upTo[a])
    OBVIOUS
  <2> HIDE DEF N
  <2> QED BY <1>1, <2>2, <2>3, <2>4
<1>3. ASSUME NEW a \in S, NEW b \in S, rank[a] < rank[b]
      PROVE  place[a] # place[b]
  <2>1. upTo[a] \in SUBSET upTo[b] /\ upTo[a] # upTo[b]
    <3>1. b \in upTo[b] /\ b \notin upTo[a]
      BY <1>3
    <3>2. upTo[a] \subseteq upTo[b]
      BY <1>3
    <3> QED BY <3>1, <3>2
  <2>2. Cardinality(upTo[a]) # Cardinality(upTo[b])
    BY <1>2, <2>1, FS_Subset
  <2> QED BY <2>2
<1>4. \A a \in S, b \in S : place[a] = place[b] => a = b
  <2> SUFFICES ASSUME NEW a \in S, NEW b \in S, place[a] = place[b]
               PROVE  a = b
    OBVIOUS
  <2>1. rank[a] \in Nat /\ rank[b] \in Nat
    OBVIOUS
  <2>2. ~ (rank[a] < rank[b]) /\ ~ (rank[b] < rank[a])
    BY <1>3
  <2> QED BY <2>1, <2>2
<1>5. place \in Injection(S, 1..N)
  <2>1. place \in [S -> 1..N]
    BY <1>2
  <2> QED BY <1>4, <2>1 DEF Injection, IsInjective
<1>6. IsFiniteSet(1..N) /\ Cardinality(1..N) = N
  <2> HIDE DEF N
  <2>1. 1 \in Int /\ N \in Int
    BY <1>1
  <2>2. IsFiniteSet(1..N) /\ Cardinality(1..N) = IF 1 > N THEN 0 ELSE N - 1 + 1
    BY <2>1, FS_Interval
  <2> QED BY <1>1, <2>2
<1>7. place \in Surjection(S, 1..N)
  <2> DEFINE I == 1..N
  <2>1. IsFiniteSet(I) /\ Cardinality(I) = Cardinality(S) /\ place \in Injection(S, I)
    BY <1>5, <1>6
  <2> HIDE DEF I
  <2>2. place \in Surjection(S, I)
    BY <2>1, FS_Injection
  <2> QED BY <2>2 DEF I
<1>8. \A n \in 1..N : \E a \in S : place[a] = n
  BY <1>7 DEF Surjection
<1> QED BY <1>1, <1>4, <1>8

-----------------------------------------------------------------------------
(* GuardrailEngine: what a stage releases is clean, and what it stops is   *)
(* stopped for cause.  v1..v8 by the names of the component, but for those *)
(* that ConfigSync has too.                                                *)

rows == v1
obligations == v2
reviewQueue == v3
engineAnswers == v4
engineFirst == v5
engineCurrent == v6
counted == v7
engineOutcome == v8
USE DEF rows, obligations, reviewQueue, engineAnswers, engineFirst, engineCurrent, counted, engineOutcome

LEMMA EngineCounts == \A S : Engine!Cardinality(S) = Cardinality(S) /\ (Engine!IsFiniteSet(S) <=> IsFiniteSet(S))
BY DEF Engine!Cardinality, Cardinality, Engine!IsFiniteSet, IsFiniteSet

\* The bound rows are the active ones, each once and each of a guardrail of its own.
Placed ==
  /\ Len(Engine!bound) \in Nat /\ DOMAIN Engine!bound = 1..Len(Engine!bound)
  /\ \A i \in 1..Len(Engine!bound) : Engine!bound[i] \in Engine!Active(rows)
  /\ \A item \in Engine!Active(rows) : \E i \in 1..Len(Engine!bound) : Engine!bound[i] = item
  /\ \A i \in 1..Len(Engine!bound), j \in 1..Len(Engine!bound) : Engine!bound[i].id = Engine!bound[j].id => i = j

LEMMA ActiveIsOne ==
  ASSUME Engine!RowsAssumption, rows \in Snapshots, NEW a \in Engine!Active(rows), NEW b \in Engine!Active(rows), a # b
  PROVE  a.id # b.id /\ a.order # b.order
<1>1. a \in rows /\ b \in rows
  BY DEF Engine!Active
<1>2. /\ a.place # b.place /\ a.place \in Nat /\ b.place \in Nat
      /\ a.id # b.id => a.order # b.order
      /\ a.scope \in {"global", "tenant", "agent"} /\ b.scope \in {"global", "tenant", "agent"}
  BY <1>1 DEF Engine!RowsAssumption
<1>3. /\ Engine!SCOPE_PRIORITY[a.scope] \in Nat /\ Engine!SCOPE_PRIORITY[b.scope] \in Nat
  BY <1>2 DEF Engine!SCOPE_PRIORITY
<1>4. a.id = b.id => Engine!Over(a, b) /\ Engine!Over(b, a)
  BY <1>1 DEF Engine!Active
<1>5. ~ (Engine!Over(a, b) /\ Engine!Over(b, a))
  BY <1>2, <1>3 DEF Engine!Over
<1> QED BY <1>2, <1>4, <1>5

LEMMA BoundIsPlaced ==
  ASSUME Engine!RowsAssumption, rows \in Snapshots
  PROVE  Placed
<1> DEFINE active == Engine!Active(rows)
           N == Cardinality(active)
           rank == [item \in active |-> item.order]
           upTo == [a \in active |-> {b \in active : rank[b] <= rank[a]}]
           place == [a \in active |-> Cardinality(upTo[a])]
           Place(item) == Engine!Cardinality({other \in active : other.order <= item.order})
<1>1. IsFiniteSet(active)
  <2>1. IsFiniteSet(rows) /\ active \subseteq rows
    BY EngineCounts DEF Engine!RowsAssumption, Engine!Active
  <2> QED BY <2>1, FS_Subset
<1>2. rank \in [active -> Nat]
  BY DEF Engine!RowsAssumption, Engine!Active
<1>3. \A a \in active, b \in active : rank[a] = rank[b] => a = b
  BY ActiveIsOne
<1>4. \A a \in active : place[a] = Place(a)
  <2> SUFFICES ASSUME NEW a \in active PROVE place[a] = Place(a)
    OBVIOUS
  <2>1. upTo[a] = {other \in active : other.order <= a.order}
    <3> HIDE DEF active
    <3> QED OBVIOUS
  <2>2. Place(a) = Cardinality({other \in active : other.order <= a.order})
    BY EngineCounts
  <2> QED BY <2>1, <2>2
<1>5. /\ N \in Nat
      /\ \A n \in 1..N : \E a \in active : place[a] = n
      /\ \A a \in active, b \in active : place[a] = place[b] => a = b
      /\ \A a \in active : place[a] \in 1..N
  <2> HIDE DEF active, rank
  <2>1. /\ N \in Nat
        /\ \A n \in 1..N : \E a \in active : place[a] = n
        /\ \A a \in active, b \in active : place[a] = place[b] => a = b
    <3> DEFINE Below == upTo
               Ranked == place
    <3>1. Below = [a \in active |-> {b \in active : rank[b] <= rank[a]}] /\ Ranked = [a \in active |-> Cardinality(Below[a])]
      OBVIOUS
    <3> HIDE DEF Below, Ranked
    <3>2. /\ Cardinality(active) \in Nat
          /\ \A n \in 1..Cardinality(active) : \E a \in active : Ranked[a] = n
          /\ \A a \in active, b \in active : Ranked[a] = Ranked[b] => a = b
      BY <1>1, <1>2, <1>3, <3>1, RankIsPlace
    <3> QED BY <3>2 DEF Ranked, Below
  <2>2. ASSUME NEW a \in active PROVE place[a] \in 1..N
    <3>1. upTo[a] \in SUBSET active /\ a \in upTo[a]
      BY <1>2
    <3>2. IsFiniteSet(upTo[a]) /\ Cardinality(upTo[a]) <= N
      BY <1>1, <3>1, FS_Subset
    <3>3. Cardinality(upTo[a]) \in Nat /\ Cardinality(upTo[a]) # 0
      BY <3>1, <3>2, FS_CardinalityType, FS_EmptySet
    <3>4. place[a] = Cardinality(upTo[a])
      OBVIOUS
    <3> HIDE DEF N, place, upTo
    <3> QED BY <2>1, <3>2, <3>3, <3>4
  <2> QED BY <2>1, <2>2
<1>6. Engine!bound = [n \in 1..N |-> CHOOSE item \in active : Place(item) = n]
  <2>1. Engine!bound = [n \in 1..Engine!Cardinality(active) |-> CHOOSE item \in active : Place(item) = n]
    BY DEF Engine!bound, Engine!Resolve
  <2>2. Engine!Cardinality(active) = N
    BY EngineCounts
  <2> HIDE DEF active, N, Place
  <2> QED BY <2>1, <2>2
<1>7. \A n \in 1..N : Engine!bound[n] \in active /\ place[Engine!bound[n]] = n
  <2> SUFFICES ASSUME NEW n \in 1..N PROVE Engine!bound[n] \in active /\ place[Engine!bound[n]] = n
    OBVIOUS
  <2>1. Engine!bound[n] = CHOOSE item \in active : Place(item) = n
    BY <1>6
  <2>2. \E item \in active : Place(item) = n
    <3> HIDE DEF active, N, place, Place
    <3> QED BY <1>4, <1>5
  <2>3. Engine!bound[n] \in active /\ Place(Engine!bound[n]) = n
    <3> HIDE DEF active, Place
    <3> QED BY <2>1, <2>2
  <2> QED BY <1>4, <2>3
<1>8. DOMAIN Engine!bound = 1..N /\ Engine!bound \in [1..N -> active]
  BY <1>6, <1>7
<1> HIDE DEF active, N, rank, upTo, place, Place
<1>9. Engine!bound \in Seq(active) /\ Len(Engine!bound) = N
  <2>1. Engine!bound \in Seq(active)
    BY <1>5, <1>8, SeqDef
  <2>2. DOMAIN Engine!bound = 1..Len(Engine!bound) /\ Len(Engine!bound) \in Nat
    BY <2>1, LenProperties
  <2> QED BY <1>5, <1>8, <2>1, <2>2
<1>10. \A i \in 1..N, j \in 1..N : Engine!bound[i].id = Engine!bound[j].id => i = j
  <2> SUFFICES ASSUME NEW i \in 1..N, NEW j \in 1..N, Engine!bound[i].id = Engine!bound[j].id
               PROVE  i = j
    OBVIOUS
  <2>1. Engine!bound[i] = Engine!bound[j]
    BY <1>7, ActiveIsOne DEF active
  <2> QED BY <1>7, <2>1
<1>11. \A item \in active : \E i \in 1..N : Engine!bound[i] = item
  BY <1>5, <1>7
<1> QED BY <1>5, <1>7, <1>8, <1>9, <1>10, <1>11 DEF Placed, active

-----------------------------------------------------------------------------
\* What the rows up to m have come to: the decisions and the changes of the enforced ones.
Took(i) == Engine!Effective(Engine!bound[i], Engine!Answer(i))
Decided(m) == {Took(i) : i \in {j \in 1..m : Engine!Enforced(j)}}
Changed(m) == {Engine!bound[i].id : i \in {j \in 1..m : Engine!Enforced(j) /\ Took(j) = "modify"}}

RequestHolds ==
  /\ rows \in Snapshots /\ \A item \in rows : Engine!Compiles(item)
  /\ engineAnswers \in [Engine!Ids -> Engine!Answers \cup {"none"}]
  /\ engineFirst \in Nat

\* The rows up to m have answered and are counted, those after the group have not been asked; a
\* group is skipped only after one that blocked or escalated.
ReachedUpTo(m) ==
  /\ \/ engineFirst = 0 /\ m = 0
     \/ engineFirst = m + 1
     \/ engineFirst = Len(Engine!bound) + 1 /\ \E d \in counted : d \in {"block", "escalate"}
  /\ \A i \in 1..m : Engine!Answer(i) # "none"
  /\ counted = Decided(m) /\ engineCurrent = Changed(m)
  /\ \A i \in (m + 1)..Len(Engine!bound) : Engine!Answer(i) # "none" => engineFirst = m + 1 /\ i \in Engine!Group

OutcomeHolds ==
  \/ engineOutcome = <<>>
  \/ engineFirst = 0 /\ Engine!Missing # {} /\ engineOutcome = <<[decision |-> "block", payload |-> Engine!NoPayload]>>
  \/ /\ engineFirst = Len(Engine!bound) + 1
     /\ engineOutcome = <<[decision |-> Engine!Final, payload |-> IF Engine!Final = "block" THEN Engine!NoPayload ELSE engineCurrent]>>

EngineInv ==
  /\ RequestHolds
  /\ engineFirst > 0 => Engine!Missing = {}
  /\ \E m \in 0..Len(Engine!bound) : ReachedUpTo(m)
  /\ OutcomeHolds

-----------------------------------------------------------------------------
LEMMA BoundRowIs ==
  ASSUME Engine!RowsAssumption, RequestHolds, NEW i \in 1..Len(Engine!bound)
  PROVE  /\ Engine!bound[i] \in rows /\ Engine!bound[i].enabled /\ Engine!Compiles(Engine!bound[i])
         /\ Engine!bound[i].emits \subseteq Engine!Decisions /\ Engine!bound[i].failure \in {"fail_open", "fail_closed"}
         /\ Engine!bound[i].id \in Engine!Ids /\ Engine!Answer(i) \in Engine!Answers \cup {"none"}
<1>1. Engine!bound[i] \in rows /\ Engine!bound[i].enabled
  BY BoundIsPlaced DEF Placed, Engine!Active, RequestHolds
<1>2. Engine!bound[i].id \in Engine!Ids
  BY <1>1 DEF Engine!Ids, RequestHolds
<1> QED BY <1>1, <1>2 DEF Engine!RowsAssumption, RequestHolds, Engine!Answer

\* A row counts as a decision; it modifies only by saying so, and then it runs alone.
LEMMA TookIs ==
  ASSUME Engine!RowsAssumption, RequestHolds, NEW i \in 1..Len(Engine!bound)
  PROVE  /\ Took(i) \in Engine!Decisions
         /\ Engine!Answer(i) \in Engine!bound[i].emits => Took(i) = Engine!Answer(i)
         /\ Engine!Answer(i) \notin Engine!bound[i].emits => Took(i) = IF Engine!bound[i].failure = "fail_closed" THEN "block" ELSE "allow"
         /\ Took(i) = "modify" => Engine!bound[i].group = "none"
<1>1. /\ Engine!bound[i].emits \subseteq Engine!Decisions /\ Engine!Compiles(Engine!bound[i])
      /\ Engine!bound[i].failure \in {"fail_open", "fail_closed"}
  BY BoundRowIs
<1>2. Engine!Answer(i) \in Engine!bound[i].emits => Took(i) = Engine!Answer(i)
  BY <1>1 DEF Took, Engine!Effective, Engine!Failed, Engine!Decisions
<1>3. Engine!Answer(i) \notin Engine!bound[i].emits => Took(i) = IF Engine!bound[i].failure = "fail_closed" THEN "block" ELSE "allow"
  BY DEF Took, Engine!Effective, Engine!Failed
<1>4. Took(i) \in Engine!Decisions
  BY <1>1, <1>2, <1>3 DEF Engine!Decisions
<1>5. Took(i) = "modify" => Engine!bound[i].group = "none"
  BY <1>1, <1>2, <1>3 DEF Engine!Compiles
<1> QED BY <1>2, <1>3, <1>4, <1>5

\* BLOCK wins over ESCALATE, that over MODIFY, that over ALLOW.
LEMMA StrongestIs ==
  ASSUME NEW ds \in SUBSET Engine!Decisions
  PROVE  Engine!Strongest(ds) = IF "block" \in ds THEN "block"
                         ELSE IF "escalate" \in ds THEN "escalate"
                         ELSE IF "modify" \in ds THEN "modify" ELSE "allow"
<1> DEFINE top == IF "block" \in ds THEN "block"
                  ELSE IF "escalate" \in ds THEN "escalate"
                  ELSE IF "modify" \in ds THEN "modify" ELSE "allow"
<1>1. CASE ds = {}
  BY <1>1 DEF Engine!Strongest
<1>2. CASE ds # {}
  <2>1. top \in ds
    BY <1>2 DEF Engine!Decisions
  <2>2. \A e \in ds : Engine!Precedence[e] <= Engine!Precedence[top]
    BY DEF Engine!Decisions, Engine!Precedence
  <2>3. \A d \in ds : (\A e \in ds : Engine!Precedence[e] <= Engine!Precedence[d]) => d = top
    <3> SUFFICES ASSUME NEW d \in ds, \A e \in ds : Engine!Precedence[e] <= Engine!Precedence[d]
                 PROVE  d = top
      OBVIOUS
    <3>1. Engine!Precedence[top] <= Engine!Precedence[d]
      BY <2>1
    <3>2. Engine!Precedence[d] <= Engine!Precedence[top]
      BY <2>2
    <3> QED BY <3>1, <3>2, <2>1 DEF Engine!Decisions, Engine!Precedence
  <2> HIDE DEF top
  <2>4. Engine!Strongest(ds) = CHOOSE d \in ds : \A e \in ds : Engine!Precedence[e] <= Engine!Precedence[d]
    BY <1>2 DEF Engine!Strongest
  <2> QED BY <2>1, <2>2, <2>3, <2>4 DEF top
<1> QED BY <1>1, <1>2

LEMMA RowsInForce ==
  ASSUME Engine!RowsAssumption, rows \in Snapshots
  PROVE  Engine!InForce = Engine!Active(rows)
<1>1. ASSUME NEW item \in rows, NEW other \in rows
      PROVE  (other # item => Engine!Over(item, other))
             <=> /\ Engine!SCOPE_PRIORITY[other.scope] <= Engine!SCOPE_PRIORITY[item.scope]
                 /\ other.scope = item.scope => item.place <= other.place
  <2>1. /\ other # item => item.place # other.place
        /\ item.place \in Nat /\ other.place \in Nat
        /\ item.scope \in {"global", "tenant", "agent"} /\ other.scope \in {"global", "tenant", "agent"}
    BY DEF Engine!RowsAssumption
  <2> QED BY <2>1 DEF Engine!Over, Engine!SCOPE_PRIORITY
<1> QED BY <1>1 DEF Engine!InForce, Engine!Active

-----------------------------------------------------------------------------
LEMMA LengthIs == ASSUME Engine!RowsAssumption, RequestHolds PROVE Len(Engine!bound) \in Nat /\ DOMAIN Engine!bound = 1..Len(Engine!bound)
BY BoundIsPlaced DEF Placed, RequestHolds

\* A group is a stretch of rows from the first of it; only one that stands alone may modify.
LEMMA GroupIs ==
  ASSUME Engine!RowsAssumption, RequestHolds, engineFirst \in 1..Len(Engine!bound)
  PROVE  \E last \in engineFirst..Len(Engine!bound) :
           /\ Engine!Group = engineFirst..last
           /\ last = CHOOSE i \in Engine!Group : \A j \in Engine!Group : j <= i
           /\ \A i \in Engine!Group : Took(i) = "modify" => engineFirst = last
<1>1. engineFirst \in Nat /\ Len(Engine!bound) \in Nat
  BY LengthIs
<1>2. engineFirst \in Engine!Group /\ Engine!Group \in SUBSET (engineFirst..Len(Engine!bound)) /\ Engine!Group \in SUBSET (0..Len(Engine!bound))
  BY <1>1 DEF Engine!Group
<1>3. PICK last \in Engine!Group : \A j \in Engine!Group : j <= last
  BY <1>1, <1>2, HasLargest
<1>4. last \in engineFirst..Len(Engine!bound)
  BY <1>2
<1>5. \A j \in engineFirst..last : j \in Engine!Group
  BY <1>1, <1>4 DEF Engine!Group
<1>6. Engine!Group = engineFirst..last
  <2>1. \A j \in Engine!Group : j \in engineFirst..last
    BY <1>1, <1>2, <1>3, <1>4
  <2> QED BY <1>5, <2>1
<1>7. last = CHOOSE i \in Engine!Group : \A j \in Engine!Group : j <= i
  <2>1. \A i \in Engine!Group : (\A j \in Engine!Group : j <= i) => i = last
    BY <1>1, <1>2, <1>3
  <2> QED BY <1>3, <2>1
<1>8. ASSUME NEW i \in Engine!Group, Took(i) = "modify" PROVE engineFirst = last
  <2>1. Engine!bound[i].group = "none"
    BY <1>2, <1>8, TookIs
  <2>2. i = engineFirst
    BY <1>1, <1>2, <2>1 DEF Engine!Group
  <2>3. Engine!bound[engineFirst].group = "none"
    BY <2>1, <2>2
  <2> QED BY <1>3, <1>4, <2>3 DEF Engine!Group
<1> QED BY <1>4, <1>6, <1>7, <1>8

LEMMA EngineInitHolds == Engine!RowsAssumption /\ Engine!Init => EngineInv
<1> SUFFICES ASSUME Engine!RowsAssumption, Engine!Init PROVE EngineInv
  OBVIOUS
<1>1. RequestHolds
  BY DEF Engine!Init, RequestHolds
<1>2. Len(Engine!bound) \in Nat
  BY <1>1, LengthIs
<1>3. \A i \in 1..Len(Engine!bound) : Engine!Answer(i) = "none"
  BY <1>1, BoundRowIs DEF Engine!Init, Engine!Answer
<1>4. ReachedUpTo(0)
  BY <1>2, <1>3 DEF Engine!Init, ReachedUpTo, Decided, Changed
<1> QED BY <1>1, <1>2, <1>4 DEF EngineInv, OutcomeHolds, Engine!Init

LEMMA StartKeeps ==
  ASSUME Engine!RowsAssumption, EngineInv, Engine!Start
  PROVE  EngineInv'
<1>1. /\ rows' = rows /\ obligations' = obligations /\ engineAnswers' = engineAnswers
      /\ engineCurrent' = engineCurrent /\ counted' = counted /\ engineFirst = 0 /\ Engine!bound' = Engine!bound
  BY DEF Engine!Start, Engine!bound
<1>2. RequestHolds /\ Len(Engine!bound) \in Nat
  BY LengthIs DEF EngineInv
<1>3. RequestHolds'
  BY <1>1, <1>2 DEF Engine!Start, RequestHolds
<1>4. PICK m \in 0..Len(Engine!bound) : ReachedUpTo(m)
  BY DEF EngineInv
<1>5. m = 0
  BY <1>1, <1>2, <1>4 DEF ReachedUpTo
<1>6. Engine!Missing' = Engine!Missing
  BY <1>1 DEF Engine!Missing, Engine!Enforced
<1>7. Decided(0)' = Decided(0) /\ Changed(0)' = Changed(0)
  BY <1>1 DEF Decided, Changed, Took, Engine!Answer, Engine!Enforced
<1>8. ReachedUpTo(0)'
  <2>1. \A i \in 1..Len(Engine!bound) : Engine!Answer(i)' = "none"
    BY <1>1, <1>2, <1>4, <1>5 DEF ReachedUpTo, Engine!Answer
  <2>2. counted' = Decided(0)' /\ engineCurrent' = Changed(0)'
    BY <1>1, <1>4, <1>5, <1>7 DEF ReachedUpTo
  <2>3. engineFirst' \in {0, 1}
    BY <1>1 DEF Engine!Start
  <2> QED BY <1>1, <1>2, <2>1, <2>2, <2>3 DEF ReachedUpTo
<1>9. 0 \in 0..Len(Engine!bound)
  BY <1>2
<1>10. CASE Engine!Missing # {}
  BY <1>1, <1>3, <1>6, <1>8, <1>9, <1>10 DEF Engine!Start, EngineInv, OutcomeHolds
<1>11. CASE Engine!Missing = {}
  BY <1>1, <1>3, <1>6, <1>8, <1>9, <1>11 DEF Engine!Start, EngineInv, OutcomeHolds
<1> QED BY <1>10, <1>11

LEMMA ReplyKeeps ==
  ASSUME Engine!RowsAssumption, EngineInv, NEW i \in DOMAIN Engine!bound, Engine!Reply(i)
  PROVE  EngineInv'
<1>1. /\ rows' = rows /\ obligations' = obligations /\ engineFirst' = engineFirst
      /\ engineCurrent' = engineCurrent /\ counted' = counted /\ engineOutcome' = engineOutcome /\ engineOutcome = <<>> /\ Engine!bound' = Engine!bound
      /\ i \in Engine!Group /\ engineFirst > 0 /\ Engine!Answer(i) = "none"
  BY DEF Engine!Reply, Engine!bound
<1>2. RequestHolds /\ Len(Engine!bound) \in Nat /\ engineFirst \in Nat /\ i \in 1..Len(Engine!bound)
  BY LengthIs DEF EngineInv, RequestHolds
<1>3. PICK answer \in Engine!Answers : engineAnswers' = [engineAnswers EXCEPT ![Engine!bound[i].id] = answer]
  BY DEF Engine!Reply
<1>4. RequestHolds'
  BY <1>1, <1>2, <1>3 DEF RequestHolds, Engine!Ids
<1>5. PICK m \in 0..Len(Engine!bound) : ReachedUpTo(m)
  BY DEF EngineInv
<1>6. i \in engineFirst..Len(Engine!bound)
  BY <1>1 DEF Engine!Group
<1>7. m + 1 = engineFirst
  BY <1>1, <1>2, <1>5, <1>6 DEF ReachedUpTo
<1>8. /\ \A j \in 1..Len(Engine!bound) : j # i => Engine!Answer(j)' = Engine!Answer(j)
      /\ Engine!Answer(i)' = answer
  <2>1. \A j \in 1..Len(Engine!bound) : j # i => Engine!bound[j].id # Engine!bound[i].id
    BY <1>2, BoundIsPlaced DEF Placed, RequestHolds
  <2>2. engineAnswers \in [Engine!Ids -> Engine!Answers \cup {"none"}] /\ Engine!bound[i].id \in Engine!Ids
    BY <1>2, BoundRowIs DEF RequestHolds
  <2>3. \A j \in 1..Len(Engine!bound) : Engine!bound[j].id \in Engine!Ids
    BY <1>2, BoundRowIs
  <2> QED BY <1>1, <1>2, <1>3, <2>1, <2>2, <2>3 DEF Engine!Answer
<1>9. \A j \in 1..m : Engine!Answer(j)' = Engine!Answer(j) /\ Took(j)' = Took(j) /\ Engine!Enforced(j)' = Engine!Enforced(j)
  <2>1. \A j \in 1..m : j \in 1..Len(Engine!bound) /\ j # i
    BY <1>2, <1>6, <1>7
  <2> QED BY <1>1, <1>8, <2>1 DEF Took, Engine!Enforced
<1>10. Decided(m)' = Decided(m) /\ Changed(m)' = Changed(m)
  <2>1. {j \in 1..m : Engine!Enforced(j)'} = {j \in 1..m : Engine!Enforced(j)}
    BY <1>9
  <2>2. {j \in 1..m : Engine!Enforced(j)' /\ Took(j)' = "modify"} = {j \in 1..m : Engine!Enforced(j) /\ Took(j) = "modify"}
    BY <1>9
  <2>3. Decided(m)' = Decided(m)
    BY <1>9, <2>1 DEF Decided
  <2>4. Changed(m)' = Changed(m)
    BY <1>1, <2>2 DEF Changed
  <2> QED BY <2>3, <2>4
<1>11. Engine!Group' = Engine!Group
  BY <1>1 DEF Engine!Group
<1>12. ReachedUpTo(m)'
  <2>1. \A j \in 1..m : Engine!Answer(j)' # "none"
    BY <1>5, <1>9 DEF ReachedUpTo
  <2>2. ASSUME NEW j \in (m + 1)..Len(Engine!bound), Engine!Answer(j)' # "none" PROVE j \in Engine!Group
    BY <1>1, <1>2, <1>5, <1>8, <2>2 DEF ReachedUpTo
  <2> QED BY <1>1, <1>5, <1>7, <1>10, <1>11, <2>1, <2>2 DEF ReachedUpTo
<1>13. Engine!Missing' = Engine!Missing
  BY <1>1 DEF Engine!Missing, Engine!Enforced
<1> QED BY <1>1, <1>4, <1>12, <1>13 DEF EngineInv, OutcomeHolds

LEMMA TakeGroupKeeps ==
  ASSUME Engine!RowsAssumption, EngineInv, Engine!TakeGroup
  PROVE  EngineInv'
<1>1. /\ rows' = rows /\ obligations' = obligations /\ engineAnswers' = engineAnswers
      /\ engineOutcome' = engineOutcome /\ engineOutcome = <<>> /\ Engine!bound' = Engine!bound /\ Engine!AllAnswered
      /\ engineFirst' = IF Engine!Stops THEN Len(Engine!bound) + 1 ELSE 1 + CHOOSE i \in Engine!Group : \A j \in Engine!Group : j <= i
      /\ counted' = counted \cup {Took(i) : i \in Engine!Counts}
  BY DEF Engine!TakeGroup, Engine!bound, Took
<1>2. RequestHolds /\ Len(Engine!bound) \in Nat /\ engineFirst \in 1..Len(Engine!bound)
  BY LengthIs DEF EngineInv, Engine!TakeGroup
<1>3. PICK last \in engineFirst..Len(Engine!bound) :
           /\ Engine!Group = engineFirst..last
           /\ last = CHOOSE i \in Engine!Group : \A j \in Engine!Group : j <= i
           /\ \A i \in Engine!Group : Took(i) = "modify" => engineFirst = last
  BY <1>2, GroupIs
<1>4. engineFirst' = IF Engine!Stops THEN Len(Engine!bound) + 1 ELSE last + 1
  <2> DEFINE top == CHOOSE i \in Engine!Group : \A j \in Engine!Group : j <= i
  <2>1. engineFirst' = (IF Engine!Stops THEN Len(Engine!bound) + 1 ELSE 1 + top) /\ last = top
    BY <1>1, <1>3
  <2> HIDE DEF top
  <2> QED BY <1>2, <2>1
<1>5. PICK m \in 0..Len(Engine!bound) : ReachedUpTo(m)
  BY DEF EngineInv
<1>6. m = engineFirst - 1
  BY <1>2, <1>5 DEF ReachedUpTo
<1>7. last \in 0..Len(Engine!bound) /\ m \in Nat /\ last \in Nat
  BY <1>2, <1>3
<1>8. \A i \in 1..last : i \in 1..m \/ i \in Engine!Group
  BY <1>2, <1>3, <1>6
<1>9. \A i \in 1..m : i \in 1..last
  BY <1>2, <1>3, <1>6
<1>10. \A i \in Engine!Group : i \in 1..last
  BY <1>2, <1>3
<1>11. counted' = Decided(last)
  BY <1>1, <1>5, <1>8, <1>9, <1>10 DEF ReachedUpTo, Decided, Engine!Counts
<1>12. engineCurrent' = Changed(last)
  <2> DEFINE modified == {i \in Engine!Counts : Took(i) = "modify"}
             top == CHOOSE i \in modified : \A j \in modified : j <= i
  <2>1. engineCurrent' = IF modified = {} THEN engineCurrent ELSE engineCurrent \cup {Engine!bound[top].id}
    BY DEF Engine!TakeGroup, Took
  <2>2. Changed(last) = engineCurrent \cup {Engine!bound[i].id : i \in modified}
    <3>1. {i \in 1..last : Engine!Enforced(i) /\ Took(i) = "modify"}
            = {i \in 1..m : Engine!Enforced(i) /\ Took(i) = "modify"} \cup modified
      BY <1>8, <1>9, <1>10 DEF Engine!Counts
    <3> QED BY <1>5, <3>1 DEF ReachedUpTo, Changed
  <2>3. CASE modified = {}
    BY <2>1, <2>2, <2>3
  <2>4. CASE modified # {}
    <3>1. \A i \in modified : i = engineFirst
      <4> SUFFICES ASSUME NEW i \in modified PROVE i = engineFirst
        OBVIOUS
      <4>1. i \in Engine!Group /\ Took(i) = "modify"
        BY DEF Engine!Counts
      <4>2. engineFirst = last /\ i \in engineFirst..last
        BY <1>3, <4>1
      <4> QED BY <1>2, <4>2
    <3>2. modified = {engineFirst}
      <4> HIDE DEF modified
      <4> QED BY <2>4, <3>1
    <3>3. top = engineFirst
      <4> HIDE DEF modified
      <4> QED BY <1>2, <3>2
    <3> HIDE DEF modified, top
    <3> QED BY <2>1, <2>2, <2>4, <3>2, <3>3
  <2> QED BY <2>3, <2>4
<1>13. RequestHolds' /\ engineFirst' \in Nat /\ engineFirst' > 0
  <2>1. engineFirst' \in {Len(Engine!bound) + 1, last + 1}
    BY <1>4
  <2>2. engineFirst' \in Nat /\ engineFirst' > 0
    BY <1>2, <1>7, <2>1
  <2> QED BY <1>1, <1>2, <2>2 DEF RequestHolds, Engine!Ids
<1>14. /\ Decided(last)' = Decided(last) /\ Changed(last)' = Changed(last) /\ Engine!Missing' = Engine!Missing
  BY <1>1 DEF Decided, Changed, Took, Engine!Answer, Engine!Enforced, Engine!Missing
<1>15. \A i \in 1..Len(Engine!bound) : Engine!Answer(i)' = Engine!Answer(i)
  BY <1>1 DEF Engine!Answer
<1>16. \A i \in 1..last : Engine!Answer(i) # "none"
  BY <1>1, <1>5, <1>8 DEF ReachedUpTo, Engine!AllAnswered
<1>17. \A i \in (last + 1)..Len(Engine!bound) : Engine!Answer(i) = "none"
  <2>1. \A i \in (last + 1)..Len(Engine!bound) : i \in (m + 1)..Len(Engine!bound) /\ i \notin Engine!Group
    BY <1>2, <1>3, <1>6
  <2> QED BY <1>5, <2>1 DEF ReachedUpTo
<1>18. engineFirst' = last + 1 \/ (engineFirst' = Len(Engine!bound) + 1 /\ \E d \in counted' : d \in {"block", "escalate"})
  <2>1. CASE Engine!Stops
    BY <1>1, <1>4, <2>1 DEF Engine!Stops, Took
  <2>2. CASE ~Engine!Stops
    BY <1>4, <2>2
  <2> QED BY <2>1, <2>2
<1>19. ReachedUpTo(last)'
  <2>1. \A i \in (last + 1)..Len(Engine!bound) : Engine!Answer(i)' = "none"
    BY <1>7, <1>15, <1>17
  <2>2. \A i \in 1..last : Engine!Answer(i)' # "none"
    BY <1>7, <1>15, <1>16
  <2> QED BY <1>1, <1>11, <1>12, <1>14, <1>18, <2>1, <2>2 DEF ReachedUpTo
<1>20. Engine!Missing' = {}
  BY <1>2, <1>14 DEF EngineInv
<1> QED BY <1>1, <1>7, <1>13, <1>19, <1>20 DEF EngineInv, OutcomeHolds

LEMMA ReturnKeeps ==
  ASSUME Engine!RowsAssumption, EngineInv, Engine!Return
  PROVE  EngineInv'
<1>1. /\ rows' = rows /\ obligations' = obligations /\ engineAnswers' = engineAnswers /\ engineFirst' = engineFirst
      /\ engineCurrent' = engineCurrent /\ counted' = counted /\ reviewQueue' = reviewQueue /\ Engine!bound' = Engine!bound
      /\ engineOutcome' = <<[decision |-> Engine!Final, payload |-> IF Engine!Final = "block" THEN Engine!NoPayload ELSE engineCurrent]>>
      /\ engineFirst > Len(Engine!bound)
  BY DEF Engine!Return, Engine!bound
<1>2. RequestHolds /\ Len(Engine!bound) \in Nat
  BY LengthIs DEF EngineInv
<1>3. PICK m \in 0..Len(Engine!bound) : ReachedUpTo(m)
  BY DEF EngineInv
<1>4. engineFirst = Len(Engine!bound) + 1
  BY <1>1, <1>2, <1>3 DEF ReachedUpTo
<1>5. ReachedUpTo(m)' /\ RequestHolds' /\ Engine!Missing' = Engine!Missing /\ Engine!Final' = Engine!Final
  BY <1>1, <1>2, <1>3 DEF ReachedUpTo, RequestHolds, Engine!Missing, Engine!Final, Decided, Changed, Took, Engine!Answer,
                          Engine!Enforced, Engine!Group
<1> QED BY <1>1, <1>4, <1>5 DEF EngineInv, OutcomeHolds

LEMMA EngineNextKeeps == Engine!RowsAssumption /\ EngineInv /\ [Engine!Next]_(Engine!vars) => EngineInv'
<1> SUFFICES ASSUME Engine!RowsAssumption, EngineInv, [Engine!Next]_(Engine!vars) PROVE EngineInv'
  OBVIOUS
<1>1. CASE UNCHANGED Engine!vars
  <2>1. Engine!bound' = Engine!bound /\ UNCHANGED Engine!vars
    BY <1>1 DEF Engine!bound, Engine!vars
  <2>2. RequestHolds'
    BY <1>1 DEF EngineInv, RequestHolds, Engine!Ids, Engine!vars
  <2>3. \A m \in 0..Len(Engine!bound) : ReachedUpTo(m)' <=> ReachedUpTo(m)
    BY <2>1 DEF ReachedUpTo, Decided, Changed, Took, Engine!Answer, Engine!Enforced, Engine!Group, Engine!vars
  <2>4. Engine!Missing' = Engine!Missing /\ Engine!Final' = Engine!Final
    BY <2>1 DEF Engine!Missing, Engine!Final, Engine!Enforced, Engine!vars
  <2>5. \E m \in 0..Len(Engine!bound') : ReachedUpTo(m)'
    BY <2>1, <2>3 DEF EngineInv
  <2> QED BY <2>1, <2>2, <2>4, <2>5 DEF EngineInv, OutcomeHolds, Engine!vars
<1> QED BY <1>1, StartKeeps, ReplyKeeps, TakeGroupKeeps, ReturnKeeps DEF Engine!Next

-----------------------------------------------------------------------------
LEMMA EngineIsEnough == Engine!RowsAssumption /\ EngineInv => Engine!ReleasedIsClean /\ Engine!StoppedForCause
<1> SUFFICES ASSUME Engine!RowsAssumption, EngineInv, engineOutcome # <<>>
             PROVE  Engine!ReleasedIsClean /\ Engine!StoppedForCause
  BY DEF Engine!ReleasedIsClean, Engine!StoppedForCause, Engine!Released
<1> DEFINE enforced == {item \in Engine!InForce : item.mode = "enforce"}
           Says(item, d) == engineAnswers[item.id] = d /\ d \in item.emits
           Broken(item) == engineAnswers[item.id] # "none" /\ engineAnswers[item.id] \notin item.emits
<1>1. RequestHolds /\ Len(Engine!bound) \in Nat /\ DOMAIN Engine!bound = 1..Len(Engine!bound)
  BY LengthIs DEF EngineInv
<1>2. /\ \A i \in 1..Len(Engine!bound) : Engine!Enforced(i) => Engine!bound[i] \in enforced
      /\ \A item \in enforced : \E i \in 1..Len(Engine!bound) : Engine!bound[i] = item /\ Engine!Enforced(i)
  BY <1>1, BoundIsPlaced, RowsInForce DEF Placed, RequestHolds, Engine!Enforced
<1>3. obligations \subseteq {item.id : item \in enforced} <=> Engine!Missing = {}
  BY <1>1, <1>2 DEF Engine!Missing
<1>4. PICK m \in 0..Len(Engine!bound) : ReachedUpTo(m)
  BY DEF EngineInv
<1>5. CASE engineFirst = 0
  <2>1. Engine!Missing # {} /\ engineOutcome = <<[decision |-> "block", payload |-> Engine!NoPayload]>>
    BY <1>1, <1>5 DEF EngineInv, OutcomeHolds
  <2>2. engineOutcome[1].decision = "block" /\ engineOutcome[1].payload = Engine!NoPayload
    BY <2>1
  <2> QED BY <1>3, <2>1, <2>2 DEF Engine!ReleasedIsClean, Engine!StoppedForCause, Engine!Released
<1>6. CASE engineFirst > 0
  <2>1. /\ engineOutcome[1].decision = Engine!Final
        /\ engineOutcome[1].payload = IF Engine!Final = "block" THEN Engine!NoPayload ELSE engineCurrent
        /\ engineFirst = Len(Engine!bound) + 1
    BY <1>1, <1>6 DEF EngineInv, OutcomeHolds, RequestHolds
  <2>2. Engine!Missing = {}
    BY <1>6 DEF EngineInv
  <2>3. /\ m = Len(Engine!bound) \/ \E d \in counted : d \in {"block", "escalate"}
        /\ \A i \in (m + 1)..Len(Engine!bound) : Engine!Answer(i) = "none"
    <3>1. Engine!Group = {}
      BY <1>1, <2>1 DEF Engine!Group
    <3>2. m = Len(Engine!bound) \/ \E d \in counted : d \in {"block", "escalate"}
      <4> DEFINE stopped == \E d \in counted : d \in {"block", "escalate"}
      <4>1. (engineFirst = 0 /\ m = 0) \/ engineFirst = m + 1 \/ (engineFirst = Len(Engine!bound) + 1 /\ stopped)
        BY <1>4 DEF ReachedUpTo
      <4>2. engineFirst = Len(Engine!bound) + 1 /\ Len(Engine!bound) \in Nat /\ m \in Nat
        BY <1>1, <2>1
      <4> HIDE DEF stopped
      <4>3. m = Len(Engine!bound) \/ stopped
        BY <4>1, <4>2
      <4> QED BY <4>3 DEF stopped
    <3>3. \A i \in (m + 1)..Len(Engine!bound) : Engine!Answer(i) = "none"
      BY <1>1, <1>4, <3>1 DEF ReachedUpTo
    <3> QED BY <3>2, <3>3
  <2>4. counted \subseteq Engine!Decisions /\ counted = {Took(i) : i \in {j \in 1..m : Engine!Enforced(j)}}
    <3>1. \A i \in 1..m : Took(i) \in Engine!Decisions
      BY <1>1, TookIs
    <3> QED BY <1>4, <3>1 DEF ReachedUpTo, Decided
  <2>5. Engine!Strongest(counted) = IF "block" \in counted THEN "block"
                             ELSE IF "escalate" \in counted THEN "escalate"
                             ELSE IF "modify" \in counted THEN "modify" ELSE "allow"
    BY <2>4, StrongestIs
  <2>6. \A d \in {"block", "escalate"} : d \in counted =>
           \E item \in enforced : Says(item, d) \/ (d = "block" /\ Broken(item) /\ item.failure = "fail_closed")
    <3> SUFFICES ASSUME NEW d \in {"block", "escalate"}, d \in counted
                 PROVE  \E item \in enforced : Says(item, d) \/ (d = "block" /\ Broken(item) /\ item.failure = "fail_closed")
      OBVIOUS
    <3>1. PICK i \in 1..m : Engine!Enforced(i) /\ Took(i) = d
      BY <2>4
    <3>2. i \in 1..Len(Engine!bound) /\ Engine!bound[i] \in enforced /\ Engine!Answer(i) # "none"
      BY <1>1, <1>2, <1>4, <3>1 DEF ReachedUpTo
    <3>3. /\ Engine!Answer(i) \in Engine!bound[i].emits => Took(i) = Engine!Answer(i)
          /\ Engine!Answer(i) \notin Engine!bound[i].emits => Took(i) = IF Engine!bound[i].failure = "fail_closed" THEN "block" ELSE "allow"
      BY <1>1, <3>2, TookIs
    <3> HIDE DEF enforced
    <3>4. Says(Engine!bound[i], d) \/ (d = "block" /\ Broken(Engine!bound[i]) /\ Engine!bound[i].failure = "fail_closed")
      BY <3>1, <3>2, <3>3 DEF Engine!Answer
    <3> QED BY <3>2, <3>4
  <2>7. engineCurrent = {item.id : item \in {r \in enforced : Says(r, "modify")}}
    <3>1. ASSUME NEW i \in 1..Len(Engine!bound), Engine!Enforced(i)
          PROVE  Says(Engine!bound[i], "modify") <=> i \in 1..m /\ Took(i) = "modify"
      <4>1. /\ Engine!Answer(i) \in Engine!bound[i].emits => Took(i) = Engine!Answer(i)
            /\ Engine!Answer(i) \notin Engine!bound[i].emits => Took(i) = IF Engine!bound[i].failure = "fail_closed" THEN "block" ELSE "allow"
        BY <1>1, TookIs
      <4>2. CASE i \in 1..m
        BY <4>1, <4>2 DEF Engine!Answer
      <4>3. CASE i \notin 1..m
        <5>1. i \in (m + 1)..Len(Engine!bound)
          BY <1>1, <4>3
        <5>2. engineAnswers[Engine!bound[i].id] = "none"
          BY <2>3, <5>1 DEF Engine!Answer
        <5> QED BY <4>3, <5>2
      <4> QED BY <4>2, <4>3
    <3>2. engineCurrent = {Engine!bound[i].id : i \in {j \in 1..m : Engine!Enforced(j) /\ Took(j) = "modify"}}
      BY <1>4 DEF ReachedUpTo, Changed
    <3>3. \A i \in 1..m : i \in 1..Len(Engine!bound)
      BY <1>1
    <3> HIDE DEF enforced, Says
    <3> QED BY <1>2, <3>1, <3>2, <3>3
  <2>8. CASE Engine!Final \in {"allow", "modify"}
    <3>1. "block" \notin counted /\ "escalate" \notin counted /\ m = Len(Engine!bound)
      BY <2>3, <2>5, <2>8 DEF Engine!Final
    <3>2. ASSUME NEW item \in enforced
          PROVE  IF engineAnswers[item.id] \in item.emits
                 THEN engineAnswers[item.id] = "allow" \/ (engineAnswers[item.id] = "modify" /\ item.id \in engineOutcome[1].payload)
                 ELSE engineAnswers[item.id] # "none" /\ item.failure = "fail_open"
      <4>1. PICK i \in 1..Len(Engine!bound) : Engine!bound[i] = item /\ Engine!Enforced(i)
        BY <1>2
      <4>2. /\ Engine!Answer(i) \in Engine!bound[i].emits => Took(i) = Engine!Answer(i)
            /\ Engine!Answer(i) \notin Engine!bound[i].emits => Took(i) = IF Engine!bound[i].failure = "fail_closed" THEN "block" ELSE "allow"
            /\ Took(i) \in Engine!Decisions
        BY <1>1, TookIs
      <4>3. Took(i) \in counted /\ Engine!Answer(i) # "none"
        BY <1>4, <2>4, <3>1, <4>1 DEF ReachedUpTo
      <4>4. item.failure \in {"fail_open", "fail_closed"}
        BY <1>1, <4>1, BoundRowIs
      <4>5. Took(i) \in {"allow", "modify"}
        BY <3>1, <4>2, <4>3 DEF Engine!Decisions
      <4>6. Says(item, "modify") => item.id \in engineOutcome[1].payload
        BY <2>1, <2>7, <2>8
      <4> HIDE DEF enforced
      <4> QED BY <4>1, <4>2, <4>3, <4>4, <4>5, <4>6 DEF Engine!Answer
    <3>3. Engine!ReleasedIsClean
      BY <1>3, <2>2, <3>2 DEF Engine!ReleasedIsClean
    <3>4. Engine!StoppedForCause
      BY <2>1, <2>7, <2>8 DEF Engine!StoppedForCause
    <3> QED BY <3>3, <3>4
  <2>9. CASE Engine!Final = "escalate"
    <3>1. "escalate" \in counted /\ reviewQueue
      BY <2>5, <2>9 DEF Engine!Final
    <3>2. \E item \in enforced : Says(item, "escalate")
      BY <2>6, <3>1
    <3> QED BY <2>1, <2>7, <2>9, <3>1, <3>2 DEF Engine!ReleasedIsClean, Engine!StoppedForCause, Engine!Released
  <2>10. CASE Engine!Final = "block"
    <3>1. "block" \in counted \/ ("escalate" \in counted /\ ~reviewQueue)
      BY <2>5, <2>10 DEF Engine!Final
    <3>2. \E item \in enforced : \/ Says(item, "block")
                                 \/ Broken(item) /\ item.failure = "fail_closed"
                                 \/ Says(item, "escalate") /\ ~reviewQueue
      BY <2>6, <3>1
    <3> QED BY <2>1, <2>10, <3>2 DEF Engine!ReleasedIsClean, Engine!StoppedForCause, Engine!Released
  <2> QED BY <2>5, <2>8, <2>9, <2>10 DEF Engine!Final
<1> QED BY <1>1, <1>5, <1>6 DEF RequestHolds

\* pipeline.py:67-150: what a stage releases is clean and what it stops is stopped for cause, with
\* any rows, in any order of the answers.
THEOREM EngineHolds == Engine!RowsAssumption /\ Engine!Spec => [](Engine!ReleasedIsClean /\ Engine!StoppedForCause)
<1> SUFFICES ASSUME Engine!RowsAssumption PROVE Engine!Spec => [](Engine!ReleasedIsClean /\ Engine!StoppedForCause)
  OBVIOUS
<1>1. Engine!Init => EngineInv
  BY EngineInitHolds
<1>2. EngineInv /\ [Engine!Next]_(Engine!vars) => EngineInv'
  BY EngineNextKeeps
<1>3. EngineInv => Engine!ReleasedIsClean /\ Engine!StoppedForCause
  BY EngineIsEnough
<1> QED BY <1>1, <1>2, <1>3, PTL DEF Engine!Spec

HIDE DEF rows, obligations, reviewQueue, engineAnswers, engineFirst, engineCurrent, counted, engineOutcome

-----------------------------------------------------------------------------
(* What holds of a component holds of the gateway's parts.                 *)

\* auth.py:46, ratelimit.py:52-53: a key's revocation takes effect within the time to live, and
\* forgetting a bucket changes nothing, when access is the part that runs.
THEOREM AccessInGateway == GatewaySpec => []AccessIsCurrent
<1> DEFINE I == part = "access" => AccessInv
<1>1. GatewayInit => I
  BY PartsAssumption, AccessInitHolds DEF GatewayInit
<1>2. I /\ [GatewayNext]_all => I'
  <2> SUFFICES ASSUME I, [GatewayNext]_all, part' = "access"
               PROVE  AccessInv'
    OBVIOUS
  <2>1. part = "access"
    BY DEF GatewayNext, all
  <2>2. [Access!Next]_(Access!vars)
    BY <2>1 DEF GatewayNext, all, Access!vars
  <2> QED BY <2>1, <2>2, PartsAssumption, AccessNextKeeps
<1>3. I => AccessIsCurrent
  BY DEF AccessInv, AccessIsCurrent, Access!AccessIsCurrent
<1> QED BY <1>1, <1>2, <1>3, PTL DEF GatewaySpec

\* user_token.py:87-147: a withdrawn key is refused once the cache is too old, and the provider is
\* spared, when user tokens are the part that runs.
THEOREM KeysInGateway == GatewaySpec => []KeysAreFresh
<1> DEFINE I == part = "tokens" => TokensInv
<1>1. GatewayInit => I
  BY PartsAssumption, TokensInitHolds DEF GatewayInit
<1>2. I /\ [GatewayNext]_all => I'
  <2> SUFFICES ASSUME I, [GatewayNext]_all, part' = "tokens"
               PROVE  TokensInv'
    OBVIOUS
  <2>1. part = "tokens"
    BY DEF GatewayNext, all
  <2>2. [Tokens!Next]_(Tokens!vars)
    BY <2>1 DEF GatewayNext, all, Tokens!vars
  <2> QED BY <2>1, <2>2, PartsAssumption, TokensNextKeeps
<1>3. I => KeysAreFresh
  BY DEF TokensInv, KeysAreFresh, Tokens!KeysAreFresh
<1> QED BY <1>1, <1>2, <1>3, PTL DEF GatewaySpec

\* hooks.py:110-162, client.py:121-131: what was held waits for its approval, documents keep their
\* places, and a client gives up only in time, when the hooks are the part that runs.
THEOREM HooksInGateway == GatewaySpec => []HooksWait
<1> DEFINE I == part = "hooks" => HooksInv
<1>1. GatewayInit => I
  BY PartsAssumption, HooksInitHolds DEF GatewayInit
<1>2. I /\ [GatewayNext]_all => I'
  <2> SUFFICES ASSUME I, [GatewayNext]_all, part' = "hooks"
               PROVE  HooksInv'
    OBVIOUS
  <2>1. part = "hooks"
    BY DEF GatewayNext, all
  <2>2. [Hooks!Next]_(Hooks!vars)
    BY <2>1 DEF GatewayNext, all, Hooks!vars, Hooks!clocks
  <2> QED BY <2>1, <2>2, PartsAssumption, HooksNextKeeps
<1>3. I => HooksWait
  BY PartsAssumption, HooksTypesHold DEF HooksInv, HooksWait, Hooks!HooksWait
<1> QED BY <1>1, <1>2, <1>3, PTL DEF GatewaySpec

\* routers/authzen.py:54-63, 112-144: permits are as asked, batches end where they should, and no
\* more runs than was paid for, when AuthZEN is the part that runs.
THEOREM PermitsInGateway == GatewaySpec => []PermitsAreAsked
<1> DEFINE I == part = "pdp" => PdpInv
<1>0. PdpAssumption
  BY PartsAssumption DEF PdpAssumption
<1>1. GatewayInit => I
  BY <1>0, PdpInitHolds DEF GatewayInit
<1>2. I /\ [GatewayNext]_all => I'
  <2> SUFFICES ASSUME I, [GatewayNext]_all, part' = "pdp"
               PROVE  PdpInv'
    OBVIOUS
  <2>1. part = "pdp"
    BY DEF GatewayNext, all
  <2>2. [Pdp!Next]_(Pdp!vars)
    BY <2>1 DEF GatewayNext, all, Pdp!vars
  <2> QED BY <1>0, <2>1, <2>2, PdpNextKeeps
<1>3. I => PermitsAreAsked
  BY <1>0, PdpIsEnough DEF PermitsAreAsked
<1> QED BY <1>1, <1>2, <1>3, PTL DEF GatewaySpec

\* pipeline.py:67-150: what a stage releases is clean and what it stops is stopped for cause, when
\* the guardrail engine is the part that runs.
THEOREM EngineInGateway == GatewaySpec => []ReleasedIsClean
<1> DEFINE I == part = "engine" => EngineInv
<1>1. GatewayInit => I
  BY PartsAssumption, EngineInitHolds DEF GatewayInit
<1>2. I /\ [GatewayNext]_all => I'
  <2> SUFFICES ASSUME I, [GatewayNext]_all, part' = "engine"
               PROVE  EngineInv'
    OBVIOUS
  <2>1. part = "engine"
    BY DEF GatewayNext, all
  <2>2. [Engine!Next]_(Engine!vars)
    BY <2>1 DEF GatewayNext, all, Engine!vars
  <2> QED BY <2>1, <2>2, PartsAssumption, EngineNextKeeps
<1>3. I => ReleasedIsClean
  BY PartsAssumption, EngineIsEnough DEF ReleasedIsClean
<1> QED BY <1>1, <1>2, <1>3, PTL DEF GatewaySpec
=============================================================================
