------------------------- MODULE ConnectorSchedule -------------------------
(***************************************************************************)
(* Who runs a connector, and when.  Every replica's scheduler lists the    *)
(* connectors and runs the due ones; an editor may ask for a run now; an   *)
(* edit reads the row and writes it later.  The lease in the row keeps     *)
(* runs apart.  A call of the database may fail and a replica may crash.   *)
(*                                                                         *)
(* One connector.  Times are what is left of them, counted down by Tick:   *)
(* replicas share a clock.  What a run does is in ConnectorRuns and        *)
(* Discovery; deleting the connector is left out.                          *)
(***************************************************************************)
EXTENDS Integers

CONSTANTS
  Replicas,    \* processes with a scheduler
  Askers,      \* replicas that are asked to run it now
  None,
  Lease,       \* LEASE
  Interval,    \* interval_minutes
  Slow,        \* may a run outlive its lease
  MaxEdits, MaxFailures, MaxCrashes

ASSUME ConnectorScheduleAssumption ==
  /\ Askers \subseteq Replicas /\ None \notin Replicas /\ Slow \in BOOLEAN
  /\ {Lease, Interval} \subseteq Nat \ {0}
  /\ {MaxEdits, MaxFailures, MaxCrashes} \subseteq Nat

VARIABLES
  row,     \* the connector in the database
  task,    \* one per scheduler and one per asker
  desk,    \* the row as an edit read it, or None
  since,   \* time since a run last finished, up to Interval
  edits, failures, crashes

vars == <<row, task, desk, since, edits, failures, crashes>>

Tasks == {<<p, "schedule">> : p \in Replicas} \cup {<<p, "now">> : p \in Askers}
Scheduled(t) == t[2] = "schedule"

\* A connector that never ran is due.
Row == [enabled : BOOLEAN, config : 0..MaxEdits, owner : Replicas \cup {None},
        left : 0..Lease, rest : 0..Interval]
\* claimed is the configuration at the time of the claim.
Task == [at : {"idle", "listed", "claimed", "running"}, config : 0..MaxEdits,
         claimed : 0..MaxEdits, left : 0..Lease]
Idle == [at |-> "idle", config |-> 0, claimed |-> 0, left |-> 0]

TypeOK ==
  /\ row \in Row /\ task \in [Tasks -> Task] /\ desk \in Row \cup {None}
  /\ since \in 0..Interval
  /\ edits \in 0..MaxEdits /\ failures \in 0..MaxFailures /\ crashes \in 0..MaxCrashes

-----------------------------------------------------------------------------
(* The statements on the row *)

Due(r) == r.enabled /\ r.rest = 0

\* Mutation: what was due when it was listed is claimed.
CanClaimListed(r, t) == r.left = 0

\* Mutation: a lease is waited for until it is released.
CanClaimReleased(r, t) == r.owner = None /\ (Scheduled(t) => Due(r))

\* The WHERE of the conditional update: a lease that ran out is no lease.
CanClaim(r, t) == r.left = 0 /\ (Scheduled(t) => Due(r))

Released(r, p) ==
  IF r.owner = p THEN [r EXCEPT !.owner = None, !.left = 0, !.rest = Interval] ELSE r

Change(r, old, field) ==
  IF field = "enabled" THEN [r EXCEPT !.enabled = ~old.enabled] ELSE [r EXCEPT !.config = old.config + 1]

\* Mutation: the edit saves the row it read.
EditedRow(r, old, field) == Change(old, old, field)

\* Only the edited columns are written.
Edited(r, old, field) == Change(r, old, field)

\* The run uses the row as it is after the claim.
ConfigUsed(r, k) == r.config

-----------------------------------------------------------------------------
Init ==
  /\ row = [enabled |-> TRUE, config |-> 0, owner |-> None, left |-> 0, rest |-> 0]
  /\ task = [t \in Tasks |-> Idle]
  /\ desk = None /\ since = Interval
  /\ edits = 0 /\ failures = 0 /\ crashes = 0

\* The scheduler reads the connectors and finds this one due; an editor asks.
List(t) ==
  /\ task[t].at = "idle" /\ (Scheduled(t) => Due(row))
  /\ task' = [task EXCEPT ![t] = [Idle EXCEPT !.at = "listed", !.config = row.config]]
  /\ UNCHANGED <<row, desk, since, edits, failures, crashes>>

\* Without the lease there is no run: it is refused, or left to the next tick.
Claim(t) ==
  /\ task[t].at = "listed"
  /\ IF CanClaim(row, t)
     THEN /\ row' = [row EXCEPT !.owner = t[1], !.left = Lease]
          /\ task' = [task EXCEPT ![t].at = "claimed", ![t].claimed = row.config, ![t].left = Lease]
     ELSE task' = [task EXCEPT ![t] = Idle] /\ UNCHANGED row
  /\ UNCHANGED <<desk, since, edits, failures, crashes>>

Start(t) ==
  /\ task[t].at = "claimed"
  /\ task' = [task EXCEPT ![t].at = "running", ![t].config = ConfigUsed(row, task[t])]
  /\ UNCHANGED <<row, desk, since, edits, failures, crashes>>

\* Whatever the outcome of the run.
Finish(t) ==
  /\ task[t].at = "running"
  /\ row' = Released(row, t[1])
  /\ task' = [task EXCEPT ![t] = Idle]
  /\ since' = 0
  /\ UNCHANGED <<desk, edits, failures, crashes>>

\* A read or a write of the run's record fails: run_connector raises, before its try or in its finally.
Fail(t) ==
  /\ task[t].at \in {"claimed", "running"} /\ failures < MaxFailures
  /\ task' = [task EXCEPT ![t] = Idle]
  /\ failures' = failures + 1
  /\ UNCHANGED <<row, desk, since, edits, crashes>>

Crash(p) ==
  /\ crashes < MaxCrashes /\ \E t \in Tasks : t[1] = p /\ task[t].at # "idle"
  /\ task' = [t \in Tasks |-> IF t[1] = p THEN Idle ELSE task[t]]
  /\ crashes' = crashes + 1
  /\ UNCHANGED <<row, desk, since, edits, failures>>

EditRead ==
  /\ desk = None /\ edits < MaxEdits
  /\ desk' = row /\ edits' = edits + 1
  /\ UNCHANGED <<row, task, since, failures, crashes>>

EditWrite ==
  /\ desk # None
  /\ \E field \in {"enabled", "config"} : row' = Edited(row, desk, field)
  /\ desk' = None
  /\ UNCHANGED <<task, since, edits, failures, crashes>>

Less(n) == IF n = 0 THEN 0 ELSE n - 1
Underway(t) == task[t].at \in {"claimed", "running"}

Tick ==
  /\ Slow \/ \A t \in Tasks : Underway(t) => task[t].left > 1
  /\ row.left > 0 \/ row.rest > 0 \/ since < Interval \/ \E t \in Tasks : task[t].left > 0
  /\ row' = [row EXCEPT !.left = Less(@), !.rest = Less(@)]
  /\ task' = [t \in Tasks |-> [task[t] EXCEPT !.left = Less(@)]]
  /\ since' = IF since < Interval THEN since + 1 ELSE since
  /\ UNCHANGED <<desk, edits, failures, crashes>>

Next ==
  \/ \E t \in Tasks : List(t) \/ Claim(t) \/ Start(t) \/ Finish(t) \/ Fail(t)
  \/ \E p \in Replicas : Crash(p)
  \/ EditRead \/ EditWrite \/ Tick

\* Time passes and the schedulers' loops go on; nobody has to ask or edit.
Fairness ==
  /\ WF_vars(Tick) /\ WF_vars(EditWrite)
  /\ \A t \in Tasks : WF_vars(Claim(t)) /\ WF_vars(Start(t)) /\ WF_vars(Finish(t))
  /\ \A p \in Replicas : WF_vars(List(<<p, "schedule">>))

Spec == Init /\ [][Next]_vars /\ Fairness

-----------------------------------------------------------------------------
(* Properties *)

\* docs/discovery.md:284: one run of a connector at a time across replicas,
\* through stale lists, requests to run it now, edits and crashes.
OneAtATime == \A s, t \in Tasks : Underway(s) /\ Underway(t) => s = t

\* docs/discovery.md:285: replicas never run a connector back to back, nor one
\* that was disabled since they listed it.
ScheduledIsDue ==
  [][\A t \in Tasks : Scheduled(t) /\ ~Underway(t) /\ Underway(t)' =>
       row.enabled /\ since = Interval]_vars

\* A run uses no configuration older than its claim, however old its list was.
ConfigIsCurrent == \A t \in Tasks : task[t].at = "running" => task[t].config >= task[t].claimed
=============================================================================
