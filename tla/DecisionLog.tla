----------------------------- MODULE DecisionLog -----------------------------
(***************************************************************************)
(* What the audit log of a gateway promises (audit/writer.py:1-7,          *)
(* audit/spool.py:1-12): an accepted decision event is in memory, on disk  *)
(* or in the table until it is recorded or counted as dropped.  Only the   *)
(* end of the process may lose it, and then only what was in memory.       *)
(* A place is a set of events; an event may be in several.                 *)
(***************************************************************************)
CONSTANT Events

VARIABLES
  accepted,  \* submitted by a request
  memory,    \* held by the process
  flushing,  \* of those, the overflow on its way to the disk
  disk,      \* in spool files
  aside,     \* in files that could not be read, kept for inspection
  recorded,  \* in the audit table
  counted,   \* counted in audit_events_dropped_total
  phase      \* of the process

places == <<accepted, memory, flushing, disk, aside, recorded, counted>>

Init ==
  /\ accepted = {} /\ memory = {} /\ flushing = {}
  /\ disk = {} /\ aside = {} /\ recorded = {} /\ counted = {}
  /\ phase = "running"

\* A request never waits: its event is taken into memory or counted at once.
Accept ==
  /\ accepted \subseteq accepted' /\ accepted' \subseteq Events
  /\ accepted' \ accepted \subseteq memory' \cup counted'

\* The table is append-only, a count is never taken back.
Final ==
  /\ recorded \subseteq recorded'
  /\ counted \subseteq counted'
  /\ aside \subseteq aside'

Safe == disk \cup aside \cup recorded \cup counted

LeaveDisk == disk \ disk' \subseteq recorded' \cup aside'

\* What may be lost in a step: everything in a crash, what is being flushed in an orderly
\* stop, nothing while the process runs.
MayBeLost ==
  {e \in memory : \/ phase' = "crashed"
                  \/ phase' \in {"draining", "stopped"} /\ e \in flushing}

LeaveMemory == memory \ memory' \subseteq Safe' \cup MayBeLost

Phase ==
  \/ phase' = phase
  \/ phase = "running" /\ phase' = "draining"
  \/ phase = "draining" /\ phase' = "stopped"
  \/ phase \in {"running", "draining"} /\ phase' = "crashed"
  \/ phase \in {"stopped", "crashed"} /\ phase' = "running"

Next == Accept /\ Final /\ LeaveDisk /\ LeaveMemory /\ Phase

Spec == Init /\ [][Next]_<<places, phase>>

\* Nothing stays in memory or in a spool file for ever.
Settles(e) == e \in memory \cup disk ~> e \notin memory \cup disk
Live == \A e \in Events : Settles(e)
=============================================================================
