-------------------------- MODULE RedactionProjects --------------------------
(***************************************************************************)
(* One project's configuration on its way from project-service, which      *)
(* keeps it in a database and announces changes on Redis, to the redaction *)
(* service, which caches it (ai-gateway/project-service/services,          *)
(* instant-redaction-service/clients/project_client.py, utils/             *)
(* project_events.py).                                                     *)
(*                                                                         *)
(* A tick is the unit in which the cache's TTL and the HTTP timeout are    *)
(* counted.  What is counted is what is left, so time has no end.          *)
(***************************************************************************)
EXTENDS Naturals

CONSTANTS
  Editors,      \* updates and deletions on their way through project-service
  Requests,     \* redaction requests that look the project up
  Ttl,          \* ticks a fetched project is cached
  FetchTime,    \* ticks a fetch may take, the HTTP timeout
  MaxVersions   \* bound: committed changes

BoundsAssumption == {Ttl, FetchTime, MaxVersions} \subseteq Nat \ {0}

VARIABLES
  row,        \* the project's row: [entities, custom, version, deleted]
  editors,    \* editor -> [pc, change]
  listening,  \* is the listener subscribed
  channel,    \* announcements sent to it and not yet handled
  missed,     \* has an announcement been lost
  cache,      \* [version, left], version 0 when there is no entry
  fetches,    \* request -> [pc, version, left]
  since       \* version -> ticks since it was replaced, counted up to Ttl + FetchTime + 1

vars == <<row, editors, listening, channel, missed, cache, fetches, since>>

Versions == 1..(MaxVersions + 1)
NoEntry == [version |-> 0, left |-> 0]
NoFetch == [pc |-> "idle", version |-> 0, left |-> 0]
NotEditing == [pc |-> "idle", change |-> "none"]
\* An update sets the list of entities or the list of custom patterns, empty or not.
Changes == {"entities on", "entities off", "custom on", "custom off", "delete"}

-----------------------------------------------------------------------------
(* project-service                                                         *)

\* What an update would leave, merged with the row it has read.
Merged(read, change) ==
  [entities |-> CASE change = "entities on" -> TRUE [] change = "entities off" -> FALSE
                  [] OTHER -> read.entities,
   custom |-> CASE change = "custom on" -> TRUE [] change = "custom off" -> FALSE
                [] OTHER -> read.custom]

ReadProject(e) ==
  /\ editors[e].pc = "idle" /\ ~row.deleted
  /\ \E change \in Changes :
       LET left == Merged(row, change)
       IN  /\ change = "delete" \/ left.entities \/ left.custom
           /\ editors' = [editors EXCEPT ![e] = [pc |-> "write", change |-> change]]
  /\ UNCHANGED <<row, listening, channel, missed, cache, fetches, since>>

\* Only the columns that the request named are written.
Commit(e) ==
  /\ editors[e].pc = "write" /\ row.version <= MaxVersions
  /\ IF row.deleted
     THEN editors' = [editors EXCEPT ![e] = NotEditing] /\ UNCHANGED row
     ELSE /\ LET change == editors[e].change
                 left == Merged(row, change)
             IN  row' = [entities |-> left.entities, custom |-> left.custom,
                         version |-> row.version + 1, deleted |-> change = "delete"]
          /\ editors' = [editors EXCEPT ![e] = [pc |-> "publish", change |-> "none"]]
  /\ UNCHANGED <<listening, channel, missed, cache, fetches, since>>

\* Publishing never fails the request: without Redis, or without a subscriber, it is lost.
Publish(e) ==
  /\ editors[e].pc = "publish"
  /\ \/ listening /\ channel' = channel + 1 /\ UNCHANGED missed
     \/ missed' = TRUE /\ UNCHANGED channel
  /\ editors' = [editors EXCEPT ![e] = NotEditing]
  /\ UNCHANGED <<row, listening, cache, fetches, since>>

-----------------------------------------------------------------------------
(* The redaction service's cache.                                          *)

Hit == cache.version # 0 /\ cache.left > 0
AfterHit(c) == c
AnyTime == Ttl + FetchTime              \* mutant of Lifetime: the timeout is added
Lifetime == Ttl

Lookup(r) ==
  /\ fetches[r].pc = "idle"
  /\ IF Hit THEN cache' = AfterHit(cache) /\ UNCHANGED fetches
     ELSE /\ fetches' = [fetches EXCEPT ![r] = [pc |-> "sent", version |-> 0, left |-> FetchTime]]
          /\ UNCHANGED cache
  /\ UNCHANGED <<row, editors, listening, channel, missed, since>>

\* project-service reads the row; a deleted project is answered with 404.
Served(r) ==
  /\ fetches[r].pc = "sent"
  /\ fetches' = [fetches EXCEPT ![r] = IF row.deleted THEN NoFetch
                                       ELSE [@ EXCEPT !.pc = "back", !.version = row.version]]
  /\ UNCHANGED <<row, editors, listening, channel, missed, cache, since>>

Store(r) ==
  /\ fetches[r].pc = "back"
  /\ cache' = [version |-> fetches[r].version, left |-> Lifetime]
  /\ fetches' = [fetches EXCEPT ![r] = NoFetch]
  /\ UNCHANGED <<row, editors, listening, channel, missed, since>>

\* Unreachable, an error status, or the HTTP timeout: nothing is cached.
FetchFails(r) ==
  /\ fetches[r].pc # "idle"
  /\ fetches' = [fetches EXCEPT ![r] = NoFetch]
  /\ UNCHANGED <<row, editors, listening, channel, missed, cache, since>>

-----------------------------------------------------------------------------
(* The listener.                                                           *)

Handle ==
  /\ listening /\ channel > 0
  /\ channel' = channel - 1 /\ cache' = NoEntry
  /\ UNCHANGED <<row, editors, listening, missed, fetches, since>>

\* Any Redis error: everything cached goes, announcements until it is back are lost.
ListenerFails ==
  /\ listening
  /\ listening' = FALSE /\ cache' = NoEntry
  /\ missed' = (missed \/ channel > 0) /\ channel' = 0
  /\ UNCHANGED <<row, editors, fetches, since>>

Resubscribe ==
  /\ ~listening /\ listening' = TRUE
  /\ UNCHANGED <<row, editors, channel, missed, cache, fetches, since>>

Less(n) == IF n = 0 THEN 0 ELSE n - 1

Tick ==
  /\ \A r \in Requests : fetches[r].pc # "idle" => fetches[r].left > 0
  /\ cache' = [cache EXCEPT !.left = Less(@)]
  /\ fetches' = [r \in Requests |-> [fetches[r] EXCEPT !.left = Less(@)]]
  /\ since' = [v \in Versions |-> IF v < row.version /\ since[v] <= Ttl + FetchTime
                                  THEN since[v] + 1 ELSE since[v]]
  /\ UNCHANGED <<row, editors, listening, channel, missed>>

-----------------------------------------------------------------------------

Init ==
  /\ row = [entities |-> TRUE, custom |-> TRUE, version |-> 1, deleted |-> FALSE]
  /\ editors = [e \in Editors |-> NotEditing]
  /\ listening \in BOOLEAN /\ channel = 0 /\ missed = FALSE
  /\ cache = NoEntry
  /\ fetches = [r \in Requests |-> NoFetch]
  /\ since = [v \in Versions |-> 0]

Next ==
  \/ \E e \in Editors : ReadProject(e) \/ Commit(e) \/ Publish(e)
  \/ \E r \in Requests : Lookup(r) \/ Served(r) \/ Store(r) \/ FetchFails(r)
  \/ Handle \/ ListenerFails \/ Resubscribe \/ Tick

\* The clock goes on, and a response that has arrived is handled.
Spec == Init /\ [][Next]_vars

-----------------------------------------------------------------------------

TypeOK ==
  /\ row \in [entities : BOOLEAN, custom : BOOLEAN, version : Versions, deleted : BOOLEAN]
  /\ editors \in [Editors -> [pc : {"idle", "write", "publish"}, change : Changes \cup {"none"}]]
  /\ listening \in BOOLEAN /\ channel \in Nat /\ missed \in BOOLEAN
  /\ cache \in [version : Versions \cup {0}, left : 0..Ttl]
  /\ fetches \in [Requests -> [pc : {"idle", "sent", "back"}, version : Versions \cup {0}, left : 0..FetchTime]]
  /\ since \in [Versions -> 0..Ttl + FetchTime + 1]

(* A request is never redacted under a project that was replaced longer    *)
(* ago than the TTL and one HTTP timeout, whatever announcements are lost, *)
(* and however late an old answer comes back (project_client.py:31-39).    *)
UsedIsRecent ==
  /\ Hit => since[cache.version] < Ttl + FetchTime
  /\ \A r \in Requests : fetches[r].pc = "back" => since[fetches[r].version] <= FetchTime

\* The same with the types (project_client.py:31-39).
ProjectIsRecent == TypeOK /\ UsedIsRecent
=============================================================================
