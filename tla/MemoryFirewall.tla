--------------------------- MODULE MemoryFirewall ---------------------------
(***************************************************************************)
(* The Memory Firewall service (services/memory-firewall), the guardrail   *)
(* that asks it about retrieved chunks (plugins/memory_firewall), and the  *)
(* console's inspections, which the control plane relays to it.            *)
(*                                                                         *)
(* The library's VectorGuard is shared by the service's worker threads; it *)
(* is external, as is its event log, whose write can fail.                 *)
(***************************************************************************)
EXTENDS Sequences, Naturals, FiniteSets, SequencesExt

CONSTANTS
  Guarded,        \* gateway requests with retrieved chunks
  Consoles,       \* inspections from the console
  Payloads,       \* sequences of Chunk
  Configs,        \* guardrail configurations
  MaxItems,       \* items of one request to the service
  MaxProvenance,  \* provenance records kept
  MaxFailures     \* bound: writes of the event log that fail

Requests == Guarded \cup Consoles
Chunk == [id : STRING, text : {"blank", "plain", "poison"}, source : {"trusted", "untrusted"},
          authorized : BOOLEAN]
Config == [onQuarantine : {"drop_chunk", "escalate", "block"},
           onInjection : {"drop_chunk", "escalate", "block", "allow"}, scan : BOOLEAN]

InputsAssumption ==
  /\ Guarded \cap Consoles = {} /\ Configs \subseteq Config
  /\ \A p \in Payloads : p \in Seq(Chunk)
  /\ {MaxItems, MaxProvenance, MaxFailures} \subseteq Nat

VARIABLES
  requests,     \* request -> [pc, chunks, items, config, verdicts, out]
  lock,         \* the request whose thread holds the service's lock, or "free"
  quarantined,  \* the library's list of <<id, reason>>
  provenance,   \* the library's records in dictionary order: [id, source, at]
  admissions,   \* records signed so far, their `at'
  changeLog,    \* console inspections in the control plane's change log
  failures      \* failed writes so far

vars == <<requests, lock, quarantined, provenance, admissions, changeLog, failures>>

Idle == [pc |-> "idle", chunks |-> <<>>, items |-> <<>>, config |-> [onQuarantine |-> "block",
         onInjection |-> "block", scan |-> TRUE], verdicts |-> <<>>, out |-> <<>>]

-----------------------------------------------------------------------------
(* The callers.                                                            *)

\* Positions of the chunks with text, in order.
Positions(chunks) == SelectSeq([i \in DOMAIN chunks |-> i], LAMBDA i : chunks[i].text # "blank")
ItemsOf(r, chunks) ==
  IF r \in Consoles THEN chunks
  ELSE [n \in DOMAIN Positions(chunks) |-> chunks[Positions(chunks)[n]]]

\* No text to check is allowed without a call; too many items are refused (413).
Ask(r) ==
  /\ requests[r].pc = "idle"
  /\ \E chunks \in Payloads, config \in (IF r \in Guarded THEN Configs ELSE {Idle.config}) :
       LET items == ItemsOf(r, chunks)
       IN requests' = [requests EXCEPT ![r] =
            [Idle EXCEPT !.chunks = chunks, !.items = items, !.config = config,
                         !.pc = IF items = <<>> THEN "released"
                                ELSE IF Len(items) > MaxItems THEN "error" ELSE "sent",
                         !.out = chunks]]
  /\ UNCHANGED <<lock, quarantined, provenance, admissions, changeLog, failures>>

\* Unreachable, or no answer in time.  The service's thread goes on with a request it has.
CallFails(r) ==
  /\ requests[r].pc \in {"sent", "answered"}
  /\ requests' = [requests EXCEPT ![r].pc = "error"]
  /\ UNCHANGED <<lock, quarantined, provenance, admissions, changeLog, failures>>

-----------------------------------------------------------------------------
(* MemoryFirewall.inspect(), under the service's lock.                     *)

NoLock == TRUE              \* mutant of MayEnter: threads share the library's lists
MayEnter == lock = "free"

Enter(r) ==
  /\ requests[r].pc = "sent" /\ MayEnter
  /\ lock' = r
  /\ requests' = [requests EXCEPT ![r].pc = "admit"]
  /\ UNCHANGED <<quarantined, provenance, admissions, changeLog, failures>>

Current(r) == requests[r].items[Len(requests[r].verdicts) + 1]
Refusal(item) == IF ~item.authorized THEN "unauthorized writer"
                 ELSE IF item.source # "trusted" THEN "untrusted source" ELSE "none"
Recorded(id) == \E i \in DOMAIN provenance : provenance[i].id = id
\* A record that is signed again keeps its place in the dictionary.
Signed(item) ==
  LET record == [id |-> item.id, source |-> item.source, at |-> admissions + 1]
  IN  IF Recorded(item.id)
      THEN [i \in DOMAIN provenance |-> IF provenance[i].id = item.id THEN record ELSE provenance[i]]
      ELSE Append(provenance, record)

Admit(r) ==
  /\ requests[r].pc = "admit"
  /\ LET item == Current(r)
     IN IF Refusal(item) = "none"
        THEN /\ provenance' = Signed(item) /\ admissions' = admissions + 1
             /\ UNCHANGED quarantined
        ELSE /\ quarantined' = Append(quarantined, <<item.id, Refusal(item)>>)
             /\ UNCHANGED <<provenance, admissions>>
  /\ \/ requests' = [requests EXCEPT ![r].pc = "read"] /\ UNCHANGED <<lock, failures>>
     \/ \* the event cannot be written: the request fails, nothing is trimmed
        /\ failures < MaxFailures /\ failures' = failures + 1
        /\ requests' = [requests EXCEPT ![r].pc = "error"]
        /\ lock' = "free"
  /\ UNCHANGED changeLog

LatestReason == quarantined[Len(quarantined)][2]

\* The verdict on the current item; the last one is followed by the trimming.
Verdict(r) ==
  LET item == Current(r)
      admitted == Refusal(item) = "none"
  IN  [admitted |-> admitted, reason |-> IF admitted THEN "none" ELSE LatestReason,
       flagged |-> requests[r].config.scan /\ item.text = "poison"]

Read(r) ==
  /\ requests[r].pc = "read"
  /\ LET verdicts == Append(requests[r].verdicts, Verdict(r))
     IN requests' = [requests EXCEPT ![r].verdicts = verdicts,
                       ![r].pc = IF Len(verdicts) = Len(requests[r].items) THEN "trim" ELSE "admit"]
  /\ UNCHANGED <<lock, quarantined, provenance, admissions, changeLog, failures>>

Trimmed == IF Len(provenance) > MaxProvenance
           THEN SubSeq(provenance, Len(provenance) - MaxProvenance + 1, Len(provenance))
           ELSE provenance

\* _trim() and the response; a caller that has given up does not see it.
Trim(r) ==
  /\ requests[r].pc = "trim"
  /\ quarantined' = <<>> /\ provenance' = Trimmed /\ lock' = "free"
  /\ \E pc \in {"answered", "error"} : requests' = [requests EXCEPT ![r].pc = pc]
  /\ UNCHANGED <<admissions, changeLog, failures>>

-----------------------------------------------------------------------------
(* The guardrail's decision, and the console's change-log entry.           *)

Checked(chunks) == Positions(chunks)

Rank(d) == CASE d = "allow" -> 0 [] d = "drop_chunk" -> 1 [] d = "escalate" -> 2 [] OTHER -> 3
Stronger(a, b) == IF Rank(b) > Rank(a) THEN b ELSE a
Hit(config, v) == Stronger(IF v.admitted THEN "allow" ELSE config.onQuarantine,
                           IF v.flagged THEN config.onInjection ELSE "allow")

Judge(r) ==
  /\ r \in Guarded /\ requests[r].pc = "answered"
  /\ LET q == requests[r]
         hit == [n \in DOMAIN q.verdicts |-> Hit(q.config, q.verdicts[n])]
         drop == {Checked(q.chunks)[n] : n \in {m \in DOMAIN hit : hit[m] = "drop_chunk"}}
         decision == FoldLeft(Stronger, "allow", hit)
     IN requests' = [requests EXCEPT
          ![r].pc = IF decision \in {"allow", "drop_chunk"} THEN "released" ELSE decision,
          ![r].out = FlattenSeq([i \in DOMAIN q.chunks |->
                       IF i \in drop THEN <<>> ELSE <<q.chunks[i]>>])]
  /\ UNCHANGED <<lock, quarantined, provenance, admissions, changeLog, failures>>

\* The change log is written after the service has answered.
Log(r) ==
  /\ r \in Consoles /\ requests[r].pc = "answered"
  /\ requests' = [requests EXCEPT ![r].pc = "done"]
  /\ changeLog' = changeLog \cup {r}
  /\ UNCHANGED <<lock, quarantined, provenance, admissions, failures>>

Init ==
  /\ requests = [r \in Requests |-> Idle]
  /\ lock = "free" /\ quarantined = <<>> /\ provenance = <<>>
  /\ admissions = 0 /\ changeLog = {} /\ failures = 0

Next == \E r \in Requests :
  Ask(r) \/ CallFails(r) \/ Enter(r) \/ Admit(r) \/ Read(r) \/ Trim(r) \/ Judge(r) \/ Log(r)

Spec == Init /\ [][Next]_vars

-----------------------------------------------------------------------------

TypeOK ==
  /\ DOMAIN requests = Requests
  /\ \A r \in Requests :
       /\ requests[r].pc \in {"idle", "sent", "admit", "read", "trim", "answered", "released",
                              "escalate", "block", "error", "done"}
       /\ Len(requests[r].verdicts) <= Len(requests[r].items)
  /\ lock \in Requests \cup {"free"}
  /\ changeLog \subseteq Consoles

(* The reason in a verdict is that of the item it is about, while other    *)
(* threads inspect and after inspections that failed halfway: it is read   *)
(* from the end of a list they share (firewall.py:129-130, 149-151).       *)
ReasonIsItsOwn ==
  \A r \in Requests : \A n \in DOMAIN requests[r].verdicts :
    requests[r].verdicts[n].reason = Refusal(requests[r].items[n])

(* No chunk that was refused for its writer or its source, or whose text   *)
(* was flagged when the configuration acts on that, is handed on, and all  *)
(* the others are, wherever blank chunks stand between them and whether or *)
(* not ids repeat (guardrail.py:111, 133, 149-153, 184).                   *)
HandedOn ==
  \A r \in Guarded : requests[r].pc = "released" =>
    requests[r].out = SelectSeq(requests[r].chunks, LAMBDA c :
      c.text = "blank" \/ (Refusal(c) = "none"
        /\ (c.text = "poison" /\ requests[r].config.scan => requests[r].config.onInjection = "allow")))
=============================================================================
