--------------------------- MODULE MemorySelfTest ---------------------------
(***************************************************************************)
(* Checkpoint self-tests: the console asks the control plane, that asks    *)
(* the Memory Firewall service, which runs one subprocess at a time in a   *)
(* scratch directory it shares between runs (memory-firewall/app/          *)
(* firewall.py, selftest.py, control plane services/memory_firewall.py).   *)
(***************************************************************************)
EXTENDS Sequences, FiniteSets, SequencesExt

CONSTANT Consoles   \* self-tests that can be asked for at a time

VARIABLES
  console,    \* caller -> "idle", "asked" or "gone": it stopped waiting
  service,    \* caller -> what its request does at the service
  queue,      \* requests that wait for the service's self-test lock, in order
  processes,  \* callers whose subprocess exists
  last,       \* last_selftest: whose result it is, or "none"
  logged      \* caller -> what the change log last got for it, or "none"

vars == <<console, service, queue, processes, last, logged>>

Outcomes == {"passed", "failed"}

-----------------------------------------------------------------------------

Ask(t) ==
  /\ console[t] = "idle" /\ service[t] = "idle"
  /\ console' = [console EXCEPT ![t] = "asked"]
  /\ service' = [service EXCEPT ![t] = "waiting"]
  /\ queue' = Append(queue, t)
  /\ logged' = [logged EXCEPT ![t] = "none"]
  /\ UNCHANGED <<processes, last>>

\* The control plane's own timeout, 504: the service is not told.
GiveUp(t) ==
  /\ console[t] = "asked"
  /\ console' = [console EXCEPT ![t] = "gone"]
  /\ UNCHANGED <<service, queue, processes, last, logged>>

Unlocked == \A u \in Consoles : service[u] \notin {"running", "killing", "exited"}

Start(t) ==
  /\ queue # <<>> /\ Head(queue) = t /\ Unlocked
  /\ queue' = Tail(queue)
  /\ service' = [service EXCEPT ![t] = "running"]
  /\ processes' = processes \cup {t}
  /\ UNCHANGED <<console, last, logged>>

\* The subprocess ends on its own, before the limit or while it is being killed.
Exit(t) ==
  /\ service[t] = "running" /\ t \in processes
  /\ processes' = processes \ {t}
  /\ service' = [service EXCEPT ![t] = "exited"]
  /\ UNCHANGED <<console, queue, last, logged>>

KilledAt == "failed"     \* mutant of AfterTimeout: the killed process is not waited for
AfterTimeout == "killing"
Expires == TRUE

Timeout(t) ==
  /\ service[t] = "running" /\ Expires
  /\ service' = [service EXCEPT ![t] = AfterTimeout]
  /\ UNCHANGED <<console, queue, processes, last, logged>>

Reaped(t) ==
  /\ service[t] = "killing"
  /\ processes' = processes \ {t}
  /\ service' = [service EXCEPT ![t] = "failed"]
  /\ UNCHANGED <<console, queue, last, logged>>

\* A result is kept, unless the exit code or the output is wrong.
Result(t) ==
  /\ service[t] = "exited"
  /\ \/ service' = [service EXCEPT ![t] = "passed"] /\ last' = t
     \/ service' = [service EXCEPT ![t] = "failed"] /\ UNCHANGED last
  /\ UNCHANGED <<console, queue, processes, logged>>

\* A result goes to the change log if the control plane still waits for it.
Answer(t) ==
  /\ service[t] \in Outcomes
  /\ service' = [service EXCEPT ![t] = "idle"]
  /\ console' = [console EXCEPT ![t] = "idle"]
  /\ logged' = IF console[t] = "asked" /\ service[t] = "passed"
               THEN [logged EXCEPT ![t] = "passed"] ELSE logged
  /\ UNCHANGED <<queue, processes, last>>

Init ==
  /\ console = [t \in Consoles |-> "idle"] /\ service = [t \in Consoles |-> "idle"]
  /\ queue = <<>> /\ processes = {} /\ last = "none"
  /\ logged = [t \in Consoles |-> "none"]

Next == \E t \in Consoles : Ask(t) \/ GiveUp(t) \/ Start(t) \/ Exit(t) \/ Timeout(t)
                              \/ Reaped(t) \/ Result(t) \/ Answer(t)

\* The event loop goes on and time passes; a subprocess need not end by itself.
Spec == Init /\ [][Next]_vars

-----------------------------------------------------------------------------

(* Two runs are never in the scratch directory at a time, not even when    *)
(* one was killed and its caller has gone (firewall.py:211, 229-231).      *)
OneRunAtATime == Cardinality(processes) <= 1

(* A self-test that is asked for, those behind one that hangs included,    *)
(* and its end (firewall.py:228-231).                                      *)
Waits(t) == service[t] = "waiting"
IsIdle(t) == service[t] = "idle"
=============================================================================
