------------------------------ MODULE EventTail ------------------------------
(***************************************************************************)
(* The end of the Memory Firewall's event log, read in blocks while events *)
(* are being appended (MemoryFirewall.recent_events, firewall.py).         *)
(*                                                                         *)
(* The file is a sequence of bytes.  A byte is <<e, i>>, the i-th of event *)
(* e's line, or Newline; a line parses when it is all of one event's bytes. *)
(***************************************************************************)
EXTENDS Sequences, Naturals, SequencesExt

CONSTANTS
  Lengths,    \* event -> bytes of its line, in the order the events happen
  Limits,     \* the limits a caller may ask for
  Block       \* bytes read at a time

SizesAssumption ==
  Block \in Nat \ {0} /\ Limits \subseteq Nat \ {0} /\ \A e \in DOMAIN Lengths : Lengths[e] \in Nat \ {0}

VARIABLES
  file,
  next,     \* the next event to be written
  rest,     \* bytes of its line still to be written
  reader,   \* [pc, limit, pos, data]
  seen,     \* the file when the reader asked for its size
  out       \* the answer, newest first

vars == <<file, next, rest, reader, seen, out>>

Newline == <<0, 0>>
Line(e) == [i \in 1..Lengths[e] |-> <<e, i>>]
Idle == [pc |-> "idle", limit |-> 0, pos |-> 0, data |-> <<>>]

-----------------------------------------------------------------------------
(* The writer.  A write may be seen in parts; a crash leaves a torn line.  *)

Write ==
  /\ next <= Len(Lengths)
  /\ LET bytes == IF rest = <<>> THEN Append(Line(next), Newline) ELSE rest
     IN \E n \in 1..Len(bytes) :
          /\ file' = file \o SubSeq(bytes, 1, n)
          /\ rest' = SubSeq(bytes, n + 1, Len(bytes))
          /\ next' = IF n = Len(bytes) THEN next + 1 ELSE next
  /\ UNCHANGED <<reader, seen, out>>

Crash ==
  /\ rest # <<>>
  /\ rest' = <<>> /\ next' = next + 1
  /\ UNCHANGED <<file, reader, seen, out>>

-----------------------------------------------------------------------------
(* The reader.                                                             *)

Newlines(data) == Len(SelectSeq(data, LAMBDA b : b = Newline))

TooFew(data, limit) == Newlines(data) <= limit

Stat ==
  /\ reader.pc = "idle"
  /\ \E limit \in Limits :
       reader' = [pc |-> "reading", limit |-> limit, pos |-> Len(file), data |-> <<>>]
  /\ seen' = file
  /\ UNCHANGED <<file, next, rest, out>>

ReadBlock ==
  /\ reader.pc = "reading" /\ reader.pos > 0 /\ TooFew(reader.data, reader.limit)
  /\ LET step == IF reader.pos < Block THEN reader.pos ELSE Block
     IN reader' = [reader EXCEPT !.pos = @ - step,
                                 !.data = SubSeq(file, reader.pos - step + 1, reader.pos) \o @]
  /\ UNCHANGED <<file, next, rest, seen, out>>

\* The lines of some bytes, those that do not parse left out.
Parsed(data) ==
  LET ends == <<0>> \o SelectSeq([i \in DOMAIN data |-> i], LAMBDA i : data[i] = Newline)
                    \o <<Len(data) + 1>>
      lines == [n \in 1..(Len(ends) - 1) |-> SubSeq(data, ends[n] + 1, ends[n + 1] - 1)]
      Whole(line) == \E e \in DOMAIN Lengths : line = Line(e)
  IN  [n \in DOMAIN SelectSeq(lines, Whole) |-> SelectSeq(lines, Whole)[n][1][1]]

Newest(events, n) == SubSeq(Reverse(events), 1, IF n < Len(events) THEN n ELSE Len(events))

Answer ==
  /\ reader.pc = "reading" /\ (reader.pos = 0 \/ ~TooFew(reader.data, reader.limit))
  /\ out' = Newest(Parsed(reader.data), reader.limit)
  /\ reader' = [reader EXCEPT !.pc = "done"]
  /\ UNCHANGED <<file, next, rest, seen>>

Init ==
  /\ file = <<>> /\ next = 1 /\ rest = <<>>
  /\ reader = Idle /\ seen = <<>> /\ out = <<>>

Next == Write \/ Crash \/ Stat \/ ReadBlock \/ Answer
Spec == Init /\ [][Next]_vars

-----------------------------------------------------------------------------

\* Lines in the file that are no event: torn ones, which the next write runs on from.
Spoilt(data) == Newlines(data) + (IF data = <<>> \/ Last(data) = Newline THEN 0 ELSE 1) - Len(Parsed(data))

(* The answer is in order, newest first, leaves out no event between two   *)
(* it has whose line was whole when the log's size was read, and is        *)
(* shorter than the limit only by lines that a crash or a write under way  *)
(* has spoilt (firewall.py:180-204).                                       *)
NewestFirst ==
  reader.pc = "done" =>
    LET whole == Parsed(seen)
    IN  /\ \A i, j \in DOMAIN out : i < j => out[i] > out[j]
        /\ \A e \in ToSet(whole) : (\E i \in DOMAIN out : out[i] < e) => e \in ToSet(out)
        /\ Len(out) + Spoilt(seen) >= Len(Newest(whole, reader.limit))
=============================================================================
