--------------------------- MODULE AdvisorTraining ---------------------------
(***************************************************************************)
(* From what people decided to new weights for the local advisor: the      *)
(* control plane joins audited requests with reviews while reviewers go on *)
(* deciding (services/advisor_training.py); the calibrator splits the      *)
(* rows, fits, and measures on what it held out (advise/calibrate.py).     *)
(*                                                                         *)
(* The fitted weights are abstracted to the score they give each row.      *)
(***************************************************************************)
EXTENDS Naturals, Sequences, FiniteSets, FiniteSetsExt, SequencesExt

CONSTANTS
  Audits,     \* audit logs the export may find: sequences of Event
  Ids,        \* request ids; a request that is retried has several events
  Hashes,     \* hashes an id may have
  Share,      \* ids with a smaller hash are held out
  Scores,     \* scores the weights may give a row
  MinRows, MinOfEach,     \* what training needs
  MinAuc      \* [num, den]: --min-auc

Event == [id : Ids, codes : SUBSET {"USER_REJECTED", "EVIDENCE_USER_CONFIRMATION"},
          released : BOOLEAN, features : BOOLEAN]
Statuses == {"none", "pending", "approved", "rejected", "expired"}

InputsAssumption ==
  /\ \A audit \in Audits : audit \in Seq(Event)
  /\ Scores \subseteq Nat /\ {MinRows, MinOfEach} \subseteq Nat
  /\ MinAuc \in [num : Nat, den : Nat \ {0}]

VARIABLES
  audit,     \* the gateway's audit log
  reviews,   \* id -> status of its review
  pc,        \* "fetched", "half", "joined", "split", "done"
  decided,   \* the reviews the export has read
  weakToo,   \* --include-released and --include-weak
  rows,      \* the training set: [id, label, weak]
  hash,      \* id -> its hash
  scores,    \* row -> score under the new weights
  code       \* the calibrator's exit code, 9 before it exits

vars == <<audit, reviews, pc, decided, weakToo, rows, hash, scores, code>>

-----------------------------------------------------------------------------
(* The control plane's export.                                             *)

\* Reviewers, and the sweep of reviews that nobody decided.
Decide(id) ==
  /\ reviews[id] = "pending"
  /\ \E status \in {"approved", "rejected", "expired"} : reviews' = [reviews EXCEPT ![id] = status]
  /\ UNCHANGED <<audit, pc, decided, weakToo, rows, hash, scores, code>>

\* The approved reviews are listed first, then the rejected ones.
ListReviews ==
  /\ pc \in {"fetched", "half"}
  /\ LET status == IF pc = "fetched" THEN "approved" ELSE "rejected"
     IN decided' = [id \in Ids |-> IF reviews[id] = status THEN status ELSE decided[id]]
  /\ pc' = IF pc = "fetched" THEN "half" ELSE "joined"
  /\ UNCHANGED <<audit, reviews, weakToo, rows, hash, scores, code>>

\* Mutant of LabelOf: what was approved or confirmed is looked at first.
ApprovalFirst(e) ==
  CASE decided[e.id] = "approved" \/ "EVIDENCE_USER_CONFIRMATION" \in e.codes -> "0"
    [] decided[e.id] = "rejected" \/ "USER_REJECTED" \in e.codes -> "1"
    [] weakToo /\ e.released -> "weak"
    [] OTHER -> "none"
LabelOf(e) ==
  CASE decided[e.id] = "rejected" \/ "USER_REJECTED" \in e.codes -> "1"
    [] OTHER -> CASE decided[e.id] = "approved" \/ "EVIDENCE_USER_CONFIRMATION" \in e.codes -> "0"
                  [] OTHER -> IF weakToo /\ e.released THEN "weak" ELSE "none"

RowsOf(events) ==
  LET kept == SelectSeq(events, LAMBDA e : e.features /\ LabelOf(e) # "none")
  IN  [i \in DOMAIN kept |-> [id |-> kept[i].id, label |-> IF LabelOf(kept[i]) = "1" THEN 1 ELSE 0,
                              weak |-> LabelOf(kept[i]) = "weak"]]

Join ==
  /\ pc = "joined"
  /\ rows' = RowsOf(audit) /\ pc' = "split"
  /\ UNCHANGED <<audit, reviews, decided, weakToo, hash, scores, code>>

-----------------------------------------------------------------------------
(* The calibrator.                                                         *)

InHoldout(i) == hash[rows[i].id] < Share
HeldOut == {i \in DOMAIN rows : InHoldout(i)}
Train == DOMAIN rows \ HeldOut
Of(label, is) == {i \in is : rows[i].label = label}

EnoughData == /\ Cardinality(Train) >= MinRows
              /\ \A label \in {0, 1} : Cardinality(Of(label, Train)) >= MinOfEach

\* Twice the rank of a row among the held-out: of equal scores, the average rank.
Rank2(i) ==
  Cardinality({k \in HeldOut : scores'[k] < scores'[i]})
    + Cardinality({k \in HeldOut : scores'[k] <= scores'[i]}) + 1

\* The area under the curve is Auc2 / Pairs2.
Auc2 == LET pos == Cardinality(Of(1, HeldOut))
        IN  MapThenSumSet(Rank2, Of(1, HeldOut)) - pos * (pos + 1)
Pairs2 == 2 * Cardinality(Of(1, HeldOut)) * Cardinality(Of(0, HeldOut))

\* 2: refused; 1: a held-out area that is missing or too small; 0: weights to try.
Calibrate ==
  /\ pc = "split" /\ pc' = "done"
  /\ scores' \in [DOMAIN rows -> Scores]
  /\ code' = IF ~EnoughData THEN 2
             ELSE IF Pairs2 = 0 \/ Auc2 * MinAuc.den < MinAuc.num * Pairs2 THEN 1 ELSE 0
  /\ UNCHANGED <<audit, reviews, decided, weakToo, rows, hash>>

Init ==
  /\ audit \in Audits
  /\ reviews \in [Ids -> {"none", "pending"}]
  /\ pc = "fetched" /\ decided = [id \in Ids |-> "none"] /\ weakToo \in BOOLEAN
  /\ rows = <<>> /\ hash \in [Ids -> Hashes] /\ scores = <<>> /\ code = 9

Next == ListReviews \/ Join \/ Calibrate \/ \E id \in Ids : Decide(id)
Spec == Init /\ [][Next]_vars

-----------------------------------------------------------------------------

\* What people have said about a request by now.
SaidNo(id) == reviews[id] = "rejected" \/ \E i \in DOMAIN audit : audit[i].id = id /\ "USER_REJECTED" \in audit[i].codes
SaidYes(id) == reviews[id] = "approved"
               \/ \E i \in DOMAIN audit : audit[i].id = id /\ "EVIDENCE_USER_CONFIRMATION" \in audit[i].codes

(* A label that is not weak is what a person decided: a 1 where one said   *)
(* no, a 0 where one said yes and no reviewer whose decision was read said *)
(* no; decisions made during the export are missed, never guessed          *)
(* (advisor_training.py:59-82).                                            *)
LabelsAreDecisions ==
  \A i \in DOMAIN rows : ~rows[i].weak =>
    IF rows[i].label = 1 THEN SaidNo(rows[i].id)
    ELSE SaidYes(rows[i].id) /\ decided[rows[i].id] # "rejected"

(* New weights pass only if, of all pairs of a held-out stopped and a      *)
(* held-out released request, they rank the share that was asked for       *)
(* right, a tie counting half (calibrate.py:170-185, 305-309).             *)
PassedIsRanked ==
  code = 0 =>
    LET won == {p \in Of(1, HeldOut) \X Of(0, HeldOut) : scores[p[1]] > scores[p[2]]}
        tied == {p \in Of(1, HeldOut) \X Of(0, HeldOut) : scores[p[1]] = scores[p[2]]}
    IN  /\ Pairs2 > 0
        /\ (2 * Cardinality(won) + Cardinality(tied)) * MinAuc.den >= MinAuc.num * Pairs2

(* No request is both trained on and measured on, in several events as it  *)
(* may be (calibrate.py:86-89, 234-235).                                   *)
MeasuredApart ==
  pc \in {"split", "done"} => \A i \in Train, k \in HeldOut : rows[i].id # rows[k].id
=============================================================================
