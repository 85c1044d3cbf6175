----------------------------- MODULE MCGuardFlow -----------------------------
(* A small instance of GuardFlow for TLC: actions of the dev seed's risks. *)
EXTENDS GuardFlow, TLC

Action(stage, inherent, target, bigRead, externalWrite, sensitive, accepts) ==
  [stage |-> stage, inherent |-> inherent, target |-> target, bigRead |-> bigRead,
   externalWrite |-> externalWrite, sensitive |-> sensitive, accepts |-> accepts]

Retrieve == Action("retrieval", 20, "", FALSE, FALSE, FALSE, FALSE)
Read == Action("tool", 40, "table", TRUE, FALSE, TRUE, TRUE)
Send == Action("tool", 40, "host", FALSE, TRUE, FALSE, FALSE)
DeafRead == Action("tool", 40, "table", TRUE, FALSE, TRUE, FALSE)  \* keeps no row limit

Tried == {Retrieve, Read, DeafRead, Send}
Symmetric == Permutations(Requests)
=============================================================================
