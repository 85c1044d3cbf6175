---------------------------- MODULE MCInventory ----------------------------
(***************************************************************************)
(* What the inventory is made from: relations, connectors that read their  *)
(* sources, and what programs, machines and service accounts become.  They *)
(* share no state.  The initial state chooses one, `part', which then runs *)
(* by itself with the first of v1..v11 as its variables.                   *)
(***************************************************************************)
EXTENDS Integers, Sequences, TLC

CONSTANTS
  Connectors, Names, Twins,
  SourceKinds, Things, PageSize, MaxPages, MaxObservations, SourceRuns, SourceChanges, SourceFaults,  \* ConnectorRuns
  Templates, StaleAfter, Lookback, ProgramTime, ProgramChanges,                                   \* AgentEvidence
  CachedFor, Budget, Window, MaxLines, MachineTime              \* DnsEvidence, with the same StaleAfter

Symmetry == Permutations(Connectors) \cup Permutations(Names) \cup Permutations(Twins)

VARIABLES part, v1, v2, v3, v4, v5, v6, v7, v8, v9, v10, v11

all == <<part, v1, v2, v3, v4, v5, v6, v7, v8, v9, v10, v11>>

-----------------------------------------------------------------------------
\* Three keys, of which "m" is what the others relate to; reports in which two entities turn out
\* to be one, before or after they were related.
Obs(from, to, attrs) == [from |-> from, to |-> to, attrs |-> attrs]
RelationReports ==
  { <<>>,
    <<Obs({"a"}, {"m"}, 0), Obs({"b"}, {"m"}, 0)>>,
    <<Obs({"b"}, {"a"}, 1)>>,
    <<Obs({"b"}, {"m"}, 1), Obs({"a", "b"}, {"m"}, 0)>> }

Relation == INSTANCE Relations WITH
  Keys <- {"a", "b", "m"}, Reports <- RelationReports, TTL <- 0, Depth <- 2, MaxNodes <- 2,
  MaxTime <- 2, MaxRows <- 4, MaxRuns <- 3,
  clock <- v1, entities <- v2, rows <- v3, runs <- v4, configured <- v5, applied <- v6, started <- v7

-----------------------------------------------------------------------------
Source == INSTANCE ConnectorRuns WITH
  Connectors <- SourceKinds, MaxRuns <- SourceRuns, MaxChanges <- SourceChanges, MaxFaults <- SourceFaults,
  kind <- v1, source <- v2, run <- v3, known <- v4, missing <- v5, failed <- v6, runs <- v7,
  changes <- v8, faults <- v9

-----------------------------------------------------------------------------
Program == INSTANCE AgentEvidence WITH
  MaxTime <- ProgramTime, MaxChanges <- ProgramChanges,
  labelled <- v1, pods <- v2, log <- v3, registered <- v4, entities <- v5, now <- v6,
  changes <- v7, reconciled <- v8, used <- v9, heard <- v10, listed <- v11

Machine == INSTANCE DnsEvidence WITH
  MaxTime <- MachineTime,
  lines <- v1, asked <- v2, endpoints <- v3, now <- v4

\* Two accounts of two projects, the first with two keys, and a person.
Account == INSTANCE ServiceAccounts WITH
  Accounts <- <<"a", "b">>,
  KeysOf <- [o \in {"a", "b", "person"} |-> IF o = "a" THEN Twins ELSE {"one"}],
  ActiveFor <- 1, MaxTime <- 2, MaxRuns <- 2,
  name <- v1, registered <- v2, keys <- v3, entities <- v4, now <- v5, runs <- v6, current <- v7

ASSUME PartsAssumption ==
  Source!ConnectorRunsAssumption /\ Program!AgentEvidenceAssumption /\ Machine!DnsEvidenceAssumption

ASSUME InputsAssumption == Relation!RelationsAssumption /\ Account!ServiceAccountsAssumption

-----------------------------------------------------------------------------
Unused10 == v10 = 0 /\ v11 = 0
Unused8 == v8 = 0 /\ v9 = 0 /\ Unused10
Unused5 == v5 = 0 /\ v6 = 0 /\ v7 = 0 /\ Unused8

InventoryInit ==
  \/ part = "relations" /\ Relation!Init /\ Unused8
  \/ part = "source" /\ Source!Init /\ Unused10
  \/ part = "program" /\ Program!Init
  \/ part = "machine" /\ Machine!Init /\ Unused5
  \/ part = "account" /\ Account!Init /\ Unused8

InventoryNext ==
  /\ UNCHANGED part
  /\ \/ part = "relations" /\ Relation!Next /\ UNCHANGED <<v8, v9, v10, v11>>
     \/ part = "source" /\ Source!Next /\ UNCHANGED <<v10, v11>>
     \/ part = "program" /\ Program!Next
     \/ part = "machine" /\ Machine!Next /\ UNCHANGED <<v5, v6, v7, v8, v9, v10, v11>>
     \/ part = "account" /\ Account!Next /\ UNCHANGED <<v8, v9, v10, v11>>

InventorySpec == InventoryInit /\ [][InventoryNext]_all

-----------------------------------------------------------------------------
\* Relations at a time (pipeline.py:389-508, services/discovery.py:320-349): a relation of a source
\* is current once, none lingers that its source stopped reporting, a graph is whole or says that
\* it is truncated, and what was valid before every run that is under way stays so.
RelationsAsOf ==
  /\ [](part = "relations" => Relation!TypeOK /\ Relation!OneCurrentRow /\ Relation!NothingLingers
                              /\ Relation!GraphIsWhole)
  /\ [][part = "relations" => Relation!PastIsSettled]_all

\* A service account is a possible agent as long as one of its keys is used, also when it is merged
\* with others of its name, and none without or for a person (openai_admin.py:5-6).
AccountsAsUsed == part = "account" => Account!TypeOK /\ Account!ActiveIsFound /\ Account!DormantIsNoAgent

\* What the inventory says of several entities that turn out to be one, in relations and in what an
\* account is used for, is what their sources reported of each (pipeline.py:161-176, :389-508).
ReportedAsOf == RelationsAsOf /\ []AccountsAsUsed

\* A run of a connector (connectors/*.py): it removes only what its source really did not have,
\* hears the parts that answer though others fail, and without a failure it is clean.
OnlyGoneIsDropped ==
  /\ [](part = "source" => Source!TypeOK /\ Source!OthersAreHeard /\ Source!QuietIsClean)
  /\ [][part = "source" => Source!DroppedWasGone]_all

\* Programs and machines that go round the gateway have a finding while there is evidence of it,
\* whatever other sources say of them, and those that use it do not (classify.py:53-60,
\* pipeline.py:561-565, dns_log.py:101-119).
BypassIsFound ==
  /\ [](part = "program" => Program!TypeOK /\ Program!BypassIsFlagged)
  /\ [](part = "machine" => Machine!TypeOK /\ Machine!SidecarIsNoBypass)
  /\ [][part = "machine" => Machine!BypassIsFound]_all

\* What is not seen any more ages out, and only that: an agent is managed on evidence and stale
\* without, and a machine that went quiet is no possible agent (classify.py:45-60, dns_log.py:101).
QuietAgesOut ==
  /\ [](part = "program" => Program!ManagedIsEarned /\ Program!QuietGoesStale)
  /\ [][part = "machine" => Machine!QuietIsNoAgent]_all
=============================================================================
