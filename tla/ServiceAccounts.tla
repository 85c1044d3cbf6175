-------------------------- MODULE ServiceAccounts --------------------------
(***************************************************************************)
(* The openai_admin connector: which machine identities of an organization *)
(* are probable agents, from the keys that the service accounts of its     *)
(* projects hold and when these were last used, run after run, with what   *)
(* the pipeline makes of accounts that share a name.                       *)
(*                                                                         *)
(* Every run is clean and lists all (ConnectorRuns has the others).  Left  *)
(* out are the entities of projects, keys and the provider, relations,     *)
(* and ageing, which a snapshot source that runs does not come to.         *)
(***************************************************************************)
EXTENDS Integers, SequencesExt

CONSTANTS
  Accounts,         \* service accounts, each of a project, listed in this order: a sequence
  Names,
  KeysOf,           \* the keys an account may have, a function on the accounts and the person
  ActiveFor,        \* active_days
  MaxTime, MaxRuns

Person == "person"
Owners == Range(Accounts) \cup {Person}

ServiceAccountsAssumption ==
  /\ Accounts \in Seq(STRING) /\ IsInjective(Accounts) /\ Person \notin Range(Accounts)
  /\ DOMAIN KeysOf = Owners
  /\ {ActiveFor, MaxTime, MaxRuns} \subseteq Nat

VARIABLES
  name,        \* of each account
  registered,  \* names of registered agents
  keys,        \* when each key was last used
  entities,    \* identities of the inventory, the oldest first
  now, runs,
  current      \* nothing happened since the last run

vars == <<name, registered, keys, entities, now, runs, current>>

NoKey == -200
Never == -100
Keys == UNION {{o} \X KeysOf[o] : o \in Owners}

-----------------------------------------------------------------------------
(* _project_observation() *)

Owned(o) == {k \in Keys : k[1] = o /\ keys[k] # NoKey}

LastUse(o) == CHOOSE t \in {keys[k] : k \in Owned(o)} : \A k \in Owned(o) : t >= keys[k]

Active(o) == LastUse(o) >= now - ActiveFor

\* A service account goes by its id and by its name, whether an agent has that name or not.
FactKeys(o) == IF o = Person THEN {<<"user", o>>} ELSE {<<"account", o>>, <<"name", name[o]>>}
FactSignals(o) ==
  IF o = Person THEN {"human_identity"} ELSE IF Active(o) THEN {"calls_model"} ELSE {}

-----------------------------------------------------------------------------
(* The pipeline *)

Carrying(es, ks) == {n \in DOMAIN es : es[n].keys \cap ks # {}}

\* The same entity reported twice in one run: add up.
SameRun(e, run) == e.run = run

\* _resolve(): the oldest that shares a key takes the others in.
Resolved(es, o) ==
  LET found == Carrying(es, FactKeys(o))
      keep == CHOOSE n \in found : \A m \in found : n <= m
      newest == CHOOSE n \in found : \A m \in found : es[n].run > es[m].run \/ (es[n].run = es[m].run /\ n <= m)
      entry == es[newest]
  IN IF found = {} THEN Append(es, [keys |-> FactKeys(o), signals |-> FactSignals(o), run |-> runs + 1])
     ELSE LET kept == [keys |-> FactKeys(o) \cup UNION {es[n].keys : n \in found},
                       signals |-> FactSignals(o) \cup (IF SameRun(entry, runs + 1) THEN entry.signals ELSE {}),
                       run |-> runs + 1]
          IN [n \in 1..(Len(es) - Cardinality(found) + 1) |->
                LET rest == SetToSortSeq(DOMAIN es \ (found \ {keep}), <)
                IN IF rest[n] = keep THEN kept ELSE es[rest[n]]]

\* What a clean run did not list loses this source.
Dropped(e) == IF e.run = runs + 1 THEN e ELSE [e EXCEPT !.signals = {}]

Listed == SelectSeq(Append(Accounts, Person), LAMBDA o : Owned(o) # {})

IsLinked(e) == \E n \in registered : <<"name", n>> \in e.keys
Observed(e) == e.run = runs
Finding(e) ==
  IF ~Observed(e) \/ "human_identity" \in e.signals THEN "none"
  ELSE IF IsLinked(e) THEN "unmanaged_agent"
  ELSE IF "calls_model" \in e.signals THEN "probable_shadow_agent" ELSE "none"

-----------------------------------------------------------------------------
Init ==
  /\ name \in [Range(Accounts) -> Names] /\ registered \in SUBSET Names
  /\ keys = [k \in Keys |-> NoKey]
  /\ entities = <<>> /\ now = 0 /\ runs = 0 /\ current = FALSE

Happens == current' = FALSE /\ UNCHANGED <<name, registered, entities, runs>>

Create(k) == keys[k] = NoKey /\ keys' = [keys EXCEPT ![k] = Never] /\ Happens /\ UNCHANGED now
Use(k) == keys[k] \notin {NoKey, now} /\ keys' = [keys EXCEPT ![k] = now] /\ Happens /\ UNCHANGED now
Revoke(k) == keys[k] # NoKey /\ keys' = [keys EXCEPT ![k] = NoKey] /\ Happens /\ UNCHANGED now
Tick == now < MaxTime /\ now' = now + 1 /\ Happens /\ UNCHANGED keys

\* A run, project by project.
Run ==
  /\ ~current /\ runs < MaxRuns
  /\ runs' = runs + 1
  /\ LET seen == FoldLeft(Resolved, entities, Listed)
     IN entities' = [n \in DOMAIN seen |-> Dropped(seen[n])]
  /\ current' = TRUE
  /\ UNCHANGED <<name, registered, keys, now>>

Next == Tick \/ Run \/ \E k \in Keys : Create(k) \/ Use(k) \/ Revoke(k)

Spec == Init /\ [][Next]_vars

-----------------------------------------------------------------------------
(* Properties *)

TypeOK ==
  /\ \A k \in Keys : keys[k] \in {NoKey, Never} \cup 0..now
  /\ \A n \in DOMAIN entities : entities[n].keys # {} /\ entities[n].run \in 1..runs

InUse(a) == \E k \in Keys : k[1] = a /\ keys[k] >= now - ActiveFor
EntityOf(a) == {n \in DOMAIN entities : <<"account", a>> \in entities[n].keys}

\* "A service account with a recently used key is a probable agent" (openai_admin.py:5), whichever
\* of its keys it was and whatever account of the same name it was merged with.
ActiveIsFound ==
  current => \A a \in Range(Accounts) :
    InUse(a) =>
      \E n \in EntityOf(a) : Finding(entities[n]) \in {"probable_shadow_agent", "unmanaged_agent"}

\* And without one it is none any more, although it was once, unless an agent is registered by its
\* name (pipeline.py:356); a person never is (openai_admin.py:6).
DormantIsNoAgent ==
  current => \A n \in DOMAIN entities :
    Finding(entities[n]) # "none" =>
      \/ IsLinked(entities[n])
      \/ \E a \in Range(Accounts) : n \in EntityOf(a) /\ InUse(a)
=============================================================================
