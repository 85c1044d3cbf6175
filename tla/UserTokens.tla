----------------------------- MODULE UserTokens -----------------------------
(***************************************************************************)
(* The keys of the customer's identity provider as the gateway knows them  *)
(* (verify/user_token.py): confirmations whose tokens it checks at the     *)
(* same time, a key set that is cached and fetched again, a provider that  *)
(* rotates its keys and is sometimes down.                                 *)
(*                                                                         *)
(* Times are what has passed since, counted up to a bound, so that time    *)
(* has no end.                                                             *)
(***************************************************************************)
EXTENDS Integers, FiniteSets, FiniteSetsExt

CONSTANTS
  Confirms,     \* confirmations under way at a time
  Keys,         \* key ids of the provider, and ones that are made up
  MadeUp,       \* the latter
  CacheTime,    \* JWKS_CACHE_SECONDS
  RefetchTime,  \* JWKS_MIN_REFETCH_SECONDS
  FetchTime     \* ticks a fetch may take

TimesAssumption ==
  /\ {CacheTime, RefetchTime, FetchTime} \subseteq Nat \ {0} /\ MadeUp \subseteq Keys
  /\ RefetchTime + FetchTime <= CacheTime   \* 30 and 3 of 300 seconds

VARIABLES
  idp,         \* keys in the provider's key set
  withdrawn,   \* key -> ticks since it was withdrawn
  cached,      \* the keys the gateway has
  cachedFor,   \* ticks since the fetch that brought them began
  fetchedFor,  \* ticks since a fetch last began
  failing,     \* has a fetch failed since the cached keys were fetched
  confirms     \* confirmation -> [pc, kid, keys, age]

vars == <<idp, withdrawn, cached, cachedFor, fetchedFor, failing, confirms>>

Long == CacheTime + RefetchTime + 2 * FetchTime + 2
Ages == 0..Long
Older(n) == Min({Long, n + 1})
Idle == [pc |-> "idle", kid |-> "none", keys |-> {}, age |-> 0]

-----------------------------------------------------------------------------

Stale == cachedFor > CacheTime
Due == fetchedFor > RefetchTime
MustFetch(kid) == Stale \/ kid \notin cached

NotNoted == fetchedFor   \* mutant of FetchBegun: the time of the fetch is not taken
FetchBegun == 0

Fetching == \E d \in Confirms : confirms[d].pc \in {"sent", "back"}
\* Accepted, or ("meanwhile") accepted on the cached keys while a fetch is under way or has failed.
Verdict(kid, keys, meanwhile) ==
  IF kid \notin keys THEN "rejected" ELSE IF meanwhile THEN "meanwhile" ELSE "accepted"

\* verify() as far as _key_for()'s fetch; without one the cached keys decide.
Present(c) ==
  /\ confirms[c].pc = "idle"
  /\ \E kid \in Keys :
       IF MustFetch(kid) /\ Due
       THEN /\ confirms' = [confirms EXCEPT ![c] = [Idle EXCEPT !.pc = "sent", !.kid = kid]]
            /\ fetchedFor' = FetchBegun
       ELSE /\ confirms' = [confirms EXCEPT ![c] =
                 [Idle EXCEPT !.pc = Verdict(kid, cached, failing \/ Fetching), !.kid = kid]]
            /\ UNCHANGED fetchedFor
  /\ UNCHANGED <<idp, withdrawn, cached, cachedFor, failing>>

\* The provider answers with the keys it has.
Serve(c) ==
  /\ confirms[c].pc = "sent"
  /\ confirms' = [confirms EXCEPT ![c].pc = "back", ![c].keys = idp]
  /\ UNCHANGED <<idp, withdrawn, cached, cachedFor, fetchedFor, failing>>

\* A set that arrives replaces the cached one, as old as its fetch.
Receive(c) ==
  /\ confirms[c].pc = "back"
  /\ cached' = confirms[c].keys /\ cachedFor' = confirms[c].age /\ failing' = FALSE
  /\ confirms' = [confirms EXCEPT ![c].pc = Verdict(confirms[c].kid, cached', FALSE), ![c].keys = {}, ![c].age = 0]
  /\ UNCHANGED <<idp, withdrawn, fetchedFor>>

\* An error, an empty set or no answer in time: the cached keys stay.
FetchFails(c) ==
  /\ confirms[c].pc \in {"sent", "back"}
  /\ failing' = TRUE
  /\ confirms' = [confirms EXCEPT ![c].pc = Verdict(confirms[c].kid, cached, TRUE), ![c].keys = {}, ![c].age = 0]
  /\ UNCHANGED <<idp, withdrawn, cached, cachedFor, fetchedFor>>

Answered(c) ==
  /\ confirms[c].pc \in {"accepted", "meanwhile", "rejected"}
  /\ confirms' = [confirms EXCEPT ![c] = Idle]
  /\ UNCHANGED <<idp, withdrawn, cached, cachedFor, fetchedFor, failing>>

\* The provider publishes a key, or withdraws one while it has another.
Rotate ==
  /\ \E k \in Keys \ MadeUp :
       \/ k \notin idp /\ withdrawn[k] = Long /\ idp' = idp \cup {k}
          /\ withdrawn' = [withdrawn EXCEPT ![k] = 0]
       \/ k \in idp /\ Cardinality(idp) > 1 /\ idp' = idp \ {k}
          /\ withdrawn' = [withdrawn EXCEPT ![k] = 0]
  /\ UNCHANGED <<cached, cachedFor, fetchedFor, failing, confirms>>

\* A fetch takes FetchTime at most, and the rest of a check no time at all.
Tick ==
  /\ \A c \in Confirms : confirms[c].pc \in {"idle", "sent", "back"} /\ confirms[c].age < FetchTime
  /\ withdrawn' = [k \in Keys |-> IF k \in idp THEN 0 ELSE Older(withdrawn[k])]
  /\ cachedFor' = Older(cachedFor) /\ fetchedFor' = Older(fetchedFor)
  /\ confirms' = [c \in Confirms |-> IF confirms[c].pc = "idle" THEN confirms[c]
                                     ELSE [confirms[c] EXCEPT !.age = @ + 1]]
  /\ UNCHANGED <<idp, cached, failing>>

Init ==
  /\ idp \in SUBSET (Keys \ MadeUp) \ {{}}
  /\ withdrawn = [k \in Keys |-> IF k \in idp THEN 0 ELSE Long]
  /\ cached = {} /\ cachedFor = Long /\ fetchedFor = Long /\ failing = FALSE
  /\ confirms = [c \in Confirms |-> Idle]

Next == Rotate \/ Tick \/ \E c \in Confirms : Present(c) \/ Serve(c) \/ Receive(c) \/ FetchFails(c) \/ Answered(c)
Spec == Init /\ [][Next]_vars

-----------------------------------------------------------------------------

TypeOK ==
  /\ idp \subseteq Keys \ MadeUp /\ cached \subseteq Keys
  /\ withdrawn \in [Keys -> Ages] /\ {cachedFor, fetchedFor} \subseteq Ages /\ failing \in BOOLEAN
  /\ confirms \in [Confirms -> [pc : {"idle", "sent", "back", "accepted", "meanwhile", "rejected"},
                                kid : Keys \cup {"none"}, keys : SUBSET Keys, age : 0..FetchTime]]

(* A key the provider has withdrawn confirms nothing any more once the     *)
(* cache time has passed, unless fetching has failed since or is under     *)
(* way, whatever confirmations run at the same time and in whatever order  *)
(* answers arrive (user_token.py:92-107).                                  *)
WithdrawnKeyIsRefused ==
  \A c \in Confirms : confirms[c].pc = "accepted" =>
    withdrawn[confirms[c].kid] <= CacheTime

(* However many unknown key ids are presented and however long the         *)
(* provider is down, a fetch begins at most once in RefetchTime            *)
(* (user_token.py:94-98).                                                  *)
ProviderIsSpared ==
  \A c, d \in Confirms :
    c # d /\ confirms[c].pc \in {"sent", "back"} /\ confirms[d].pc \in {"sent", "back"} =>
      confirms[c].age - confirms[d].age > RefetchTime \/ confirms[d].age - confirms[c].age > RefetchTime

\* Both, of one gateway and its provider (user_token.py:87-147).
KeysAreFresh == TypeOK /\ WithdrawnKeyIsRefused /\ ProviderIsSpared
=============================================================================
