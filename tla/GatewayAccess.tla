--------------------------- MODULE GatewayAccess ---------------------------
(***************************************************************************)
(* Who may call the gateway, and how often: Authenticator of               *)
(* gateway/auth.py on the key store of repositories/api_keys.py, and       *)
(* RateLimiter of gateway/ratelimit.py, in the order the routers call      *)
(* them.  A key's row is its limit per minute, or NoKey when it is unknown,*)
(* revoked, expired or its tenant suspended.  A lookup awaits the          *)
(* database; all else about a request is one step of the event loop.  A    *)
(* minute has Minute ticks, and tokens are counted in parts of that size.  *)
(***************************************************************************)
EXTENDS Integers, FiniteSets

CONSTANTS
  Callers,          \* requests at a time
  Keys,
  Limits,           \* per minute; 0 is unlimited
  Minute,           \* ticks in 60 seconds
  Ttl, NegTtl,      \* of a cached key, of a cached miss
  MaxCached,        \* 10_000
  MaxKeys,          \* 50_000
  MaxTime, MaxChanges

AccessAssumption ==
  /\ Limits \subseteq Nat /\ \E n \in Limits : \A m \in Limits : m <= n
  /\ Minute \in Nat \ {0} /\ NegTtl \in Nat \ {0} /\ Ttl \in Nat \ {0}
  /\ MaxCached \in Nat /\ MaxKeys \in Nat /\ MaxTime \in Nat /\ MaxChanges \in Nat

VARIABLES
  now,
  row,       \* the key's row in the database, or in the catalog
  changed,   \* when it last changed
  cache,     \* Authenticator._cache: until when, and what was found
  buckets,   \* RateLimiter._buckets: parts of a token, last refill
  call,      \* what each request is doing
  answered,  \* an answer just given: the key, when the request came, what it found
  ideal,     \* history: the buckets of a limiter that forgets only those in early
  early,     \* history: keys whose bucket was forgotten within its minute
  changes

vars == <<now, row, changed, cache, buckets, call, answered, ideal, early, changes>>

NoKey == -1
Rows == Limits \cup {NoKey}
NoEntry == [until |-> 0, row |-> NoKey]

NoBucket == [parts |-> 0, last |-> -1]
NoCall == [step |-> "idle", key |-> NoKey, now |-> 0, row |-> NoKey]
NoAnswer == [key |-> NoKey, started |-> 0, row |-> NoKey]

-----------------------------------------------------------------------------
(* RateLimiter.check() *)

\* Refilled to the clock, and one token spent when there is one.
Spend(b, limit) ==
  LET full == limit * Minute
      filled == IF b = NoBucket THEN full ELSE b.parts + (now - b.last) * limit
      parts == IF filled > full THEN full ELSE filled
  IN [parts |-> IF parts >= Minute THEN parts - Minute ELSE parts, last |-> now]

Held(bs) == {k \in Keys : bs[k] # NoBucket}

Forgotten(bs) == {k \in Held(bs) : now - bs[k].last >= Minute}

\* _evict(): the idle ones, and if that is not enough all but the most recent half.
Evictions(bs) ==
  LET rest == Held(bs) \ Forgotten(bs) IN
  IF Cardinality(Held(bs)) <= MaxKeys THEN {{}}
  ELSE IF Cardinality(rest) <= MaxKeys THEN {Forgotten(bs)}
  ELSE {Forgotten(bs) \cup lost : lost \in
         {l \in SUBSET rest : /\ Cardinality(rest \ l) = MaxKeys \div 2
                              /\ \A gone \in l, kept \in rest \ l : bs[gone].last <= bs[kept].last}}

CheckLimit(k, limit) ==
  LET spent == [buckets EXCEPT ![k] = Spend(@, limit)] IN
  IF limit = 0 THEN UNCHANGED <<buckets, ideal, early>>
  ELSE \E gone \in Evictions(spent) :
         /\ buckets' = [q \in Keys |-> IF q \in gone THEN NoBucket ELSE spent[q]]
         /\ early' = early \cup (gone \ Forgotten(spent))
         /\ ideal' = [q \in Keys |-> IF q \in early' THEN NoBucket
                                   ELSE IF q = k THEN Spend(ideal[k], limit) ELSE ideal[q]]

-----------------------------------------------------------------------------
(* A request: authenticate(), then the limit *)

\* 401, or on to the limiter (429 or served).
Answer(k, started, found) ==
  /\ answered' = [key |-> k, started |-> started, row |-> found]
  /\ IF found = NoKey THEN UNCHANGED <<buckets, ideal, early>> ELSE CheckLimit(k, found)

Unanswered == answered' = NoAnswer /\ UNCHANGED <<buckets, ideal, early>>

\* Served from the cache.
Hit(c) ==
  /\ call[c] = NoCall
  /\ \E k \in Keys : cache[k].until > now /\ Answer(k, now, cache[k].row)
  /\ UNCHANGED <<now, row, changed, cache, call, changes>>

Miss(c) ==
  /\ call[c] = NoCall
  /\ \E k \in Keys :
       /\ cache[k].until <= now
       /\ call' = [call EXCEPT ![c] = [step |-> "looking", key |-> k, now |-> now, row |-> NoKey]]
  /\ Unanswered /\ UNCHANGED <<now, row, changed, cache, changes>>

Lookup(c) ==
  /\ call[c].step = "looking"
  /\ call' = [call EXCEPT ![c].step = "found", ![c].row = row[call[c].key]]
  /\ Unanswered /\ UNCHANGED <<now, row, changed, cache, changes>>

\* Mutation: the clock is read again after the lookup.
EntryOfNow(c) == [until |-> now + (IF call[c].row = NoKey THEN NegTtl ELSE Ttl), row |-> call[c].row]

Entry(c) == [until |-> call[c].now + (IF call[c].row = NoKey THEN NegTtl ELSE Ttl), row |-> call[c].row]

\* The entry, and when there are too many those that have expired go.
Found(c) ==
  LET k == call[c].key
      after == [cache EXCEPT ![k] = Entry(c)]
      live == {q \in Keys : after[q].until > call[c].now} IN
  /\ call[c].step = "found"
  /\ cache' = IF Cardinality({q \in Keys : after[q] # NoEntry}) <= MaxCached THEN after
              ELSE [q \in Keys |-> IF q \in live THEN after[q] ELSE NoEntry]
  /\ Answer(k, call[c].now, call[c].row)
  /\ call' = [call EXCEPT ![c] = NoCall]
  /\ UNCHANGED <<now, row, changed, changes>>

\* The database fails: 500, and nothing is cached.
LookupFails(c) ==
  /\ call[c].step # "idle" /\ call' = [call EXCEPT ![c] = NoCall]
  /\ Unanswered /\ UNCHANGED <<now, row, changed, cache, changes>>

Change(k) ==
  /\ changes < MaxChanges /\ changes' = changes + 1
  /\ \E r \in Rows \ {row[k]} : row' = [row EXCEPT ![k] = r]
  /\ changed' = [changed EXCEPT ![k] = now]
  /\ Unanswered /\ UNCHANGED <<now, cache, call>>

Tick ==
  /\ now < MaxTime /\ now' = now + 1
  /\ Unanswered /\ UNCHANGED <<row, changed, cache, call, changes>>

Init ==
  /\ now = 0 /\ row \in [Keys -> Rows] /\ changed = [k \in Keys |-> 0]
  /\ cache = [k \in Keys |-> NoEntry] /\ buckets = [k \in Keys |-> NoBucket]
  /\ call = [c \in Callers |-> NoCall] /\ answered = NoAnswer
  /\ ideal = [k \in Keys |-> NoBucket] /\ early = {} /\ changes = 0

Next ==
  \/ \E c \in Callers : Hit(c) \/ Miss(c) \/ Lookup(c) \/ Found(c) \/ LookupFails(c)
  \/ \E k \in Keys : Change(k)
  \/ Tick

Spec == Init /\ [][Next]_vars

-----------------------------------------------------------------------------
Largest == CHOOSE n \in Limits : \A m \in Limits : m <= n
Buckets == [Keys -> [parts : 0..Largest * Minute, last : -1..MaxTime]]

TypeOK ==
  /\ now \in 0..MaxTime /\ row \in [Keys -> Rows] /\ changed \in [Keys -> 0..MaxTime]
  /\ cache \in [Keys -> [until : 0..MaxTime + Ttl + NegTtl, row : Rows]]
  /\ buckets \in Buckets /\ ideal \in Buckets
  /\ call \in [Callers -> [step : {"idle", "looking", "found"}, key : Keys \cup {NoKey},
                           now : 0..MaxTime, row : Rows]]
  /\ answered \in [key : Keys \cup {NoKey}, started : 0..MaxTime, row : Rows]
  /\ early \subseteq Keys /\ changes \in 0..MaxChanges

\* "Revocations take effect within ttl_seconds. Misses are cached for a shorter time" (auth.py:46):
\* a request that comes that long after a key's last change is answered by what the key is now,
\* however long a lookup took and whichever of two lookups wrote the cache last.
ChangeTakesEffect ==
  LET a == answered IN
  a.key # NoKey /\ a.started >= changed[a.key] + (IF a.row = NoKey THEN NegTtl ELSE Ttl)
    => a.row = row[a.key]

\* "forgetting it then changes nothing for that key" (ratelimit.py:52-53), whatever its limit was
\* before; and no more than max_keys buckets are kept.
ForgettingChangesNothing ==
  /\ Cardinality(Held(buckets)) <= MaxKeys
  /\ \A k \in Keys \ early :
       \/ buckets[k] = ideal[k]
       \/ buckets[k] = NoBucket /\ now - ideal[k].last >= Minute

\* Both, of the lookups and buckets of one gateway (auth.py, ratelimit.py).
AccessIsCurrent == TypeOK /\ ChangeTakesEffect /\ ForgettingChangesNothing
=============================================================================
