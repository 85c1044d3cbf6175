--------------------------- MODULE TextGuardrails ---------------------------
(***************************************************************************)
(* The guardrails that read a payload's texts themselves or send them to a *)
(* moderation endpoint (plugins/secrets, prompt_injection, topic_limits,   *)
(* content_moderation over plugins/common/textwalk.py), one after another  *)
(* on one payload, each on what the one before it left.                    *)
(*                                                                         *)
(* A text is a sequence of atoms, one unit of a scan budget each:          *)
(*   "w" plain   "b" "e" a private key's begin and end lines   "k" a token *)
(*   "p" the words `password ='   "v" a random value   "r" a placeholder   *)
(*   "o" "s" "c" an override, a role spoof, a concealment   "x" a          *)
(*   configured injection pattern   "d" a denied topic   "t" an allowed    *)
(*   one   "h" "m" harmful content, "m" of a category that always blocks   *)
(* A payload is the sequence of its texts; a text's position in it is its  *)
(* key in a rewrite, `loc' what findings print.                            *)
(***************************************************************************)
EXTENDS Sequences, Naturals, FiniteSets, SequencesExt, FiniteSetsExt

CONSTANTS
  Payloads,        \* payloads a request may carry
  Configs,         \* guardrail configurations, see Config
  ScanLimit,       \* atoms secrets and moderation can read
  DefaultLimit,    \* atoms prompt-injection and topic-limits read
  ConfigScanLimit, \* atoms of a text that a configured pattern sees
  MaxChars,        \* atoms of one moderated piece
  MaxItems         \* pieces of one request to the moderation endpoint

Atoms == {"w", "b", "e", "k", "p", "v", "r", "o", "s", "c", "x", "d", "t", "h", "m"}
Roles == {"system", "user", "assistant", "none"}
Guardrails == {"secrets", "injection", "topics", "moderation"}
Part == [id : Nat, kind : {"text", "message", "chunk", "argument", "result"},
         role : Roles, loc : STRING, text : Seq(Atoms)]
Config == [secretsOn : {"modify", "block"}, blockTypes : SUBSET {"PRIVATE_KEY", "TOKEN"},
           ignored : SUBSET {"PRIVATE_KEY", "TOKEN"}, scanTool : BOOLEAN,
           chunkAction : {"drop_chunk", "escalate", "block"},
           outOfScope : {"escalate", "block", "allow"}, allowed : BOOLEAN,
           onFlagged : {"escalate", "block", "allow"}]

LimitsAssumption ==
  /\ {ScanLimit, DefaultLimit, ConfigScanLimit, MaxChars, MaxItems} \subseteq Nat \ {0}
  /\ \A p \in Payloads : p \in Seq(Part)
  /\ Configs \subseteq Config

VARIABLES
  original,   \* the payload as it came
  payload,    \* as the guardrails so far left it
  config,
  ran,        \* the guardrails that answered allow or modify
  pieces,     \* moderation: <<position, text>> of every piece to send
  results,    \* moderation: what was flagged in the pieces answered so far
  outcome     \* "running", "released", "escalate", "block" or "error"

vars == <<original, payload, config, ran, pieces, results, outcome>>

Has(text, atom) == \E i \in DOMAIN text : text[i] = atom

-----------------------------------------------------------------------------
(* walk(): the texts a guardrail reads, under a budget.                    *)

Visits(g, p) ==
  /\ p.kind = "argument" => g = "secrets" /\ config.scanTool
  /\ p.kind = "result" => g = "injection" \/ (g = "secrets" /\ config.scanTool)
  /\ p.kind = "message" => CASE g = "secrets" -> TRUE
                             [] g = "moderation" -> p.role \in {"user", "assistant"}
                             [] OTHER -> p.role = "user"

Budget(g) == IF g \in {"secrets", "moderation"} THEN ScanLimit ELSE DefaultLimit

Visited(g, pl) == {i \in DOMAIN pl : Visits(g, pl[i])}
\* What is left of the budget when the i-th text's turn comes.
Left(g, pl, i) ==
  Budget(g) - Min({Budget(g), MapThenSumSet(LAMBDA j : Len(pl[j].text),
                                            {j \in Visited(g, pl) : j < i})})
Spans(g, pl) == {i \in Visited(g, pl) : Left(g, pl, i) > 0}
Scanned(g, pl, i) == SubSeq(pl[i].text, 1, Min({Len(pl[i].text), Left(g, pl, i)}))
Truncated(g, pl) ==
  \E i \in Visited(g, pl) : Left(g, pl, i) = 0 \/ Len(pl[i].text) > Left(g, pl, i)

\* The payload with the texts at the keys of `new' replaced and the chunks at `drop' left out.
Rewrite(pl, new, drop) ==
  FlattenSeq([i \in DOMAIN pl |->
    IF i \in drop THEN <<>>
    ELSE <<IF i \in DOMAIN new THEN [pl[i] EXCEPT !.text = new[i]] ELSE pl[i]>>])

-----------------------------------------------------------------------------
(* secrets                                                                 *)

\* Where a detector's expression matches, leftmost and not overlapping itself.
Matches(type, t) ==
  CASE type = "PRIVATE_KEY" ->
         {span \in (DOMAIN t) \X (DOMAIN t) :
            LET i == span[1]  j == span[2] IN
            /\ t[i] = "b" /\ i <= j
            /\ ~\E n \in 1..(i - 1) : t[n] = "b" /\ \A m \in n..(i - 1) : t[m] # "e"
            /\ \A n \in i..(j - 1) : t[n] # "e"
            /\ t[j] = "e" \/ j = Len(t)}
    [] type = "TOKEN" -> {<<i, i>> : i \in {n \in DOMAIN t : t[n] = "k"}}
    [] type = "PASSWORD_ASSIGNMENT" ->   \* plain words have too little entropy, "r" is a placeholder
         {<<i, i>> : i \in {n \in 2..Len(t) : t[n - 1] = "p" /\ t[n] \in {"v", "k"}}}

AlwaysFree(hit, hits) == TRUE   \* mutant of Free: overlapping hits are kept
Free(hit, hits) == \A h \in hits : hit[2] < h[1] \/ h[2] < hit[1]

\* Specific detectors first; what they claim is not reported again.
FindSecrets(t) ==
  FoldLeft(LAMBDA hits, type :
             IF type \in config.ignored THEN hits
             ELSE hits \cup {<<h[1], h[2], type>> : h \in {m \in Matches(type, t) : Free(m, hits)}},
           {}, <<"PRIVATE_KEY", "TOKEN", "PASSWORD_ASSIGNMENT">>)

Redact(t, hits) ==
  LET done == FoldLeft(LAMBDA acc, h : [out |-> acc.out \o SubSeq(t, acc.pos, h[1] - 1) \o <<"r">>,
                                        pos |-> h[2] + 1],
                       [out |-> <<>>, pos |-> 1],
                       SetToSortSeq(hits, LAMBDA a, b : a[1] < b[1]))
  IN  done.out \o SubSeq(t, done.pos, Len(t))

Answer(decision, pl) == [decision |-> decision, payload |-> pl]

Secrets ==
  LET hits == [i \in Spans("secrets", payload) |-> FindSecrets(Scanned("secrets", payload, i))]
      found == {i \in DOMAIN hits : hits[i] # {}}
      types == {h[3] : h \in UNION {hits[i] : i \in found}}
  IN  IF Truncated("secrets", payload) THEN Answer("block", payload)
      ELSE IF found = {} THEN Answer("allow", payload)
      ELSE IF config.secretsOn = "block" \/ types \cap config.blockTypes # {}
           THEN Answer("block", payload)
      ELSE Answer("modify",
                  Rewrite(payload, [i \in found |-> Redact(Scanned("secrets", payload, i), hits[i])], {}))

-----------------------------------------------------------------------------
(* prompt-injection: scores in percent.                                    *)

EscalateAt == 50
BlockAt == 85
Keep(text, atom, w) == IF Has(text, atom) THEN 100 - w ELSE 100
Score(t) ==
  LET head == SubSeq(t, 1, Min({Len(t), ConfigScanLimit})) IN
  100 - (Keep(t, "o", 60) * Keep(t, "s", 50) * Keep(t, "c", 30) * Keep(head, "x", 60)) \div 1000000

Top(scores, at) == Max({scores[i] : i \in at})

PromptInjection ==
  LET spans == Spans("injection", payload)
      scores == [i \in spans |-> Score(Scanned("injection", payload, i))]
      flagged == {i \in spans : scores[i] >= EscalateAt /\ payload[i].kind = "chunk"}
      top == IF spans = {} THEN 0 ELSE Top(scores, spans)
      retrieval == \E i \in DOMAIN payload : payload[i].kind = "chunk"
  IN  IF top < EscalateAt THEN Answer("allow", payload)
      ELSE IF top >= BlockAt THEN Answer("block", payload)
      ELSE IF retrieval /\ config.chunkAction = "drop_chunk" /\ flagged # {}
           THEN Answer("modify", Rewrite(payload, [i \in {} |-> <<>>], flagged))
      ELSE IF retrieval /\ config.chunkAction = "block" THEN Answer("block", payload)
      ELSE Answer("escalate", payload)

-----------------------------------------------------------------------------
(* topic-limits                                                            *)

MinWordsForScope == 4

Topics ==
  LET spans == Spans("topics", payload)
      text(i) == Scanned("topics", payload, i)
      words == MapThenSumSet(LAMBDA i : Len(text(i)), spans)
  IN  IF \E i \in spans : Has(text(i), "d") THEN Answer("block", payload)
      ELSE IF /\ config.allowed /\ ~\E i \in spans : Has(text(i), "t")
              /\ words >= MinWordsForScope /\ config.outOfScope # "allow"
           THEN Answer(config.outOfScope, payload)
      ELSE Answer("allow", payload)

-----------------------------------------------------------------------------
(* content-moderation: every piece of every text, in batches.              *)

PiecesOf(t) == [n \in 1..((Len(t) + MaxChars - 1) \div MaxChars) |->
                  SubSeq(t, (n - 1) * MaxChars + 1, Min({n * MaxChars, Len(t)}))]

PieceList(pl) ==
  FlattenSeq([i \in DOMAIN pl |->
    IF i \in Spans("moderation", pl)
    THEN [n \in DOMAIN PiecesOf(pl[i].text) |-> <<i, PiecesOf(pl[i].text)[n]>>] ELSE <<>>])

\* The endpoint answers one result for each item, in their order.
Flags(t) == {a \in {"h", "m"} : Has(t, a)}

Moderated ==
  LET categories == UNION {results[n] : n \in DOMAIN results}
  IN  IF categories = {} THEN "allow"
      ELSE IF "m" \in categories \/ config.onFlagged = "block" THEN "block"
      ELSE config.onFlagged

-----------------------------------------------------------------------------

Init ==
  /\ original \in Payloads /\ payload = original
  /\ config \in Configs
  /\ ran = {} /\ pieces = <<>> /\ results = <<>>
  /\ outcome = "running"

Idle == outcome = "running" /\ pieces = <<>>

Take(g, answer) ==
  IF answer.decision \in {"allow", "modify"}
  THEN payload' = answer.payload /\ ran' = ran \cup {g} /\ UNCHANGED outcome
  ELSE outcome' = answer.decision /\ UNCHANGED <<payload, ran>>

Evaluate(g) ==
  /\ Idle /\ g \notin ran
  /\ Take(g, CASE g = "secrets" -> Secrets [] g = "injection" -> PromptInjection [] g = "topics" -> Topics)
  /\ UNCHANGED <<original, config, pieces, results>>

StartModeration ==
  /\ Idle /\ "moderation" \notin ran
  /\ IF Truncated("moderation", payload)
     THEN outcome' = "block" /\ UNCHANGED <<ran, pieces>>
     ELSE /\ pieces' = PieceList(payload)
          /\ ran' = IF pieces' = <<>> THEN ran \cup {"moderation"} ELSE ran
          /\ UNCHANGED outcome
  /\ results' = <<>>
  /\ UNCHANGED <<original, payload, config>>

Batch == SubSeq(pieces, Len(results) + 1, Min({Len(results) + MaxItems, Len(pieces)}))

BatchAnswered ==
  /\ outcome = "running" /\ Len(results) < Len(pieces)
  /\ results' = results \o [n \in DOMAIN Batch |-> Flags(Batch[n][2])]
  /\ UNCHANGED <<original, payload, config, ran, pieces, outcome>>

\* Unreachable, another status, no JSON, or not one result for each item.
BatchFails ==
  /\ outcome = "running" /\ Len(results) < Len(pieces)
  /\ outcome' = "error"
  /\ UNCHANGED <<original, payload, config, ran, pieces, results>>

FinishModeration ==
  /\ outcome = "running" /\ pieces # <<>> /\ Len(results) = Len(pieces)
  /\ Take("moderation", Answer(Moderated, payload))
  /\ pieces' = <<>> /\ results' = <<>>
  /\ UNCHANGED <<original, config>>

Release ==
  /\ Idle /\ outcome' = "released"
  /\ UNCHANGED <<original, payload, config, ran, pieces, results>>

Next ==
  \/ \E g \in Guardrails \ {"moderation"} : Evaluate(g)
  \/ StartModeration \/ BatchAnswered \/ BatchFails \/ FinishModeration \/ Release

Spec == Init /\ [][Next]_vars

-----------------------------------------------------------------------------

TypeOK ==
  /\ original \in Payloads /\ config \in Configs
  /\ payload \in Seq(Part) /\ ran \subseteq Guardrails
  /\ pieces \in Seq(Nat \X Seq(Atoms)) /\ results \in Seq(SUBSET {"h", "m"})
  /\ outcome \in {"running", "released", "escalate", "block", "error"}

\* The i-th atom of t is (part of) a credential of a type that is not switched off.
Credential(t, i) ==
  \/ "PRIVATE_KEY" \notin config.ignored
     /\ \E n \in 1..i : t[n] = "b" /\ \A m \in n..(i - 1) : t[m] # "e"
  \/ "TOKEN" \notin config.ignored /\ t[i] = "k"
  \/ i > 1 /\ t[i - 1] = "p" /\ t[i] \in {"v", "k"}

Without(t, drop(_, _)) ==
  FlattenSeq([i \in DOMAIN t |-> IF drop(t, i) THEN <<>> ELSE <<t[i]>>])
IsPlaceholder(t, i) == t[i] = "r"
CredentialOrPlaceholder(t, i) == t[i] = "r" \/ Credential(t, i)
Keyed(id) == CHOOSE p \in ToSet(original) : p.id = id

(* Once the secrets guardrail let a payload pass, a text it is meant to    *)
(* read is the text that came with every credential, whole, turned into    *)
(* placeholders: also beyond its budget (secrets/guardrail.py:150), and    *)
(* beside or inside another hit, where redact() moves its position from    *)
(* hit to hit (86-118).                                                    *)
NoCredentialReleased ==
  outcome = "released" /\ "secrets" \in ran =>
    \A n \in DOMAIN payload :
      Visits("secrets", payload[n]) =>
        Without(payload[n].text, IsPlaceholder)
          = Without(Keyed(payload[n].id).text, CredentialOrPlaceholder)

(* What is handed on is the payload that came, its texts in their order    *)
(* and at their places, less credentials that became placeholders and      *)
(* chunks that prompt-injection dropped for their own score; two chunks    *)
(* that print the same location are still told apart (textwalk.py:8-10).   *)
OnlyFlaggedChanged ==
  /\ \A m, n \in DOMAIN payload : m < n => payload[m].id < payload[n].id
  /\ \A n \in DOMAIN payload :
       LET was == Keyed(payload[n].id)
       IN  /\ [payload[n] EXCEPT !.text = <<>>] = [was EXCEPT !.text = <<>>]
           /\ payload[n].text # was.text =>
                "secrets" \in ran /\ \E i \in DOMAIN was.text : Credential(was.text, i)
  /\ \A p \in ToSet(original) :
       p.id \notin {q.id : q \in ToSet(payload)} =>
         p.kind = "chunk" /\ "injection" \in ran /\ Score(p.text) >= EscalateAt

Total(pl) == MapThenSumSet(LAMBDA i : Len(pl[i].text), DOMAIN pl)

(* Nothing that scores as an injection is handed on by prompt-injection    *)
(* when all of the payload fits its budget: what is not dropped on its own *)
(* account holds the request up (prompt_injection/guardrail.py:179-229).   *)
InjectionStopped ==
  outcome = "released" /\ "injection" \in ran /\ Total(original) <= DefaultLimit =>
    \A n \in DOMAIN payload :
      Visits("injection", payload[n]) => Score(payload[n].text) < EscalateAt

(* Harmful content that moderation is to look for is never handed on,      *)
(* whichever piece of whichever text holds it and whatever was sent with   *)
(* it (content_moderation/guardrail.py:120-125), unless the configuration  *)
(* lets flagged content pass.                                              *)
HarmStopped ==
  outcome = "released" /\ "moderation" \in ran =>
    \A n \in DOMAIN payload :
      Visits("moderation", payload[n]) =>
        /\ ~Has(payload[n].text, "m")
        /\ config.onFlagged # "allow" => ~Has(payload[n].text, "h")
=============================================================================
