----------------------------- MODULE MCGateway -----------------------------
(***************************************************************************)
(* The gateway's parts that answer by themselves: access, the guardrail    *)
(* engine, the text and the PII guardrails, the chat proxy, AuthZEN, the   *)
(* SDK's hooks and user tokens.  They share no state.  The initial state   *)
(* chooses one, `part', which then runs by itself with the first of        *)
(* v1..v14 as its variables.                                               *)
(***************************************************************************)
EXTENDS Integers, Sequences, TLC

CONSTANTS
  Callers, Keys, Limits, Minute, Ttl, NegTtl, MaxCached, MaxKeys, MaxTime, MaxChanges,  \* GatewayAccess
  PdpBatches, Limit, MaxCalls, MaxRefills,                             \* AuthZen, with the same Callers
  MaxDocs, Wait, PollEvery,                                            \* AgentHooks
  Confirms, TokenKeys, MadeUp, CacheTime, RefetchTime, FetchTime       \* UserTokens

Symmetry == Permutations(Callers) \cup Permutations(Keys)

VARIABLES part, v1, v2, v3, v4, v5, v6, v7, v8, v9, v10, v11, v12, v13, v14

all == <<part, v1, v2, v3, v4, v5, v6, v7, v8, v9, v10, v11, v12, v13, v14>>

-----------------------------------------------------------------------------
Access == INSTANCE GatewayAccess WITH
  now <- v1, row <- v2, changed <- v3, cache <- v4, buckets <- v5, call <- v6, answered <- v7,
  ideal <- v8, early <- v9, changes <- v10

-----------------------------------------------------------------------------
\* A redactor that changes the payload, and two checkers that may share a group; one of them
\* fails open.
Row(place, id, scope, mode, enabled, group, order) ==
  [place |-> place, id |-> id, scope |-> scope, mode |-> mode, enabled |-> enabled, group |-> group,
   order |-> order, parallelSafe |-> id # "redactor",
   emits |-> CASE id = "redactor" -> {"allow", "modify", "block"}
               [] id = "moderator" -> {"allow", "escalate", "block"}
               [] OTHER -> {"allow", "block"},
   failure |-> IF id = "topics" THEN "fail_open" ELSE "fail_closed"]
Modes == {"enforce", "shadow"}

\* Every mode of the three; the redactor before, between or after the group.
Globals ==
  {{Row(1, "redactor", "global", r, TRUE, g, position),
    Row(2, "moderator", "global", m, TRUE, "g1", 2),
    Row(3, "topics", "global", t, TRUE, "g1", 4)} :
     r \in Modes, m \in Modes, t \in Modes, position \in {1, 3, 5}, g \in {"none", "g1"}}

\* What a tenant or an agent overrides, once with two rows for one guardrail.
Overrides ==
  {{},
   {Row(4, "moderator", "agent", "enforce", FALSE, "g1", 2)},
   {Row(4, "redactor", "tenant", "enforce", TRUE, "none", 1),
    Row(5, "redactor", "agent", "shadow", TRUE, "none", 1)},
   {Row(4, "topics", "tenant", "enforce", TRUE, "none", 4),
    Row(5, "topics", "tenant", "enforce", FALSE, "none", 4)}}

Snapshots == {globals \cup overrides : globals \in Globals, overrides \in Overrides}

Engine == INSTANCE GuardrailEngine WITH
  RowSets <- Snapshots, ObligationSets <- {{}, {"redactor"}, {"moderator", "topics"}},
  rows <- v1, obligations <- v2, reviewQueue <- v3, answers <- v4, first <- v5, current <- v6,
  counted <- v7, outcome <- v8

-----------------------------------------------------------------------------
\* Texts in which hits nest, touch and straddle pieces, two chunks of one id, roles that are not
\* read, and texts past a budget.
T(id, kind, role, loc, text) == [id |-> id, kind |-> kind, role |-> role, loc |-> loc, text |-> text]
Texts == { <<"w">>, <<>>, <<"b", "k", "w", "e">>, <<"p", "k", "w">>, <<"p", "v", "b", "w">>,
           <<"o", "w">>, <<"s", "o", "x">>, <<"c">>, <<"w", "w", "x">>, <<"d", "w">>,
           <<"w", "w", "w", "t">>, <<"w", "w", "h">>, <<"w", "m">> }
TextPayloads ==
  {<<T(1, "chunk", "none", "chunks[a]", t), T(2, "chunk", "none", "chunks[a]", u)>> :
     t \in Texts, u \in Texts}
  \cup {<<T(1, "message", r, "messages[0]", t), T(2, "message", "user", "messages[1]", u)>> :
          r \in {"user", "system"}, t \in Texts, u \in Texts}
  \cup {<<T(1, "argument", "none", "tool_call.arguments.a", t),
          T(2, "result", "none", "tool_call.result", u)>> : t \in Texts, u \in Texts}
  \cup {<<T(1, "text", "none", "text", t)>> : t \in Texts}

Cfg(on, block, ignored, chunk, flagged) ==
  [secretsOn |-> on, blockTypes |-> block, ignored |-> ignored, scanTool |-> TRUE,
   chunkAction |-> chunk, outOfScope |-> "escalate", allowed |-> flagged = "escalate",
   onFlagged |-> flagged]
TextConfigs ==
  { Cfg("modify", {}, {}, "drop_chunk", "escalate"), Cfg("modify", {"PRIVATE_KEY"}, {}, "escalate", "allow"),
    Cfg("modify", {}, {"TOKEN"}, "block", "block"), Cfg("modify", {}, {"PRIVATE_KEY"}, "drop_chunk", "allow"),
    [Cfg("block", {}, {}, "drop_chunk", "allow") EXCEPT !.scanTool = FALSE] }

Text == INSTANCE TextGuardrails WITH
  Payloads <- TextPayloads, Configs <- TextConfigs, ScanLimit <- 7, DefaultLimit <- 6,
  ConfigScanLimit <- 2, MaxChars <- 2, MaxItems <- 2,
  original <- v1, payload <- v2, config <- v3, ran <- v4, pieces <- v5, results <- v6, outcome <- v7

-----------------------------------------------------------------------------
\* Roles that are not read, blank chunks next to batches that do not come out even, tool calls
\* with two leaves of one part.
P(id, place, path, text) == [id |-> id, place |-> place, path |-> path, text |-> text]
PiiTexts == { <<"w">>, <<>>, <<"e", "w", "p">>, <<"c", "e">>, <<"x">>, <<"w", "p">> }
Inputs ==
  {[stage |-> "input", external |-> FALSE,
    parts |-> <<P(1, pl, "", t), P(2, "user", "", u), P(3, "assistant", "", <<"e">>)>>] :
      pl \in {"text", "user"}, t \in PiiTexts, u \in PiiTexts}
Retrievals ==
  {[stage |-> "retrieval", external |-> FALSE,
    parts |-> <<P(1, "chunk", "", t), P(2, "chunk", "", u), P(3, "chunk", "", <<>>), P(4, "chunk", "", w)>>] :
      t \in PiiTexts, u \in {<<"w">>, <<"p">>}, w \in PiiTexts}
Tools ==
  {[stage |-> "tool", external |-> x,
    parts |-> <<P(1, "arguments", "$.a.b", t), P(2, "arguments", "$.a.c", u), P(3, "result", "$", w)>>] :
      x \in BOOLEAN, t \in PiiTexts, u \in {<<"w">>, <<"e">>}, w \in {<<"p">>, <<"w">>}}

Opt(on, blocked, over, result, ext) ==
  [onDetect |-> on, blocked |-> blocked, roles |-> {"user"}, dropOver |-> over,
   resultOnDetect |-> result, externalOnDetect |-> ext]
PiiOptions ==
  { Opt("modify", {}, 99, "modify", "modify"), Opt("modify", {"PHONE"}, 99, "modify", "block"),
    Opt("modify", {}, 1, "allow", "block"), Opt("allow", {}, 99, "modify", "modify"),
    Opt("block", {}, 99, "allow", "modify") }
ProjectConfigs ==
  { [entities |-> {"EMAIL", "PHONE"}, custom |-> TRUE], [entities |-> {"PHONE"}, custom |-> TRUE],
    [entities |-> {"EMAIL"}, custom |-> FALSE] }

Pii == INSTANCE PiiRedaction WITH
  Payloads <- Inputs \cup Retrievals \cup Tools, OptionSets <- PiiOptions,
  Projects <- ProjectConfigs, MaxBatch <- 2,
  payload <- v1, options <- v2, calls <- v3, answers <- v4, using <- v5, outcome <- v6, released <- v7

-----------------------------------------------------------------------------
\* Contents that are null next to earlier tool calls and described tools, and answers with two
\* choices.
Msg(content, calls) == [content |-> content, calls |-> calls]
ChatBodies ==
  { [fault |-> FALSE, messages |-> <<m, n>>, tools |-> t] :
      m \in {Msg("text", <<>>), Msg("null", <<"empty", "text">>), Msg("image", <<>>)},
      n \in {Msg("text", <<"text">>), Msg("null", <<"text">>)}, t \in {<<>>, <<"empty", "text">>} }
  \cup { [fault |-> TRUE, messages |-> <<Msg("text", <<>>)>>, tools |-> <<>>],
         [fault |-> FALSE, messages |-> <<>>, tools |-> <<>>] }
Call(kind, name) == [kind |-> kind, name |-> name]
Ch(content, refusal, calls, audio) ==
  [content |-> content, refusal |-> refusal, calls |-> calls, audio |-> audio]
ChatAnswers ==
  { <<Ch(co, re, ca, FALSE)>> : co \in {"null", "empty", "text", "other"}, re \in {"null", "text"},
      ca \in {<<>>, <<Call("object", "fn"), Call("object", "")>>, <<Call("object", "fn"), Call("list", "fn")>>,
              <<Call("custom", "fn")>>} }
  \cup { <<Ch("text", "null", <<>>, FALSE), Ch("text", "null", <<Call("object", "fn")>>, a)>> : a \in BOOLEAN }

Chat == INSTANCE ChatProxy WITH
  Bodies <- ChatBodies, Answers <- ChatAnswers,
  pc <- v1, body <- v2, forward <- v3, answer <- v4, out <- v5, todo <- v6, decisions <- v7, reply <- v8

-----------------------------------------------------------------------------
\* With and without defaults, items that override them in both directions, an item that stays
\* incomplete, each semantic.
E(s, a, m) == [subject |-> s, action |-> a, accepts |-> m]
Semantics == {"execute_all", "deny_on_first_deny", "permit_on_first_permit"}
BatchesSent ==
  { [defaults |-> d, items |-> <<E(FALSE, TRUE, m), E(TRUE, FALSE, "silent")>>, semantic |-> s] :
      d \in {E(TRUE, FALSE, "yes"), E(TRUE, TRUE, "no"), E(FALSE, TRUE, "yes")},
      m \in {"no", "silent"}, s \in Semantics }
  \cup { [defaults |-> E(TRUE, TRUE, m), items |-> <<>>, semantic |-> "execute_all"] : m \in {"yes", "silent"} }
  \cup { [defaults |-> E(TRUE, TRUE, "yes"), items |-> <<E(TRUE, TRUE, "silent")>>, semantic |-> "other"],
         [defaults |-> E(TRUE, TRUE, "silent"), items |-> <<E(TRUE, TRUE, "yes"), E(TRUE, TRUE, "no"), E(TRUE, TRUE, "yes")>>,
          semantic |-> "permit_on_first_permit"] }

Pdp == INSTANCE AuthZen WITH
  Batches <- PdpBatches,
  call <- v1, tokens <- v2, refilled <- v3, runs <- v4, calls <- v5

Hooks == INSTANCE AgentHooks WITH
  Docs <- MaxDocs, step <- v1, pc <- v2, found <- v3, docs <- v4, seen <- v5, now <- v6,
  deadline <- v7, wake <- v8, review <- v9, read <- v10, approved <- v11, decidedAt <- v12, crossed <- v13, why <- v14

Tokens == INSTANCE UserTokens WITH
  Keys <- TokenKeys,
  idp <- v1, withdrawn <- v2, cached <- v3, cachedFor <- v4, fetchedFor <- v5, failing <- v6, confirms <- v7

ASSUME PartsAssumption ==
  /\ Access!AccessAssumption /\ Pdp!BatchesAssumption /\ Pdp!BoundsAssumption
  /\ Hooks!BoundsAssumption /\ Tokens!TimesAssumption /\ Engine!RowsAssumption

ASSUME InputsAssumption ==
  /\ Text!LimitsAssumption /\ Pii!InputsAssumption
  /\ Chat!BodiesAssumption /\ Chat!AnswersAssumption

-----------------------------------------------------------------------------
Unused11 == v11 = 0 /\ v12 = 0 /\ v13 = 0 /\ v14 = 0
Unused9 == v9 = 0 /\ v10 = 0 /\ Unused11
Unused8 == v8 = 0 /\ Unused9
Unused6 == v6 = 0 /\ v7 = 0 /\ Unused8

GatewayInit ==
  \/ part = "access" /\ Access!Init /\ Unused11
  \/ part = "engine" /\ Engine!Init /\ Unused9
  \/ part = "text" /\ Text!Init /\ Unused8
  \/ part = "pii" /\ Pii!Init /\ Unused8
  \/ part = "chat" /\ Chat!Init /\ Unused9
  \/ part = "pdp" /\ Pdp!Init /\ Unused6
  \/ part = "hooks" /\ Hooks!Init
  \/ part = "tokens" /\ Tokens!Init /\ Unused8

From11 == <<v11, v12, v13, v14>>
From9 == <<v9, v10, From11>>
From8 == <<v8, From9>>
From6 == <<v6, v7, From8>>

GatewayNext ==
  /\ UNCHANGED part
  /\ \/ part = "access" /\ Access!Next /\ UNCHANGED From11
     \/ part = "engine" /\ Engine!Next /\ UNCHANGED From9
     \/ part = "text" /\ Text!Next /\ UNCHANGED From8
     \/ part = "pii" /\ Pii!Next /\ UNCHANGED From8
     \/ part = "chat" /\ Chat!Next /\ UNCHANGED From9
     \/ part = "pdp" /\ Pdp!Next /\ UNCHANGED From6
     \/ part = "hooks" /\ Hooks!Next
     \/ part = "tokens" /\ Tokens!Next /\ UNCHANGED From8

GatewaySpec == GatewayInit /\ [][GatewayNext]_all

-----------------------------------------------------------------------------
\* auth.py:46, ratelimit.py:52: a revocation takes effect within the time to live, however lookups
\* race, and forgetting a bucket changes nothing for its key.
AccessIsCurrent == part = "access" => Access!AccessIsCurrent

\* engine/pipeline.py:67-150: what a stage releases is clean and what it stops is stopped for cause,
\* with obligations, modes, failure modes and groups combined.
ReleasedIsClean == part = "engine" => Engine!ReleasedIsClean /\ Engine!StoppedForCause

\* The guardrails of secrets, prompt injection, topics and moderation, one after the other: no
\* credential that was looked for goes out, only what was flagged is changed, and injections and
\* harm are acted on wherever they stand and whatever was cut off before or after them.
TextIsGuarded ==
  part = "text" => /\ Text!TypeOK /\ Text!NoCredentialReleased /\ Text!OnlyFlaggedChanged
                   /\ Text!InjectionStopped /\ Text!HarmStopped

\* ai_gateway_pii/guardrail.py: nothing that a project looks for is released where it is redacted,
\* the rest keeps its place and its text in batches as in single calls, and no outside tool sees it.
PiiIsRedacted ==
  part = "pii" => Pii!TypeOK /\ Pii!NothingFoundIsReleased /\ Pii!RestKept /\ Pii!ExternalNeverSees

\* routers/openai_proxy.py: the provider is sent what the checks released, the caller gets what they
\* released of the answer, each text in its place, and the headers tell the strongest decision.
ChatIsReleased ==
  part = "chat" => /\ Chat!TypeOK /\ Chat!ProviderSeesReleased /\ Chat!DeliveredIsReleased
                   /\ Chat!HeadersTellChanges

\* routers/authzen.py: a permit in a batch is for what its item, with the defaults, asked; the batch
\* ends where its semantic says; and evaluations cost as many tokens as the pipeline runs.
PermitsAreAsked == part = "pdp" => Pdp!PermitsAreAsked

\* guardrail_sdk/hooks.py, client.py: what was held is used only if that very step was approved,
\* documents keep their places, and a client gives up only when its time is over.
HooksWait == part = "hooks" => Hooks!HooksWait

\* verification/user_tokens.py: a withdrawn key is refused once the cache is too old, whoever fetches
\* and whatever fails, and made-up keys do not make the gateway flood the provider.
KeysAreFresh == part = "tokens" => Tokens!KeysAreFresh
=============================================================================
