------------------------------ MODULE ChatProxy ------------------------------
(***************************************************************************)
(* One chat completion through the proxy (gateway/proxy.py): one input     *)
(* stage over every text found in the request, the provider, then a stage  *)
(* for each text and each tool call of its answer.                         *)
(*                                                                         *)
(* A text is known by the place it came from and the stage that released   *)
(* it.  Places of a request are <<"message", i>>, <<"call", i, j>> (the    *)
(* arguments of an earlier tool call) and <<"tool", k>> (a description);   *)
(* of an answer <<"content", c>>, <<"refusal", c>>, <<"args", c, j>> and   *)
(* <<"other", c>> for all that the provider adds (logprobs and the like).  *)
(***************************************************************************)
EXTENDS Sequences, Naturals, SequencesExt

CONSTANTS
  Bodies,    \* request bodies, see Body
  Answers    \* provider answers: sequences of choices, see Choice

(* `fault' is what _refuse_unsupported_request(), the list of models or a  *)
(* role turns away.                                                        *)
Body == [fault : BOOLEAN,
         messages : Seq([content : {"null", "text", "image"}, calls : Seq({"text", "empty"})]),
         tools : Seq({"text", "empty"})]
Choice == [content : {"null", "empty", "text", "other"}, refusal : {"null", "text"},
           calls : Seq([kind : {"object", "list", "custom"}, name : {"fn", ""}]),
           audio : BOOLEAN]

BodiesAssumption == \A b \in Bodies : b \in Body
AnswersAssumption == \A a \in Answers : a \in Seq(Choice)

VARIABLES
  pc,
  body,
  forward,    \* what the provider was sent: a text for each place; <<>> when nothing was
  answer,     \* the provider's choices
  out,        \* the rebuilt answer: a text for each place kept
  todo,       \* the places of `out' still to be checked, in order
  decisions,  \* stage -> the strongest decision so far, the X-Guardrail headers
  reply       \* [status, texts]; status 0 while the call runs

vars == <<pc, body, forward, answer, out, todo, decisions, reply>>

Raw(p) == [from |-> p, stage |-> "none", modified |-> FALSE]
Nothing == [p \in {} |-> Raw(p)]
Running == [status |-> 0, texts |-> Nothing]

-----------------------------------------------------------------------------
(* The request.                                                            *)

\* messages[i]: a null content is guarded as "" and left alone afterwards.
MessagePlaces(b) == [i \in 1..Len(b.messages) |-> <<"message", i>>]
CallPlaces(b) ==
  FlattenSeq([i \in 1..Len(b.messages) |->
    LET calls == b.messages[i].calls
    IN  SelectSeq([j \in 1..Len(calls) |-> <<"call", i, j>>], LAMBDA p : calls[p[3]] = "text")])
ToolPlaces(b) ==
  SelectSeq([k \in 1..Len(b.tools) |-> <<"tool", k>>], LAMBDA p : b.tools[p[2]] = "text")

Extras(b) == CallPlaces(b) \o ToolPlaces(b)
Guarded(b) == MessagePlaces(b) \o Extras(b)

\* The texts a provider sees of a body as it came.
Carried(b) == {p \in ToSet(Guarded(b)) : p[1] = "message" => b.messages[p[2]].content # "null"}

\* Mutant of PutBack: the extras' texts are taken from the start of the list.
PutBackUnshifted(b, redacted) ==
  [p \in Carried(b) |->
     IF p[1] = "message" THEN redacted[p[2]]
     ELSE redacted[CHOOSE n \in 1..Len(Extras(b)) : Extras(b)[n] = p]]
\* The input stage's texts, put back one by one where they came from.
PutBack(b, redacted) ==
  [p \in Carried(b) |->
     IF p[1] = "message" THEN redacted[p[2]]
     ELSE redacted[Len(b.messages) + CHOOSE n \in 1..Len(Extras(b)) : Extras(b)[n] = p]]

Unsupported(b) == b.fault \/ b.messages = <<>>
                   \/ \E i \in 1..Len(b.messages) : b.messages[i].content = "image"

-----------------------------------------------------------------------------
(* The answer, rebuilt from an allowlist.                                  *)

Withheld(a) ==
  \E c \in 1..Len(a) :
    \/ a[c].audio
    \/ a[c].content = "other"
    \/ \E j \in 1..Len(a[c].calls) : a[c].calls[j].kind = "custom"

\* Every text of the provider's answer, in the order in which the proxy checks them.
CheckedOf(a, c) ==
  (IF a[c].content = "text" THEN << <<"content", c>> >> ELSE <<>>)
  \o (IF a[c].refusal = "text" THEN << <<"refusal", c>> >> ELSE <<>>)
  \o [j \in 1..Len(a[c].calls) |-> <<"args", c, j>>]
Checked(a) == FlattenSeq([c \in 1..Len(a) |-> CheckedOf(a, c)])
Sanitize(a) == [p \in ToSet(Checked(a)) |-> Raw(p)]

NotAnObject(p) == p[1] = "args" /\ answer[p[2]].calls[p[3]].kind # "object"
StageOf(p) == IF p[1] = "args" THEN "tool" ELSE "output"
\* The action of a tool call is its name, as in the SDK's before_tool.
ActionOf(p) == IF p[1] # "args" THEN "llm.chat"
               ELSE IF answer[p[2]].calls[p[3]].name = "" THEN "unknown" ELSE "fn"

Order == [allow |-> 0, modify |-> 1, escalate |-> 2, block |-> 3]
Strongest(old, new) == IF old = "none" \/ Order[new] > Order[old] THEN new ELSE old

-----------------------------------------------------------------------------

Init ==
  /\ pc = "admit"
  /\ body \in Bodies
  /\ forward = Nothing /\ answer = <<>> /\ out = Nothing /\ todo = <<>>
  /\ decisions = [s \in {"input", "output", "tool"} |-> "none"]
  /\ reply = Running

End(status, texts) == reply' = [status |-> status, texts |-> texts] /\ pc' = "done"
Refuse(status) == End(status, Nothing) /\ UNCHANGED <<body, forward, answer, out, todo, decisions>>

\* The router and the checks of the body: no proxy, no key, over the limit, no JSON object.
TurnAway ==
  /\ pc = "admit"
  /\ \E status \in {404, 401, 429, 400} : Refuse(status)

Admit ==
  /\ pc = "admit"
  /\ IF Unsupported(body) THEN Refuse(400)
     ELSE pc' = "input" /\ UNCHANGED <<body, forward, answer, out, todo, decisions, reply>>

\* What _stage() makes of an outcome that releases nothing: held for review or for a
\* confirmation (202), blocked, no snapshot, a request that does not validate.
StageRefuses ==
  /\ \/ pc = "input"
     \/ pc = "check" /\ todo # <<>> /\ ~NotAnObject(Head(todo))
  /\ \E status \in {403, 503, 422, 400} : Refuse(status)

InputReleased ==
  /\ pc = "input"
  /\ \E d \in {"allow", "modify"} :
       LET redacted == [n \in 1..Len(Guarded(body)) |->
                          [from |-> Guarded(body)[n], stage |-> "input", modified |-> d = "modify"]]
       IN  /\ forward' = PutBack(body, redacted)
           /\ decisions' = [decisions EXCEPT !.input = d]
  /\ pc' = "upstream"
  /\ UNCHANGED <<body, answer, out, todo, reply>>

\* Unreachable, without JSON, not understood; or the provider's own error, passed through.
UpstreamFails ==
  /\ pc = "upstream"
  /\ \E status \in {502, 429} : Refuse(status)

UpstreamAnswers ==
  /\ pc = "upstream"
  /\ \E a \in Answers :
       /\ answer' = a
       /\ IF Withheld(a)
          THEN End(403, Nothing) /\ UNCHANGED <<out, todo>>
          ELSE /\ out' = Sanitize(a) /\ todo' = Checked(a)
               /\ pc' = "check" /\ UNCHANGED reply
  /\ UNCHANGED <<body, forward, decisions>>

\* Arguments that are no JSON object are withheld before any stage sees them.
ArgumentsRefused ==
  /\ pc = "check" /\ todo # <<>> /\ NotAnObject(Head(todo))
  /\ Refuse(403)

CheckReleased ==
  /\ pc = "check" /\ todo # <<>> /\ ~NotAnObject(Head(todo))
  /\ \E d \in {"allow", "modify"} :
       LET p == Head(todo)  s == StageOf(p)
       IN  /\ out' = [out EXCEPT ![p] = [from |-> p, stage |-> <<s, ActionOf(p)>>,
                                         modified |-> d = "modify"]]
           /\ decisions' = [decisions EXCEPT ![s] = Strongest(@, d)]
  /\ todo' = Tail(todo)
  /\ UNCHANGED <<pc, body, forward, answer, reply>>

Deliver ==
  /\ pc = "check" /\ todo = <<>>
  /\ End(200, out)
  /\ UNCHANGED <<body, forward, answer, out, todo, decisions>>

Next == TurnAway \/ Admit \/ StageRefuses \/ InputReleased \/ UpstreamFails
          \/ UpstreamAnswers \/ ArgumentsRefused \/ CheckReleased \/ Deliver

Spec == Init /\ [][Next]_vars

-----------------------------------------------------------------------------

TypeOK ==
  /\ pc \in {"admit", "input", "upstream", "check", "done"}
  /\ body \in Bodies /\ answer \in Answers \cup {<<>>}
  /\ decisions \in [{"input", "output", "tool"} -> {"none", "allow", "modify"}]

(* The provider gets each guarded text of the request as the input stage   *)
(* released it, and at the place it came from (proxy.py:168-186 flattens   *)
(* three kinds of places into one list of messages and takes it apart      *)
(* again by position).                                                     *)
ProviderSeesReleased ==
  forward # Nothing =>
    /\ DOMAIN forward = Carried(body)
    /\ \A p \in Carried(body) : forward[p].from = p /\ forward[p].stage = "input"

(* What is delivered was released, each text by the output stage and each  *)
(* call's arguments by the tool stage under the call's own name, whatever  *)
(* else the provider put in its answer (proxy.py:209-243).                 *)
DeliveredIsReleased ==
  reply.status = 200 =>
    \A p \in DOMAIN reply.texts :
      LET t == reply.texts[p]
      IN  /\ t.from = p
          /\ p[1] \in {"content", "refusal"} => t.stage = <<"output", "llm.chat">>
          /\ p[1] = "args" => /\ t.stage = <<"tool", IF answer[p[2]].calls[p[3]].name = ""
                                                     THEN "unknown" ELSE "fn">>
                              /\ answer[p[2]].calls[p[3]].kind = "object"
          /\ p[1] # "other"

(* The headers of a delivered answer say "modify" for a stage exactly when *)
(* that stage changed some text of it (proxy.py:219, 240, 247): a caller   *)
(* that shows a redaction notice relies on it.                             *)
HeadersTellChanges ==
  reply.status = 200 =>
    \A s \in {"output", "tool"} :
      (decisions[s] = "modify") <=>
        \E p \in DOMAIN reply.texts :
          reply.texts[p].modified /\ (s = "tool" <=> p[1] = "args")
=============================================================================
