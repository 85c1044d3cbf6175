---------------------------- MODULE PiiRedaction ----------------------------
(***************************************************************************)
(* The ai-gateway-pii guardrail (plugins/ai_gateway_pii/guardrail.py) and  *)
(* the redaction service it calls (ai-gateway/instant-redaction-service):  *)
(* the calls of one evaluation run side by side, each looks the project up *)
(* for itself, and any of them may fail.                                   *)
(*                                                                         *)
(* A text is a sequence of atoms: "w" plain, "e" an email address, "p" a   *)
(* phone number, "c" a match of the project's own pattern, "x" an email    *)
(* address inside such a match, "r" what a redaction leaves.               *)
(***************************************************************************)
EXTENDS Sequences, Naturals, FiniteSets, SequencesExt, FiniteSetsExt

CONSTANTS
  Payloads,    \* [stage, parts, tool]; see Payload
  OptionSets,  \* the guardrail's configuration for the stage, see Options
  Projects,    \* project configurations a lookup may find, see Project
  MaxBatch     \* chunks in one /text/batch call

Atoms == {"w", "e", "p", "c", "x", "r"}
Types == {"EMAIL", "PHONE", "CUSTOM"}
\* `path' is the printed JSON path of a leaf, `place' the part of a payload.
Part == [id : Nat, place : {"text", "user", "assistant", "chunk", "arguments", "result"},
         path : STRING, text : Seq(Atoms)]
Payload == [stage : {"input", "retrieval", "tool"}, parts : Seq(Part), external : BOOLEAN]
OnDetect == {"modify", "block", "allow"}
Options == [onDetect : OnDetect, blocked : SUBSET Types, roles : SUBSET {"user", "assistant"},
            dropOver : Nat \cup {99}, resultOnDetect : OnDetect, externalOnDetect : {"block", "modify"}]
Project == [entities : SUBSET {"EMAIL", "PHONE"}, custom : BOOLEAN]

InputsAssumption ==
  /\ \A p \in Payloads : p \in Payload
  /\ OptionSets \subseteq Options /\ Projects \subseteq Project /\ MaxBatch \in Nat \ {0}

VARIABLES
  payload, options,
  calls,     \* the calls still out: sets of positions in payload.parts
  answers,   \* position -> [text, found], the parts answered so far
  using,     \* position -> the project its call was answered under
  outcome,   \* "start", "calling", "allow", "modify", "block" or "error"
  released   \* the parts handed on

vars == <<payload, options, calls, answers, using, outcome, released>>

Parts == payload.parts

-----------------------------------------------------------------------------
(* The service: one text under one project.                                *)

\* What an atom is reported as: the project's own patterns only outside of a
\* standard entity's span.
TypeOf(atom, project) ==
  CASE atom \in {"e", "x"} /\ "EMAIL" \in project.entities -> "EMAIL"
    [] atom = "p" /\ "PHONE" \in project.entities -> "PHONE"
    [] atom \in {"c", "x"} /\ project.custom -> "CUSTOM"
    [] OTHER -> "none"

Analyze(text, project) ==
  [text |-> [i \in DOMAIN text |-> IF TypeOf(text[i], project) = "none" THEN text[i] ELSE "r"],
   found |-> SelectSeq([i \in DOMAIN text |-> TypeOf(text[i], project)], LAMBDA t : t # "none")]

Untouched(text) == [text |-> text, found |-> <<>>]

\* POST /text and /text/batch: an answer for each text, matched by item id.
RedactTexts(positions, project) ==
  [i \in positions |-> Analyze(Parts[i].text, project)]

\* POST /json: results are kept by printed path, the last leaf of a path wins;
\* findings are reported once a path.
RedactJson(positions, project) ==
  LET leaves == {i \in positions : Parts[i].text # <<>>}
      last(i) == Max({j \in leaves : Parts[j].path = Parts[i].path})
  IN  [i \in positions |->
         IF i \notin leaves THEN Untouched(Parts[i].text)
         ELSE LET r == Analyze(Parts[last(i)].text, project)
              IN  IF r.found = <<>> THEN Untouched(Parts[i].text) ELSE r]

-----------------------------------------------------------------------------
(* The guardrail: which parts go out in which calls.                       *)

ScannedText(i) == Parts[i].place = "text" \/ Parts[i].place \in options.roles
At(place) == {i \in DOMAIN Parts : Parts[i].place = place}

Chunks == SetToSortSeq({i \in At("chunk") : Parts[i].text # <<>>}, <)
\* Mutant of Batches: the last, shorter batch is not sent.
WholeBatches ==
  {ToSet(SubSeq(Chunks, (b - 1) * MaxBatch + 1, b * MaxBatch)) : b \in 1..(Len(Chunks) \div MaxBatch)}
Batches ==
  {ToSet(SubSeq(Chunks, (b - 1) * MaxBatch + 1, Min({b * MaxBatch, Len(Chunks)}))) :
     b \in 1..((Len(Chunks) + MaxBatch - 1) \div MaxBatch)}

CallsOf ==
  CASE payload.stage = "input" ->
         {{i} : i \in {j \in DOMAIN Parts : ScannedText(j) /\ Parts[j].text # <<>>}}
    [] payload.stage = "retrieval" -> Batches
    [] payload.stage = "tool" -> {At("arguments"), At("result")} \ {{}}

-----------------------------------------------------------------------------
(* What it makes of the answers.                                           *)

Found(i) == IF i \in DOMAIN answers THEN ToSet(answers[i].found) ELSE {}
FoundIn(s) == UNION {Found(i) : i \in s}
Redacted(i) == IF Found(i) = {} THEN Parts[i] ELSE [Parts[i] EXCEPT !.text = answers[i].text]

Dropped(i) ==
  \/ Found(i) # {} /\ Len(answers[i].found) > options.dropOver
  \/ Found(i) \cap options.blocked # {}

Put(keep, rewrite) ==
  FlattenSeq([i \in DOMAIN Parts |->
    IF i \notin keep THEN <<>> ELSE <<IF i \in rewrite THEN Redacted(i) ELSE Parts[i]>>])

\* The rule for a part of a tool call; what goes to an external tool has its own.
DetectRule(place) ==
  IF place = "result" THEN options.resultOnDetect
  ELSE IF payload.external THEN options.externalOnDetect ELSE options.onDetect

Verdict(decision, parts) == outcome' = decision /\ released' = parts

DecideText ==
  LET found == FoundIn(DOMAIN answers)
  IN  IF found = {} THEN Verdict("allow", Parts)
      ELSE IF found \cap options.blocked # {} \/ options.onDetect = "block" THEN Verdict("block", <<>>)
      ELSE IF options.onDetect = "allow" THEN Verdict("allow", Parts)
      ELSE Verdict("modify", Put(DOMAIN Parts, DOMAIN answers))

DecideRetrieval ==
  IF FoundIn(DOMAIN answers) = {} THEN Verdict("allow", Parts)
  ELSE IF options.onDetect = "block" THEN Verdict("block", <<>>)
  ELSE IF options.onDetect = "allow" THEN Verdict("allow", Parts)
  ELSE Verdict("modify", Put({i \in DOMAIN Parts : ~Dropped(i)}, DOMAIN Parts))

DecideTool ==
  LET hit == {place \in {"arguments", "result"} : FoundIn(At(place)) # {}}
      rewritten == {place \in hit : DetectRule(place) = "modify"}
  IN  IF \E place \in hit : \/ FoundIn(At(place)) \cap options.blocked # {}
                            \/ DetectRule(place) = "block"
      THEN Verdict("block", <<>>)
      ELSE IF rewritten = {} THEN Verdict("allow", Parts)
      ELSE Verdict("modify", Put(DOMAIN Parts, UNION {At(place) : place \in rewritten}))

-----------------------------------------------------------------------------

Init ==
  /\ payload \in Payloads /\ options \in OptionSets
  /\ calls = {} /\ answers = <<>> /\ using = <<>>
  /\ outcome = "start" /\ released = <<>>

Start ==
  /\ outcome = "start" /\ outcome' = "calling"
  /\ calls' = CallsOf
  /\ UNCHANGED <<payload, options, answers, using, released>>

CallAnswered(call) ==
  /\ outcome = "calling"
  /\ \E project \in Projects :
       LET got == IF payload.stage = "tool" THEN RedactJson(call, project) ELSE RedactTexts(call, project)
       IN  /\ answers' = [i \in DOMAIN answers \cup call |-> IF i \in call THEN got[i] ELSE answers[i]]
           /\ using' = [i \in DOMAIN using \cup call |-> IF i \in call THEN project ELSE using[i]]
  /\ calls' = calls \ {call}
  /\ UNCHANGED <<payload, options, outcome, released>>

\* Unreachable, another status than 200, or a body without what was asked for.
CallFails ==
  /\ outcome = "calling" /\ calls # {}
  /\ Verdict("error", <<>>)
  /\ UNCHANGED <<payload, options, calls, answers, using>>

Decide ==
  /\ outcome = "calling" /\ calls = {}
  /\ CASE payload.stage = "input" -> DecideText
       [] payload.stage = "retrieval" -> DecideRetrieval
       [] payload.stage = "tool" -> DecideTool
  /\ UNCHANGED <<payload, options, calls, answers, using>>

Next == Start \/ (\E call \in calls : CallAnswered(call)) \/ CallFails \/ Decide

Spec == Init /\ [][Next]_vars

-----------------------------------------------------------------------------

TypeOK ==
  /\ payload \in Payloads /\ options \in OptionSets
  /\ calls \subseteq SUBSET DOMAIN Parts
  /\ DOMAIN answers = DOMAIN using /\ DOMAIN answers \subseteq DOMAIN Parts
  /\ outcome \in {"start", "calling", "allow", "modify", "block", "error"}
  /\ released \in Seq(Part)

Over == outcome \in {"allow", "modify"}
Was(id) == CHOOSE i \in DOMAIN Parts : Parts[i].id = id
\* Whether a part is left as it is although something was found in it.
Allowed(place) ==
  IF payload.stage = "tool" THEN DetectRule(place) = "allow" ELSE options.onDetect = "allow"
Detected(i) == IF i \in DOMAIN using THEN Analyze(Parts[i].text, using[i]).found ELSE <<>>

(* Every text handed on was looked at under a project of its call and is   *)
(* free of everything that project names, unless the configuration says to *)
(* let it pass: no text is lost between batches, parts and their answers   *)
(* (guardrail.py:199-248, 252-306, 323-383).                               *)
NothingFoundIsReleased ==
  Over =>
    \A n \in DOMAIN released :
      LET i == Was(released[n].id)
      IN  ~Allowed(Parts[i].place) /\ (payload.stage = "input" => ScannedText(i)) /\ Parts[i].text # <<>> =>
            /\ i \in DOMAIN using
            /\ Analyze(released[n].text, using[i]).found = <<>>

(* What is handed on is the payload in its order: a part is changed only   *)
(* where something was found in it, and there only in what was found; a    *)
(* part is missing only when it is a chunk with a blocked entity or too    *)
(* many of them, and then it is missing (guardrail.py:256-297).            *)
RestKept ==
  Over =>
    /\ \A m, n \in DOMAIN released : m < n => Was(released[m].id) < Was(released[n].id)
    /\ \A n \in DOMAIN released :
         LET i == Was(released[n].id)
         IN  /\ Len(released[n].text) = Len(Parts[i].text)
             /\ \A a \in DOMAIN Parts[i].text :
                  \/ released[n].text[a] = Parts[i].text[a]
                  \/ TypeOf(Parts[i].text[a], using[i]) # "none"
    /\ \A i \in DOMAIN Parts :
         (\A n \in DOMAIN released : released[n].id # Parts[i].id) <=>
           /\ outcome = "modify" /\ Parts[i].place = "chunk"
           /\ \/ Len(Detected(i)) > options.dropOver
              \/ ToSet(Detected(i)) \cap options.blocked # {}

(* An entity found in the arguments of a tool call never reaches a tool    *)
(* outside, whatever the rule for arguments says (guardrail.py:348-349).   *)
ExternalNeverSees ==
  Over /\ payload.external =>
    \A n \in DOMAIN released :
      released[n].place = "arguments" /\ Was(released[n].id) \in DOMAIN using =>
        Analyze(released[n].text, using[Was(released[n].id)]).found = <<>>
=============================================================================
