------------------------------ MODULE FrontEnd ------------------------------
(***************************************************************************)
(* `engine run` and `engine inspect` up to the loading of the model:       *)
(* cmd_run and cmd_inspect of src/app/cli.c.  A backend is chosen, the     *)
(* model described and planned; for a run the tokenizer is built from the  *)
(* container and the prompt encoded.  The container is opened and closed   *)
(* again by the probe, by inspect and for the tokenizer.  An application   *)
(* may have registered backends of its own before.                         *)
(***************************************************************************)
EXTENDS Registry, Gguf, Prompt

CONSTANTS Files,      \* [size, head, kv, tensors, arch, keys, config, template, tks]
          Extras,     \* backends an application registers
          Tokenizers(_),  \* what the tokenizer keys of a container may hold, by its tks
          Options(_),     \* [prompt, system, chat, think], chat -1, 0 or 1; by tokenizer
          Cap         \* ids of a prompt, 4096

VARIABLES cmd,        \* "run" or "inspect"
          at,         \* "start", "probe", "caps", "inspect", "plan", "tokenizer",
                      \* "encode", "encoded", "exit"
          best,       \* the backend eng_model_probe has chosen so far
          pi,         \* the backend it asks
          scores,     \* what each one answered
          tk, chat,
          opt, enc    \* the options, and the encoded prompt

mainVars == <<file, cmd, at, best, pi, scores, tk, chat, opt, enc>>
feVars   == <<regVars, ggufVars, mainVars>>

NoTok  == [tok |-> <<>>]
NoOpt  == [chat |-> -1]
Nobody == [at |-> 0, score |-> 0]

FrontInit ==
    /\ RegistryInit /\ GgufInit
    /\ file \in Files /\ cmd \in {"run", "inspect"}
    /\ at = "start" /\ best = Nobody /\ pi = 0 /\ scores = <<>>
    /\ tk = NoTok /\ chat = NoChat /\ opt = NoOpt /\ enc = Failed

Stay(v) == UNCHANGED <<file, cmd, v>>

RegisterExtra(b) ==
    /\ at = "start"
    /\ Register(b)
    /\ UNCHANGED <<ggufVars, mainVars>>

\* eng_model_probe begins.
StartProbe ==
    /\ at = "start"
    /\ REG' = WithBuiltins /\ reg_ready' = TRUE
    /\ at' = "probe" /\ pi' = 1 /\ best' = Nobody
    /\ Stay(<<ggufVars, scores, tk, chat, opt, enc>>)

Scored(s) ==
    /\ best' = Better(best, s, pi) /\ scores' = Append(scores, s) /\ pi' = pi + 1
    /\ Stay(<<regVars, at, tk, chat, opt, enc>>)

Asking == at = "probe" /\ pi <= Len(REG)

ProbeConfig ==
    /\ Asking /\ REG[pi].name = Kimi.name
    /\ Scored(KimiScore(file.config)) /\ UNCHANGED ggufVars

ProbeExtra ==
    /\ Asking /\ REG[pi].name \notin {Kimi.name, Qwen3.name}
    /\ Scored(REG[pi].score) /\ UNCHANGED ggufVars

\* The chosen backend describes the model with the container open.
Qwen3Chosen == REG[best.at].name = Qwen3.name

\* The container is needed: qwen3_probe, qwen3_inspect, cmd_run.
Needed == \/ Asking /\ REG[pi].name = Qwen3.name
          \/ at = "inspect" /\ Qwen3Chosen
          \/ at = "tokenizer"

OpenContainer == Needed /\ (OpenGguf \/ OpenRefused) /\ UNCHANGED <<regVars, mainVars>>

OpenStep == GgufStep /\ UNCHANGED <<regVars, mainVars>>

\* general.architecture decides.
ProbeContainer ==
    /\ Asking /\ REG[pi].name = Qwen3.name /\ gpc \in {"have", "failed"}
    /\ Scored(IF gpc = "have" /\ file.arch = "qwen3" THEN 100 ELSE 0)
    /\ CloseGguf

\* Nobody claims the file, or a run is asked of a backend that has none.
ProbeDone ==
    /\ at = "probe" /\ pi > Len(REG)
    /\ at' = IF best = Nobody \/ (cmd = "run" /\ ~REG[best.at].executes) THEN "exit" ELSE "inspect"
    /\ Stay(<<regVars, ggufVars, best, pi, scores, tk, chat, opt, enc>>)

\* inspect of the built-in qwen3, which needs its keys, and of any other.
InspectContainer ==
    /\ at = "inspect" /\ Qwen3Chosen /\ gpc \in {"have", "failed"}
    /\ at' = IF gpc = "have" /\ file.keys THEN "plan" ELSE "exit"
    /\ CloseGguf
    /\ Stay(<<regVars, best, pi, scores, tk, chat, opt, enc>>)

InspectOther ==
    /\ at = "inspect" /\ ~Qwen3Chosen
    /\ at' \in {"plan", "exit"}
    /\ Stay(<<regVars, ggufVars, best, pi, scores, tk, chat, opt, enc>>)

\* eng_plan may find no viable plan; inspect ends here.
MakePlan ==
    /\ at = "plan"
    /\ at' \in IF cmd = "run" THEN {"tokenizer", "exit"} ELSE {"exit"}
    /\ Stay(<<regVars, ggufVars, best, pi, scores, tk, chat, opt, enc>>)

\* The tokenizer is built and the template looked at before the close.
MakeTokenizer ==
    /\ at = "tokenizer" /\ gpc \in {"have", "failed"}
    /\ IF gpc = "have" /\ file.keys
       THEN /\ at' = "encode"
            /\ tk' \in Tokenizers(file.tks) /\ chat' = Detect(tk', file.template)
       ELSE at' = "exit" /\ UNCHANGED <<tk, chat>>
    /\ CloseGguf
    /\ Stay(<<regVars, best, pi, scores, opt, enc>>)

WantChat(o) == IF o.chat >= 0 THEN o.chat = 1 ELSE o.system # <<>> \/ chat # NoChat

Formatted(o) == IF WantChat(o) THEN Build(tk, chat, o.system, o.prompt, o.think, Cap) ELSE Failed

\* The prompt is formatted, or encoded as it is when it is not to be or does
\* not fit.  One that cannot be encoded, or encodes to nothing, ends the run.
EncodePrompt ==
    /\ at = "encode"
    /\ opt' \in Options(tk)
    /\ enc' = IF Formatted(opt').ok THEN Formatted(opt') ELSE Encode(tk, opt'.prompt, Cap, TRUE)
    /\ at' = IF enc'.ids = <<>> THEN "exit" ELSE "encoded"
    /\ Stay(<<regVars, ggufVars, best, pi, scores, tk, chat>>)

FrontNext ==
    \/ \E b \in Extras : RegisterExtra(b)
    \/ StartProbe \/ ProbeConfig \/ ProbeExtra \/ OpenContainer \/ OpenStep \/ ProbeContainer
    \/ ProbeDone \/ InspectContainer \/ InspectOther \/ MakePlan \/ MakeTokenizer \/ EncodePrompt

FrontSpec == FrontInit /\ [][FrontNext]_feVars

-----------------------------------------------------------------------------
(* Properties.                                                             *)

\* The built-ins are the first two backends whatever was registered before
\* and names are unique, so no backend shadows another; and the one chosen is
\* the first of those with the highest positive answer.
ProbeBest ==
    /\ reg_ready => Len(REG) >= 2 /\ SubSeq(REG, 1, 2) = <<Kimi, Qwen3>>
    /\ \A i, j \in DOMAIN REG : REG[i].name = REG[j].name => i = j
    /\ Len(REG) <= MaxBackends
    /\ at \notin {"start", "probe"} =>
         IF \A i \in DOMAIN scores : scores[i] <= 0 THEN best = Nobody /\ at = "exit"
         ELSE /\ \A i \in DOMAIN scores : scores[i] <= scores[best.at]
              /\ \A i \in 1..best.at - 1 : scores[i] < scores[best.at]

\* What the prompt should become; formatted, part by part.
Expected(formatted) ==
    LET parts  == Parts(chat, opt.system, opt.prompt, opt.think)
        ids(p) == IF "id" \in DOMAIN p THEN <<p.id>> ELSE Reference(tk, p.text, FALSE)
    IN  IF formatted THEN FlattenSeq([k \in DOMAIN parts |-> ids(parts[k])])
        ELSE Reference(tk, opt.prompt, TRUE)

Fits(ids) == Len(ids) <= Cap /\ Absent \notin ToSet(ids)

\* The ids are those of the published pattern and of a merge table keyed by
\* pairs, although the code looks merges up by their concatenation, joins one
\* pair at a time and searches for specials again at every fragment; a prompt
\* is formatted whenever it was to be and fits, and never cut short; and raw
\* ids decode to the prompt.
EncodeExact ==
    opt # NoOpt /\ ~BlankLine(opt.prompt) =>
        LET formatted == WantChat(opt) /\ chat # NoChat /\ Fits(Expected(TRUE))
            ids       == Expected(formatted)
        IN  IF Fits(ids) THEN /\ enc = [ok |-> TRUE, ids |-> ids]
                              /\ ~formatted => Decode(tk, enc.ids) = opt.prompt
            ELSE enc = Failed
=============================================================================
