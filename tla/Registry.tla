------------------------------ MODULE Registry ------------------------------
(***************************************************************************)
(* The table of model backends, src/models/registry.c, and what the two    *)
(* built-in ones say of a file when it is probed (kimi_probe, qwen3_probe).*)
(* A backend is [name, usable, executes, runnable, score]: whether it has  *)
(* probe, inspect and caps; whether it claims ENG_MCAP_EXECUTE; whether it *)
(* has the whole run path; what its probe returns (the built-ins' probes   *)
(* look at the file instead).                                              *)
(***************************************************************************)
EXTENDS Integers, SequencesExt

CONSTANT MaxBackends    \* ENG_MAX_BACKENDS, 16

VARIABLES REG, reg_ready

regVars == <<REG, reg_ready>>

Kimi  == [name |-> "kimi-k3", usable |-> TRUE, executes |-> FALSE, runnable |-> FALSE, score |-> 0]
Qwen3 == [name |-> "qwen3", usable |-> TRUE, executes |-> TRUE, runnable |-> TRUE, score |-> 0]

RegistryInit == REG = <<>> /\ reg_ready = FALSE

\* The checks that need no table.
Acceptable(b) == b.usable /\ (b.executes => b.runnable)

HasName(r, n) == \E i \in DOMAIN r : r[i].name = n

\* Appending to the table r: a full table and a name that is taken refuse.
Put(r, b) ==
    IF ~Acceptable(b) \/ Len(r) >= MaxBackends \/ HasName(r, b.name) THEN r
    ELSE Append(r, b)

\* The table after eng_model_register_builtins, which every entry point calls.
WithBuiltins == IF reg_ready THEN REG ELSE Put(Put(REG, Kimi), Qwen3)

\* eng_model_register.  A backend that is not acceptable is refused before
\* the built-ins are put.
Register(b) ==
    IF Acceptable(b) THEN REG' = Put(WithBuiltins, b) /\ reg_ready' = TRUE
    ELSE UNCHANGED regVars

\* kimi_probe: the signature is the two attention sizes together; a
\* model_type that names kimi outweighs it.
KimiScore(config) ==
    IF ~config.json THEN 0
    ELSE IF config.kimi THEN 100
    ELSE IF config.kda /\ config.mla THEN (IF config.moe THEN 95 ELSE 85)
    ELSE 0

\* Mutant: a later backend with the same score replaces the first.
BetterLast(best, s, i) == IF s > 0 /\ s >= best.score THEN [at |-> i, score |-> s] ELSE best

\* One iteration of eng_model_probe: the i-th backend scored s.
Better(best, s, i) == IF s > 0 /\ s > best.score THEN [at |-> i, score |-> s] ELSE best
=============================================================================
