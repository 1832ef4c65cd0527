------------------------------- MODULE Decode -------------------------------
(***************************************************************************)
(* The generation loop of src/cli/k3_run.c: incremental decode, n-gram     *)
(* speculation, the hybrid draft model, and a conversation carried from    *)
(* one process to the next in a state file.                                *)
(*                                                                         *)
(* The network is a function from a context to the greedy next token.      *)
(* What forward really sees is state: the recurrent matrices (ks), which   *)
(* are not positional and can only be extended, and the KV rows (kv),      *)
(* which are overwritten in place.  Both are represented by the tokens     *)
(* they were computed from, and a forward whose two histories differ, or   *)
(* which absorbed a token with an expert dropped, yields Garbage.          *)
(***************************************************************************)
EXTENDS Integers, Sequences

CONSTANTS Tok,            \* token ids
          Garbage,        \* what a forward over inconsistent state yields
          Nets,           \* networks
          Greedy(_, _),   \* the network's argmax after a context
          Archs,          \* config fingerprints
          Prompts,        \* token sequences
          Gens,           \* values of --gen
          Options,        \* command lines, see Option
          MaxRuns         \* bound: processes started

SpecMax == 8              \* K3_SPEC_MAX

\* --spec (0 when absent), --draft-trunk and --incremental, as main settles
\* them: without --incremental it ignores both, and a draft model implies --spec.
Option == {o \in [spec : 0..SpecMax, hybrid : BOOLEAN, incremental : BOOLEAN] :
             (o.hybrid => o.spec > 0) /\ (o.spec > 0 => o.incremental)}

ASSUME DecodeAssumption ==
    /\ Garbage \notin Tok
    /\ Prompts \subseteq Seq(Tok) /\ \A p \in Prompts : Len(p) > 0
    /\ Gens \subseteq Nat /\ MaxRuns \in Nat /\ Options \subseteq Option

VARIABLES net,
          stage,   \* "off", "run", "saving"
          exit,    \* of the last process: its code
          runs,
          arch, gen, opt,
          seq, nout,
          first,   \* g = 0
          cached, ks, kv,          \* the exact model's carried state
          born,                    \* the fingerprint it was built under
          dcached, dks, dkv,       \* the draft model's
          resumed,                 \* load_state
          drops,                   \* k3_expert_drops > 0
          tainted,                 \* history: a drop in this run or one it continues
          dfault,                  \* history: a draft sweep failed in this run
          made,                    \* the positions of seq the engine generated
          file

run   == <<arch, gen, opt, seq, nout, first, made, resumed>>
exact == <<cached, ks, kv, born>>
draft == <<dcached, dks, dkv, dfault>>
vars  == <<net, stage, exit, runs, run, exact, draft, drops, tainted, file>>

Token == Tok \union {Garbage}

NoFile == [kind |-> "none"]
Killed == 137

Init ==
    /\ net \in Nets
    /\ stage = "off" /\ exit = 0 /\ runs = 0
    /\ arch = (CHOOSE a \in Archs : TRUE) /\ born = arch
    /\ gen = 0 /\ opt = (CHOOSE o \in Options : TRUE)
    /\ seq = <<>> /\ nout = 0 /\ first = TRUE /\ made = {} /\ resumed = FALSE
    /\ cached = 0 /\ ks = <<>> /\ kv = <<>>
    /\ dcached = 0 /\ dks = <<>> /\ dkv = <<>>
    /\ drops = FALSE /\ tainted = FALSE /\ dfault = FALSE
    /\ file = NoFile

-----------------------------------------------------------------------------
(* forward.                                                                *)

\* The KV rows after ids are written from position base on.
Rows(v, base, ids) ==
    [i \in 1..(IF Len(v) > base + Len(ids) THEN Len(v) ELSE base + Len(ids)) |->
        IF i > base /\ i <= base + Len(ids) THEN ids[i - base]
        ELSE IF i <= Len(v) THEN v[i] ELSE Garbage]

\* What a sweep over ids leaves behind: the ids, or nothing sound.
Absorbed(ids, bad) == IF bad THEN [i \in DOMAIN ids |-> Garbage] ELSE ids

\* The argmax after the first i of ids, fed on state (k, v) from base.
Arg(k, v, base, ids, i) ==
    LET c == k \o SubSeq(ids, 1, i)
    IN  IF /\ c = SubSeq(Rows(v, base, ids), 1, base + i)
           /\ born = arch
           /\ \A j \in DOMAIN c : c[j] \in Tok
        THEN Greedy(net, c) ELSE Garbage

T     == Len(seq)
Tmax  == T - nout + gen + 1       \* prior + np + gen + 1

KvCap == Tmax
SpecN == opt.spec
Hybrid == opt.hybrid
Incremental == opt.incremental

\* The token that was emitted and not yet fed.
Pending == SubSeq(seq, cached + 1, cached + 1)

\* Both bounds of the drafting condition.
CanDraft == SpecN > 0 /\ T + SpecN + 1 < Tmax /\ cached + SpecN + 1 <= KvCap

\* spec_draft: the n-gram at the end of s, for n = 4 and then 3, was followed
\* by these ids at its last occurrence; where there are two, as far as the two
\* latest agree.
SpecDraft(s, cap) ==
    LET len == Len(s)
        Matches(n) == {j \in 0..(len - n - 1) : \A i \in 1..n : s[j + i] = s[len - n + i]}
        Agreed(n, m1, i) ==
            LET older == Matches(n) \ {m1}
                m2    == CHOOSE j \in older : \A k \in older : k <= j
            IN  older = {} \/ (m2 + n + i < m1 /\ s[m2 + n + i + 1] = s[m1 + n + i + 1])
        Found(n) ==
            IF len < n + 1 \/ Matches(n) = {} THEN <<>>
            ELSE LET m1 == CHOOSE j \in Matches(n) : \A k \in Matches(n) : k <= j
                     nd == CHOOSE k \in 0..cap :
                             /\ \A i \in 0..(k - 1) : m1 + n + i < len /\ Agreed(n, m1, i)
                             /\ k < cap => ~(m1 + n + k < len /\ Agreed(n, m1, k))
                 IN  SubSeq(s, m1 + n + 1, m1 + n + nd)
    IN  IF Found(4) # <<>> THEN Found(4) ELSE Found(3)

\* The drafts of a step.  The draft model may propose anything; it proposes
\* fewer than SpecN only when one of its sweeps fails.
Proposals ==
    IF ~CanDraft THEN {<<>>}
    ELSE IF ~Hybrid THEN {SpecDraft(seq, SpecN)}
    ELSE UNION {[1..n -> Tok] : n \in 0..SpecN}

\* Mutant: the first draft the model disagrees with is accepted too.
AcceptedPrefixOneMore(args, d) ==
    LET m == CHOOSE k \in 0..Len(d) :
                 /\ \A i \in 1..k : args[i] = d[i]
                 /\ k < Len(d) => args[k + 1] # d[k + 1]
    IN  IF m < Len(d) THEN m + 1 ELSE m

\* How many of the drafts d the exact model agrees with, given its args.
AcceptedPrefix(args, d) ==
    CHOOSE m \in 0..Len(d) :
        /\ \A i \in 1..m : args[i] = d[i]
        /\ m < Len(d) => args[m + 1] # d[m + 1]

-----------------------------------------------------------------------------
(* The steps of the loop.                                                  *)

Stepping == stage = "run" /\ nout < gen

\* Whether an expert is dropped in this step.
Drop(bad) == drops' = (drops \/ bad) /\ tainted' = (tainted \/ bad)

\* The tail of every step: the tokens are appended as far as gen allows.
Emit(emit) ==
    LET n    == IF Len(emit) > gen - nout THEN gen - nout ELSE Len(emit)
        kept == SubSeq(emit, 1, n)
    IN  /\ seq' = seq \o kept
        /\ nout' = nout + n
        /\ made' = made \union ((T + 1)..(T + n))
        /\ first' = FALSE
        /\ UNCHANGED <<net, stage, exit, runs, arch, gen, opt, born, resumed, file>>

\* Step 0 feeds everything not yet consumed: the prompt, and on a resume the
\* pending token before it.  The draft model absorbs the same context, the
\* whole of it on a resume.
FirstStep ==
    /\ Stepping /\ Incremental /\ first
    /\ \E bad \in BOOLEAN :
         LET ids == SubSeq(seq, cached + 1, T)
             fed == Absorbed(ids, bad)
         IN  /\ Drop(bad)
             /\ ks' = ks \o fed /\ kv' = Rows(kv, cached, fed) /\ cached' = T
             /\ Emit(<<Arg(ks, kv, cached, fed, Len(ids))>>)
    /\ IF Hybrid
       THEN LET db == IF resumed THEN 0 ELSE cached
            IN  /\ dks' = dks \o SubSeq(seq, db + 1, T)
                /\ dkv' = Rows(dkv, dcached, SubSeq(seq, db + 1, T))
                /\ dcached' = T /\ UNCHANGED dfault
       ELSE UNCHANGED draft

\* The draft model took the pending token and its own proposals but the last;
\* a failed sweep, the reason for a short draft, leaves its state half updated.
DraftRan(d) ==
    LET fed  == SubSeq(Pending \o d, 1, Len(d))
        half == IF Len(d) < SpecN THEN <<Garbage>> ELSE <<>>
    IN  [ks |-> dks \o fed \o half,
         kv |-> Rows(dkv, dcached, fed \o half),
         cached |-> dcached + Len(d)]

\* Mutant: the recurrent state is not restored.
ReplayUnrestored(swept, accepted) == ks \o swept \o accepted

\* The recurrent state after a rejection: restored from the snapshot, then
\* fed the accepted prefix.
Replay(swept, accepted) == ks \o accepted

\* Mutant: no step closes the gap after full acceptance.
DraftResyncShort(d, m) ==
    /\ dfault' = (dfault \/ (m = Len(d) /\ m < SpecN))
    /\ IF m = Len(d)
       THEN /\ dks' = DraftRan(d).ks /\ dkv' = DraftRan(d).kv
            /\ dcached' = DraftRan(d).cached
       ELSE LET fed == Pending \o SubSeq(d, 1, m)
            IN  /\ dks' = dks \o fed /\ dkv' = Rows(DraftRan(d).kv, cached, fed)
                /\ dcached' = cached + m + 1

\* The draft model follows: one step closes the gap after full acceptance,
\* else it rewinds to its snapshot and replays the accepted prefix.
DraftResync(d, m) ==
    /\ dfault' = (dfault \/ (m = Len(d) /\ m < SpecN))
    /\ IF m = Len(d)
       THEN LET r == DraftRan(d)
            IN  /\ dks' = r.ks \o <<d[Len(d)]>>
                /\ dkv' = Rows(r.kv, r.cached, <<d[Len(d)]>>)
                /\ dcached' = r.cached + 1
       ELSE LET fed == Pending \o SubSeq(d, 1, m)
            IN  /\ dks' = dks \o fed /\ dkv' = Rows(DraftRan(d).kv, cached, fed)
                /\ dcached' = cached + m + 1

\* One sweep verifies the pending token and the drafts d.  Unless all are
\* accepted a second one replays the accepted prefix on restored state.
Verify(d, bad, again) ==
    LET fed      == Absorbed(Pending \o d, bad)
        args     == [i \in 1..(Len(d) + 1) |-> Arg(ks, kv, cached, fed, i)]
        m        == AcceptedPrefix(args, d)
        accepted == Absorbed(Pending \o SubSeq(d, 1, m), again)
    IN  /\ Drop(bad \/ (m < Len(d) /\ again))
        /\ IF m = Len(d)
           THEN ks' = ks \o fed /\ kv' = Rows(kv, cached, fed)
           ELSE /\ ks' = Replay(fed, accepted)
                /\ kv' = Rows(Rows(kv, cached, fed), cached, accepted)
        /\ cached' = cached + m + 1
        /\ IF Hybrid THEN DraftResync(d, m) ELSE UNCHANGED draft
        /\ Emit(SubSeq(d, 1, m) \o <<args[m + 1]>>)

VerifyStep ==
    /\ Stepping /\ Incremental /\ ~first
    /\ \E d \in Proposals \ {<<>>}, bad, again \in BOOLEAN : Verify(d, bad, again)

\* No draft: one token.  The draft model is kept in step; its failed sweep,
\* if that is why there is no draft, leaves its state half updated.
PlainStep ==
    /\ Stepping /\ Incremental /\ ~first
    /\ <<>> \in Proposals
    /\ \E bad \in BOOLEAN :
         LET fed == Absorbed(Pending, bad)
         IN  /\ Drop(bad)
             /\ ks' = ks \o fed /\ kv' = Rows(kv, cached, fed) /\ cached' = cached + 1
             /\ Emit(<<Arg(ks, kv, cached, fed, 1)>>)
             /\ IF ~Hybrid THEN UNCHANGED draft
                ELSE LET k == IF CanDraft THEN DraftRan(<<>>).ks ELSE dks
                     IN  /\ dks' = k \o Pending /\ dkv' = Rows(dkv, dcached, Pending)
                         /\ dcached' = cached + 1 /\ dfault' = (dfault \/ CanDraft)

\* Without --incremental every step recomputes the whole prefix from nothing.
FullStep ==
    /\ Stepping /\ ~Incremental
    /\ \E bad \in BOOLEAN :
         /\ Drop(bad)
         /\ Emit(<<Arg(<<>>, <<>>, 0, Absorbed(seq, bad), T)>>)
    /\ UNCHANGED <<cached, ks, kv, draft>>

\* A forward fails: the run is aborted, and nothing is saved.
Abort ==
    /\ Stepping
    /\ stage' = "off" /\ exit' = 1
    /\ UNCHANGED <<net, runs, run, exact, draft, drops, tainted, file>>

-----------------------------------------------------------------------------
(* The process.                                                            *)

\* A fresh run.
Start ==
    /\ stage = "off" /\ runs < MaxRuns
    /\ stage' = "run" /\ runs' = runs + 1
    /\ arch' \in Archs /\ gen' \in Gens /\ opt' \in Options /\ seq' \in Prompts
    /\ nout' = 0 /\ first' = TRUE /\ made' = {} /\ resumed' = FALSE
    /\ cached' = 0 /\ ks' = <<>> /\ kv' = <<>> /\ born' = arch'
    /\ dcached' = 0 /\ dks' = <<>> /\ dkv' = <<>> /\ dfault' = FALSE
    /\ drops' = FALSE /\ tainted' = FALSE /\ exit' = 0
    /\ UNCHANGED <<net, file>>

\* k3_state_peek and k3_state_load accept the file: it is whole, and was
\* written under this fingerprint.
Loadable(a) == file.kind = "whole" /\ file.arch = a

\* A run that resumes: the saved sequence comes before the prompt.
Resume ==
    /\ stage = "off" /\ runs < MaxRuns
    /\ opt' \in Options /\ opt'.incremental
    /\ arch' \in Archs /\ Loadable(arch')
    /\ \E p \in Prompts : seq' = file.seq \o p
    /\ made' = file.made /\ tainted' = file.tainted
    /\ cached' = file.cached /\ ks' = file.ks /\ kv' = file.kv /\ born' = file.arch
    /\ stage' = "run" /\ runs' = runs + 1 /\ gen' \in Gens
    /\ nout' = 0 /\ first' = TRUE /\ resumed' = TRUE
    /\ dcached' = 0 /\ dks' = <<>> /\ dkv' = <<>> /\ dfault' = FALSE
    /\ drops' = FALSE /\ exit' = 0
    /\ UNCHANGED <<net, file>>

\* The file is refused: exit code 1.
Refuse ==
    /\ stage = "off" /\ runs < MaxRuns
    /\ \E o \in Options, a \in Archs : o.incremental /\ ~Loadable(a)
    /\ runs' = runs + 1 /\ exit' = 1
    /\ UNCHANGED <<net, stage, run, exact, draft, drops, tainted, file>>

\* Mutant: drops are reported and the run succeeds.
ExitCodeZero == 0

ExitCode == IF drops THEN 4 ELSE 0

\* The loop ends without --save-state.
Finish ==
    /\ stage = "run" /\ nout = gen
    /\ stage' = "off" /\ exit' = ExitCode
    /\ UNCHANGED <<net, runs, run, exact, draft, drops, tainted, file>>

Image == [kind |-> "whole", arch |-> arch, seq |-> seq, made |-> made, tainted |-> tainted,
          cached |-> cached, ks |-> ks, kv |-> SubSeq(kv, 1, cached)]

\* k3_state_save opens the file for writing, which empties it, and writes the
\* header; the state that follows is not there yet.
SaveOpen ==
    /\ stage = "run" /\ nout = gen /\ Incremental
    /\ stage' = "saving" /\ file' = [Image EXCEPT !.kind = "torn", !.ks = <<>>, !.kv = <<>>]
    /\ UNCHANGED <<net, exit, runs, run, exact, draft, drops, tainted>>

\* All is written: the sequence and the rows up to cached.
SaveDone ==
    /\ stage = "saving"
    /\ file' = Image
    /\ stage' = "off" /\ exit' = ExitCode
    /\ UNCHANGED <<net, runs, run, exact, draft, drops, tainted>>

\* Mutant: a failed save is tried again.
SaveFailsRetries ==
    /\ stage = "saving"
    /\ stage' = "run"
    /\ UNCHANGED <<net, exit, runs, run, exact, draft, drops, tainted, file>>

\* A write fails: the run says so and ends like any other.
SaveFails ==
    /\ stage = "saving"
    /\ stage' = "off" /\ exit' = ExitCode
    /\ UNCHANGED <<net, runs, run, exact, draft, drops, tainted, file>>

\* The process is killed.
Crash ==
    /\ stage # "off"
    /\ stage' = "off" /\ exit' = Killed
    /\ UNCHANGED <<net, runs, run, exact, draft, drops, tainted, file>>

Step == FirstStep \/ VerifyStep \/ PlainStep \/ FullStep

Next ==
    \/ Start \/ Resume \/ Refuse
    \/ Step \/ Abort
    \/ Finish \/ SaveOpen \/ SaveDone \/ SaveFails
    \/ Crash

Spec == Init /\ [][Next]_vars

\* Sweeps return and the process is scheduled.
FairSpec == Spec /\ WF_vars(Step \/ Abort \/ Finish \/ SaveOpen \/ SaveDone \/ SaveFails)

-----------------------------------------------------------------------------
(* Properties.                                                             *)

\* Between steps the recurrent state and the KV rows hold the same history:
\* the sequence up to the pending token, also after a rejected draft and after
\* a resume, and no trace of a rejected token.
CarriesHistory ==
    (stage # "off" /\ ~tainted) =>
        /\ ks = SubSeq(seq, 1, cached) /\ SubSeq(kv, 1, cached) = ks
        /\ born = arch
        /\ Incremental /\ ~first => cached = T - 1

\* The draft model is resynchronised to the accepted sequence in every step,
\* as long as its own sweeps succeed.
DraftInStep ==
    (Hybrid /\ stage # "off" /\ ~first /\ ~dfault) =>
        dcached = cached /\ dks = SubSeq(seq, 1, cached) /\ SubSeq(dkv, 1, dcached) = dks

\* The tokens the engine generated are the ones the network would choose one
\* at a time.
IsGreedy == \A i \in made : seq[i] = Greedy(net, SubSeq(seq, 1, i - 1))

\* Of a run that did not resume, exit code 0 says the output is exact.
FreshZeroIsExact == (stage = "off" /\ exit = 0 /\ ~resumed) => IsGreedy

Promise == INSTANCE Chat WITH
    text <- seq, live <- stage # "off", sound <- ~tainted,
    saved <- IF file.kind = "whole" THEN [text |-> file.seq, sound |-> ~file.tainted]
             ELSE [text |-> <<>>, sound |-> TRUE]

\* The engine is a conversation: neither drafts, carried state, nor a resume
\* from the state file shows in the text.  Speculative, hybrid, incremental
\* and resumed decode say exactly what serial greedy decode would, whatever is
\* drafted, unless an expert was dropped.
ImplementsChat == Promise!Spec

\* A run ends.
RunEnds == stage = "run" ~> stage = "off"
=============================================================================
