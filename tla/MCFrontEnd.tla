----------------------------- MODULE MCFrontEnd -----------------------------
(* Containers whose headers need one to three prefixes, damaged ones and     *)
(* configurations; all small merge tables that training can produce; all     *)
(* short texts over the classes the pattern tells apart.                     *)
EXTENDS FrontEnd

Item(len, name) == [key |-> "k", val |-> 0, len |-> len, name |-> name, fault |-> 0,
                    rel_off |-> 0, nbytes |-> 0]
Aligned(a) == [Item(4, 2) EXCEPT !.key = "general.alignment", !.val = a]
NoConfig == [json |-> FALSE, kimi |-> FALSE, kda |-> FALSE, mla |-> FALSE, moe |-> FALSE]

\* A container with a header of HdrFixed + 3 + n + 8 bytes and eight bytes of
\* data behind it.
Container(n, size) ==
    [size |-> size, head |-> TRUE, arch |-> "qwen3", keys |-> TRUE, config |-> NoConfig,
     template |-> "thinking", tks |-> "one",
     kv |-> <<Item(3, 1), Item(n, 1)>>,
     tensors |-> <<Item(4, 2), [Item(4, 2) EXCEPT !.rel_off = 4, !.nbytes = 4]>>]

Good == {Container(1, 24), Container(9, 32), Container(30, 60),
         Container(57, 80), Container(60, 84)}
Odd ==
    {[f EXCEPT !.size = 3] : f \in Good}
    \union {[f EXCEPT !.size = @ - 3] : f \in Good}             \* a tensor past the end
    \union {[f EXCEPT !.head = FALSE] : f \in Good}
    \union {[f EXCEPT !.kv[2].fault = 2] : f \in Good}
    \union {[f EXCEPT !.kv[2].len = @ + 40] : f \in Good}       \* the header does not end
    \union {[f EXCEPT !.kv[1] = Aligned(a), !.size = @ + 8] : f \in Good, a \in {0, 3, 8}}
    \union {[f EXCEPT !.arch = "llama"] : f \in Good}
    \union {[Container(1, 24) EXCEPT !.keys = FALSE]}
    \union {[Container(1, 24) EXCEPT !.template = x] : x \in {"absent", "other", "chatml"}}
    \union {[Container(1, 24) EXCEPT !.tks = "all"]}
Configs ==
    {[Container(1, 24) EXCEPT !.head = FALSE,
                              !.config = [json |-> TRUE, kimi |-> k, kda |-> a, mla |-> b, moe |-> m]] :
        k \in BOOLEAN, a \in BOOLEAN, b \in BOOLEAN, m \in BOOLEAN}

MCFiles == Good \union Odd \union Configs

Backend(n, s) == [name |-> n, usable |-> TRUE, executes |-> FALSE, runnable |-> FALSE, score |-> s]
MCExtras == {Backend("y", 100), Backend("qwen3", 101),
             [Backend("z", 99) EXCEPT !.executes = TRUE, !.runnable = TRUE],
             [Backend("u", 120) EXCEPT !.executes = TRUE],
             [Backend("v", 120) EXCEPT !.usable = FALSE]}

\* Bytes: a b s r e, quote, space, tab, newlines, period, digit, < and >.
Alphabet == <<97, 98, 115, 114, 101, 39, 32, 9, 10, 13, 46, 49, 60, 62>>
MCImStart == <<60, 62>>
MCImEnd   == <<60, 62, 62>>
MCRole    == [system |-> <<115, 10>>, user |-> <<98, 10>>, assistant |-> <<97, 10>>]
MCNewline == <<10>>
MCNoThink == <<60, 62, 10>>

Table(merges, specials) ==
    LET one   == [i \in DOMAIN Alphabet |-> <<ByteMap[Alphabet[i]]>>]
        tok   == one \o [i \in DOMAIN merges |-> merges[i][1] \o merges[i][2]] \o specials
    IN  [tok |-> tok, merges |-> merges,
         type |-> [i \in DOMAIN tok |-> IF i <= Len(tok) - Len(specials) THEN 1 ELSE 3]]

\* Tables of up to three merges over a and b, and over a and the space.
Extend(ms, base) ==
    LET sym == {<<b>> : b \in base} \union {m[1] \o m[2] : m \in ToSet(ms)}
    IN  {Append(ms, <<x, y>>) : x \in sym, y \in sym}
Trains(ms) == Trained(Table(ms, <<>>))
Two(base) == UNION {{m \in Extend(ms, base) : Trains(m)} : ms \in Extend(<<>>, base)}
Three(base) == UNION {{m \in Extend(ms, base) : Trains(m)} : ms \in Two(base)}

Specials == <<MCImStart, MCImEnd>>
Plain    == Table(<<>>, Specials)
Simple   == Table(<< <<<<97>>, <<97>>>> >>, Specials)
MCTokenizers(tks) ==
    IF tks = "one" THEN {Simple, Table(<<>>, <<MCImStart>>)}
    ELSE {Table(ms, Specials) : ms \in Three({97, 98}) \union Two({97, 288})}
         \union {Plain,
                 [Table(<< <<<<97>>, <<98>>>> >>, <<>>) EXCEPT !.tok[15] = <<97, 97>>]}

Texts(S, n) == UNION {[1..k -> S] : k \in 0..n}
Raw(texts) == {[prompt |-> p, system |-> <<>>, chat |-> 0, think |-> TRUE] : p \in texts}
MCOptions(x) ==
    IF x = Simple \/ Len(x.tok) = 15
    THEN {[prompt |-> p, system |-> s, chat |-> c, think |-> y] :
            p \in Texts({97, 32}, 2) \union {MCImEnd, <<97>> \o MCImEnd \o MCImStart},
            s \in {<<>>, <<97>>}, c \in {-1, 0, 1}, y \in BOOLEAN}
    ELSE IF x = Plain
    THEN Raw(Texts({97, 39, 32, 10, 46, 49}, 4) \union Texts({9, 32, 10, 13}, 4)
             \union Texts({39, 83, 114, 101, 32}, 3) \union Texts({97, 46, 60, 62}, 5))
    ELSE Raw(Texts({97, 98}, 5) \union Texts({97, 32}, 4))
=============================================================================
