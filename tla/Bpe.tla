-------------------------------- MODULE Bpe ---------------------------------
(***************************************************************************)
(* The tokenizer, src/tokenizer/bpe.c, as functions of a tokenizer tk and  *)
(* a text, a sequence of bytes.  tk is [tok, type, merges]: the stored     *)
(* texts (sequences of codepoints of the byte alphabet) and their types,   *)
(* by id, and the pairs to merge, by rank.  The UTF-8 form of a codepoint  *)
(* and the hashing of the two tables are left out.                         *)
(***************************************************************************)
EXTENDS Integers, FiniteSets, SequencesExt

CONSTANT FragMax        \* symbols of a fragment, 1024

Absent == -1
Failed == [ok |-> FALSE, ids |-> <<>>]

-----------------------------------------------------------------------------
(* Tables.                                                                 *)

\* build_byte_map: printable bytes stand for themselves, the others are
\* numbered from 256 on.
Printable == (33..126) \union (161..172) \union (174..255)
Codepoint(b) == IF b \in Printable THEN b ELSE 256 + Cardinality((0..b - 1) \ Printable)
ByteMap == [b \in 0..255 |-> Codepoint(b)]
Mapped(s) == [i \in DOMAIN s |-> ByteMap[s[i]]]

\* The inverse, u2b; a codepoint outside the alphabet is copied as it is.
ByteOf(c) == IF \E b \in 0..255 : ByteMap[b] = c THEN CHOOSE b \in 0..255 : ByteMap[b] = c
             ELSE c

\* The first of the indices `is`, or Absent (map_put: the first entry of a text
\* stays).
FirstIndex(is) == IF is = {} THEN Absent ELSE Min(is)

\* map_get on the vocabulary and on the merges.  A merge is looked up by its
\* concatenation.
VocabId(tk, s) == FirstIndex({i \in DOMAIN tk.tok : tk.tok[i] = s})
MergeRank(tk, s) == FirstIndex({i \in DOMAIN tk.merges : tk.merges[i][1] \o tk.merges[i][2] = s})

\* eng_bpe_is_special: CONTROL or USER_DEFINED.
Special(tk) == {i \in DOMAIN tk.tok : tk.type[i] \in {3, 4} /\ tk.tok[i] # <<>>}

\* eng_bpe_decode.
Decode(tk, ids) ==
    FlattenSeq([i \in DOMAIN ids |->
        [k \in DOMAIN tk.tok[ids[i]] |-> ByteOf(tk.tok[ids[i]][k])]])

-----------------------------------------------------------------------------
(* Fragments.                                                              *)

Letter  == (97..122) \union (65..90) \union (128..255)
Digit   == 48..57
Newline == {10, 13}
Space   == {32, 9, 11, 12} \union Newline
Punct   == (0..255) \ (Letter \union Digit \union Space)
Quote   == 39

\* 's 't 'm 'd 're 've 'll
Contractions == {<<115>>, <<116>>, <<109>>, <<100>>, <<114, 101>>, <<118, 101>>, <<108, 108>>}
Lower(s) == [k \in DOMAIN s |-> IF s[k] \in 65..90 THEN s[k] + 32 ELSE s[k]]
Contracted(s, i) ==
    {w \in Contractions : s[i] = Quote /\ i + Len(w) <= Len(s)
                          /\ Lower(SubSeq(s, i + 1, i + Len(w))) = w}

At(s, i, S) == i <= Len(s) /\ s[i] \in S

\* The last position of the run of bytes of S from i on; i-1 if there is none.
RunEnd(s, i, S) == Max({e \in i - 1..Len(s) : \A k \in i..e : s[k] \in S})

\* The end of a run of blanks up to blank: the last one joins the next word.
LastSpaceKept(s, i, blank) == IF blank < Len(s) /\ blank > i THEN blank - 1 ELSE blank

\* next_fragment: the last position of the fragment that starts at i.
NextFragment(s, i) ==
    LET word  == IF s[i] \in Letter \union Digit \union Newline THEN i ELSE i + 1
        punct == IF s[i] = 32 THEN i + 1 ELSE i
        blank == RunEnd(s, i, Space \ Newline)
    IN  IF Contracted(s, i) # {} THEN i + Len(CHOOSE w \in Contracted(s, i) : TRUE)
        ELSE IF At(s, word, Letter) THEN RunEnd(s, word, Letter)
        ELSE IF s[i] \in Digit THEN i
        ELSE IF At(s, punct, Punct)
        THEN RunEnd(s, RunEnd(s, punct, Punct) + 1, Newline)
        ELSE IF At(s, blank + 1, Newline) THEN RunEnd(s, blank + 1, Newline)
        ELSE LastSpaceKept(s, i, blank)

-----------------------------------------------------------------------------
(* Merging and encoding.                                                   *)

JoinAt(sym, i) ==
    SubSeq(sym, 1, i - 1) \o <<sym[i] \o sym[i + 1]>> \o SubSeq(sym, i + 2, Len(sym))

\* The pairs of neighbours in the table, and those of the lowest rank.
Pairs(tk, sym) == {i \in 1..Len(sym) - 1 : MergeRank(tk, sym[i] \o sym[i + 1]) # Absent}
Lowest(tk, sym) ==
    LET rank(i) == MergeRank(tk, sym[i] \o sym[i + 1])
    IN  {i \in Pairs(tk, sym) : \A j \in Pairs(tk, sym) : rank(i) <= rank(j)}

\* Mutant: of two pairs of one rank, the last is joined first.
BestPairLast(tk, sym) == Max(Lowest(tk, sym))

\* The pair merge_fragment joins: of the lowest rank, the leftmost.
BestPair(tk, sym) == Min(Lowest(tk, sym))

\* merge_fragment's loop, until no pair is in the table.
RECURSIVE Merged(_, _)
Merged(tk, sym) ==
    IF Pairs(tk, sym) = {} THEN sym ELSE Merged(tk, JoinAt(sym, BestPair(tk, sym)))

\* One fragment appended to what is encoded so far: it fails on a fragment
\* that is too long, on a full buffer and on a piece without a token.
PutFragment(tk, r, s, cap) ==
    LET sym == Merged(tk, [k \in DOMAIN s |-> <<ByteMap[s[k]]>>])
        ids == [k \in DOMAIN sym |-> VocabId(tk, sym[k])]
    IN  IF Len(s) > FragMax \/ Len(r.ids) + Len(ids) > cap \/ Absent \in ToSet(ids)
        THEN Failed
        ELSE [ok |-> TRUE, ids |-> r.ids \o ids]

\* The specials whose text is at position j, and the longest of them (of two
\* with one text, the first).
SpecialsAt(tk, s, j) ==
    {t \in Special(tk) : j + Len(tk.tok[t]) - 1 <= Len(s)
                         /\ SubSeq(s, j, j + Len(tk.tok[t]) - 1) = tk.tok[t]}
Longest(tk, ts) ==
    Min({t \in ts : \A u \in ts : Len(tk.tok[u]) <= Len(tk.tok[t])})

\* eng_bpe_encode from position i on, with r encoded.  The text before the
\* next special is split first.
RECURSIVE EncodeFrom(_, _, _, _, _, _)
EncodeFrom(tk, s, i, r, cap, special) ==
    LET at  == IF special THEN {j \in i..Len(s) : SpecialsAt(tk, s, j) # {}} ELSE {}
        id  == Longest(tk, SpecialsAt(tk, s, i))
        end == NextFragment(IF at = {} THEN s ELSE SubSeq(s, 1, Min(at) - 1), i)
    IN  IF ~r.ok \/ i > Len(s) THEN r
        ELSE IF i \in at
        THEN IF Len(r.ids) >= cap THEN Failed
             ELSE EncodeFrom(tk, s, i + Len(tk.tok[id]),
                             [ok |-> TRUE, ids |-> Append(r.ids, id)], cap, special)
        ELSE EncodeFrom(tk, s, end + 1, PutFragment(tk, r, SubSeq(s, i, end), cap),
                        cap, special)

Encode(tk, s, cap, special) == EncodeFrom(tk, s, 1, [ok |-> TRUE, ids |-> <<>>], cap, special)

-----------------------------------------------------------------------------
(* What the encoding should be, to compare with.                           *)

All(s, i, e, S) == \A k \in i..e : s[k] \in S

\* The alternatives of the pattern, in order; each the set of the positions a
\* match from i can end at.
Alternatives(s, i) ==
    LET to == i..Len(s) IN
    << {i + Len(w) : w \in Contracted(s, i)},
       {e \in to : \E k \in {i, i + 1} :
            k <= e /\ All(s, k, e, Letter)
            /\ (k > i => s[i] \notin Letter \union Digit \union Newline)},
       {e \in to : e = i /\ s[i] \in Digit},
       {e \in to : \E k \in {i, i + 1}, p \in to :
            k <= p /\ p <= e /\ All(s, k, p, Punct) /\ All(s, p + 1, e, Newline)
            /\ (k > i => s[i] = 32)},
       {e \in to : All(s, i, e, Space) /\ s[e] \in Newline},
       {e \in to : All(s, i, e, Space) /\ ~At(s, e + 1, (0..255) \ Space)},
       {e \in to : All(s, i, e, Space)} >>

\* The first alternative that matches, as far as it can.
PatternEnd(s, i) ==
    LET alts == Alternatives(s, i)
    IN  Max(alts[Min({a \in DOMAIN alts : alts[a] # {}})])

\* A newline, other blanks and a newline again, in one run.
BlankLine(s) ==
    \E i, k \in DOMAIN s : /\ All(s, i, k, Space) /\ {s[i], s[k]} \subseteq Newline
                           /\ \E j \in i..k : s[j] \notin Newline

\* Each pair in the order of the table joined wherever it is, from the left.
RECURSIVE JoinAll(_, _, _)
JoinAll(sym, pair, i) ==
    IF i >= Len(sym) THEN sym
    ELSE IF <<sym[i], sym[i + 1]>> = pair THEN JoinAll(JoinAt(sym, i), pair, i + 1)
    ELSE JoinAll(sym, pair, i + 1)
PairsInOrder(tk, sym) == FoldLeft(LAMBDA x, pair : JoinAll(x, pair, 1), sym, tk.merges)

\* A table as training produces it: a pair is of bytes or of earlier results,
\* is there once, and is what its text is split into by the pairs before it.
Trained(tk) ==
    \A r \in DOMAIN tk.merges :
        LET before == [tk EXCEPT !.merges = SubSeq(@, 1, r - 1)]
            s      == tk.merges[r][1] \o tk.merges[r][2]
        IN  PairsInOrder(before, [k \in DOMAIN s |-> <<s[k]>>]) = tk.merges[r]

\* The pieces of a text.
RECURSIVE Pieces(_, _, _, _)
Pieces(tk, s, i, special) ==
    LET at  == IF special THEN {j \in i..Len(s) : SpecialsAt(tk, s, j) # {}} ELSE {}
        to  == IF at = {} THEN Len(s) ELSE Min(at) - 1
        id  == Longest(tk, SpecialsAt(tk, s, i))
        end == PatternEnd(SubSeq(s, 1, to), i)
    IN  IF i > Len(s) THEN <<>>
        ELSE IF i \in at THEN <<[id |-> id]>> \o Pieces(tk, s, i + Len(tk.tok[id]), special)
        ELSE <<[text |-> SubSeq(s, i, end)]>> \o Pieces(tk, s, end + 1, special)

\* The ids they should be encoded to; a piece that is too long has none.
Reference(tk, s, special) ==
    LET ids(p) == IF "id" \in DOMAIN p THEN <<p.id>>
                  ELSE IF Len(p.text) > FragMax THEN <<Absent>>
                  ELSE LET sym == PairsInOrder(tk, [k \in DOMAIN p.text |-> <<ByteMap[p.text[k]]>>])
                       IN  [k \in DOMAIN sym |-> VocabId(tk, sym[k])]
        ps == Pieces(tk, s, 1, special)
    IN  FlattenSeq([k \in DOMAIN ps |-> ids(ps[k])])
=============================================================================
