------------------------------- MODULE MCBind -------------------------------
(* A checkpoint of one layer, the model-level tensors and two experts, in    *)
(* two shards; directories a reader must refuse; and the layer as a packed   *)
(* run, in bf16 and in int8.  Sizes are a few elements each.                 *)
EXTENDS Bind, SequencesExt

Vectors == {"in_norm", "post_norm", "attn_res_norm", "attn_res_proj", "mlp_res_norm",
            "mlp_res_proj", "norm", "out_res_norm", "out_res_proj"}
MCSize == [n \in Matmul |-> IF n = "b" THEN 3 ELSE 6]
          @@ [n \in Vectors |-> 3]
          @@ ("q_a_norm" :> 2 @@ "kv_a_norm" :> 1 @@ "latent_norm" :> 1 @@ "gate" :> 6
              @@ "bias" :> 2 @@ "A_log" :> 2 @@ "dt_bias" :> 2 @@ "o_norm" :> 1
              @@ "q_conv" :> 4 @@ "k_conv" :> 4 @@ "v_conv" :> 4)
MCKinds == [mla : BOOLEAN, dense : BOOLEAN]

\* What the released checkpoint stores in fp32; the rest is BF16.
Fp32 == {"bias", "A_log", "dt_bias", "o_norm", "q_conv", "k_conv", "v_conv"}

\* Sets of tensors stored as fp32: the released one, one more matrix, all,
\* none.
Stored == {Fp32, Fp32 \union {"o"}, DOMAIN MCSize, {}}
Dtype(f, n) == IF n \in f THEN "F32" ELSE "BF16"

\* Entries laid out one after the other, gap bytes before the third one.
Lay(specs, gap) ==
    FoldInOrder(LAMBDA es, s :
        LET o == IF es = <<>> THEN 0
                 ELSE es[Len(es)].o1 + IF Len(es) = 2 THEN gap ELSE 0
        IN  Append(es, [name |-> s.name, dtype |-> s.dtype, shape |-> s.shape, o0 |-> o,
                        o1 |-> o + Numel(s) * ElemSize(s.dtype)]), <<>>, specs)

MkShard(entries, tail) ==
    [hlen |-> 3, json |-> TRUE, entries |-> entries,
     fsize |-> 11 + tail + IF entries = <<>> THEN 0 ELSE entries[Len(entries)].o1]

S(n, d, sh) == [name |-> n, dtype |-> d, shape |-> sh]
Weights(f, names) == [i \in DOMAIN names |-> S(names[i], Dtype(f, names[i]), <<MCSize[names[i]]>>)]

MCExperts == <<<<"1a", "1b", "1c", "1d", "1e", "1f">>, <<"2a", "2b", "2c", "2d", "2e", "2f">>>>
Expert(e) == <<S(MCExperts[e][1], "U8", <<1, 4>>), S(MCExperts[e][2], "U8", <<1, 2>>),
               S(MCExperts[e][3], "U8", <<2, 2>>), S(MCExperts[e][4], "U8", <<2, 1>>),
               S(MCExperts[e][5], "U8", <<1, 4>>), S(MCExperts[e][6], "U8", <<1, 2>>)>>

\* The second expert is stored in reverse.
Whole(f, kind) ==
    <<MkShard(Lay(Weights(f, LayerNames(kind)), 0), 0),
      MkShard(Lay(Expert(1) \o Reverse(Expert(2)) \o Weights(f, ModelNames), 0), 2)>>

Small(e) == MkShard(Lay(Expert(e), 0), 0)
Broken ==
    {<<>>,                                                       \* no shards
     <<Small(1), Small(1)>>,                                     \* a name twice
     <<Small(1), [Small(2) EXCEPT !.hlen = 0]>>,
     <<Small(1), [Small(2) EXCEPT !.json = FALSE]>>,
     <<Small(1), [Small(2) EXCEPT !.fsize = @ - 1]>>,            \* past the end
     <<Small(1), [Small(2) EXCEPT !.entries[2].shape = <<1, 3>>]>>,
     <<Small(1), [Small(2) EXCEPT !.entries[6].dtype = "UNKNOWN"]>>}
Odd ==
    {<<MkShard(Lay(Expert(1), 1), 0), Small(2)>>,                \* a gap: six reads
     <<MkShard(Lay(SubSeq(Expert(1), 1, 4), 0), 0),
       MkShard(Lay(SubSeq(Expert(1), 5, 6) \o Expert(2), 0), 0)>>}  \* split

MCDirs == {Whole(f, [mla |-> m, dense |-> ~m]) : f \in Stored, m \in BOOLEAN} \union Broken \union Odd

ExpertNames == UNION {Range(MCExperts[e]) : e \in DOMAIN MCExperts}
AllNames == LayerNames([mla |-> TRUE, dense |-> FALSE]) \o LayerNames([mla |-> FALSE, dense |-> TRUE])
         \o ModelNames \o MCExperts[1] \o MCExperts[2]
Place(n) == CHOOSE i \in DOMAIN AllNames : AllNames[i] = n
\* The experts in one chain that wraps around in a small table, the others
\* spread out; and all in short chains.
MCHashes == {[n \in Range(AllNames) |-> IF n \in ExpertNames THEN 31 ELSE 32 + Place(n)],
             [n \in Range(AllNames) |-> 13 * (Place(n) % 8)]}

\* A packed run of the layer; int8 replaces the two-dimensional BF16 tensors.
TwoDim == Matmul \union {"attn_res_proj", "mlp_res_proj", "gate"}
Rows(n) == IF MCSize[n] = 6 THEN 2 ELSE 1
Pack(f, names, int8) ==
    LET i8(n) == int8 /\ n \in TwoDim \ f
        nb(n) == IF i8(n) THEN MCSize[n] + 4 * Rows(n)
                 ELSE MCSize[n] * ElemSize(Dtype(f, n))
    IN  FoldInOrder(LAMBDA r, n :
            [at |-> r.at + nb(n),
             t |-> r.t @@ (n :> [off |-> r.at, nbytes |-> nb(n),
                                 dtype |-> IF i8(n) THEN "I8R" ELSE Dtype(f, n)])],
            [at |-> 0, t |-> <<>>], names).t

MCRuns == {Pack(f, LayerNames(kind), FALSE) : f \in Stored, kind \in MCKinds}
          \union {Pack(Fp32, LayerNames(kind), TRUE) : kind \in MCKinds}
=============================================================================
