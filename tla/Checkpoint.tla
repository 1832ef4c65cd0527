----------------------------- MODULE Checkpoint -----------------------------
(***************************************************************************)
(* The safetensors reader of K3, src/io/k3_st.c, and the expert loader on  *)
(* top of it, src/io/k3_load.c with the sizing of src/cache/k3_cache.c.    *)
(*                                                                         *)
(* A directory is the sequence of its shards in name order.  A header is   *)
(* abstracted to its length, whether its JSON is what the scanner accepts, *)
(* and its entries.  A byte of a file is named by shard and offset.  The   *)
(* hash of a name is any number.                                           *)
(***************************************************************************)
EXTENDS AlignedRead, Sequences, FiniteSetsExt

CONSTANTS Dirs,        \* the directories to open
          Hashes,      \* the hash functions to consider, [name -> Nat]
          MinBucket,   \* 1024
          WidenChunk,  \* K3_WIDEN_CHUNK, bytes widened at a time
          Group,       \* K3_MXFP4_GROUP, weights that share a scale
          Experts      \* [expert] names of its six tensors: w1 packed, w1 scale,
                       \* w2 packed, ..., experts in the order of the layers

Names  == UNION {DOMAIN h : h \in Hashes}
Dtypes == {"U8", "BF16", "F16", "F32", "UNKNOWN"}
HeaderEntries == [name : Names, dtype : Dtypes, shape : Seq(Nat), o0 : Nat, o1 : Nat]
Shards == [hlen : Nat, fsize : Nat, json : BOOLEAN, entries : Seq(HeaderEntries)]

ASSUME CheckpointAssumption ==
    /\ MinBucket \in Nat \ {0}
    /\ Hashes \subseteq [Names -> Nat]
    /\ Dirs \subseteq Seq(Shards)
    /\ Experts \in Seq([1..6 -> Names])

VARIABLES dir, fnv1a,  \* the directory and the hash, fixed at the start
          pc,          \* "closed", "scan", "index", "open"
          t,           \* K3Tensor records, in the order found
          nindexed,    \* how many of them the index has
          bucket,      \* [0..nbucket-1] -> index into t, or 0
          fd, dfd,     \* [shard] a descriptor is recorded in the struct
          os,          \* descriptors that are open: <<"fd" or "dfd", shard>>
          load         \* the outcome of the last call, if it was an expert load

dirVars == <<dir, fnv1a>>
stVars  == <<pc, t, nindexed, bucket, fd, dfd, os>>
ckVars  == <<dirVars, stVars, load>>

\* A left fold that TLC evaluates in one pass.
FoldInOrder(op(_, _), base, s) ==
    LET f[i \in 0..Len(s)] == IF i = 0 THEN base ELSE op(f[i - 1], s[i]) IN f[Len(s)]

NoLoad == [ret |-> -1]

Init ==
    /\ dir \in Dirs /\ fnv1a \in Hashes
    /\ pc = "closed" /\ t = <<>> /\ nindexed = 0 /\ bucket = <<>>
    /\ fd = <<>> /\ dfd = <<>> /\ os = {} /\ load = NoLoad

-----------------------------------------------------------------------------
(* One shard.                                                              *)

ElemSize(d) == CASE d = "U8" -> 1 [] d \in {"BF16", "F16"} -> 2 [] d = "F32" -> 4

Numel(x) == FoldInOrder(LAMBDA a, b : a * b, 1, x.shape)

Base(sh) == 8 + sh.hlen

Tensor(i, e) ==
    [name |-> e.name, shard |-> i, dtype |-> e.dtype, shape |-> e.shape,
     off |-> Base(dir[i]) + e.o0, nbytes |-> e.o1 - e.o0]

\* The dtype is supported, the span is what the shape needs, and it is
\* inside the file.
EntryOK(sh, e) ==
    /\ e.dtype # "UNKNOWN" /\ Len(e.shape) <= 4
    /\ e.o1 - e.o0 = Numel(e) * ElemSize(e.dtype)
    /\ Base(sh) + e.o1 <= sh.fsize

\* The scanner reaches the end of the header: strings with escapes, numbers,
\* and values of any shape to skip under __metadata__.
Scans(sh) == sh.json

\* The header length is possible and every entry is accepted.
ShardOK(sh) ==
    /\ sh.hlen > 0 /\ Base(sh) <= sh.fsize
    /\ Scans(sh)
    /\ \A j \in DOMAIN sh.entries : EntryOK(sh, sh.entries[j])

-----------------------------------------------------------------------------
(* k3_st_open and k3_st_close.                                             *)

Recorded == {<<"fd", i>> : i \in {j \in DOMAIN fd : fd[j]}}
            \union {<<"dfd", i>> : i \in {j \in DOMAIN dfd : dfd[j]}}

\* Mutant: the second descriptors stay open.
CloseKeepsDirect ==
    /\ os' = os \ {<<"fd", i>> : i \in {j \in DOMAIN fd : fd[j]}}
    /\ pc' = "closed" /\ t' = <<>> /\ nindexed' = 0 /\ bucket' = <<>>
    /\ fd' = <<>> /\ dfd' = <<>>

\* k3_st_close: the recorded descriptors are closed and the struct is zeroed.
Close ==
    /\ os' = os \ Recorded
    /\ pc' = "closed" /\ t' = <<>> /\ nindexed' = 0 /\ bucket' = <<>>
    /\ fd' = <<>> /\ dfd' = <<>>

\* The files are listed and sorted; with none the open fails at once.
OpenDir ==
    /\ pc = "closed" /\ dir # <<>>
    /\ pc' = "scan" /\ t' = <<>> /\ nindexed' = 0 /\ bucket' = <<>>
    /\ fd' = [i \in DOMAIN dir |-> FALSE] /\ dfd' = [i \in DOMAIN dir |-> FALSE]
    /\ load' = NoLoad
    /\ UNCHANGED <<dirVars, os>>

\* The shard to scan next: shards are recorded in order.
Shard == 1 + Cardinality({i \in DOMAIN fd : fd[i]})

\* Its entries join the table; O_DIRECT may be refused.
ScanShard ==
    /\ pc = "scan" /\ Shard <= Len(dir) /\ ShardOK(dir[Shard])
    /\ t' = t \o [j \in DOMAIN dir[Shard].entries |-> Tensor(Shard, dir[Shard].entries[j])]
    /\ fd' = [fd EXCEPT ![Shard] = TRUE]
    /\ \E direct \in BOOLEAN :
         /\ dfd' = [dfd EXCEPT ![Shard] = direct]
         /\ os' = os \union {<<"fd", Shard>>}
                  \union IF direct THEN {<<"dfd", Shard>>} ELSE {}
    /\ UNCHANGED <<dirVars, pc, nindexed, bucket, load>>

\* The shard is refused, or opening, reading or allocating failed: its own
\* descriptor is closed before it was recorded, and everything is torn down.
ScanFails ==
    /\ pc = "scan" /\ Shard <= Len(dir)
    /\ Close
    /\ UNCHANGED <<dirVars, load>>

\* MinBucket doubled until at most half of the buckets are used.
BucketCount(n) ==
    LET nb[d \in 0..n] == IF d = 0 THEN MinBucket ELSE 2 * nb[d - 1]
    IN  nb[CHOOSE d \in 0..n : nb[d] >= 2 * n /\ (d = 0 \/ nb[d - 1] < 2 * n)]

NBucket == BucketCount(Len(t))

\* The names are resolved and the index is allocated, empty.
MakeIndex ==
    /\ pc = "scan" /\ Shard > Len(dir)
    /\ bucket' = [j \in 0..NBucket - 1 |-> 0]
    /\ pc' = "index"
    /\ UNCHANGED <<dirVars, t, nindexed, fd, dfd, os, load>>

\* The allocation of the index fails.
IndexFails ==
    /\ pc = "scan" /\ Shard > Len(dir)
    /\ Close
    /\ UNCHANGED <<dirVars, load>>

\* The d-th bucket probed for a name.
Probe(n, d) == (fnv1a[n] + d) % NBucket

\* How many occupied buckets of other names a probe for n passes.
ProbeLength(n) ==
    LET len[d \in Nat] ==
            LET i == bucket[Probe(n, d)]
            IN  IF i = 0 \/ t[i].name = n THEN d ELSE len[d + 1]
    IN  len[0]

\* Mutant: a tensor takes the bucket it hashes to.
InsertNoProbe ==
    /\ pc = "index" /\ nindexed < Len(t)
    /\ bucket' = [bucket EXCEPT ![Probe(t[nindexed + 1].name, 0)] = nindexed + 1]
    /\ nindexed' = nindexed + 1
    /\ UNCHANGED <<dirVars, pc, t, fd, dfd, os, load>>

\* The next tensor is put into the first free bucket of its probe.
Insert ==
    /\ pc = "index" /\ nindexed < Len(t)
    /\ LET n == t[nindexed + 1].name
           j == Probe(n, ProbeLength(n))
       IN  /\ bucket[j] = 0
           /\ bucket' = [bucket EXCEPT ![j] = nindexed + 1]
    /\ nindexed' = nindexed + 1
    /\ UNCHANGED <<dirVars, pc, t, fd, dfd, os, load>>

\* Its name is in the index already: the directory is refused.
InsertDuplicate ==
    /\ pc = "index" /\ nindexed < Len(t)
    /\ LET n == t[nindexed + 1].name IN bucket[Probe(n, ProbeLength(n))] # 0
    /\ Close
    /\ UNCHANGED <<dirVars, load>>

Opened ==
    /\ pc = "index" /\ nindexed = Len(t)
    /\ pc' = "open"
    /\ UNCHANGED <<dirVars, t, nindexed, bucket, fd, dfd, os, load>>

CloseDir ==
    /\ pc = "open"
    /\ Close
    /\ load' = NoLoad
    /\ UNCHANGED dirVars

\* k3_st_find: the index into t, 0 if the name is absent.
Find(n) == bucket[Probe(n, ProbeLength(n))]

\* The elements k3_st_read_f32 takes from n: as many as fit in a chunk, each
\* time; a tensor that is F32 already goes through k3_st_read in one piece.
ReadF32(x) ==
    LET n == Numel(x)
        c == IF x.dtype = "F32" THEN n ELSE WidenChunk \div ElemSize(x.dtype)
        done[k \in 0..n] == IF k = 0 THEN 0 ELSE done[k - 1] + Min({c, n - done[k - 1]})
    IN  done[n]

\* k3_st_read: the bytes as they are, unless the file ends.
ReadRaw(x) == Min({x.nbytes, dir[x.shard].fsize - x.off})

-----------------------------------------------------------------------------
(* k3_expert_ref, k3_expert_load_direct.                                   *)

\* Expert e's six tensors, packed and scale of w1, w2, w3 in turn.
Parts(e) == [j \in 1..6 |-> t[Find(Experts[e][j])]]

\* The tensors are there, two-dimensional bytes with one scale per group, in
\* one shard.
RefOK(e) ==
    /\ \A j \in 1..6 : Find(Experts[e][j]) # 0
    /\ LET x == Parts(e) IN
         /\ \A j \in 1..6 : x[j].dtype = "U8" /\ Len(x[j].shape) = 2
                            /\ x[j].shard = x[1].shard
         /\ \A i \in {1, 3, 5} : /\ x[i].shape[1] = x[i + 1].shape[1]
                                 /\ x[i + 1].shape[2] * Group = x[i].shape[2] * 2

\* Of six tensors x: the bytes they own, the lowest offset and the end.
Own(x) == FoldInOrder(LAMBDA n, y : n + y.nbytes, 0, x)
Lo(x)  == Min({x[j].off : j \in DOMAIN x})
Hi(x)  == Max({x[j].off + x[j].nbytes : j \in DOMAIN x})

\* Mutant: a gap between the tensors is overlooked.
ContiguousLoose(x) == Hi(x) - Lo(x) >= Own(x)

\* The six spans are one run of the file.
Contiguous(x) == Hi(x) - Lo(x) = Own(x)

\* Where each part is in the expert's bytes: at its place in the run, or
\* behind the parts before it.
PartOff(x) ==
    IF Contiguous(x) THEN [j \in 1..6 |-> x[j].off - Lo(x)]
    ELSE [j \in 1..6 |-> Own(SubSeq(x, 1, j - 1))]

\* k3_cache_init sizes every slot by the first expert it can describe;
\* eng_cache_stride_for adds room for the window.
SlotBytes == Own(Parts(Min({e \in DOMAIN Experts : RefOK(e)})))
Stride(slot_bytes) == AlignUp(slot_bytes + 2 * Align)

NoByte == <<0, 0>>

\* One read of the run, through the aligned window where O_DIRECT is on: what
\* it returns, the payload offset and the byte at each place of the buffer
\* (NoByte: none of this expert's).
LoadRun(x, cap) ==
    LET sh == x[1].shard
        lo == IF dfd[sh] THEN WindowLo(Lo(x)) ELSE Lo(x)
    IN  {[ret |-> r.ret, pad |-> r.pad,
          buf |-> [k \in 0..cap - 1 |-> IF k < r.got THEN <<sh, lo + k>> ELSE NoByte]] :
         r \in ReadAligned(Lo(x), Own(x), cap, dir[sh].fsize, dfd[sh])}

\* Six reads, each to its place; the sum is returned.  Part bad may be short
\* (it has g bytes), the others go on.
LoadScattered(x, cap, bad, g) ==
    LET at == PartOff(x)
        got(j) == IF j = bad THEN g ELSE x[j].nbytes
        part(k) == {j \in 1..6 : k - at[j] \in 0..got(j) - 1}
    IN  [ret |-> Own(x) - x[bad].nbytes + g, pad |-> 0,
         buf |-> [k \in 0..cap - 1 |->
                    IF part(k) = {} THEN NoByte
                    ELSE LET j == Max(part(k)) IN <<x[j].shard, x[j].off + k - at[j]>>]]

\* The cache describes the expert, refuses one larger than a slot, and reads.
LoadExpert(e) ==
    /\ pc = "open" /\ RefOK(e)
    /\ LET x   == Parts(e)
           cap == Stride(SlotBytes)
       IN  /\ Own(x) <= SlotBytes
           /\ \E r \in IF Contiguous(x) THEN LoadRun(x, cap)
                       ELSE UNION {{LoadScattered(x, cap, bad, g) :
                                    g \in {0, x[bad].nbytes - 1, x[bad].nbytes}} : bad \in 1..6} :
                load' = [x |-> x, ret |-> r.ret, pad |-> r.pad, buf |-> r.buf]
    /\ UNCHANGED <<dirVars, stVars>>

CheckpointNext ==
    \/ OpenDir \/ ScanShard \/ ScanFails \/ MakeIndex \/ IndexFails
    \/ Insert \/ InsertDuplicate \/ Opened \/ CloseDir
    \/ \E e \in DOMAIN Experts : LoadExpert(e)

-----------------------------------------------------------------------------
(* Properties.                                                             *)

\* The entries of the directory that carry name n.
Entries(n) ==
    UNION {{<<i, j>> : j \in {k \in DOMAIN dir[i].entries : dir[i].entries[k].name = n}} :
           i \in DOMAIN dir}

\* Once open, find is exact whatever the names hash to: it returns the one
\* tensor of that name in the whole directory, whose bytes are inside its
\* file, and NULL for a name no shard has.
FindExact ==
    pc = "open" => \A n \in DOMAIN fnv1a :
        IF Entries(n) = {} THEN Find(n) = 0
        ELSE \E ij \in Entries(n) :
               /\ Entries(n) = {ij} /\ Find(n) # 0
               /\ t[Find(n)] = Tensor(ij[1], dir[ij[1]].entries[ij[2]])
               /\ t[Find(n)].off + t[Find(n)].nbytes <= dir[ij[1]].fsize

\* However an open fails, and after a close, no descriptor stays open
\* ("the one function that owns the teardown", k3_st_open).
NothingLeft == pc = "closed" => os = {}

\* An expert load that returns all the bytes it was described with has every
\* packed and scale byte of its six tensors where fill_q points, across the
\* aligned window, the coalesced run and the scattered reads.
ExpertWhole ==
    load # NoLoad /\ load.ret = Own(load.x) =>
        LET at == PartOff(load.x) IN
        \A j \in 1..6 : \A k \in 0..load.x[j].nbytes - 1 :
            /\ load.pad + at[j] + k \in DOMAIN load.buf
            /\ load.buf[load.pad + at[j] + k] = <<load.x[j].shard, load.x[j].off + k>>
=============================================================================
