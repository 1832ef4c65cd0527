-------------------------------- MODULE Gguf --------------------------------
(***************************************************************************)
(* Opening a GGUF container, src/formats/gguf.c.  The header's length is   *)
(* known only after it has been walked: a prefix of the file is read and   *)
(* parsed, and a longer one when the walk runs out of bytes.               *)
(*                                                                         *)
(* A file is its size, whether its first HdrFixed bytes (magic, version,   *)
(* counts) are acceptable, and its items: metadata entries, then tensors.  *)
(* An item has a length and the length of its name; a malformed one shows  *)
(* after its first fault bytes.                                            *)
(***************************************************************************)
EXTENDS Integers, FiniteSets, SequencesExt

CONSTANTS HdrFixed,      \* 24
          HdrFirst,      \* GGUF_HDR_FIRST, 8 MB
          HdrMax,        \* GGUF_HDR_MAX, 256 MB
          DefaultAlign   \* 32

VARIABLES file,
          gpc,      \* "closed", "read", "have", "failed"
          want,     \* the prefix to read
          blob,     \* blob_size of the container that is open
          store,    \* the file is open
          slip      \* an open or a read failed in this call

ggufVars == <<gpc, want, blob, store, slip>>

GgufInit == gpc = "closed" /\ want = 0 /\ blob = 0 /\ store = FALSE /\ slip = FALSE

Items == file.kv \o file.tensors

\* Where the i-th item starts.
Start(i) == HdrFixed + FoldLeft(LAMBDA n, x : n + x.len, 0, SubSeq(Items, 1, i - 1))
HdrEnd   == Start(Len(Items) + 1)

\* pool_add: the names up to the i-th, each with its terminator, fit the pool
\* that was sized from the prefix and the counts.
PoolOK(i, w) ==
    FoldLeft(LAMBDA n, x : n + x.name + 1, 0, SubSeq(Items, 1, i)) <= w + Len(Items) + 2

\* The i-th item of a prefix of w bytes: 0, 1 when it runs out, -1.
ParseItem(i, w) ==
    LET x == Items[i]
    IN  IF x.fault > 0 /\ Start(i) + x.fault <= w THEN -1
        ELSE IF Start(i) + x.len > w THEN 1
        ELSE IF ~PoolOK(i, w) THEN -1 ELSE 0

\* The first general.alignment, if it is positive.
Alignment ==
    LET a == {i \in DOMAIN file.kv : file.kv[i].key = "general.alignment"}
        v == file.kv[Min(a)].val
    IN  IF a # {} /\ v > 0 THEN v ELSE DefaultAlign

PowerOfTwo(n) == \E k \in 0..n : 2^k = n

DataStart == ((HdrEnd + Alignment - 1) \div Alignment) * Alignment

FileOff(x) == DataStart + x.rel_off

\* parse_header on a prefix of w bytes.
ParseHeader(w) ==
    LET bad == {i \in DOMAIN Items : ParseItem(i, w) # 0}
    IN  IF ~file.head THEN -1
        ELSE IF bad # {} THEN ParseItem(Min(bad), w)
        ELSE IF ~PowerOfTwo(Alignment) THEN -1
        ELSE IF \E i \in DOMAIN file.tensors :
                  FileOff(file.tensors[i]) + file.tensors[i].nbytes > file.size THEN -1
        ELSE 0

CloseStore == store' = FALSE /\ want' = 0 /\ blob' = 0

\* gguf_open up to the first read.
OpenGguf ==
    /\ gpc = "closed"
    /\ file.size >= HdrFixed
    /\ gpc' = "read" /\ store' = TRUE /\ slip' = FALSE
    /\ want' = Min({HdrFirst, file.size})
    /\ UNCHANGED blob

\* The file cannot be opened, or is too short.
OpenRefused ==
    /\ gpc = "closed"
    /\ gpc' = "failed" /\ slip' = (file.size >= HdrFixed)
    /\ CloseStore

ReadHeader ==
    /\ gpc = "read" /\ ParseHeader(want) = 0
    /\ gpc' = "have" /\ blob' = want
    /\ UNCHANGED <<want, store, slip>>

\* Mutant: the prefix is extended once.
MayGrowOnce == want <= HdrFirst /\ want < HdrMax /\ want < file.size

\* There is more of the file, and the cap is not reached.
MayGrow == want < HdrMax /\ want < file.size

Grow ==
    /\ gpc = "read" /\ ParseHeader(want) = 1 /\ MayGrow
    /\ want' = Min({4 * want, file.size, HdrMax})
    /\ UNCHANGED <<gpc, blob, store, slip>>

\* The header is malformed or cannot fit; below, a short read or no memory.
ParseFails ==
    /\ gpc = "read"
    /\ ParseHeader(want) = -1 \/ (ParseHeader(want) = 1 /\ ~MayGrow)
    /\ gpc' = "failed"
    /\ CloseStore /\ UNCHANGED slip

ReadShort ==
    /\ gpc = "read"
    /\ gpc' = "failed" /\ slip' = TRUE
    /\ CloseStore

GgufStep == ReadHeader \/ Grow \/ ParseFails \/ ReadShort

\* gguf_close; the outcome of a failed open is consumed the same way.
CloseGguf ==
    /\ gpc' = "closed" /\ slip' = FALSE
    /\ CloseStore

-----------------------------------------------------------------------------
(* Properties.                                                             *)

\* What a container must be, whatever prefix is read.
WellFormed ==
    /\ file.size >= HdrFixed /\ file.head
    /\ \A i \in DOMAIN Items : Items[i].fault = 0
    /\ HdrEnd <= Min({file.size, HdrMax})
    /\ PowerOfTwo(Alignment)
    /\ \A i \in DOMAIN file.tensors :
          DataStart + file.tensors[i].rel_off + file.tensors[i].nbytes <= file.size

\* gguf_open succeeds exactly on a well-formed container whose header fits the
\* cap, unless the file system fails it, however many prefixes it takes; then
\* every name and array is inside the prefix kept and every tensor behind the
\* header and inside the file; and no failure leaves the file open.
HeaderFits ==
    /\ gpc = "have" =>
         /\ WellFormed /\ HdrEnd <= blob /\ store
         /\ \A i \in DOMAIN file.tensors :
              /\ FileOff(file.tensors[i]) >= HdrEnd
              /\ FileOff(file.tensors[i]) + file.tensors[i].nbytes <= file.size
    /\ gpc = "failed" => ~store /\ (slip \/ ~WellFormed)
    /\ gpc = "closed" => ~store
=============================================================================
