---------------------------- MODULE AlignedRead -----------------------------
(***************************************************************************)
(* The aligned read of the file backend, src/storage/file.c: a read that   *)
(* bypasses the page cache must cover whole alignment units, so the window *)
(* that encloses the payload is read and the payload starts some bytes     *)
(* into the buffer.                                                        *)
(***************************************************************************)
EXTENDS Integers

CONSTANT Align   \* ENG_IO_ALIGN; 4096 in the code, any power of two will do

ASSUME AlignAssumption == Align \in Nat \ {0}

AlignUp(x)   == ((x + Align - 1) \div Align) * Align
AlignDown(x) == (x \div Align) * Align

\* The window file_read_aligned reads for nb bytes at off: where it starts,
\* how long it is, and where the payload is inside it.
WindowLo(off)      == AlignDown(off)
WindowLen(off, nb) == AlignUp(off + nb) - WindowLo(off)
PayloadOff(off)    == off - WindowLo(off)

\* Mutant: the bytes before the payload are counted as payload.
CoveredCountsPad(nb, pad, got) == IF got >= nb THEN nb ELSE got

\* The payload bytes covered when the first got bytes of the window came.
Covered(nb, pad, got) ==
    IF got >= pad + nb THEN nb ELSE IF got > pad THEN got - pad ELSE 0

\* The outcomes of read_aligned into a buffer of cap bytes, when the file has
\* size bytes: the value it returns, the payload offset it reports (0 if it
\* never set it) and the buffer bytes it filled.  pread may stop early.
ReadAligned(off, nb, cap, size, direct) ==
    LET len == IF direct THEN WindowLen(off, nb) ELSE nb
        lo  == IF direct THEN WindowLo(off) ELSE off
        pad == IF direct THEN PayloadOff(off) ELSE 0
        avail == IF size - lo < len THEN size - lo ELSE len
    IN  IF len > cap THEN {[ret |-> 0, pad |-> 0, got |-> 0]}
        ELSE {[ret |-> IF direct THEN Covered(nb, pad, g) ELSE g,
               pad |-> pad, got |-> g] : g \in 0..avail}
=============================================================================
