------------------------------- MODULE Quant --------------------------------
(***************************************************************************)
(* The quantized formats (src/quant): how a row is laid out in bytes, its  *)
(* fused dot product, scalar and vector, and its dequantisation.  A byte   *)
(* is the bits at its address; a code, a scale or a minimum is the term    *)
(* that names the bits it is made of.  Layouts have their real size.       *)
(***************************************************************************)
EXTENDS Reduce, FiniteSets

Bits(a, from, len) == <<"bits", a, from, len>>   \* unsigned, of the byte at a
Cat(lo, hi)        == <<"cat", lo, hi>>          \* lo below hi
Biased(c)          == <<"biased", c>>            \* c - 32
Signed(a)          == <<"s8", a>>
F16(a)             == <<"f16", a>>
E8M0(a)            == <<"e8m0", a>>
E2M1(c)            == <<"e2m1", c>>

Nibble(a, high) == Bits(a, IF high THEN 4 ELSE 0, 4)

\* Products of m codes with the activations from x0 on.
Products(codes, x0) == [l \in DOMAIN codes |-> Prod(codes[l], x0 + l)]

\* acc += part, over parts 0..n-1.
Sum(parts, n) ==
    LET acc[i \in 0..n] == IF i = 0 THEN Zero ELSE Add(acc[i - 1], parts[i - 1])
    IN  acc[n]

\* Four lanes over m elements, m a multiple of 4: as accumulators, as a vector.
Lanes4(p, m) == Red4([k \in 0..3 |-> FmaLane(p, 4, k, m \div 4)])
Vec4(p, m)   == Red4(VFma(p, 4, 0, 4, m \div 4))

-----------------------------------------------------------------------------
(* The half-precision scales: fields of 1, 5 and 10 bits to fields of 1, 8 *)
(* and 23.                                                                 *)

\* A subnormal is shifted up until its leading bit falls out.
F16ToF32(h) ==
    LET up == CHOOSE e \in 1..10 : 1024 <= h.man * 2 ^ e /\ h.man * 2 ^ e < 2048
    IN  [sign |-> h.sign,
         exp  |-> CASE h.exp = 0  -> IF h.man = 0 THEN 0 ELSE 127 - 15 - up + 1
                    [] h.exp = 31 -> 255
                    [] OTHER      -> h.exp - 15 + 127,
         man  |-> 2 ^ 13 * IF h.exp = 0 /\ h.man # 0 THEN h.man * 2 ^ up - 1024 ELSE h.man]

-----------------------------------------------------------------------------
(* Q4_K: 256 elements in 144 bytes, eight sub-blocks of 32.                *)

\* Mutant: both high halves come from the bytes of the scales.
ScaleMinBorrows(j, a) ==
    IF j < 4 THEN [sc |-> Bits(a + j, 0, 6), m |-> Bits(a + j + 4, 0, 6)]
    ELSE [sc |-> Cat(Bits(a + j + 4, 0, 4), Bits(a + j - 4, 6, 2)),
          m  |-> Cat(Bits(a + j + 4, 4, 4), Bits(a + j - 4, 6, 2))]

\* get_scale_min: the six-bit scale and minimum of sub-block j.
ScaleMin(j, a) ==
    IF j < 4 THEN [sc |-> Bits(a + j, 0, 6), m |-> Bits(a + j + 4, 0, 6)]
    ELSE [sc |-> Cat(Bits(a + j + 4, 0, 4), Bits(a + j - 4, 6, 2)),
          m  |-> Cat(Bits(a + j + 4, 4, 4), Bits(a + j, 6, 2))]

Q4KScale(p, j) == Times(F16(p), ScaleMin(j, p + 4).sc)
Q4KMin(p, j)   == Times(F16(p + 2), ScaleMin(j, p + 4).m)

\* Sub-block 2k is the low nibbles of the k-th 32 bytes, 2k+1 the high ones.
Q4KDequant(w, n) ==
    [i \in 0..(n - 1) |->
        LET p == w + 144 * (i \div 256)
            j == (i % 256) \div 32
            q == p + 16 + 32 * (j \div 2) + (i % 32)
        IN  Minus(Times(Q4KScale(p, j), Nibble(q, j % 2 = 1)), Q4KMin(p, j))]

\* The codes of sub-block j of the block at p.
Q4KCodes(p, j) == [l \in 0..31 |-> Nibble(p + 16 + 32 * (j \div 2) + l, j % 2 = 1)]

\* The sum of the 32 activations from x0 on, in the same four lanes.
XLanes(x0) ==
    Red4([k \in 0..3 |-> LET t[i \in 0..8] == IF i = 0 THEN Zero
                                              ELSE Add(t[i - 1], X(x0 + 4 * (i - 1) + k))
                         IN  t[8]])

XVec(x0) ==
    LET t[i \in 0..8] == IF i = 0 THEN [k \in 0..3 |-> Zero]
                         ELSE VAdd(t[i - 1], [k \in 0..3 |-> X(x0 + 4 * (i - 1) + k)])
    IN  Red4(t[8])

Q4KDotRef(w, n) ==
    Sum([s \in 0..(n \div 32 - 1) |->
            LET p == w + 144 * (s \div 8)
                j == s % 8
            IN  Minus(Times(Q4KScale(p, j), Lanes4(Products(Q4KCodes(p, j), 32 * s), 32)),
                      Times(Q4KMin(p, j), XLanes(32 * s)))], n \div 32)

Q4KDotAvx2(w, n) ==
    Sum([s \in 0..(n \div 32 - 1) |->
            LET p == w + 144 * (s \div 8)
                j == s % 8
            IN  Minus(Times(Q4KScale(p, j), Vec4(Products(Q4KCodes(p, j), 32 * s), 32)),
                      Times(Q4KMin(p, j), XVec(32 * s)))], n \div 32)

-----------------------------------------------------------------------------
(* Q6_K: 256 elements in 210 bytes.  One byte of qh has the two high bits  *)
(* of four elements 32 apart, each with a scale of its own.                *)

\* Element r of half h of the block at p: quarter r \div 32, column r % 32
\* (q1..q4; the three loops write the same four expressions).
Q6KCode(p, h, r) ==
    LET quarter == r \div 32
        l  == r % 32
        ql == p + 64 * h + l + IF quarter % 2 = 1 THEN 32 ELSE 0
    IN  Biased(Cat(Nibble(ql, quarter >= 2), Bits(p + 128 + 32 * h + l, 2 * quarter, 2)))

Q6KDequant(w, n) ==
    [i \in 0..(n - 1) |->
        LET p == w + 210 * (i \div 256)
            h == (i % 256) \div 128
            r == i % 128
            sc == Signed(p + 192 + 8 * h + (r % 32) \div 16 + 2 * (r \div 32))
        IN  Times(Times(F16(p + 208), sc), Q6KCode(p, h, r))]

\* Mutant: the two scales of a quarter are taken to be four apart.
Q6KPartFourApart(w, g) ==
    LET p == w + 210 * (g \div 16)
        h == (g % 16) \div 8
        k == g % 8
    IN  [scale |-> Times(F16(p + 208), Signed(p + 192 + 8 * h + k \div 2 + 4 * (k % 2))),
         prods |-> [l \in 0..15 |-> Prod(Q6KCode(p, h, 16 * k + l), 16 * g + l)]]

\* part[k] of half h, and its scale: quarter k \div 2, columns 16 (k % 2) on.
Q6KPart(w, g) ==
    LET p == w + 210 * (g \div 16)
        h == (g % 16) \div 8
        k == g % 8
    IN  [scale |-> Times(F16(p + 208), Signed(p + 192 + 8 * h + k)),
         prods |-> [l \in 0..15 |-> Prod(Q6KCode(p, h, 16 * k + l), 16 * g + l)]]

Q6KDotRef(w, n) ==
    Sum([g \in 0..(n \div 16 - 1) |->
            Times(Q6KPart(w, g).scale, Lanes4(Q6KPart(w, g).prods, 16))], n \div 16)

Q6KDotAvx2(w, n) ==
    Sum([g \in 0..(n \div 16 - 1) |->
            Times(Q6KPart(w, g).scale, Vec4(Q6KPart(w, g).prods, 16))], n \div 16)

-----------------------------------------------------------------------------
(* Q8_0: 32 elements in 34 bytes, an f16 scale and 32 int8.                *)

Q8DotRow(w, n) ==
    Sum([g \in 0..((n + 31) \div 32 - 1) |->
            LET blk == w + 34 * g
                m == IF n - 32 * g > 32 THEN 32 ELSE n - 32 * g
                q == Products([l \in 0..(m - 1) |-> Signed(blk + 2 + l)], 32 * g)
            IN  Times(FmaTail(q, Body(m, 4), m, Lanes4(q, Body(m, 4))), F16(blk))],
        (n + 31) \div 32)

Q8Dequant(w, n) ==
    [i \in 0..(n - 1) |-> Times(F16(w + 34 * (i \div 32)),
                                Signed(w + 34 * (i \div 32) + 2 + (i % 32)))]

-----------------------------------------------------------------------------
(* MXFP4: two E2M1 codes a byte, the low nibble the even element, and one  *)
(* E8M0 exponent a group in an array of its own.  nan is the set of the    *)
(* exponents that are 255.                                                 *)

GroupDotRef(p, m) ==
    LET s == [l \in 0..7 |-> FmaLane(p, 8, l, m \div 8)]
    IN  FmaTail(p, Body(m, 8), m, Red4([j \in 0..3 |-> Add(s[j], s[j + 4])]))

GroupDotAvx2(p, m) ==
    FmaTail(p, Body(m, 8), m,
            Red4(VAdd(VFma(p, 8, 0, 4, m \div 8), VFma(p, 8, 4, 4, m \div 8))))

\* The groups whose exponent is a NaN are passed over.
Mxfp4DotRow(w, s, n, group, nan, avx) ==
    LET ngrp == (n + group - 1) \div group
        part(g) ==
            LET m  == IF n - g * group > group THEN group ELSE n - g * group
                wf == [i \in 0..(m - 1) |-> E2M1(Nibble(w + g * (group \div 2) + i \div 2, i % 2 = 1))]
                p  == Products(wf, g * group)
            IN  Times(IF avx THEN GroupDotAvx2(p, m) ELSE GroupDotRef(p, m), E8M0(s + g))
        acc[g \in 0..ngrp] ==
            IF g = 0 THEN Zero
            ELSE IF s + g - 1 \in nan THEN acc[g - 1]
            ELSE Add(acc[g - 1], part(g - 1))
    IN  acc[ngrp]

Mxfp4Dequant(w, s, n, group, nan) ==
    [i \in 0..(n - 1) |->
        Times(E2M1(Nibble(w + i \div 2, i % 2 = 1)),
              IF s + i \div group \in nan THEN Zero ELSE E8M0(s + i \div group))]

-----------------------------------------------------------------------------
(* The dtype table and the registry of quantized formats.                  *)

None == -1          \* the -1 of the size functions

Info(elems, bytes, extra) == [elems |-> elems, bytes |-> bytes, extra |-> extra]

\* The dtypes the models use: elements and bytes of a block, and the row_extra
\* of the row-scaled one.
Tbl == [f32  |-> Info(1, 4, 0),     bf16 |-> Info(1, 2, 0),   f16   |-> Info(1, 2, 0),
        q8_0 |-> Info(32, 34, 0),   q4_k |-> Info(256, 144, 0),
        q6_k |-> Info(256, 210, 0), mxfp4 |-> Info(2, 1, 0),  i8r   |-> Info(1, 1, 4)]

DtypeBytes(dt, nelem) ==
    IF Tbl[dt].extra > 0 \/ nelem % Tbl[dt].elems # 0 THEN None
    ELSE (nelem \div Tbl[dt].elems) * Tbl[dt].bytes

DtypeRowBytes(dt, cols) ==
    IF cols % Tbl[dt].elems # 0 THEN None
    ELSE (cols \div Tbl[dt].elems) * Tbl[dt].bytes + Tbl[dt].extra

\* eng_tensor_nbytes of a matrix.
TensorBytes(dt, cols, rows) ==
    IF Tbl[dt].extra > 0
    THEN IF DtypeRowBytes(dt, cols) = None THEN None ELSE rows * DtypeRowBytes(dt, cols)
    ELSE IF cols % Tbl[dt].elems # 0 THEN None
    ELSE DtypeBytes(dt, cols * rows)

\* The formats REG holds.
Registered == {"mxfp4", "q8_0", "q4_k", "q6_k"}

\* row_bytes and scale_bytes of a format.
RowBytes(dt, n) ==
    CASE dt = "q4_k"  -> IF n % 256 # 0 THEN None ELSE (n \div 256) * 144
      [] dt = "q6_k"  -> IF n % 256 # 0 THEN None ELSE (n \div 256) * 210
      [] dt = "q8_0"  -> IF n % 32 # 0 THEN None ELSE (n \div 32) * 34
      [] dt = "mxfp4" -> IF n % 2 # 0 THEN None ELSE n \div 2

ScaleBytes(dt, n) == IF dt = "mxfp4" THEN (n + 31) \div 32 ELSE 0
=============================================================================
