------------------------------ MODULE Kernels -------------------------------
(***************************************************************************)
(* Which kernel computes a product, and what it computes: the dispatch of  *)
(* src/kernels/kernel.c, eng_matmul_quant, the one matmul of K3's trunk,   *)
(* and Qwen3's projections, embedding row and LM head.  One call at a time *)
(* on one machine; the rows of a call are independent (each is a parallel  *)
(* iteration that writes its own y[r]).                                    *)
(***************************************************************************)
EXTENDS Quant

CONSTANTS Machines,    \* [x86, avx2, fma, k3avx2, kqscalar : BOOLEAN]
          Shapes,      \* dtype -> the row lengths multiplied
          Rows,        \* rows of a matrix
          Vocab,       \* rows of the embedding and of the LM head
          HeadTypes,   \* their dtypes
          Halves       \* half-precision numbers, [sign, exp, man]

VARIABLES machine,     \* the build and its CPU
          impl,        \* g_impl
          selected,    \* g_selected
          last         \* the call that has returned, or NoCall

vars == <<machine, impl, selected, last>>

NoCall == [op |-> "none"]
W32(a) == <<"w32", a>>
W16(a) == <<"w16", a>>

HasAvx2  == machine.x86 /\ machine.avx2 /\ machine.fma
Available(i) == i = "ref" \/ (i = "avx2" /\ machine.x86 /\ HasAvx2)

\* The implementation after eng_kernel_select(want).
Selection(want) ==
    IF want = "auto" THEN IF Available("avx2") THEN "avx2" ELSE "ref"
    ELSE IF Available(want) THEN want ELSE "ref"

\* eng_kernel_active selects on first use.
Active == IF selected THEN impl ELSE Selection("auto")

\* A vector kernel where the CPU lacks it does not return.
Dot(p, n, pol) ==
    IF Active # "avx2" THEN DotRef(p, n, pol)
    ELSE IF HasAvx2 THEN DotAvx2(p, n, pol) ELSE <<"fault">>

-----------------------------------------------------------------------------
(* The rows.  Row r of a matrix starts at byte base + r * (bytes of a row). *)

Dense(dt, base, r, n) ==
    [i \in 0..(n - 1) |-> IF dt = "f32" THEN W32(base + 4 * (r * n + i))
                          ELSE W16(base + 2 * (r * n + i))]

KqVector == ~machine.kqscalar /\ machine.x86 /\ HasAvx2

\* dot_row of a registered format.
DotRow(dt, w, s, n, nan) ==
    CASE dt = "q4_k"  -> IF KqVector THEN Q4KDotAvx2(w, n) ELSE Q4KDotRef(w, n)
      [] dt = "q6_k"  -> IF KqVector THEN Q6KDotAvx2(w, n) ELSE Q6KDotRef(w, n)
      [] dt = "q8_0"  -> Q8DotRow(w, n)
      [] dt = "mxfp4" -> Mxfp4DotRow(w, s, n, 32, nan, machine.x86 /\ HasAvx2)

DequantRow(dt, w, s, n, nan) ==
    CASE dt = "q4_k"  -> Q4KDequant(w, n)
      [] dt = "q6_k"  -> Q6KDequant(w, n)
      [] dt = "q8_0"  -> Q8Dequant(w, n)
      [] dt = "mxfp4" -> Mxfp4Dequant(w, s, n, 32, nan)

MatmulDense(dt, base, n, rows, pol) ==
    [r \in 0..(rows - 1) |-> Dot(Products(Dense(dt, base, r, n), 0), n, pol)]

\* eng_matmul_quant refuses what it cannot read.
Accepts(dt, n, given) ==
    /\ dt \in Registered
    /\ RowBytes(dt, n) # None
    /\ ScaleBytes(dt, n) > 0 => given

MatmulQuant(dt, base, n, rows, nan) ==
    [r \in 0..(rows - 1) |-> DotRow(dt, base + r * RowBytes(dt, n), r * ScaleBytes(dt, n), n, nan)]

-----------------------------------------------------------------------------
(* The calls.                                                              *)

Init ==
    /\ machine \in Machines
    /\ impl = "ref"
    /\ selected = FALSE
    /\ last = NoCall

Select(want) ==
    /\ last = NoCall
    /\ impl' = Selection(want)
    /\ selected' = TRUE
    /\ UNCHANGED <<machine, last>>

\* Every use of the dense kernels selects one first.
Uses == impl' = Active /\ selected' = TRUE
\* arg: the NaN exponents, or the token of an embedding row.
Ret(op, dt, n, rows, ok, out, arg) ==
    last' = [op |-> op, dt |-> dt, n |-> n, rows |-> rows, ok |-> ok, out |-> out, arg |-> arg]

\* eng_matmul_f32, eng_matmul_bf16.
CallDense(dt, n, pol) ==
    /\ last = NoCall
    /\ Uses
    /\ Ret(pol, dt, n, Rows, TRUE, MatmulDense(dt, 0, n, Rows, pol), {})
    /\ UNCHANGED machine

CallQuant(dt, n, given, nan) ==
    /\ last = NoCall
    /\ IF Accepts(dt, n, given)
       THEN Ret("quant", dt, n, Rows, TRUE, MatmulQuant(dt, 0, n, Rows, nan), nan)
       ELSE Ret(IF given THEN "quant" ELSE "unscaled", dt, n, Rows, FALSE, <<>>, nan)
    /\ UNCHANGED <<machine, impl, selected>>

\* k3_mmw: the trunk in f32 or bf16, the draft in int8 rows.
K3Mmw(wdt, n) ==
    LET rb == 4 + n
        avx == machine.k3avx2
    IN  /\ last = NoCall
        /\ Ret("k3", wdt, n, Rows, TRUE,
               [r \in 0..(Rows - 1) |->
                   CASE wdt = "bf16" -> K3MatmulBf16(Products(Dense("bf16", 0, r, n), 0), n, avx)
                     [] wdt = "i8r"  ->
                          K3MatmulQ8(Products([i \in 0..(n - 1) |-> Signed(rb * r + 4 + i)], 0),
                                     n, avx, W32(rb * r))
                     [] wdt = "f32"  -> K3Matmul(Products(Dense("f32", 0, r, n), 0), n)], {})
        /\ UNCHANGED <<machine, impl, selected>>

\* project(): a weight of a layer, with no scale array.
Project(dt, n) ==
    /\ last = NoCall
    /\ IF dt = "f32"
       THEN Uses /\ Ret("fast", dt, n, Rows, TRUE, MatmulDense(dt, 0, n, Rows, "fast"), {})
       ELSE /\ IF Accepts(dt, n, FALSE)
               THEN Ret("quant", dt, n, Rows, TRUE, MatmulQuant(dt, 0, n, Rows, {}), {})
               ELSE Ret("unscaled", dt, n, Rows, FALSE, <<>>, {})
            /\ UNCHANGED <<impl, selected>>
    /\ UNCHANGED machine

\* The embedding row of a token: a registered format is dequantised, anything
\* else is taken for f32.
Embed(dt, n, token) ==
    /\ last = NoCall
    /\ Ret("embed", dt, n, 1, TRUE,
           IF dt \in Registered THEN DequantRow(dt, token * RowBytes(dt, n), 0, n, {})
           ELSE Dense("f32", 0, token, n), token)
    /\ UNCHANGED <<machine, impl, selected>>

\* The logits: the resident head in one call (chunk = 0), or chunk rows at a
\* time through headbuf, whose byte 0 is byte r0 * hrow of the head.
LmHeadRows(dt, n, chunk) ==
    [v \in 0..(Vocab - 1) |->
        LET r0 == IF chunk = 0 THEN 0 ELSE (v \div chunk) * chunk
        IN  IF dt \in Registered
            THEN MatmulQuant(dt, r0 * RowBytes(dt, n), n, v - r0 + 1, {})[v - r0]
            ELSE MatmulDense("f32", r0 * 4 * n, n, v - r0 + 1, "fast")[v - r0]]

LmHead(dt, n, chunk) ==
    /\ last = NoCall
    /\ IF dt \in Registered
       THEN UNCHANGED <<impl, selected>>
       ELSE Uses
    /\ Ret("head", dt, n, Vocab, TRUE, LmHeadRows(dt, n, chunk), {})
    /\ UNCHANGED machine

\* eng_f16_to_f32, and the copy of it in q8_0.c.
Widen(h) ==
    /\ last = NoCall
    /\ Ret("half", "f16", 1, 1, TRUE, F16ToF32(h), h)
    /\ UNCHANGED <<machine, impl, selected>>

\* k3_matmul_mxfp4: the rows of an expert, of even length, without the checks.
K3Mxfp4(n, nan) ==
    /\ last = NoCall
    /\ Ret("quant", "mxfp4", n, Rows, TRUE,
           [r \in 0..(Rows - 1) |->
               Mxfp4DotRow(r * (n \div 2), r * ((n + 31) \div 32), n, 32, nan,
                           machine.x86 /\ HasAvx2)], nan)
    /\ UNCHANGED <<machine, impl, selected>>

\* k3_mxfp4_dequant: the rows of an expert, one after the other.
K3Mxfp4Dequant(n, nan) ==
    /\ last = NoCall
    /\ Ret("dequant", "mxfp4", n, Rows, TRUE,
           [j \in 0..(Rows * n - 1) |->
               Mxfp4Dequant((j \div n) * (n \div 2), (j \div n) * ((n + 31) \div 32), n, 32, nan)[j % n]],
           nan)
    /\ UNCHANGED <<machine, impl, selected>>

Done ==
    /\ last # NoCall
    /\ last' = NoCall
    /\ UNCHANGED <<machine, impl, selected>>

Nans(n) == {{}, {0}, {(n + 31) \div 32}}      \* none, of the first row, of the second

Next ==
    \/ \E want \in {"auto", "ref", "avx2"} : Select(want)
    \/ \E dt \in {"f32", "bf16"}, pol \in {"exact", "fast"} : \E n \in Shapes[dt] : CallDense(dt, n, pol)
    \/ \E dt \in Registered \union {"bf16"}, given \in BOOLEAN : \E n \in Shapes[dt] :
          \E nan \in IF dt = "mxfp4" THEN Nans(n) ELSE {{}} : CallQuant(dt, n, given, nan)
    \/ \E wdt \in {"f32", "bf16", "i8r"} : \E n \in Shapes[wdt] : K3Mmw(wdt, n)
    \/ \E dt \in DOMAIN Shapes \ {"i8r"} : \E n \in Shapes[dt] : Project(dt, n)
    \/ \E dt \in HeadTypes, token \in 0..(Vocab - 1) : \E n \in Shapes[dt] :
          (dt \in Registered => RowBytes(dt, n) # None) /\ Embed(dt, n, token)
    \/ \E dt \in HeadTypes, chunk \in 0..Vocab : \E n \in Shapes[dt] :
          (dt \in Registered => RowBytes(dt, n) # None) /\ LmHead(dt, n, chunk)
    \/ \E n \in {m \in Shapes["mxfp4"] : m % 2 = 0} : \E nan \in Nans(n) : K3Mxfp4(n, nan) \/ K3Mxfp4Dequant(n, nan)
    \/ \E h \in Halves : Widen(h)
    \/ Done

Spec == Init /\ [][Next]_vars

-----------------------------------------------------------------------------
(* What the calls promise.                                                 *)

\* The value of element i of row r as the file stores it.
Stored(dt, n, r, i, nan) ==
    CASE dt \in {"f32", "bf16"} -> Dense(dt, 0, r, n)[i]
      [] dt = "f16"             -> F16(2 * (r * n + i))
      [] dt = "i8r"             -> Times(W32((4 + n) * r), Signed((4 + n) * r + 4 + i))
      [] dt \in Registered      -> DequantRow(dt, r * RowBytes(dt, n), r * ScaleBytes(dt, n), n, nan)[i]

\* What the reference kernels compute for row r.
Reference(c, r) ==
    CASE c.dt = "q4_k"  -> Q4KDotRef(r * RowBytes("q4_k", c.n), c.n)
      [] c.dt = "q6_k"  -> Q6KDotRef(r * RowBytes("q6_k", c.n), c.n)
      [] c.dt = "q8_0"  -> Q8DotRow(r * RowBytes("q8_0", c.n), c.n)
      [] c.dt = "mxfp4" -> Mxfp4DotRow(r * RowBytes("mxfp4", c.n), r * ScaleBytes("mxfp4", c.n),
                                       c.n, 32, c.arg, FALSE)
      [] OTHER          -> RefExact(Products(Dense(c.dt, 0, r, c.n), 0), c.n)

\* The calls with no contract on their bits: the fast policy, the draft's int8
\* rows, and the f32 head, which is computed with the fast policy.
Loose(c) == c.op = "fast" \/ c.dt = "i8r" \/ (c.op = "head" /\ c.dt \notin Registered)

IsProduct(c) == c # NoCall /\ c.ok /\ c.op \notin {"embed", "dequant", "half"}

\* kernel.h, quant.h and the comments of k3_ops.c: an exact product, a
\* quantized one and a product of K3's trunk have the bits of the scalar
\* reference on every CPU, build and selection, and never reach a vector kernel
\* the CPU lacks.
ExactPortable ==
    IsProduct(last) /\ ~Loose(last) =>
        \A r \in 0..(last.rows - 1) : last.out[r] = Reference(last, r)

\* A number m * 2^e as an odd m and its e; 0 as 0 * 2^0.
RECURSIVE Odd(_, _)
Odd(m, e) == IF m = 0 THEN <<0, 0>> ELSE IF m % 2 = 0 THEN Odd(m \div 2, e + 1) ELSE <<m, e>>

\* A half h and a float f: both infinite or not a number with the same payload,
\* or both the same number.
SameNumber(h, f) ==
    /\ h.sign = f.sign
    /\ h.exp = 31 <=> f.exp = 255
    /\ IF h.exp = 31 THEN f.man = 2 ^ 13 * h.man
       ELSE (IF h.exp = 0 THEN Odd(h.man, -24) ELSE Odd(1024 + h.man, h.exp - 25))
              = (IF f.exp = 0 THEN Odd(f.man, -149) ELSE Odd(2 ^ 23 + f.man, f.exp - 150))

\* Every product of a matrix and a vector is, row by row, the sum over the row
\* of stored value times activation with each element once, whatever the
\* kernel, the policy, the chunk of the LM head or the format's packing; a
\* dequantised row holds the stored values; and a half-precision scale, also a
\* subnormal one, keeps its value.
RowsExact ==
    /\ IsProduct(last) =>
          \A r \in 0..(last.rows - 1) :
             LET want == [i \in 0..(last.n - 1) |->
                             Monomials(Times(Stored(last.dt, last.n, r, i,
                                                    IF last.dt = "mxfp4" THEN last.arg ELSE {}),
                                             X(i)), 1)]
                 all == UNION {want[i] : i \in DOMAIN want}
             IN  /\ Monomials(last.out[r], 1) = all
                 /\ Summands(last.out[r]) = Cardinality(all)
    /\ last.op = "embed" =>
          \A i \in 0..(last.n - 1) :
             Monomials(last.out[i], 1) = Monomials(Stored(last.dt, last.n, last.arg, i, {}), 1)
    /\ last.op = "dequant" =>
          \A j \in 0..(last.rows * last.n - 1) :
             Monomials(last.out[j], 1)
               = Monomials(Stored("mxfp4", last.n, j \div last.n, j % last.n, last.arg), 1)
    /\ last.op = "half" => SameNumber(last.arg, last.out)

RECURSIVE BitsOf(_)
BitsOf(t) ==
    CASE t[1] = "bits" -> (8 * t[2] + t[3])..(8 * t[2] + t[3] + t[4] - 1)
      [] t[1] = "s8"   -> (8 * t[2])..(8 * t[2] + 7)
      [] t[1] \in {"f16", "w16"} -> (8 * t[2])..(8 * t[2] + 15)
      [] t[1] = "w32"  -> (8 * t[2])..(8 * t[2] + 31)
      [] t[1] = "e8m0" -> {-1 - t[2]}                 \* a byte of the scale array
      [] t[1] \in {"biased", "e2m1"} -> BitsOf(t[2])
      [] t[1] = "cat"  -> BitsOf(t[2]) \union BitsOf(t[3])
      [] t[1] = "x"    -> {}

BitsRead(t) == UNION {UNION {BitsOf(f) : f \in m[2]} : m \in Monomials(t, 1)}

\* A product over all the rows of a matrix reads every bit of the bytes
\* eng_tensor_nbytes gives it and of its scale array, and no other (a NaN
\* exponent drops the bits of its group); a call is refused only when the dtype has
\* no format, the row no layout or the scales are missing.
BytesExact ==
    /\ IsProduct(last) /\ ~(last.dt = "mxfp4" /\ last.arg # {}) =>
          UNION {BitsRead(last.out[r]) : r \in 0..(last.rows - 1)}
            = (0..(8 * TensorBytes(last.dt, last.n, last.rows) - 1))
              \union {-1 - a : a \in IF last.dt = "mxfp4"
                                     THEN 0..(last.rows * ScaleBytes("mxfp4", last.n) - 1) ELSE {}}
    /\ last # NoCall /\ ~last.ok =>
          \/ last.dt \notin Registered
          \/ TensorBytes(last.dt, last.n, last.rows) = None
          \/ last.op = "unscaled" /\ last.dt = "mxfp4"
=============================================================================
