------------------------------- MODULE Reduce -------------------------------
(***************************************************************************)
(* The order in which the dot-product kernels round and add:               *)
(* src/kernels/kernel.c and kernel_avx2.c, and the matmuls of              *)
(* src/core/k3_ops.c.  A floating-point value is the term that computes    *)
(* it; two kernels give the same bits for every input when their terms are *)
(* equal.  Widening a float, a bf16 or an int8 is exact and leaves no      *)
(* trace in a term.                                                        *)
(*                                                                         *)
(* p is a function from the elements 0..n-1 of a row to their products     *)
(* weight times activation.                                                *)
(***************************************************************************)
EXTENDS Integers, Sequences

Zero         == <<"0">>
X(i)         == <<"x", i>>              \* activation i
Prod(w, i)   == <<"p", w, i>>           \* weight w times activation i, not rounded
Add(a, b)    == <<"+", a, b>>
Minus(a, b)  == <<"-", a, b>>
Times(a, b)  == <<"*", a, b>>
Fma(q, c)    == <<"fma", q, c>>         \* product q plus c, rounded once
MulAdd(q, c) == Add(c, <<"round", q>>)  \* rounded twice

Red4(v) == Add(Add(v[0], v[1]), Add(v[2], v[3]))

\* The elements that fill whole steps of s.
Body(n, s) == (n \div s) * s

\* One accumulator: elements l, l + s, l + 2s, ... of the first k steps of s.
FmaLane(p, s, l, k) ==
    LET acc[i \in 0..k] == IF i = 0 THEN Zero ELSE Fma(p[(i - 1) * s + l], acc[i - 1])
    IN  acc[k]

MulAddLane(p, s, l, k) ==
    LET acc[i \in 0..k] == IF i = 0 THEN Zero ELSE MulAdd(p[(i - 1) * s + l], acc[i - 1])
    IN  acc[k]

\* The elements from..n-1 one after the other.
FmaTail(p, from, n, c) ==
    LET acc[i \in from..n] == IF i = from THEN c ELSE Fma(p[i - 1], acc[i - 1])
    IN  acc[n]

MulAddTail(p, from, n, c) ==
    LET acc[i \in from..n] == IF i = from THEN c ELSE MulAdd(p[i - 1], acc[i - 1])
    IN  acc[n]

\* Vector registers are functions from their lanes.
VAdd(u, v) == [j \in DOMAIN u |-> Add(u[j], v[j])]

\* A register of w lanes that takes elements at, at + 1, ... of each step of s.
VFma(p, s, at, w, k) ==
    LET v[i \in 0..k] == IF i = 0 THEN [j \in 0..(w - 1) |-> Zero]
                         ELSE [j \in 0..(w - 1) |-> Fma(p[(i - 1) * s + at + j], v[i - 1][j])]
    IN  v[k]

-----------------------------------------------------------------------------
(* The engine's kernels.                                                   *)

RefExact(p, n) ==
    LET a == [l \in 0..15 |-> FmaLane(p, 16, l, n \div 16)]
        b == [j \in 0..3 |-> Add(Add(a[j], a[j + 4]), Add(a[j + 8], a[j + 12]))]
    IN  FmaTail(p, Body(n, 16), n, Red4(b))

RefFast(p, n) ==
    LET a == [l \in 0..7 |-> MulAddLane(p, 8, l, n \div 8)]
    IN  MulAddTail(p, Body(n, 8), n,
          Add(Add(Add(a[0], a[4]), Add(a[1], a[5])), Add(Add(a[2], a[6]), Add(a[3], a[7]))))

\* Mutant: the registers are paired the other way.
AvxExactPairs(p, n) ==
    LET v(r) == VFma(p, 16, 4 * r, 4, n \div 16)
    IN  FmaTail(p, Body(n, 16), n, Red4(VAdd(VAdd(v(0), v(2)), VAdd(v(1), v(3)))))

AvxExact(p, n) ==
    LET v(r) == VFma(p, 16, 4 * r, 4, n \div 16)
    IN  FmaTail(p, Body(n, 16), n, Red4(VAdd(VAdd(v(0), v(1)), VAdd(v(2), v(3)))))

\* The two halves, their halves, and the last two lanes.
Fold8(v) ==
    LET lo == [j \in 0..3 |-> Add(v[j], v[j + 4])]
        l2 == [j \in 0..1 |-> Add(lo[j], lo[j + 2])]
    IN  Add(l2[0], l2[1])

AvxFast(p, n) ==
    MulAddTail(p, Body(n, 16), n,
        Fold8(VAdd(VFma(p, 16, 0, 8, n \div 16), VFma(p, 16, 8, 8, n \div 16))))

DotRef(p, n, pol)  == IF pol = "exact" THEN RefExact(p, n) ELSE RefFast(p, n)
DotAvx2(p, n, pol) == IF pol = "exact" THEN AvxExact(p, n) ELSE AvxFast(p, n)

-----------------------------------------------------------------------------
(* The kernels of K3, whose vector paths are chosen when it is built.      *)

K3Matmul(p, n) ==
    LET a(l) == FmaLane(p, 16, l, n \div 16)
        b(j) == Add(Add(a(j), a(j + 4)), Add(a(j + 8), a(j + 12)))
    IN  FmaTail(p, Body(n, 16), n, Add(Add(b(0), b(1)), Add(b(2), b(3))))

K3MatmulBf16(p, n, avx) ==
    LET v(r) == VFma(p, 16, 4 * r, 4, n \div 16)
    IN  IF avx
        THEN FmaTail(p, Body(n, 16), n, Red4(VAdd(VAdd(v(0), v(1)), VAdd(v(2), v(3)))))
        ELSE K3Matmul(p, n)

\* The int8 rows of the draft: a float sum, and the row's scale once.
K3MatmulQ8(p, n, avx, scale) ==
    LET lanes == [l \in 0..3 |-> MulAddLane(p, 4, l, n \div 4)]
        sum == IF avx
               THEN MulAddTail(p, Body(n, 16), n,
                      Fold8(VAdd(VFma(p, 16, 0, 8, n \div 16), VFma(p, 16, 8, 8, n \div 16))))
               ELSE MulAddTail(p, Body(n, 4), n, Red4(lanes))
    IN  Times(sum, scale)

-----------------------------------------------------------------------------
(* What a term computes in exact arithmetic: a set of signed products of   *)
(* weights, scales and activations, and how many summands there are.       *)

RECURSIVE Monomials(_, _)
Monomials(t, sign) ==
    CASE t[1] = "0"     -> {}
      [] t[1] = "+"     -> Monomials(t[2], sign) \union Monomials(t[3], sign)
      [] t[1] = "-"     -> Monomials(t[2], sign) \union Monomials(t[3], -sign)
      [] t[1] = "*"     -> {<<m[1] * k[1], m[2] \union k[2]>> :
                               m \in Monomials(t[2], sign), k \in Monomials(t[3], 1)}
      [] t[1] = "p"     -> Monomials(Times(t[2], X(t[3])), sign)
      [] t[1] = "fma"   -> Monomials(t[2], sign) \union Monomials(t[3], sign)
      [] t[1] = "round" -> Monomials(t[2], sign)
      [] OTHER          -> {<<sign, {t}>>}

RECURSIVE Summands(_)
Summands(t) ==
    CASE t[1] = "0"                -> 0
      [] t[1] \in {"+", "-", "fma"} -> Summands(t[2]) + Summands(t[3])
      [] t[1] = "*"                -> Summands(t[2]) * Summands(t[3])
      [] t[1] = "p"                -> Summands(t[2])
      [] t[1] = "round"            -> Summands(t[2])
      [] OTHER                     -> 1
=============================================================================
