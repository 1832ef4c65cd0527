------------------------------ MODULE MCKernels ------------------------------
(* Every build on every CPU it starts on; rows shorter than a vector step,     *)
(* one step and a tail, two blocks of the formats with small blocks.           *)
EXTENDS Kernels

\* A build of K3 with AVX2 runs only where the CPU has it.
MCMachines ==
    {m \in [x86 : BOOLEAN, avx2 : BOOLEAN, fma : BOOLEAN, k3avx2 : BOOLEAN, kqscalar : BOOLEAN] :
        /\ ~m.x86 => ~m.avx2 /\ ~m.fma
        /\ m.k3avx2 => m.avx2 /\ m.fma}

MCShapes == [f32 |-> {3, 37}, bf16 |-> {3, 37}, i8r |-> {3, 37}, q8_0 |-> {32, 64, 33},
             q4_k |-> {256, 512, 32}, q6_k |-> {256, 512, 32}, mxfp4 |-> {34, 64, 33}]
MCHalves == [sign : 0..1, exp : {0, 1, 15, 30, 31}, man : {0, 1, 2, 5, 341, 511, 512, 513, 1023}]
MCHeads   == {"f32", "q8_0", "q4_k", "q6_k"}
MCAnyHead == {"bf16"}
==============================================================================
