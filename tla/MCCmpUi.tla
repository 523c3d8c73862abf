------------------------------ MODULE MCCmpUi ------------------------------
(***************************************************************************)
(* Inputs for CmpUi with 3-bit limbs and longs and 8-bit ints.  The mpfr  *)
(* numbers are NaN, both infinities, both zeros and every regular number *)
(* of precision 1 .. 6 (one or two limbs) with exponents -3 .. 4; the     *)
(* calls take every limb i (unsigned) or every long i, with f in -4 .. 3, *)
(* so the exponents of b and i 2^f meet, cross and differ by one limb.    *)
(***************************************************************************)
EXTENDS CmpUi

\* The limbs of an n-limb mantissa v, least significant first.
MantLimbs(v, n) == [j \in 0 .. n - 1 |-> (v \div 2^(BITS * j)) % 2^BITS]

Regular(exps, precs) ==
  UNION {{[kind |-> "reg", sign |-> s, exp |-> e, prec |-> p,
           mant |-> MantLimbs(v * 2^(BITS * ((p - 1) \div BITS + 1) - p),
                              (p - 1) \div BITS + 1)] :
            s \in {-1, 1}, e \in exps, v \in 2^(p - 1) .. 2^p - 1} : p \in precs}

Special(kinds) ==
  {[kind |-> k, sign |-> s, exp |-> 0, prec |-> 1, mant |-> MantLimbs(0, 1)] :
     k \in kinds, s \in {-1, 1}}

Longs == -(2^(BITS - 1)) .. 2^(BITS - 1) - 1
ULongs == 0 .. 2^BITS - 1

\* The range where the code is correct: no zero b, no LONG_MIN, ints far
\* from overflow.
MCOperands == Regular(-3 .. 4, 1 .. 6) \cup Special({"nan", "inf"})
MCCalls == ({"ui"} \X ULongs \X (-4 .. 3))
           \cup ({"si"} \X (Longs \ {-(2^(BITS - 1))}) \X (-4 .. 3))

\* Zeros of both signs, every call.
MCZeroOperands == Special({"zero"})
MCZeroCalls == ({"ui"} \X ULongs \X {0})
               \cup ({"si"} \X (Longs \ {-(2^(BITS - 1))}) \X {0})

\* f near INT_MAX, b small.
MCBigFCalls == {"ui"} \X {1} \X {2^(INTBITS - 1) - 2, 2^(INTBITS - 1) - 1}

\* i = LONG_MIN with a negative b.
MCLongMinCalls == {"si"} \X {-(2^(BITS - 1))} \X {0}

\* The four defects at once: both zeros among the operands, and the zero,
\* big-f and LONG_MIN calls.
MCDefectOperands == MCOperands \cup MCZeroOperands
MCDefectCalls == MCZeroCalls \cup MCBigFCalls \cup MCLongMinCalls

=============================================================================
