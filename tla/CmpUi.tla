------------------------------- MODULE CmpUi -------------------------------
(***************************************************************************)
(* mpfr_cmp_ui_2exp and mpfr_cmp_si_2exp (mpfr/cmp_ui.c): the sign of     *)
(* b - i 2^f for a floating-point b and a machine integer i.  A regular b  *)
(* is a mantissa of prec bits, stored in n = (prec-1)/BITS + 1 limbs with *)
(* the top bit of limb n-1 set and the bits below prec zero, and an       *)
(* exponent e: b = mant 2^(e - n BITS), so 2^(e-1) <= |b| < 2^e.          *)
(*                                                                         *)
(* The code's int arithmetic on e, f and k (and the long product          *)
(* MPFR_SIGN(b) * i) is done in INTBITS-bit (LONGBITS-bit) two's          *)
(* complement: a signed overflow, undefined in C, is given the wrapped    *)
(* value the usual builds produce.  unsigned long i, long i and a limb    *)
(* are all BITS wide.                                                      *)
(***************************************************************************)
EXTENDS Integers

CONSTANTS
  BITS,         \* BITS_PER_MP_LIMB, also the width of (unsigned) long
  INTBITS,      \* the width of int
  Operands,     \* the mpfr numbers b
  Calls         \* the calls <<fn, i, f>>, fn \in {"ui", "si"}

VARIABLES b, fn, i, f, res, pc   \* pc: "call" or "done"

vars == <<b, fn, i, f, res, pc>>

Kind == {"nan", "inf", "zero", "reg"}

ASSUME /\ BITS \in Nat \ {0} /\ INTBITS \in Nat \ {0}
       /\ \A x \in Operands : x.kind \in Kind /\ x.sign \in {-1, 1}
       /\ \A c \in Calls : c[1] \in {"ui", "si"}

\* Two's complement wrap of an int, and of a long.
WrapTo(x, w) == ((x + 2^(w - 1)) % 2^w) - 2^(w - 1)
IntOf(x) == WrapTo(x, INTBITS)
LongOf(x) == WrapTo(x, BITS)

RECURSIVE BitLength(_)
BitLength(x) == IF x = 0 THEN 0 ELSE 1 + BitLength(x \div 2)

\* count_leading_zeros of a nonzero limb.
Clz(c) == BITS - BitLength(c)

\* bn = (MPFR_PREC(b)-1)/BITS_PER_MP_LIMB, the index of the top limb.
TopIndex(x) == (x.prec - 1) \div BITS

\* The tail of both functions once the exponents agree: compare the top
\* limb with c shifted up to its top bit, then scan the lower limbs.
CompareLimbs(x, c, k, pos) ==
  LET top == x.mant[TopIndex(x)]
      cs  == (c * 2^IntOf(f + BITS - k)) % 2^BITS
  IN CASE top > cs -> pos
       [] top < cs -> -pos
       [] \E j \in 0 .. TopIndex(x) - 1 : x.mant[j] # 0 -> pos
       [] OTHER -> 0

\* Mutant: the exponent guard of line 56 compared with >= .
MpfrCmpUi2exp_GeGuard(x) ==
  LET e == IntOf(x.exp)
      k == IntOf(f + BITS - Clz(i))
  IN CASE x.kind = "nan"                  -> 1
       [] x.sign < 0                      -> -1
       [] x.kind = "inf"                  -> 1
       [] x.kind = "zero"                 -> IF i # 0 THEN -1 ELSE 0
       [] i = 0                           -> 1
       [] e >= IntOf(f + BITS)            -> 1
       [] k # e                           -> IntOf(e - k)
       [] OTHER                           -> CompareLimbs(x, i, k, 1)

\* mpfr_cmp_ui_2exp (b, i, f), lines 43 - 75.
MpfrCmpUi2exp(x) ==
  LET e == IntOf(x.exp)
      k == IntOf(f + BITS - Clz(i))
  IN CASE x.kind = "nan"                  -> 1
       [] x.sign < 0                      -> -1
       [] x.kind = "inf"                  -> 1
       [] x.kind = "zero"                 -> IF i # 0 THEN -1 ELSE 0
       [] i = 0                           -> 1
       [] e > IntOf(f + BITS)             -> 1
       [] k # e                           -> IntOf(e - k)
       [] OTHER                           -> CompareLimbs(x, i, k, 1)

\* Mutant: line 111 returning e - k as mpfr_cmp_ui_2exp does, without si.
MpfrCmpSi2exp_NoSign(x) ==
  LET si == IF i < 0 THEN -1 ELSE 1
      c  == IF i < 0 THEN (-i) % 2^BITS ELSE i
      e  == IntOf(x.exp)
      k  == IntOf(f + BITS - Clz(c))
  IN CASE x.kind = "nan"                                 -> 1
       [] LongOf(x.sign * i) < 0 \/ x.kind = "inf"       -> x.sign
       [] x.kind = "zero" \/ i = 0                       ->
            IF i = 0 THEN (IF x.kind # "zero" THEN x.sign ELSE 0) ELSE si
       [] e > IntOf(f + BITS)                            -> si
       [] k # e                                          -> IntOf(e - k)
       [] OTHER                                          -> CompareLimbs(x, c, k, si)

\* mpfr_cmp_si_2exp (b, i, f), lines 91 - 125.  c = |i| as a limb.
MpfrCmpSi2exp(x) ==
  LET si == IF i < 0 THEN -1 ELSE 1
      c  == IF i < 0 THEN (-i) % 2^BITS ELSE i
      e  == IntOf(x.exp)
      k  == IntOf(f + BITS - Clz(c))
  IN CASE x.kind = "nan"                                 -> 1
       [] LongOf(x.sign * i) < 0 \/ x.kind = "inf"       -> x.sign
       [] x.kind = "zero" \/ i = 0                       ->
            IF i = 0 THEN (IF x.kind # "zero" THEN x.sign ELSE 0) ELSE si
       [] e > IntOf(f + BITS)                            -> si
       [] k # e                                          -> IntOf(si * IntOf(e - k))
       [] OTHER                                          -> CompareLimbs(x, c, k, si)

Init ==
  /\ b \in Operands
  /\ \E c \in Calls : fn = c[1] /\ i = c[2] /\ f = c[3]
  /\ res = 0 /\ pc = "call"

CallUi ==
  /\ pc = "call" /\ fn = "ui"
  /\ res' = MpfrCmpUi2exp(b) /\ pc' = "done"
  /\ UNCHANGED <<b, fn, i, f>>

CallSi ==
  /\ pc = "call" /\ fn = "si"
  /\ res' = MpfrCmpSi2exp(b) /\ pc' = "done"
  /\ UNCHANGED <<b, fn, i, f>>

Done == pc = "done" /\ UNCHANGED vars

Spec == Init /\ [][CallUi \/ CallSi \/ Done]_vars

(***************************************************************************)
(* The reference: the sign of b - i 2^f in exact arithmetic.               *)
(***************************************************************************)
Sgn(x) == IF x > 0 THEN 1 ELSE IF x < 0 THEN -1 ELSE 0

\* The limb value of the mantissa.
MantValue(x) ==
  LET RECURSIVE V(_)
      V(j) == IF j < 0 THEN 0 ELSE x.mant[j] * 2^(BITS * j) + V(j - 1)
  IN V(TopIndex(x))

\* sign of |b| - c 2^f for a regular b and c > 0: the exponents first,
\* then the mantissas scaled to the same length.  The exponents are
\* compared as mathematical integers.
MagnitudeCmp(x, c) ==
  LET eb == x.exp
      ek == f + BitLength(c)
      nb == BITS * (TopIndex(x) + 1)
  IN IF eb # ek THEN Sgn(eb - ek)
     ELSE Sgn(MantValue(x) * 2^BitLength(c) - c * 2^nb)

\* sign(b) and the exact comparison, for b not NaN.
SgnB == IF b.kind = "zero" THEN 0 ELSE b.sign

ExactCmp ==
  CASE SgnB # Sgn(i)               -> Sgn(SgnB - Sgn(i))
    [] SgnB = 0                    -> 0
    [] b.kind = "inf"              -> b.sign
    [] OTHER                       -> SgnB * MagnitudeCmp(b, IF i < 0 THEN -i ELSE i)

(***************************************************************************)
(* Properties.                                                             *)
(***************************************************************************)
\* The comment above mpfr_cmp_si_2exp: a positive value if b > i 2^f, a
\* negative one if b < i 2^f, zero if b = i 2^f.  A zero b is where the
\* zero tests of line 99 - 101 decide it.
CmpSiSign == pc = "done" /\ fn = "si" /\ b.kind # "nan" => Sgn(res) = ExactCmp

\* The same for mpfr_cmp_ui_2exp (the comment above it): the sign test
\* of line 48, the zero and exponent tests, and the limb comparison give
\* the sign of b - i 2^f, also for a zero b of either sign and for
\* exponents at the ends of the int range.
CmpUiSign == pc = "done" /\ fn = "ui" /\ b.kind # "nan" => Sgn(res) = ExactCmp

\* Both comments at once: whichever of the two functions is called, its
\* result has the sign of b - i 2^f.  Checked on a zero b of either sign,
\* where mpfr_cmp_si_2exp answers at line 101 and mpfr_cmp_ui_2exp at 48,
\* and on f near INT_MAX and i = LONG_MIN.
CmpSign == CmpUiSign /\ CmpSiSign

=============================================================================
