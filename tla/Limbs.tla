------------------------------- MODULE Limbs -------------------------------
(***************************************************************************)
(* Natural numbers as GMP stores them: little-endian arrays of limbs of    *)
(* LimbBits bits.  A number is kept as its value; what the code derives    *)
(* from the array (its normalized size, one limb, the leading bits) is     *)
(* computed from the value.  LimbBits is small in the models (2 or 3) so   *)
(* that multi-limb operands stay within TLC's reach; every size-dependent  *)
(* branch of the code is still taken.                                      *)
(***************************************************************************)
EXTENDS Naturals, Integers

CONSTANT LimbBits

ASSUME LimbBits \in Nat /\ LimbBits >= 1

\* W = 2^GMP_NUMB_BITS, the limb base.
W == 2^LimbBits

\* MPN_NORMALIZE: the number of significant limbs (0 for the value 0).
\* A negative value is what an mpn_sub whose ASSERT_NOCARRY fails would
\* leave; it is given size 0 here, and TypeOK reports it.
RECURSIVE Size(_)
Size(x) == IF x <= 0 THEN 0 ELSE 1 + Size(x \div W)

\* xp[i], the i-th limb of x.
Limb(x, i) == (x \div W^i) % W

\* Bit length of a single limb, and count_leading_zeros of a limb.
RECURSIVE BitLen(_)
BitLen(x) == IF x = 0 THEN 0 ELSE 1 + BitLen(x \div 2)

CountLeadingZeros(l) == LimbBits - BitLen(l)

\* l & GMP_NUMB_HIGHBIT
HighBitSet(l) == l >= W \div 2

\* MPN_EXTRACT_LIMB(count, xh, xl): one limb taken count bits below the
\* top of the two-limb window xh:xl.  count is in 1..LimbBits-1 where the
\* code uses it, so neither shift is by the full limb width.
ExtractLimb(count, xh, xl) ==
  ((xh * 2^count) % W) + (xl \div 2^(LimbBits - count))

=============================================================================
