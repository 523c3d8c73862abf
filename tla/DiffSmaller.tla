---------------------------- MODULE DiffSmaller ----------------------------
(***************************************************************************)
(* mpn_diff_smaller_p (mpn/generic/hgcd.c): decide a - b < c for a >= b    *)
(* from the limbs of a, b and c, without computing a - b.  It splits a and *)
(* b at k = csize limbs, a = A W^k + a', b = B W^k + b', and reasons about *)
(* A - B (0, 1 or more) from the high limbs alone, with one add of c and  *)
(* b' in the low part.  hgcd_jebelean calls it for both of its tests.     *)
(*                                                                         *)
(* The comparison is one pure operator per branch of the code; one action *)
(* evaluates it on an input triple.  The reference is slow_diff_smaller_p, *)
(* the code's own WANT_ASSERT check, which subtracts and compares.         *)
(***************************************************************************)
EXTENDS Limbs

CONSTANT Triples        \* set of inputs <<a, b, c>> with a >= b

ASSUME Triples \subseteq {t \in Nat \X Nat \X Nat : t[1] >= t[2]}

VARIABLES a, b, c, res   \* res: the return value, -1 before the call

vars == <<a, b, c, res>>

\* x mod W^k: the low k limbs xp[0 .. k-1].
Low(x, k) == x % W^k

\* mpn_add (cp, cp, csize, bp, bsize) and mpn_add_n: the carry out and
\* the csize limbs left in cp.
AddCarry(x, y, k) == (x + y) \div W^k
AddLow(x, y, k)   == (x + y) % W^k

\* Mutant: the test after "A - B == 1" without ch == 1.
DiffIsOneCheckNoCarry(x, bl, z, k) == AddLow(z - 1, bl, k) >= Low(x, k)

\* The test after "A - B == 1": mpn_sub_1 (cp, cp, csize, 1), then
\* mpn_add of the low part bl of b, and ch == 1 && cp >= a'.
DiffIsOneCheck(x, bl, z, k) ==
  AddCarry(z - 1, bl, k) = 1 /\ AddLow(z - 1, bl, k) >= Low(x, k)

\* for (i = lo; i < hi; i++) if (ap[i] != 0 || bp[i] != GMP_NUMB_MAX)
\* return 0;  TRUE when the loop runs to its end.
BorrowChain(x, y, lo, hi) ==
  \A i \in lo .. hi - 1 : Limb(x, i) = 0 /\ Limb(y, i) = W - 1

\* while (asize >= csize && ap[asize - 1] == bp[asize - 1]) asize--;
RECURSIVE CancelHigh(_, _, _, _)
CancelHigh(x, y, n, k) ==
  IF n >= k /\ Limb(x, n - 1) = Limb(y, n - 1)
  THEN CancelHigh(x, y, n - 1, k)
  ELSE n

\* asize == csize: A - B = 0; a' < c + b'.
DiffSameSize(x, y, z) ==
  LET k == Size(z)
  IN IF Size(y) # 0 /\ AddCarry(z, y, k) # 0 THEN TRUE
     ELSE x < (IF Size(y) # 0 THEN AddLow(z, y, k) ELSE z)

\* bsize <= csize < asize: B = 0, so A - B = A.
DiffBShort(x, y, z) ==
  LET k == Size(z)
  IN IF Size(x) > k + 1 \/ Limb(x, k) > 1 THEN FALSE
     ELSE IF Size(y) = 0 THEN FALSE
     ELSE DiffIsOneCheck(x, y, z, k)

\* csize < bsize < asize: A - B = 1 only for A = (1, 0 .. 0),
\* B = (0, MAX .. MAX).
DiffALonger(x, y, z) ==
  LET k == Size(z)
  IN IF Size(x) > Size(y) + 1 \/ Limb(x, Size(y)) > 1 THEN FALSE
     ELSE IF ~BorrowChain(x, y, k, Size(y)) THEN FALSE
     ELSE DiffIsOneCheck(x, Low(y, k), z, k)

\* asize == bsize > csize: cancel equal high limbs, then as above.
\* ap[asize-1] - bp[asize-1] is an unsigned limb difference.
DiffCancel(x, y, z) ==
  LET k == Size(z)
      n == CancelHigh(x, y, Size(x), k)
  IN IF n < k THEN TRUE
     ELSE IF n = k
          THEN AddCarry(z, Low(y, k), k) # 0 \/ Low(x, k) < AddLow(z, Low(y, k), k)
     ELSE IF (Limb(x, n - 1) - Limb(y, n - 1)) % W > 1 THEN FALSE
     ELSE IF ~BorrowChain(x, y, k, n - 1) THEN FALSE
     ELSE DiffIsOneCheck(x, Low(y, k), z, k)

\* mpn_diff_smaller_p: the dispatch on the three sizes.
MpnDiffSmallerP(x, y, z) ==
  LET asize == Size(x)
      bsize == Size(y)
      csize == Size(z)
  IN CASE csize = 0           -> FALSE
       [] asize < csize       -> TRUE
       [] asize = csize       -> DiffSameSize(x, y, z)
       [] bsize <= csize      -> DiffBShort(x, y, z)
       [] asize > bsize       -> DiffALonger(x, y, z)
       [] OTHER               -> DiffCancel(x, y, z)

\* slow_diff_smaller_p: subtract, normalize, MPN_LESS_P.
SlowDiffSmallerP(x, y, z) ==
  CASE Size(z) = 0 -> FALSE
    [] Size(y) = 0 -> x < z
    [] OTHER       -> x - y < z

Init ==
  /\ \E t \in Triples : a = t[1] /\ b = t[2] /\ c = t[3]
  /\ res = -1

\* The call: mpn_diff_smaller_p returns 1 or 0.
Call ==
  /\ res = -1
  /\ res' = IF MpnDiffSmallerP(a, b, c) THEN 1 ELSE 0
  /\ UNCHANGED <<a, b, c>>

Done == res # -1 /\ UNCHANGED vars

Spec == Init /\ [][Call \/ Done]_vars

(***************************************************************************)
(* Properties.                                                             *)
(***************************************************************************)
TypeOK == res \in {-1, 0, 1}

\* wrap_mpn_diff_smaller_p's ASSERT (r1 == r2): on every input with
\* a >= b the limb-level shortcut of mpn_diff_smaller_p, with its
\* cancellation of equal high limbs, its borrow-chain scan and its carry
\* test, returns what subtracting and comparing returns.
AgreesWithSlow ==
  res # -1 => (res = 1) = SlowDiffSmallerP(a, b, c)

=============================================================================
