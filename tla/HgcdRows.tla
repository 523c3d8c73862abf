------------------------------ MODULE HgcdRows ------------------------------
(***************************************************************************)
(* The row and quotient-stack helpers of hgcd.c shared by hgcd_lehmer and  *)
(* the recursive hgcd.  A row (struct hgcd_row) is a record [r, u, v]: the *)
(* remainder and the two unsigned cofactors uvp[0], uvp[1].  The four rows *)
(* are a function 0..3 -> row.  The global sign (hgcd->sign, 0 or ~0) is a *)
(* Boolean neg: row 0 holds u a - v b when neg is FALSE, v b - u a when    *)
(* TRUE, and the sign alternates down the rows.  The limb arrays, their    *)
(* sizes and the scratch areas are abstracted to the values they hold.     *)
(*                                                                         *)
(* The quotient stack is struct qstack's limb and size arrays (QStack);  *)
(* its contents are read back with StackQuotients.                       *)
(***************************************************************************)
EXTENDS Euclid, QStack

\* HGCD_SWAP4_LEFT (a,b,c,d) <- (b,c,d,a), HGCD_SWAP4_RIGHT <- (d,a,b,c),
\* HGCD_SWAP4_2 <- (c,d,a,b): relabel the four rows.
Swap4Left(rw)  == [i \in 0 .. 3 |-> rw[(i + 1) % 4]]
Swap4Right(rw) == [i \in 0 .. 3 |-> rw[(i + 3) % 4]]
Swap4Two(rw)   == [i \in 0 .. 3 |-> rw[(i + 2) % 4]]

\* hgcd_start: r0 = a with (u,v) = (1,0), r1 = b with (0,1); the other
\* rows' cofactors are zeroed.
HgcdStart(x, y) ==
  [i \in 0 .. 3 |-> CASE i = 0 -> MkRow(x, 1, 0)
                      [] i = 1 -> MkRow(y, 0, 1)
                      [] OTHER -> MkRow(0, 0, 0)]

\* A cofactor array read with size n: what mpn_add_n, mpn_mul_1 or mpn_mul
\* called with n limbs see of it.
Low(x, n) == x % W^n

\* k limbs x written to an array that held old: the limbs from k up keep
\* whatever they held.
Overwrite(old, x, k) == (x % W^k) + W^k * (old \div W^k)

\* Row i's cofactor arrays written with k limbs of U and V.
SetUv(rw, i, U, V, k) ==
  [rw EXCEPT ![i].u = Overwrite(@, U, k), ![i].v = Overwrite(@, V, k)]

\* hgcd_start_row_p: the n limbs of v are all zero (only the first row).
HgcdStartRowP(row, n) == Low(row.v, n) = 0

\* Mutant: the growth taken from the u entry (the first of the loop).
UvGrowFromU(U, V, n, k) ==
  IF k <= 1 THEN (IF Limb(U, n) # 0 THEN 1 ELSE 0)
  ELSE k - (IF Limb(U, n + k - 1) = 0 THEN 1 ELSE 0)

\* hgcd_update_uv's grow, left by the last (v) entry: its carry limb for
\* a quotient of at most one limb, else qsize less a zero top limb.
UvGrow(U, V, n, k) ==
  IF k <= 1 THEN (IF Limb(V, n) # 0 THEN 1 ELSE 0)
  ELSE k - (IF Limb(V, n + k - 1) = 0 THEN 1 ELSE 0)

\* hgcd_update_uv on rows i..i+2 with usize n and the quotient q stored
\* in k limbs (k = 0 for the unit quotient): (u,v)_{i+2} = (u,v)_i +
\* q (u,v)_{i+1} over n limbs, written to n + 1 limbs (n + k for k > 1).
\* The new size is n plus the growth of the v entry alone.
HgcdUpdateUv(rw, i, n, q, k) ==
  LET U    == Low(rw[i].u, n) + q * Low(rw[i + 1].u, n)
      V    == Low(rw[i].v, n) + q * Low(rw[i + 1].v, n)
      wr   == IF k <= 1 THEN n + 1 ELSE n + k
  IN [rows |-> SetUv(rw, i + 2, U, V, wr), size |-> n + UvGrow(U, V, n, k)]

\* euclid_step on rows i, i+1 with usize n: qstack_push_quotient divides
\* r_i by r_{i+1}, stores the remainder in row i+2 and pushes the
\* quotient; hgcd_update_uv reads it back from the stack.
EuclidStep(rw, i, s, n) ==
  LET s1 == QstackPushQuotient(s, rw[i].r, rw[i + 1].r)
      e  == HgcdUpdateUv([rw EXCEPT ![i + 2].r = rw[i].r % rw[i + 1].r], i, n,
                         QstackGet0(s1), s1.size[Len(s1.size)])
  IN [rows |-> e.rows, qs |-> s1, size |-> e.size]

\* hgcd_update_r followed by hgcd_update_uv on rows i..i+2 with a
\* quotient q of k limbs already on the stack: r_{i+2} = r_i - q r_{i+1}.
UpdateRow(rw, i, q, k, n) ==
  HgcdUpdateUv([rw EXCEPT ![i + 2].r = rw[i].r - q * rw[i + 1].r], i, n, q, k)

\* hgcd_backup on rows i..i+2 with usize n: r_i = r_{i+2} + q r_{i+1},
\* (u,v)_i = (u,v)_{i+2} - q (u,v)_{i+1} by mpn_sub_n on n limbs (a
\* borrow, which the code asserts away, wraps modulo W^n).
HgcdBackup(rw, i, q, n) ==
  SetUv([rw EXCEPT ![i].r = rw[i + 2].r + q * rw[i + 1].r], i,
        Low(rw[i + 2].u, n) - q * Low(rw[i + 1].u, n),
        Low(rw[i + 2].v, n) - q * Low(rw[i + 1].v, n), n)

\* hgcd_normalize, after HGCD_SWAP4_RIGHT: the size drops to the limbs v3
\* needs, and row 0's limbs between the new and the old size are zeroed.
HgcdNormalize(rw, n) ==
  LET n1 == Size(Low(rw[3].v, n))
      Z(x) == Low(x, n1) + W^n * (x \div W^n)
  IN [rows |-> [rw EXCEPT ![0].u = Z(@), ![0].v = Z(@)], size |-> n1]

\* mpn_hgcd_fix / mpn_hgcd2_fix: apply one row (u, v) of a reduction
\* matrix to the full operands x0, x1, with the sign saying which term is
\* subtracted.  The code asserts the result is non-negative.
HgcdFix(neg, u, v, x0, x1) == IF neg THEN v * x1 - u * x0 ELSE u * x0 - v * x1

\* Mutant: mpn_hgcd_fix without the swap for sign < 0.
MpnHgcdFixNoSwap(k, h, neg, u, v, x0, x1) ==
  W^k * h + HgcdFix(FALSE, u, v, x0 % W^k, x1 % W^k)

\* mpn_hgcd_fix: R = W^k H + u A' - v B', where H is the remainder of
\* the sub-call on the operands without their low k limbs and A', B' are
\* those low k limbs; for sign < 0 (u, a) and (v, b) change places.
MpnHgcdFix(k, h, neg, u, v, x0, x1) ==
  W^k * h + HgcdFix(neg, u, v, x0 % W^k, x1 % W^k)

\* mpn_addmul2_n_1: a u + b v for single limbs u, v over n limbs of a and
\* b; the n + 1 limbs it stores and the carry it returns hold all of it.
AddMul2N1(ap, u, bp, v, n) == u * Low(ap, n) + v * Low(bp, n)

\* The entries <<j, c>> of a product matrix: cofactor c of row j.
MulEntries == {2, 3} \X {"u", "v"}

\* Rows 2 and 3 get the products P (a function on MulEntries), each
\* written with base limbs and one more if it carries out of them; a limb
\* above that keeps what the array held.
MulRows(rw, P, base) ==
  LET Wr(x) == IF x \div W^base # 0 THEN base + 1 ELSE base
  IN [j \in 0 .. 3 |->
        IF j < 2 THEN rw[j]
        ELSE [rw[j] EXCEPT !.u = Overwrite(@, P[<<j, "u">>], Wr(P[<<j, "u">>])),
                           !.v = Overwrite(@, P[<<j, "v">>], Wr(P[<<j, "v">>]))]]

\* grow: some entry carried out of base limbs; h: the OR of limb base - 1
\* of the entries that did not.
MulGrow(P, base) == \E e \in MulEntries : P[e] \div W^base # 0

MulTop(P, base) ==
  \E e \in MulEntries : P[e] \div W^base = 0 /\ Limb(P[e], base - 1) # 0

\* Mutant: hgcd2_mul without "Don't add redundant zeroes".
Hgcd2MulSizeUntrimmed(grow, h, n) == IF grow THEN n + 2 ELSE n + 1

\* hgcd2_mul's return value.
Hgcd2MulSize(grow, h, n) == IF grow THEN n + 2 ELSE n + (IF h THEN 1 ELSE 0)

\* hgcd2_mul with size n: P[i,j] = u_i s0j + v_i s1j by mpn_addmul2_n_1
\* into n + 1 limbs; a carry limb goes to limb n + 1 of that entry only.
Hgcd2Mul(rw, R, i, n) ==
  LET P == [e \in MulEntries |->
              AddMul2N1(rw[0][e[2]], R[i + e[1] - 2].u, rw[1][e[2]], R[i + e[1] - 2].v, n)]
  IN [rows |-> MulRows(rw, P, n + 1),
      size |-> Hgcd2MulSize(MulGrow(P, n + 1), MulTop(P, n + 1), n)]

\* Mutant: hgcd_mul without its MPN_NORMALIZE of rsize.
MulRSizeUnnormalized(v1, rs) == rs

\* hgcd_mul's MPN_NORMALIZE (R[1].uvp[1], rsize).
MulRSize(v1, rs) == Size(Low(v1, rs))

\* hgcd_mul's return value for psize = rsize + ssize.
HgcdMulSize(grow, h, psize) == IF grow THEN psize + 1 ELSE psize - (IF h THEN 0 ELSE 1)

\* hgcd_mul with the sub-call's size rs and size n: rsize is rs
\* normalized by R[1].v; P[i,j] = R[i,0] S[0,j] + R[i,1] S[1,j] by two
\* mpn_mul of rsize by n limbs and mpn_add_n on psize = rsize + n limbs,
\* a carry going to limb psize of that entry only.
HgcdMul(rw, R, i, rs, n) ==
  LET rsize == MulRSize(R[i + 1].v, rs)
      psize == rsize + n
      P == [e \in MulEntries |->
              Low(R[i + e[1] - 2].u, rsize) * Low(rw[0][e[2]], n)
              + Low(R[i + e[1] - 2].v, rsize) * Low(rw[1][e[2]], n)]
  IN [rows |-> MulRows(rw, P, psize),
      size |-> HgcdMulSize(MulGrow(P, psize), MulTop(P, psize), psize)]

\* hgcd_adjust with size n: r3 is too large by d r2, d in {1, 2}.
\* Subtract r2 once; if still not below r2, once more.  (u,v)_3 +=
\* d (u,v)_2 over n limbs; only a carry c1 out of v is stored, with c0,
\* in limb n and grows the size (the code asserts c0 = 0 otherwise).  The
\* top quotient on the stack grows by d.
HgcdAdjust(rw, s, n) ==
  LET r1 == rw[3].r - rw[2].r
      d  == IF r1 < rw[2].r THEN 1 ELSE 2
      U  == Low(rw[3].u, n) + d * Low(rw[2].u, n)
      V  == Low(rw[3].v, n) + d * Low(rw[2].v, n)
      k  == IF V \div W^n # 0 THEN n + 1 ELSE n
  IN [rows |-> SetUv([rw EXCEPT ![3].r = rw[3].r - d * rw[2].r], 3, U, V, k),
      qs   |-> QstackAdjust(s, d),
      size |-> k]

\* slow_diff_smaller_p: a - b < c, for a >= b.
DiffSmaller(x, y, c) == x - y < c

\* hgcd_jebelean: how many of the rows satisfy Jebelean's criterion,
\* called when r0, r1, r2 are above M limbs and r3 is not.  Which
\* cofactor each test reads depends on the sign of row 0.
HgcdJebelean(rw, neg) ==
  LET c1 == IF neg THEN rw[2].v + rw[1].v ELSE rw[2].u + rw[1].u
      c2 == IF neg THEN rw[3].v ELSE rw[3].u
      c3 == IF neg THEN rw[3].u + rw[2].u ELSE rw[3].v + rw[2].v
  IN CASE DiffSmaller(rw[1].r, rw[2].r, c1) -> 2
       [] rw[3].r <= c2                     -> 3
       [] DiffSmaller(rw[2].r, rw[3].r, c3) -> 3
       [] OTHER                             -> 4

=============================================================================
