------------------------------ MODULE HgcdItch ------------------------------
(***************************************************************************)
(* The scratch-space accounting of mpn_hgcd (mpn/generic/hgcd.c).  A      *)
(* caller gives mpn_hgcd talloc = mpn_hgcd_itch (asize) limbs.  Above      *)
(* HGCD_SCHOENHAGE_THRESHOLD each call takes mpn_hgcd_init_itch (n + 3)    *)
(* of them for its R (asserting itch <= talloc) and passes the rest to its *)
(* recursive calls and to the helpers hgcd_mul, mpn_hgcd_fix and           *)
(* hgcd_jebelean, which assert that their temporaries fit.  Below the      *)
(* threshold mpn_hgcd_lehmer needs mpn_hgcd_lehmer_itch.                   *)
(*                                                                         *)
(* The sizes are bounded by what the code asserts: a call of N limbs has  *)
(* hgcd->size <= N / 2 (__gmpn_hgcd_sanity), a first-phase sub-call has    *)
(* at most n = N - M limbs and a second-phase one n1 <= min (n + 3,        *)
(* 2 (m + 1)).  HgcdScratchNeed (N) is then the least talloc with which    *)
(* every one of those assertions holds, at every depth of the recursion.  *)
(***************************************************************************)
EXTENDS Limbs

LOCAL SetExt == INSTANCE FiniteSetsExt

CONSTANTS
  HGCD_SCHOENHAGE_THRESHOLD,
  ItchBound                  \* the largest asize HgcdScratchNeed is computed for

\* Every recursive call is smaller than its caller only from threshold 7 on:
\* at N = 6 the second phase may call mpn_hgcd on n1 = 2 row[0].rsize - 2M
\* = 6 limbs, the operands themselves.
ASSUME HGCD_SCHOENHAGE_THRESHOLD >= 7 /\ ItchBound \in Nat

\* mpn_hgcd_max_recursion: GMP_LIMB_BITS - count_leading_zeros of
\* 1 + n / (HGCD_SCHOENHAGE_THRESHOLD - 5), that is its bit length.
MpnHgcdMaxRecursion(sz) == BitLen(1 + sz \div (HGCD_SCHOENHAGE_THRESHOLD - 5))

\* mpn_hgcd_init_itch: asize + 1 limbs for each of the four remainders and
\* asize / 2 + 1 for each of the eight cofactors.
MpnHgcdInitItch(sz) == 4 * (sz + 1) + 8 * ((sz \div 2) + 1)

\* mpn_hgcd_lehmer_itch, HGCD_JEBELEAN_ITCH (asize).
MpnHgcdLehmerItch(sz) == sz \div 2 + 1

\* Mutant: mpn_hgcd_itch sizing R for asize, without the 6 k limbs by
\* which the sub-calls' n + 3 outgrow half their caller.
MpnHgcdItchNoGrowth(sz) ==
  LET k == MpnHgcdMaxRecursion(sz)
  IN sz + MpnHgcdInitItch(sz) + 12 * k

\* mpn_hgcd_itch: asize for the helpers, an R of asize + 6 k limbs and
\* 12 k more, with k = mpn_hgcd_max_recursion (asize).
MpnHgcdItch(sz) ==
  LET k == MpnHgcdMaxRecursion(sz)
  IN sz + MpnHgcdInitItch(sz + 6 * k) + 12 * k

\* The largest recursive call of a call of sz limbs: n = N - M in the first
\* phase; in the second n1 = row[0].rsize - k, asserted <= n + 3 and
\* <= 2 (m + 1).
HgcdSubCallMax(sz) ==
  LET cM == (sz + 1) \div 2
      cn == sz - cM
      cm == (cn + 1) \div 2
  IN SetExt!Min({cn + 3, 2 * (cm + 1)})

\* The temporaries of the helpers of one call, whose hgcd->size is at most
\* sz / 2 and whose R.size at most HgcdSubCallMax (sz) / 2:
\*   hgcd_mul:       psize = rsize + ssize <= talloc
\*   mpn_hgcd_fix:   tsize = k + uvsize <= talloc, k <= M
\*   hgcd_jebelean:  L < talloc
HgcdLevelScratch(sz) ==
  LET cM == (sz + 1) \div 2
      rL == HgcdSubCallMax(sz) \div 2
  IN SetExt!Max({sz \div 2 + rL, cM + rL, sz \div 2 + 1})

\* HgcdScratchNeed[sz]: the lehmer scratch below the threshold; otherwise
\* R's arrays plus the most any sub-call or helper needs of the rest.
HgcdScratchNeed[sz \in 1 .. ItchBound] ==
  IF sz < HGCD_SCHOENHAGE_THRESHOLD THEN MpnHgcdLehmerItch(sz)
  ELSE MpnHgcdInitItch(sz - (sz + 1) \div 2 + 3)
       + SetExt!Max({HgcdLevelScratch(sz)}
                    \cup {HgcdScratchNeed[s] : s \in 1 .. HgcdSubCallMax(sz)})

=============================================================================
