----------------------------- MODULE HgcdLehmer -----------------------------
(***************************************************************************)
(* mpn_hgcd_lehmer (mpn/generic/hgcd.c) as a state machine: one action per *)
(* way through one iteration of its main loop, and per way through         *)
(* hgcd_final.  hgcd_case0, hgcd_small_1, hgcd_small_2, hgcd_adjust and     *)
(* hgcd_jebelean run inside the action of the branch that calls them.      *)
(*                                                                         *)
(* mpn_hgcd2 (not in this source tree) is the half-GCD contract of         *)
(* HgcdResult applied to the two-limb truncations that                     *)
(* mpn_hgcd2_lehmer_step extracts, with N = 2, M = 1.                      *)
(*                                                                         *)
(* The state, the tails and hgcd_final are those of HgcdCore; "loop" is   *)
(* the head of the main while loop.                                        *)
(***************************************************************************)
EXTENDS HgcdCore

(***************************************************************************)
(* mpn_hgcd2: the contract for two-limb operands.                          *)
(***************************************************************************)
MpnHgcd2(x, y) == HgcdContract(x, y)

\* mpn_hgcd2_lehmer_step on (x, y): take the two most significant full
\* limbs of x, and the same bits of y, and call mpn_hgcd2; 0 when y is
\* too short for that.
MpnHgcd2LehmerStep(x, y) ==
  LET asize == Size(x)
      bsize == Size(y)
      full  == asize = 2 \/ HighBitSet(Limb(x, asize - 1))
      shift == IF full THEN 0 ELSE CountLeadingZeros(Limb(x, asize - 1))
      Trunc(z) == (z * 2^shift) \div W^(asize - 2)
  IN CASE bsize < 2                            -> Fail
       [] full /\ bsize < asize                -> Fail
       [] ~full /\ bsize + 1 < asize           -> Fail
       [] ~full /\ Trunc(y) \div W = 0         -> Fail
       [] OTHER                                -> MpnHgcd2(Trunc(x), Trunc(y))

(***************************************************************************)
(* The actions.                                                            *)
(***************************************************************************)
Init ==
  /\ \E p \in Inputs : a = p[1] /\ b = p[2]
  /\ row = HgcdStart(0, 0)
  /\ sign = FALSE
  /\ qs = EmptyQstack
  /\ size = HgcdAlloc
  /\ pc = "start"
  /\ ret = -1

\* bsize <= M: return 0 at once.
LehmerFail ==
  /\ pc = "start"
  /\ Size(b) <= M
  /\ Return([k |-> 0, rows |-> row, neg |-> sign, qs |-> qs, size |-> size])

\* hgcd_start (size 1) and enter the loop.
LehmerStart ==
  /\ pc = "start"
  /\ Size(b) > M
  /\ Goto("loop", HgcdStart(a, b), FALSE, qs, 1)

(***************************************************************************)
(* One round of the while loop: R is the struct hgcd2 that                 *)
(* mpn_hgcd2_lehmer_step fills in, and the switch on its return value.     *)
(***************************************************************************)
\* mpn_hgcd2_fix of R.row[i] with the given sign on rows 0, 1.
Fix(R, neg, i) == HgcdFix(neg, R.rows[i].u, R.rows[i].v, row[0].r, row[1].r)

\* case 0: hgcd_case0, going on at the loop head.
Case0Small(R) == R.k = 0 /\ HgcdCase0Small

Case0Step(R) == R.k = 0 /\ HgcdCase0Step("loop")

\* Mutant: correct_r2 updating the sign with R.sign for ~R.sign.
Case23CorrectSign(R) ==
  LET f == WithR(Fix(R, ~R.neg, 1), Fix(R, R.neg, 2))
      p == Hgcd2Mul(f, R.rows, 1, size)
  IN /\ \/ R.k = 2 /\ f[3].r < f[2].r
        \/ R.k = 3
     /\ Goto("loop", Swap4Two(p.rows),
             sign # R.neg, QstackDrop(QstackPushAll(qs, R.qs)), p.size)

\* cases 2 and 3 fix rows 2, 3 from R.row[1], R.row[2].  Case 2 with
\* r3 < r2, and case 3, go to correct_r2: drop the quotient of r3,
\* hgcd2_mul, and swap.
Case23Correct(R) ==
  LET f == WithR(Fix(R, ~R.neg, 1), Fix(R, R.neg, 2))
      p == Hgcd2Mul(f, R.rows, 1, size)
  IN /\ \/ R.k = 2 /\ f[3].r < f[2].r
        \/ R.k = 3
     /\ Goto("loop", Swap4Two(p.rows),
             sign # ~R.neg, QstackDrop(QstackPushAll(qs, R.qs)), p.size)

\* case 2 with r3 >= r2: hgcd2_mul, drop the quotient of r3,
\* hgcd_adjust, then small_2, or swap and go on.
Case2NeedsAdjust(R) ==
  LET f == WithR(Fix(R, ~R.neg, 1), Fix(R, R.neg, 2))
  IN R.k = 2 /\ f[3].r >= f[2].r

Case2Adjusted(R) ==
  LET f == WithR(Fix(R, ~R.neg, 1), Fix(R, R.neg, 2))
      p == Hgcd2Mul(f, R.rows, 1, size)
  IN HgcdAdjust(p.rows, QstackDrop(QstackPushAll(qs, R.qs)), p.size)

Case2AdjustSmall(R) ==
  LET adj == Case2Adjusted(R)
  IN /\ Case2NeedsAdjust(R)
     /\ Size(adj.rows[3].r) <= M
     /\ Return(HgcdSmall2(adj.rows, sign # ~R.neg, adj.qs, adj.size))

Case2AdjustStep(R) ==
  LET adj == Case2Adjusted(R)
  IN /\ Case2NeedsAdjust(R)
     /\ Size(adj.rows[3].r) > M
     /\ Goto("loop", Swap4Two(adj.rows), sign # ~R.neg, adj.qs, adj.size)

\* case 4: fix rows 2, 3 from R.row[2], R.row[3], hgcd2_mul; then
\* small_2, or swap and go on.
Case4Mul(R) == Hgcd2Mul(WithR(Fix(R, R.neg, 2), Fix(R, ~R.neg, 3)), R.rows, 2, size)

Case4Small(R) ==
  LET m == Case4Mul(R)
  IN /\ R.k = 4
     /\ Size(m.rows[3].r) <= M
     /\ Return(HgcdSmall2(m.rows, sign # R.neg, QstackPushAll(qs, R.qs), m.size))

Case4Step(R) ==
  LET m == Case4Mul(R)
  IN /\ R.k = 4
     /\ Size(m.rows[3].r) > M
     /\ Goto("loop", Swap4Two(m.rows), sign # R.neg, QstackPushAll(qs, R.qs), m.size)

\* The result of mpn_hgcd2_lehmer_step on rows 0, 1.
LehmerR == MpnHgcd2LehmerStep(row[0].r, row[1].r)

Next ==
  \/ LehmerFail \/ LehmerStart
  \/ InLoop /\ \E R \in {LehmerR} : Case0Small(R)
  \/ InLoop /\ \E R \in {LehmerR} : Case0Step(R)
  \/ InLoop /\ \E R \in {LehmerR} : Case23Correct(R)
  \/ InLoop /\ \E R \in {LehmerR} : Case2AdjustSmall(R)
  \/ InLoop /\ \E R \in {LehmerR} : Case2AdjustStep(R)
  \/ InLoop /\ \E R \in {LehmerR} : Case4Small(R)
  \/ InLoop /\ \E R \in {LehmerR} : Case4Step(R)
  \/ HgcdFinal

\* The call runs to its return: every step other than Terminated pushes
\* a quotient of the finite remainder sequence or returns (ExactRows
\* keeps the stack a prefix of it), and deadlock checking shows that no
\* state before the return is stuck, so no fairness is needed.
Spec == Init /\ [][Next \/ Terminated]_vars

(***************************************************************************)
(* Properties.                                                             *)
(***************************************************************************)
TypeOK ==
  /\ row \in [0 .. 3 -> Row]
  /\ sign \in BOOLEAN
  /\ QstackOK(qs)
  /\ size \in 0 .. HgcdAlloc
  /\ pc \in {"start", "loop", "final", "done"}
  /\ ret \in -1 .. 4

\* At the head of the main loop and of hgcd_final's loop the live rows
\* are exact rows of the remainder sequence of (a, b), with the stack
\* and sign that belong to them (RowsExactAt): what the fix, hgcd2_mul,
\* hgcd_adjust, drop and swap steps of every case of the switch must
\* together preserve, whatever the truncated hgcd2 returns.
ExactRows == RowsExactAt({"loop"})

\* Spec section 8: "after any complete top-level hgcd/hgcd_lehmer call,
\* the stack's push/drop calls balance exactly (net zero outstanding
\* entries) along every code path".  The code returns with q_1 .. q_{j-1}
\* still on the stack, and mpn_hgcd reads them with qstack_get_0/_1.
StackBalancedOnReturn == pc = "done" => qs = EmptyQstack

\* hgcd->size is the limb count of the newest live row's v cofactor at
\* the loop head, in hgcd_final and on return (SizeNormalizedAt).
SizeNormalized == SizeNormalizedAt({"loop"})

=============================================================================
