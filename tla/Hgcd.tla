-------------------------------- MODULE Hgcd --------------------------------
(***************************************************************************)
(* mpn_hgcd (mpn/generic/hgcd.c), the recursive half-GCD, as a state       *)
(* machine over one call.  Each recursive call mpn_hgcd (&R, ...) on the   *)
(* operands without their low limbs is the half-GCD contract of           *)
(* HgcdResult (the abstract spec this module is shown to implement): the   *)
(* sub-call returns R and pushes R.qs onto the shared quotient stack.      *)
(* Below HGCD_SCHOENHAGE_THRESHOLD the call is mpn_hgcd_lehmer, which      *)
(* HgcdLehmer shows to implement the same contract.                        *)
(*                                                                         *)
(* Labels, besides those of HgcdCore ("loop" is the second phase):         *)
(*   "p1"     head of the first-phase loop                                 *)
(*   "rdone"  reduction_done                                               *)
(***************************************************************************)
EXTENDS HgcdCore, HgcdItch

\* n = N - M, m = ceil(n/2): the first phase reduces row 1 to M + m + 1
\* limbs.
n == N - M
m == (n + 1) \div 2

(***************************************************************************)
(* Entry.                                                                  *)
(***************************************************************************)
Init ==
  /\ \E p \in Inputs : a = p[1] /\ b = p[2]
  /\ row = HgcdStart(0, 0)
  /\ sign = FALSE
  /\ qs = EmptyQstack
  /\ size = HgcdAlloc
  /\ pc = "start"
  /\ ret = -1

\* bsize <= M: return 0 at once.
HgcdFail ==
  /\ pc = "start"
  /\ Size(b) <= M
  /\ Return([k |-> 0, rows |-> row, neg |-> sign, qs |-> qs, size |-> size])

\* The size a sub-call leaves in its struct hgcd when it returns rows:
\* the limbs of v3 (HgcdLehmer's SizeNormalized shows this of
\* mpn_hgcd_lehmer).
SubCallSize(R) == Size(R.rows[3].v)

\* BELOW_THRESHOLD (N, HGCD_SCHOENHAGE_THRESHOLD): mpn_hgcd_lehmer on the
\* same struct hgcd, which keeps its size when it fails.
HgcdLehmerCall ==
  LET c == HgcdContract(a, b)
  IN /\ pc = "start"
     /\ Size(b) > M
     /\ N < HGCD_SCHOENHAGE_THRESHOLD
     /\ Return([k |-> c.k, rows |-> c.rows, neg |-> c.neg, qs |-> QstackPushAll(qs, c.qs),
                size |-> IF c.k = 0 THEN size ELSE SubCallSize(c)])

\* hgcd_start, and into the first phase.
HgcdStartCall ==
  /\ pc = "start"
  /\ Size(b) > M
  /\ N >= HGCD_SCHOENHAGE_THRESHOLD
  /\ Goto("p1", HgcdStart(a, b), FALSE, qs, 1)

(***************************************************************************)
(* First phase: while (row[1].rsize > M + m + 1), a recursive call on the  *)
(* operands without their low M limbs, and the switch on its result R.    *)
(***************************************************************************)
InPhase1 == pc = "p1" /\ Size(row[1].r) > M + m + 1

Phase1R == HgcdContract(row[0].r \div W^M, row[1].r \div W^M)

\* mpn_hgcd_fix (M, ...) of R.row[i] with the given sign.
Fix1(R, neg, i) ==
  MpnHgcdFix(M, R.rows[i].r, neg, R.rows[i].u, R.rows[i].v, row[0].r, row[1].r)

\* case 0: hgcd_case0; break goes round the loop.
P1Case0Small(R) == R.k = 0 /\ HgcdCase0Small

P1Case0Step(R) == R.k = 0 /\ HgcdCase0Step("p1")

\* cases 2 and 3 store the fixes of R.row[1], R.row[2] in rows 2, 3.
Fixed23(R) == WithR(Fix1(R, ~R.neg, 1), Fix1(R, R.neg, 2))

\* case 2 with r3 < r2, and case 3: correct_r2 drops the quotient of r3,
\* hgcd_mul on R.row+1, and the rows move two places; break goes round.
P1Correct(R) ==
  LET f == Fixed23(R)
      p == HgcdMul(f, R.rows, 1, SubCallSize(R), size)
  IN /\ \/ R.k = 2 /\ f[3].r < f[2].r
        \/ R.k = 3
     /\ Goto("p1", Swap4Two(p.rows),
             sign # ~R.neg, QstackDrop(QstackPushAll(qs, R.qs)), p.size)

\* case 2 with r3 >= r2: hgcd_mul, drop the quotient of r3, hgcd_adjust;
\* then hgcd_small_2, or swap and goto reduction_done.
P1Adjusted(R) ==
  LET p == HgcdMul(Fixed23(R), R.rows, 1, SubCallSize(R), size)
  IN HgcdAdjust(p.rows, QstackDrop(QstackPushAll(qs, R.qs)), p.size)

P1AdjustSmall(R) ==
  LET adj == P1Adjusted(R)
  IN /\ R.k = 2 /\ Fixed23(R)[3].r >= Fixed23(R)[2].r
     /\ Size(adj.rows[3].r) <= M
     /\ Return(HgcdSmall2(adj.rows, sign # ~R.neg, adj.qs, adj.size))

P1AdjustStep(R) ==
  LET adj == P1Adjusted(R)
  IN /\ R.k = 2 /\ Fixed23(R)[3].r >= Fixed23(R)[2].r
     /\ Size(adj.rows[3].r) > M
     /\ Goto("rdone", Swap4Two(adj.rows), sign # ~R.neg, adj.qs, adj.size)

\* case 4: fix R.row[2], R.row[3], hgcd_mul on R.row+2; hgcd_small_2 if
\* r3 is small, otherwise swap and goto reduction_done.
P1Case4(R) ==
  LET p == HgcdMul(WithR(Fix1(R, R.neg, 2), Fix1(R, ~R.neg, 3)), R.rows, 2,
                   SubCallSize(R), size)
      neg == sign # R.neg
      s == QstackPushAll(qs, R.qs)
  IN /\ R.k = 4
     /\ IF Size(p.rows[3].r) <= M
        THEN Return(HgcdSmall2(p.rows, neg, s, p.size))
        ELSE Goto("rdone", Swap4Two(p.rows), neg, s, p.size)

(***************************************************************************)
(* reduction_done: one hgcd_case0 if row 0 is still above M + m + 1.       *)
(***************************************************************************)
ReductionDone == pc = "rdone" \/ (pc = "p1" /\ ~InPhase1)

RdCase0Small == ReductionDone /\ Size(row[0].r) > M + m + 1 /\ HgcdCase0Small

RdCase0Step == ReductionDone /\ Size(row[0].r) > M + m + 1 /\ HgcdCase0Step("loop")

\* Mutant: reduction_done without its size test.
RdSkipAlways ==
  /\ ReductionDone
  /\ Goto("loop", row, sign, qs, size)

RdSkip ==
  /\ ReductionDone /\ Size(row[0].r) <= M + m + 1
  /\ Goto("loop", row, sign, qs, size)

(***************************************************************************)
(* Second phase: while (row[1].rsize > M + 1), a recursive call on the     *)
(* operands without their low k = 2M - row[0].rsize limbs.                 *)
(***************************************************************************)
Phase2K == 2 * M - Size(row[0].r)

Phase2R == HgcdContract(row[0].r \div W^Phase2K, row[1].r \div W^Phase2K)

\* mpn_hgcd_fix (k, ...) of R.row[i] with the given sign.
Fix2(R, neg, i) ==
  MpnHgcdFix(Phase2K, R.rows[i].r, neg, R.rows[i].u, R.rows[i].v,
             row[0].r, row[1].r)

\* !res: hgcd_case0, continue.
P2Case0Small(R) == R.k = 0 /\ HgcdCase0Small

P2Case0Step(R) == R.k = 0 /\ HgcdCase0Step("loop")

\* rows 2, 3 from R.row[0], R.row[1]; hgcd_mul on R.row; sign ^= R.sign.
P2Mul(R) ==
  HgcdMul(WithR(Fix2(R, R.neg, 0), Fix2(R, ~R.neg, 1)), R.rows, 0, SubCallSize(R), size)

P2Sign(R) == sign # R.neg

\* r3 small: drop the quotients of R.row[2], R.row[3]; hgcd_small_2.
\* (Each intermediate result below is bound once with \E x \in {e}.)
P2Small2(R) ==
  /\ R.k >= 2
  /\ \E p \in {P2Mul(R)} :
       /\ Size(p.rows[3].r) <= M
       /\ Return(HgcdSmall2(p.rows, P2Sign(R),
                            QstackDrop(QstackDrop(QstackPushAll(qs, R.qs))), p.size))

\* Mutant: the known quotient of r2 read with qstack_get_0.
P2FirstTop(R, p) ==
  LET rw == Swap4Two(p.rows)
      s == QstackPushAll(qs, R.qs)
  IN IF R.k >= 3
     THEN LET u == UpdateRow(rw, 0, QstackGet0(s), s.size[Len(s.size)], p.size)
          IN [rows |-> u.rows, qs |-> s, size |-> u.size]
     ELSE EuclidStep(rw, 0, QstackDrop(QstackDrop(s)), p.size)

\* After hgcd_mul (p) and HGCD_SWAP4_2, the new r2: from the known
\* quotient (res >= 3, qstack_get_1, hgcd_update_r/uv), or, dropping both
\* quotients, by euclid_step.
P2First(R, p) ==
  LET rw == Swap4Two(p.rows)
      s == QstackPushAll(qs, R.qs)
  IN IF R.k >= 3
     THEN LET u == UpdateRow(rw, 0, QstackGet1(s), s.size[Len(s.size) - 1], p.size)
          IN [rows |-> u.rows, qs |-> s, size |-> u.size]
     ELSE EuclidStep(rw, 0, QstackDrop(QstackDrop(s)), p.size)

\* Mutant: the res >= 3 return through hgcd_small_1 keeping the quotient
\* of r3.
P2Small1NoDrop(R) ==
  /\ R.k >= 2
  /\ \E p \in {P2Mul(R)} : \E f \in {P2First(R, p)} :
       /\ Size(p.rows[3].r) > M
       /\ Size(f.rows[2].r) <= M
       /\ Return(HgcdSmall1(f.rows, P2Sign(R), f.qs, f.size))

\* r2 small: hgcd_small_1, after dropping the quotient of r3 if res >= 3.
P2Small1(R) ==
  /\ R.k >= 2
  /\ \E p \in {P2Mul(R)} : \E f \in {P2First(R, p)} :
       /\ Size(p.rows[3].r) > M
       /\ Size(f.rows[2].r) <= M
       /\ Return(HgcdSmall1(f.rows, P2Sign(R),
                            IF R.k >= 3 THEN QstackDrop(f.qs) ELSE f.qs, f.size))

\* The new r3 after f: drop its quotient if res = 3; from the known
\* quotient if res = 4 (qstack_get_0), otherwise by euclid_step.
P2Second(R, f) ==
  LET s == IF R.k = 3 THEN QstackDrop(f.qs) ELSE f.qs
  IN IF R.k = 4
     THEN LET u == UpdateRow(f.rows, 1, QstackGet0(s), s.size[Len(s.size)], f.size)
          IN [rows |-> u.rows, qs |-> s, size |-> u.size]
     ELSE EuclidStep(f.rows, 1, s, f.size)

\* r3 small: hgcd_jebelean; otherwise swap and go round.
P2Done(R) ==
  /\ R.k >= 2
  /\ \E p \in {P2Mul(R)} : \E f \in {P2First(R, p)} : \E g \in {P2Second(R, f)} :
       /\ Size(p.rows[3].r) > M
       /\ Size(f.rows[2].r) > M
       /\ Size(g.rows[3].r) <= M
       /\ Return(Jebelean(g.rows, P2Sign(R), g.qs, g.size))

P2Step(R) ==
  /\ R.k >= 2
  /\ \E p \in {P2Mul(R)} : \E f \in {P2First(R, p)} : \E g \in {P2Second(R, f)} :
       /\ Size(p.rows[3].r) > M
       /\ Size(f.rows[2].r) > M
       /\ Size(g.rows[3].r) > M
       /\ Goto("loop", Swap4Two(g.rows), P2Sign(R), g.qs, g.size)

Next ==
  \/ HgcdFail \/ HgcdLehmerCall \/ HgcdStartCall
  \/ InPhase1 /\ \E R \in {Phase1R} : P1Case0Small(R)
  \/ InPhase1 /\ \E R \in {Phase1R} : P1Case0Step(R)
  \/ InPhase1 /\ \E R \in {Phase1R} : P1Correct(R)
  \/ InPhase1 /\ \E R \in {Phase1R} : P1AdjustSmall(R)
  \/ InPhase1 /\ \E R \in {Phase1R} : P1AdjustStep(R)
  \/ InPhase1 /\ \E R \in {Phase1R} : P1Case4(R)
  \/ RdCase0Small \/ RdCase0Step \/ RdSkip
  \/ InLoop /\ \E R \in {Phase2R} : P2Case0Small(R)
  \/ InLoop /\ \E R \in {Phase2R} : P2Case0Step(R)
  \/ InLoop /\ \E R \in {Phase2R} : P2Small2(R)
  \/ InLoop /\ \E R \in {Phase2R} : P2Small1(R)
  \/ InLoop /\ \E R \in {Phase2R} : P2Done(R)
  \/ InLoop /\ \E R \in {Phase2R} : P2Step(R)
  \/ HgcdFinal

\* As for HgcdLehmer: every step but Terminated pushes a quotient of the
\* finite remainder sequence (ExactRows) or returns, and deadlock
\* checking shows no state before the return is stuck.
Spec == Init /\ [][Next \/ Terminated]_vars

(***************************************************************************)
(* Properties.                                                             *)
(***************************************************************************)
TypeOK ==
  /\ row \in [0 .. 3 -> Row]
  /\ sign \in BOOLEAN
  /\ QstackOK(qs)
  /\ size \in 0 .. HgcdAlloc
  /\ pc \in {"start", "p1", "rdone", "loop", "final", "done"}
  /\ ret \in -1 .. 4

\* At the heads of both phases' loops, at reduction_done and in
\* hgcd_final the live rows are exact rows of the remainder sequence of
\* (a, b) with the stack and sign that belong to them: the fixes from the
\* sub-call's rows, hgcd_mul, the drops that discard the quotients of
\* rows the caller does not use, and hgcd_adjust keep them so.
ExactRows == RowsExactAt({"p1", "rdone", "loop"})

\* The operands of every second-phase recursive call fit the struct hgcd
\* R that mpn_hgcd_init (&R, n + 3) set up for them: the code asserts
\* 2 <= n1 <= n + 3 for n1 = row[0].rsize - k.  It holds only because
\* reduction_done brought row 0 down to M + m + 1 limbs and no later step
\* lets it grow.
SubCallFits ==
  InLoop => LET n1 == Size(row[0].r) - Phase2K IN 2 <= n1 /\ n1 <= n + 3

\* hgcd->size is the limb count of the newest live row's v cofactor at
\* the heads of both phases, at reduction_done, in hgcd_final and on
\* return (SizeNormalizedAt).
SizeNormalized == SizeNormalizedAt({"p1", "rdone", "loop"})


\* A caller that gives this call the mpn_hgcd_itch (asize) limbs it asks
\* for gives it enough: at every depth of the recursion below it, the
\* init_itch of R is at most talloc (hgcd.c:1807), and what is left covers
\* each recursive call and the temporaries of hgcd_mul, mpn_hgcd_fix and
\* hgcd_jebelean.  The 6 k and 12 k terms must make up for each level's
\* sub-calls of n + 3 limbs being more than half their caller's.
ItchSuffices == HgcdScratchNeed[N] <= MpnHgcdItch(N)

====
