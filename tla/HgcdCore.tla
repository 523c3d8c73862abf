------------------------------ MODULE HgcdCore ------------------------------
(***************************************************************************)
(* The state of one call of mpn_hgcd_lehmer or mpn_hgcd on (a, b), and the *)
(* parts of mpn/generic/hgcd.c both use: the tails that end the call       *)
(* (hgcd_small_1, hgcd_small_2, hgcd_jebelean), hgcd_case0 and             *)
(* hgcd_final.                                                             *)
(*                                                                         *)
(* pc is the place the next step starts from; the labels both share are   *)
(*   "start"  entry of the function                                       *)
(*   "loop"   head of the loop while (row[1].rsize > M + 1) that both     *)
(*            end in (the only loop of mpn_hgcd_lehmer, the second phase  *)
(*            of mpn_hgcd); rows 0, 1 valid                                *)
(*   "final"  head of the for loop of hgcd_final; rows 0, 1, 2 valid      *)
(*   "done"   returned; ret is the return value                           *)
(***************************************************************************)
EXTENDS HgcdResult

CONSTANT Inputs        \* set of operand pairs <<a, b>>, a >= b > 0

ASSUME Inputs \subseteq {p \in Nat \X Nat : p[1] >= p[2] /\ p[2] > 0}

VARIABLES
  a, b,     \* the operands ap, bp (read only)
  row,      \* hgcd->row[0..3]
  sign,     \* hgcd->sign # 0
  qs,       \* the quotient stack
  size,     \* hgcd->size, the limbs of the cofactor arrays in use
  pc,
  ret       \* the return value, -1 until the call returns

vars == <<a, b, row, sign, qs, size, pc, ret>>

N == Size(a)
M == (N + 1) \div 2

\* Mutant: mpn_hgcd_init without the extra limb.
HgcdAllocNoSpare == N \div 2

\* mpn_hgcd_init: alloc = asize/2 + 1 limbs for each cofactor.
HgcdAlloc == N \div 2 + 1

(***************************************************************************)
(* The tails that end the call, as functions from the rows, sign, stack  *)
(* and size to the result record.                                          *)
(***************************************************************************)
Jebelean(rw, neg, s, n) ==
  [k |-> HgcdJebelean(rw, neg), rows |-> rw, neg |-> neg, qs |-> s, size |-> n]

\* Mutant: the start-row return of hgcd_small_1 without its qstack_drop.
HgcdSmall1NoDrop(rw, neg, s, n) ==
  IF HgcdStartRowP(rw[0], n)
  THEN [k |-> 0, rows |-> rw, neg |-> neg, qs |-> s, size |-> n]
  ELSE LET z == HgcdNormalize(Swap4Right(rw), n)
       IN Jebelean(HgcdBackup(z.rows, 0, QstackGet1(s), z.size), ~neg, s, z.size)

\* hgcd_small_1: r2 is already small; back up one step, after
\* hgcd_normalize has cut the size to what the rows still in use need.
HgcdSmall1(rw, neg, s, n) ==
  IF HgcdStartRowP(rw[0], n)
  THEN [k |-> 0, rows |-> rw, neg |-> neg, qs |-> QstackDrop(s), size |-> n]
  ELSE LET z == HgcdNormalize(Swap4Right(rw), n)
       IN Jebelean(HgcdBackup(z.rows, 0, QstackGet1(s), z.size), ~neg, s, z.size)

\* hgcd_small_2: r3 is small; back up two steps.
HgcdSmall2(rw, neg, s, n) ==
  IF HgcdStartRowP(rw[2], n)
  THEN [k |-> 0, rows |-> rw, neg |-> neg, qs |-> s, size |-> n]
  ELSE LET r1 == HgcdBackup(rw, 1, QstackGet0(s), n)
       IN IF HgcdStartRowP(r1[1], n)
          THEN [k |-> 0, rows |-> r1, neg |-> neg, qs |-> s, size |-> n]
          ELSE Jebelean(HgcdBackup(r1, 0, QstackGet1(s), n), neg, s, n)

\* Return with result record res.
Return(res) ==
  /\ row' = res.rows
  /\ sign' = res.neg
  /\ qs' = res.qs
  /\ size' = res.size
  /\ ret' = res.k
  /\ pc' = "done"
  /\ UNCHANGED <<a, b>>

\* Go on at label to with the given rows, sign, stack and size.
Goto(to, rw, neg, s, n) ==
  /\ row' = rw
  /\ sign' = neg
  /\ qs' = s
  /\ size' = n
  /\ pc' = to
  /\ UNCHANGED <<a, b, ret>>

InLoop == pc = "loop" /\ Size(row[1].r) > M + 1

\* rows 2, 3 get the remainders x2, x3 that two fixes compute.
WithR(x2, x3) ==
  [i \in 0 .. 3 |-> CASE i = 2 -> MkRow(x2, row[2].u, row[2].v)
                      [] i = 3 -> MkRow(x3, row[3].u, row[3].v)
                      [] OTHER -> row[i]]

(***************************************************************************)
(* hgcd_case0: one euclid step on rows 0, 1; if r2 is small the call ends  *)
(* through hgcd_small_1, otherwise the rows move left and the caller goes *)
(* on at label to.                                                         *)
(***************************************************************************)
HgcdCase0Small ==
  LET e == EuclidStep(row, 0, qs, size)
  IN /\ Size(e.rows[2].r) <= M
     /\ Return(HgcdSmall1(e.rows, sign, e.qs, e.size))

HgcdCase0Step(to) ==
  LET e == EuclidStep(row, 0, qs, size)
  IN /\ Size(e.rows[2].r) > M
     /\ Goto(to, Swap4Left(e.rows), ~sign, e.qs, e.size)

(***************************************************************************)
(* hgcd_final, entered when the loop at "loop" exits.                      *)
(***************************************************************************)
FinalSmall ==
  LET e == EuclidStep(row, 0, qs, size)
  IN /\ pc = "loop" /\ ~InLoop
     /\ Size(e.rows[2].r) <= M
     /\ Return(HgcdSmall1(e.rows, sign, e.qs, e.size))

FinalEnter ==
  LET e == EuclidStep(row, 0, qs, size)
  IN /\ pc = "loop" /\ ~InLoop
     /\ Size(e.rows[2].r) > M
     /\ Goto("final", e.rows, sign, e.qs, e.size)

\* hgcd->row[3].rsize <= M, the exit test of hgcd_final's loop.
FinalRow3Small(rw) == Size(rw[3].r) <= M

\* one round of the for loop of hgcd_final.
FinalDone ==
  LET e == EuclidStep(row, 1, qs, size)
  IN /\ pc = "final"
     /\ FinalRow3Small(e.rows)
     /\ Return(Jebelean(e.rows, sign, e.qs, e.size))

FinalStep ==
  LET e == EuclidStep(row, 1, qs, size)
  IN /\ pc = "final"
     /\ ~FinalRow3Small(e.rows)
     /\ Goto("final", Swap4Left(e.rows), ~sign, e.qs, e.size)

HgcdFinal == FinalSmall \/ FinalEnter \/ FinalDone \/ FinalStep

\* The call has returned; nothing more happens.
Terminated == pc = "done" /\ UNCHANGED vars

(***************************************************************************)
(* Properties shared by both functions.                                    *)
(***************************************************************************)
Row == [r : Nat, u : Nat, v : Nat]

\* At every loop head listed in twoRow, rows 0 and 1, and at the head of
\* hgcd_final's loop rows 0, 1, 2, are consecutive rows of the true
\* remainder sequence, cofactors included; the stack holds exactly the
\* quotients q_1 .. q_t that produced them, and the sign is that of row
\* 0.  This is what the fix, mul, adjust, drop and swap steps of every
\* branch must together preserve, whatever the sub-call returns.
RowsExactAt(twoRow) ==
  LET rs == TrueRows(a, b)
      qt == QuotientsOf(rs)
      \* rows 0 .. n-1 are r_t .. r_{t+n-1}, and t has the sign
      Live(t, n) == /\ \A i \in 0 .. n - 1 : row[i] = rs[t + i + 1]
                    /\ sign = (t % 2 = 1)
      st == StackQuotients(qs)
  IN /\ Len(st) <= Len(qt) /\ st = SubSeq(qt, 1, Len(st))
     /\ pc \in twoRow => Live(Len(st), 2)
     /\ pc = "final" => Live(Len(st) - 1, 3)

\* Once hgcd_start has run, hgcd->size stays below hgcd->alloc: the code
\* asserts it after every step that can grow the cofactors (euclid_step,
\* hgcd_adjust, hgcd_mul, hgcd2_mul, hgcd_update_uv), since the carry
\* limb the next step stores at index size must be inside the arrays.
CofactorsFit ==
  /\ size <= HgcdAlloc
  /\ (pc \notin {"start", "done"} \/ ret > 0) => size < HgcdAlloc

\* No cofactor limb at or above hgcd->size is non-zero, in any of the four
\* rows, the ones left behind by swaps and backups included: what
\* __gmpn_hgcd_sanity and hgcd_start assert.  Every step reads and writes
\* only the low size limbs and one carry limb, and hgcd2_mul and hgcd_mul
\* store the carry limb only in the entries that carry, leaving the
\* others' limb as the array held it; this is what makes that exact.
SizeCoversCofactors ==
  pc # "start" => \A i \in 0 .. 3 : row[i].u < W^size /\ row[i].v < W^size

\* hgcd->size is exactly the limbs of the v cofactor of the newest live
\* row: hgcd_update_uv and hgcd_mul assert uvp[1][size - 1] # 0 of row 1
\* at the loop heads in twoRow, hgcd_final's loop of row 2, and
\* hgcd_jebelean of row 3 before the call returns its result.  It rests
\* on no u cofactor ever needing more limbs than its v, for
\* hgcd_update_uv and hgcd_adjust take the growth from the v entry alone
\* and hgcd_normalize trims by v3 only.
SizeNormalizedAt(twoRow) ==
  /\ pc \in twoRow => size = Size(row[1].v)
  /\ pc = "final" => size = Size(row[2].v)
  /\ pc = "done" /\ ret > 0 => size = Size(row[3].v)

\* What the call returns is what the half-GCD contract promises: on
\* success the rows r_{j-3} .. r_j with the sign of r_{j-3} and the
\* quotients q_1 .. q_{j-1} on the stack; on failure 0 and the stack as
\* the caller passed it.
AbsResult ==
  IF pc # "done" THEN NoResult
  ELSE IF ret = 0 THEN [Fail EXCEPT !.qs = StackQuotients(qs)]
  ELSE [k |-> ret, rows |-> row, neg |-> sign, qs |-> StackQuotients(qs)]

ABS == INSTANCE HgcdSpec WITH result <- AbsResult

Implements == ABS!AbsSpec

=============================================================================
