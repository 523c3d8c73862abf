------------------------------- MODULE QStack -------------------------------
(***************************************************************************)
(* struct qstack of hgcd.c: the quotients of the reduction, stored as one  *)
(* limb array with a parallel array of their sizes.  The stack is a record *)
(* [limb, size]: limb is limb[0 .. limb_next - 1] and size is              *)
(* size[0 .. size_next - 1], as sequences, so limb_next = Len(limb) and    *)
(* size_next = Len(size).  Entry i occupies the size[i] limbs after the    *)
(* sizes of the entries below it.  A quotient equal to 1 is stored with    *)
(* size 0 (the unit quotient).                                             *)
(*                                                                         *)
(* qstack_rotate is not in this tree.  By the spec (4.1) it re-packs, or   *)
(* reallocates, the live entries without reordering them, so after it the  *)
(* contents are the same; where push_start and adjust call it, the model   *)
(* keeps the contents unchanged and always has room.                       *)
(***************************************************************************)
EXTENDS Limbs, Sequences

LOCAL SeqExt == INSTANCE SequencesExt

EmptyQstack == [limb |-> <<>>, size |-> <<>>]

\* The k low limbs of x, least significant first.
LimbsOf(x, k) == [j \in 1 .. k |-> Limb(x, j - 1)]

\* The number held by a limb array, least significant first.
RECURSIVE LimbValue(_)
LimbValue(ls) == IF ls = <<>> THEN 0 ELSE Head(ls) + W * LimbValue(Tail(ls))

\* The quotient a (qp, qsize) view stands for: 1 for qsize = 0.
View(s, off, k) == IF k = 0 THEN 1 ELSE LimbValue(SubSeq(s.limb, off + 1, off + k))

\* The limb offset of entry i: the sizes of the entries below it.
Offset(s, i) == SeqExt!FoldLeft(LAMBDA x, y : x + y, 0, SubSeq(s.size, 1, i - 1))

\* The quotients the stack holds, oldest first.
StackQuotients(s) == [i \in 1 .. Len(s.size) |-> View(s, Offset(s, i), s.size[i])]

\* qstack_push_start / qstack_push_end: store k limbs of q on top.
PushLimbs(s, q, k) == [limb |-> s.limb \o LimbsOf(q, k), size |-> Append(s.size, k)]

\* Mutant: qstack_push_quotient counting a zero top limb of the quotient.
QstackPushQuotientUntrimmed(s, x, y) ==
  LET q  == x \div y
      q0 == Size(x) - Size(y) + 1
  IN PushLimbs(s, q, IF q0 = 1 /\ q = 1 THEN 0 ELSE q0)

\* qstack_push_quotient: mpn_tdiv_qr stores q = x div y in
\* asize - bsize + 1 limbs; a zero top limb is not counted, and a one-limb
\* quotient 1 is stored with size 0.
QstackPushQuotient(s, x, y) ==
  LET q     == x \div y
      q0    == Size(x) - Size(y) + 1
      q1    == q0 - (IF Limb(q, q0 - 1) = 0 THEN 1 ELSE 0)
  IN PushLimbs(s, q, IF q1 = 1 /\ q = 1 THEN 0 ELSE q1)

\* The quotients of a callee (hgcd2, or a recursive hgcd), which pushes
\* each one normalized, the unit quotient with size 0.
QstackPushAll(s, qs) ==
  SeqExt!FoldLeft(LAMBDA t, q : PushLimbs(t, q, IF q = 1 THEN 0 ELSE Size(q)), s, qs)

\* qstack_drop: limb_next -= size[--size_next].
QstackDrop(s) ==
  [limb |-> SubSeq(s.limb, 1, Len(s.limb) - s.size[Len(s.size)]),
   size |-> SeqExt!Front(s.size)]

\* qstack_get_0: qp = limb + limb_next - qsize with qsize the top size.
QstackGet0(s) ==
  LET k == s.size[Len(s.size)]
  IN View(s, Len(s.limb) - k, k)

\* qstack_get_1: the entry just below the top, qp = limb + limb_next
\* - size[size_next - 1] - qsize.
QstackGet1(s) ==
  LET k == s.size[Len(s.size) - 1]
  IN View(s, Len(s.limb) - s.size[Len(s.size)] - k, k)

\* qstack_adjust: add d to the top quotient.  A unit quotient becomes the
\* one-limb d + 1; otherwise mpn_add_1, and a carry limb that grows the
\* entry and limb_next by one.
QstackAdjust(s, d) ==
  LET k    == s.size[Len(s.size)]
      off  == Len(s.limb) - k
      sum  == LimbValue(SubSeq(s.limb, off + 1, off + k)) + d
      k1   == IF k = 0 THEN 1 ELSE k + (IF sum >= W^k THEN 1 ELSE 0)
      v    == IF k = 0 THEN d + 1 ELSE sum
  IN [limb |-> SubSeq(s.limb, 1, off) \o LimbsOf(v, k1),
      size |-> [s.size EXCEPT ![Len(s.size)] = k1]]

\* ASSERT_QSTACK's accounting, and the form push and adjust store: limb_next
\* is the sum of the sizes, every entry has a nonzero top limb, and none
\* but the unit quotient's is of size 0 or holds 1.
QstackOK(s) ==
  /\ s.limb \in Seq(0 .. W - 1) /\ s.size \in Seq(Nat)
  /\ Len(s.limb) = Offset(s, Len(s.size) + 1)
  /\ \A i \in 1 .. Len(s.size) :
       s.size[i] > 0 => /\ s.limb[Offset(s, i) + s.size[i]] # 0
                        /\ View(s, Offset(s, i), s.size[i]) # 1

=============================================================================
