------------------------------ MODULE Rshift ------------------------------
(***************************************************************************)
(* mpn_rshift (mpn/generic/rshift.c): shift the n limbs at up right by cnt *)
(* bits into rp, returning the bits shifted out in the high end of a limb. *)
(* The operand may be shifted in place or into an area below it           *)
(* (MPN_SAME_OR_INCR_P: rp <= up), so source and destination are one      *)
(* memory: up starts at offset d >= 0 and rp at offset 0.  One action per  *)
(* step of the code: the first limb, each round of the for loop, the last *)
(* store.                                                                  *)
(***************************************************************************)
EXTENDS Limbs, Sequences

CONSTANTS
  Operands,     \* the limb sequences of up[0 .. n-1], n >= 1
  Counts,       \* the shift counts, 0 < cnt < BITS_PER_MP_LIMB
  Gaps          \* the offsets up - rp

ASSUME /\ \A o \in Operands : Len(o) >= 1 /\ \A j \in 1 .. Len(o) : o[j] \in 0 .. W - 1
       /\ Counts \subseteq 1 .. LimbBits - 1
       /\ Gaps \subseteq Nat

VARIABLES
  opnd, cnt, gap,   \* the arguments (read only)
  mem,              \* the limbs from rp[0] to up[n-1]
  up, rp,           \* the two pointers, as offsets into mem
  i,                \* the loop counter
  low, retval,      \* low_limb, retval
  pc                \* "start", "loop", "done"

vars == <<opnd, cnt, gap, mem, up, rp, i, low, retval, pc>>

n == Len(opnd)
tnc == LimbBits - cnt

\* The value of limbs lo .. lo+k-1 of mem.
RECURSIVE MemValue(_, _)
MemValue(lo, k) == IF k = 0 THEN 0 ELSE mem[lo] + W * MemValue(lo + 1, k - 1)

\* The value of a limb sequence, least significant first.
RECURSIVE SeqValue(_)
SeqValue(s) == IF s = <<>> THEN 0 ELSE Head(s) + W * SeqValue(Tail(s))

\* x << tnc and x >> cnt on a limb.
ShiftLeft(x) == (x * 2^tnc) % W
ShiftRight(x) == x \div 2^cnt

Init ==
  /\ opnd \in Operands /\ cnt \in Counts /\ gap \in Gaps
  /\ mem = [j \in 0 .. gap + n - 1 |-> IF j < gap THEN 0 ELSE opnd[j - gap + 1]]
  /\ up = gap /\ rp = 0 /\ i = 0
  /\ low = 0 /\ retval = 0
  /\ pc = "start"

\* Mutant: retval takes the high bits, high_limb << cnt.
FirstLimbRetShift ==
  /\ pc = "start"
  /\ retval' = (mem[up] * 2^cnt) % W
  /\ low' = ShiftRight(mem[up])
  /\ up' = up + 1
  /\ i' = n - 1
  /\ pc' = "loop"
  /\ UNCHANGED <<opnd, cnt, gap, mem, rp>>

\* high_limb = *up++; retval = high_limb << tnc; low_limb = high_limb >> cnt.
FirstLimb ==
  /\ pc = "start"
  /\ retval' = ShiftLeft(mem[up])
  /\ low' = ShiftRight(mem[up])
  /\ up' = up + 1
  /\ i' = n - 1
  /\ pc' = "loop"
  /\ UNCHANGED <<opnd, cnt, gap, mem, rp>>

\* One round: high_limb = *up++; *rp++ = low_limb | (high_limb << tnc);
\* low_limb = high_limb >> cnt.  The read comes before the store.
LoopStep ==
  LET high == mem[up]
  IN /\ pc = "loop" /\ i # 0
     /\ mem' = [mem EXCEPT ![rp] = low + ShiftLeft(high)]
     /\ low' = ShiftRight(high)
     /\ up' = up + 1 /\ rp' = rp + 1
     /\ i' = i - 1
     /\ UNCHANGED <<opnd, cnt, gap, retval, pc>>

\* *rp = low_limb; return retval.
LastStore ==
  /\ pc = "loop" /\ i = 0
  /\ mem' = [mem EXCEPT ![rp] = low]
  /\ pc' = "done"
  /\ UNCHANGED <<opnd, cnt, gap, up, rp, i, low, retval>>

Terminated == pc = "done" /\ UNCHANGED vars

Next == FirstLimb \/ LoopStep \/ LastStore

Spec == Init /\ [][Next \/ Terminated]_vars

(***************************************************************************)
(* Properties.                                                             *)
(***************************************************************************)
TypeOK ==
  /\ mem \in [0 .. gap + n - 1 -> 0 .. W - 1]
  /\ low \in 0 .. W - 1 /\ retval \in 0 .. W - 1
  /\ pc \in {"start", "loop", "done"}

\* On return rp[0 .. n-1] holds U >> cnt and retval the cnt bits shifted
\* out, at the top of a limb, also when rp overlaps up (in place, or one
\* limb below): each round reads *up before its store, and the store
\* lands on a limb already read.
ShiftCorrect ==
  pc = "done" =>
    /\ MemValue(0, n) = SeqValue(opnd) \div 2^cnt
    /\ retval = (SeqValue(opnd) % 2^cnt) * 2^tnc

=============================================================================
