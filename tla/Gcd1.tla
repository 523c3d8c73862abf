------------------------------- MODULE Gcd1 -------------------------------
(***************************************************************************)
(* mpn_gcd_1 (mpn/generic/gcd_1.c): the gcd of a multi-limb U and a single *)
(* nonzero limb V.  U is first reduced mod V with mpn_mod_1 (the spec's    *)
(* arithmetic primitive, here %), both limbs lose their trailing zero      *)
(* bits, and the binary loop subtracts the smaller odd limb from the       *)
(* larger and shifts the difference until it is odd again.  The common     *)
(* power of two is restored at the return.                                 *)
(*                                                                         *)
(* pc: "start" entry, "loop" head of while (ulimb != vlimb), "done".       *)
(***************************************************************************)
EXTENDS Limbs

CONSTANT Pairs        \* inputs <<U, vlimb>>: U > 0, 0 < vlimb < W

ASSUME Pairs \subseteq {p \in Nat \X Nat : p[1] > 0 /\ p[2] > 0 /\ p[2] < W}

VARIABLES
  U, V,       \* the operand {up, size} and the vlimb argument (read only)
  ulimb, vlimb,
  uzeros,     \* u_low_zero_bits
  vzeros,     \* v_low_zero_bits
  pc,
  ret         \* the return value, 0 until the call returns

vars == <<U, V, ulimb, vlimb, uzeros, vzeros, pc, ret>>

\* count_trailing_zeros of a nonzero limb.
RECURSIVE CountTrailingZeros(_)
CountTrailingZeros(x) == IF x % 2 = 1 THEN 0 ELSE 1 + CountTrailingZeros(x \div 2)

\* do x >>= 1; while ((x & 1) == 0);
RECURSIVE ShiftToOdd(_)
ShiftToOdd(x) == LET y == x \div 2 IN IF y % 2 = 1 THEN y ELSE ShiftToOdd(y)

MinOf(x, y) == IF x <= y THEN x ELSE y

\* The greatest common divisor, by its definition: the reference.
GreatestCommonDivisor(x, y) ==
  CHOOSE d \in 1 .. MinOf(x, y) :
    /\ x % d = 0 /\ y % d = 0
    /\ \A e \in d + 1 .. MinOf(x, y) : ~(x % e = 0 /\ y % e = 0)

Init ==
  /\ \E p \in Pairs : U = p[1] /\ V = p[2]
  /\ ulimb = 0 /\ vlimb = V
  /\ uzeros = 0 /\ vzeros = 0
  /\ pc = "start"
  /\ ret = 0

\* size > 1 and mpn_mod_1 (up, size, vlimb) == 0: return vlimb.
ModZero ==
  /\ pc = "start"
  /\ Size(U) > 1 /\ U % V = 0
  /\ ret' = V
  /\ pc' = "done"
  /\ UNCHANGED <<U, V, ulimb, vlimb, uzeros, vzeros>>

\* Mutant: the low zero bits of vlimb are counted but not shifted out.
StripKeepV ==
  LET u0 == IF Size(U) > 1 THEN U % V ELSE U
  IN /\ pc = "start"
     /\ u0 # 0
     /\ uzeros' = CountTrailingZeros(u0)
     /\ ulimb' = u0 \div 2^CountTrailingZeros(u0)
     /\ vzeros' = CountTrailingZeros(V)
     /\ vlimb' = V
     /\ pc' = "loop"
     /\ UNCHANGED <<U, V, ret>>

\* ulimb = U mod V (size > 1) or up[0], then both limbs lose their low
\* zero bits.
Strip ==
  LET u0 == IF Size(U) > 1 THEN U % V ELSE U
  IN /\ pc = "start"
     /\ u0 # 0
     /\ uzeros' = CountTrailingZeros(u0)
     /\ ulimb' = u0 \div 2^CountTrailingZeros(u0)
     /\ vzeros' = CountTrailingZeros(V)
     /\ vlimb' = V \div 2^CountTrailingZeros(V)
     /\ pc' = "loop"
     /\ UNCHANGED <<U, V, ret>>

\* One round of the while loop, for each order of the two limbs.
SubU ==
  /\ pc = "loop" /\ ulimb # vlimb
  /\ ulimb > vlimb
  /\ ulimb' = ShiftToOdd(ulimb - vlimb)
  /\ UNCHANGED <<U, V, vlimb, uzeros, vzeros, pc, ret>>

SubV ==
  /\ pc = "loop" /\ ulimb # vlimb
  /\ vlimb > ulimb
  /\ vlimb' = ShiftToOdd(vlimb - ulimb)
  /\ UNCHANGED <<U, V, ulimb, uzeros, vzeros, pc, ret>>

\* Mutant: the common power of two taken as the larger count.
ShiftBackMax == 2^(IF uzeros >= vzeros THEN uzeros ELSE vzeros)

\* ulimb << MIN (u_low_zero_bits, v_low_zero_bits), a limb.
ShiftBack == 2^MinOf(uzeros, vzeros)

\* The loop exits: return.
Finish ==
  /\ pc = "loop" /\ ulimb = vlimb
  /\ ret' = (ulimb * ShiftBack) % W
  /\ pc' = "done"
  /\ UNCHANGED <<U, V, ulimb, vlimb, uzeros, vzeros>>

Terminated == pc = "done" /\ UNCHANGED vars

Next == ModZero \/ Strip \/ SubU \/ SubV \/ Finish

\* mpn_gcd_1 is a sequential loop: once called it is always able to take
\* its next step, so weak fairness of Next is the code running on.
Spec == Init /\ [][Next \/ Terminated]_vars /\ WF_vars(Next)

(***************************************************************************)
(* Properties.                                                             *)
(***************************************************************************)
\* The loop keeps its two limbs odd, and their gcd times the common power
\* of two of the reduced operands is the gcd of U and V: what the
\* do-while shifts (a factor 2 is never common to two odd limbs) and the
\* stripping before the loop (counted once, restored at the return) rely
\* on.
LoopKeepsGcd ==
  pc = "loop" =>
    /\ ulimb % 2 = 1 /\ vlimb % 2 = 1
    /\ GreatestCommonDivisor(ulimb, vlimb) * 2^MinOf(uzeros, vzeros)
         = GreatestCommonDivisor(U, V)

\* Every call returns, and returns gcd(U, V).
ReturnsGcd == <>(pc = "done" /\ ret = GreatestCommonDivisor(U, V))

=============================================================================
