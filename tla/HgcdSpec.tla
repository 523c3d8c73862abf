------------------------------ MODULE HgcdSpec ------------------------------
(***************************************************************************)
(* What a half-GCD call promises (the comment above mpn_hgcd_lehmer, and   *)
(* "should return the same numbers as mpn_hgcd_lehmer" above mpn_hgcd).    *)
(* For a >= b with N = Size(a) limbs and M = ceil(N/2):                    *)
(*                                                                         *)
(*  - if b fits in M limbs, or already a mod b does, the call fails (0)    *)
(*    and leaves the quotient stack as it found it;                        *)
(*  - otherwise, with r_j the first remainder that fits in M limbs, the    *)
(*    rows are r_{j-3}, r_{j-2}, r_{j-1}, r_j with their cofactors, the    *)
(*    sign is that of row j-3, the call has pushed q_1 .. q_{j-1}, and it  *)
(*    returns how many rows satisfy Jebelean's criterion (2, 3 or 4).      *)
(*                                                                         *)
(* The call is one atomic step here.                                       *)
(***************************************************************************)
EXTENDS HgcdResult

CONSTANT Inputs        \* set of operand pairs <<a, b>>, a >= b > 0

VARIABLES a, b, result

absVars == <<a, b, result>>

AbsInit ==
  /\ \E p \in Inputs : a = p[1] /\ b = p[2]
  /\ result = NoResult

Return ==
  /\ result = NoResult
  /\ result' = HgcdContract(a, b)
  /\ UNCHANGED <<a, b>>

AbsSpec == AbsInit /\ [][Return]_absVars

=============================================================================
