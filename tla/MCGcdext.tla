------------------------------ MODULE MCGcdext ------------------------------
(***************************************************************************)
(* mpn_gcdext with 2-bit limbs and GCDEXT_DC_THRESHOLD = 4.  B has two to  *)
(* five limbs: below the threshold the call goes straight to               *)
(* mpn_gcdext_lehmer_n; at four limbs the first hgcd (p = n/2) always     *)
(* fails and mpn_gcdext_subdiv_step runs, at five it can succeed; the     *)
(* loop's hgcd (p = n/3) can succeed at four and five limbs, and the loop *)
(* ends at three.  A has as many limbs as B or up to six, so that the     *)
(* initial division runs, and A = B reaches the subdiv step's a = b case. *)
(***************************************************************************)
EXTENDS Gcdext

MCB == {40 + 31 * j : j \in 0 .. 31}

MCInputs ==
  {<<x, y>> \in {40 + 59 * i : i \in 0 .. 68} \X MCB : Size(x) >= Size(y)}
    \cup {<<y, y>> : y \in MCB}

=============================================================================
