------------------------------ MODULE MCRshift ------------------------------
(***************************************************************************)
(* Inputs for Rshift with 3-bit limbs: every operand of one to three      *)
(* limbs, both shift counts, in place (gap 0), one limb below, and into a *)
(* separate area (gap = 3, no overlap for any n).                          *)
(***************************************************************************)
EXTENDS Rshift

MCOperands == UNION {[1 .. k -> 0 .. W - 1] : k \in 1 .. 3}

=============================================================================
