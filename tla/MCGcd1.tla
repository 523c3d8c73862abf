------------------------------ MODULE MCGcd1 ------------------------------
(***************************************************************************)
(* Inputs for Gcd1 with 4-bit limbs: every U of one to three limbs up to  *)
(* 1023 with every limb V.  Both operands range over every count of       *)
(* trailing zeros a limb can have, and U > W takes the mpn_mod_1 path,    *)
(* with and without a zero remainder.                                      *)
(***************************************************************************)
EXTENDS Gcd1

MCPairs == (1 .. 1023) \X (1 .. 15)

=============================================================================
