------------------------------- MODULE MCHgcd -------------------------------
(***************************************************************************)
(* mpn_hgcd on two-bit limbs for eight-limb a (N = 8, M = 4, n = 4, m = 2): *)
(* the first phase runs while row 1 has eight limbs, on sub-calls of four  *)
(* limbs; the second while row 1 has more than five, on sub-calls of size  *)
(* n1 = 2 row[0].rsize - 2M.  HGCD_SCHOENHAGE_THRESHOLD = 8 makes the      *)
(* top call recursive and a seven-limb call go to mpn_hgcd_lehmer; a few  *)
(* ten-limb calls (N = 10) are recursive as well.                          *)
(***************************************************************************)
EXTENDS Hgcd

\* 32 values of a over the eight-limb range, each with b stepping down
\* from a, so that b is sometimes as long as a and sometimes shorter.
MCA == {16384 + 1531 * i : i \in 0 .. 31}

MCGrid == UNION {{<<x, x - 733 * j>> : j \in 0 .. (x - 1) \div 733} : x \in MCA}

\* A seven-limb call, below the threshold.
MCBelow == {<<5000, 3001>>}

\* Ten-limb calls (N = 10, n = 5), the smallest asize at which the 6 k term
\* of mpn_hgcd_itch is needed when the threshold is 8.
MCTen == {<<262144 + 98304 * i, 262144 + 98304 * i - 40009 * j>> : i \in 0 .. 3, j \in 1 .. 3}

MCInputs == MCGrid \cup MCBelow \cup MCTen
====
