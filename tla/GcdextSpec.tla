----------------------------- MODULE GcdextSpec -----------------------------
(***************************************************************************)
(* What mpn_gcdext promises (spec 4.5 and 6): for A of an limbs and B of   *)
(* n limbs, an >= n > 0, it returns g = gcd(A, B) and a signed cofactor u  *)
(* with g = u A + v B for an integer v, that is g - u A divisible by B.    *)
(* u is written to a buffer of the caller, so it fits in n limbs (ualloc   *)
(* = n + 1 is the bound the code asserts).  The call is one step here.     *)
(***************************************************************************)
EXTENDS Euclid

CONSTANT Inputs        \* the operand pairs <<A, B>>

VARIABLES A, B, result

absVars == <<A, B, result>>

NoResult == [g |-> 0, u |-> 0]

Magnitude(x) == IF x < 0 THEN -x ELSE x

\* The results the contract allows for (x, y).
IsResult(r, x, y) ==
  /\ r \in [g : 1 .. y, u : -y .. y]
  /\ Size(Magnitude(r.u)) <= Size(y)
  /\ (r.g - r.u * x) % y = 0
  /\ r.g = Gcd(x, y)

AbsInit ==
  /\ \E p \in Inputs : A = p[1] /\ B = p[2]
  /\ result = NoResult

Return ==
  /\ result = NoResult
  /\ IsResult(result', A, B)
  /\ UNCHANGED <<A, B>>

AbsSpec == AbsInit /\ [][Return]_absVars

=============================================================================
