------------------------------- MODULE Euclid -------------------------------
(***************************************************************************)
(* Reference definitions: the Euclidean remainder sequence of (x, y), its  *)
(* quotients and its unsigned cofactors, as in the comments of hgcd.c:     *)
(*                                                                         *)
(*   r_0 = x, r_1 = y, r_{i+1} = r_{i-1} - q_i r_i,  q_i = r_{i-1} div r_i *)
(*   (u_0,v_0) = (1,0), (u_1,v_1) = (0,1),                                 *)
(*   (u_{i+1},v_{i+1}) = (u_{i-1},v_{i-1}) + q_i (u_i,v_i)                 *)
(*                                                                         *)
(* so that r_i = (-1)^i (u_i x - v_i y).  None of this is code: it is what *)
(* the code is checked against.                                            *)
(***************************************************************************)
EXTENDS Limbs, Sequences

\* One row of the remainder sequence: remainder and unsigned cofactors.
MkRow(r, u, v) == [r |-> r, u |-> u, v |-> v]

RowSet == [r : Nat, u : Nat, v : Nat]

\* The rows from p, c on to the first zero remainder.  A recursive
\* function rather than a RECURSIVE operator, so that each row is a
\* value when the next is computed from it.
RowsFrom[p, c \in RowSet] ==
  IF c.r = 0 THEN <<p, c>>
  ELSE LET q == p.r \div c.r
       IN <<p>> \o RowsFrom[c, MkRow(p.r % c.r, p.u + q * c.u, p.v + q * c.v)]

\* The rows r_0 .. r_m of the sequence, r_m = 0; element i+1 is row i.
TrueRows(x, y) == RowsFrom[MkRow(x, 1, 0), MkRow(y, 0, 1)]

\* Row i of the sequence (i counted from 0).
TrueRow(x, y, i) == TrueRows(x, y)[i + 1]

\* q_1 .. q_{m-1} of the rows rs.
QuotientsOf(rs) == [i \in 1 .. Len(rs) - 2 |-> rs[i].r \div rs[i + 1].r]

Quotients(x, y) == QuotientsOf(TrueRows(x, y))

\* The first index j >= 1 whose remainder in rs fits in m limbs.
FirstSmallOf(rs, m) ==
  CHOOSE j \in 1 .. Len(rs) - 1 :
    /\ Size(rs[j + 1].r) <= m
    /\ \A i \in 1 .. j - 1 : Size(rs[i + 1].r) > m

\* The row identity checked by __gmpn_hgcd_sanity: with neg = FALSE a row
\* holds u x - v y, with neg = TRUE it holds v y - u x.
Holds(row, neg, x, y) ==
  row.r = IF neg THEN row.v * y - row.u * x ELSE row.u * x - row.v * y

\* gcd by the remainder sequence: its last non-zero remainder.
Gcd(x, y) == LET rs == TrueRows(x, y) IN rs[Len(rs) - 1].r

=============================================================================
