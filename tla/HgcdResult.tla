----------------------------- MODULE HgcdResult -----------------------------
(***************************************************************************)
(* The result of a half-GCD call on (x, y), as the comment above           *)
(* mpn_hgcd_lehmer states it (see HgcdSpec).  A result is a record: the    *)
(* return value k (-1 while the call has not returned), the four rows,     *)
(* the sign of row 0 and the quotients the call has pushed.               *)
(***************************************************************************)
EXTENDS HgcdRows

NoResult == [k |-> -1, rows |-> HgcdStart(0, 0), neg |-> FALSE, qs |-> <<>>]

Fail == [NoResult EXCEPT !.k = 0]

\* The result of a half-GCD call on (x, y).
HgcdContract(x, y) ==
  LET rs == TrueRows(x, y)
      m == (Size(x) + 1) \div 2
      j == FirstSmallOf(rs, m)
      rw == [i \in 0 .. 3 |-> rs[j - 2 + i]]
      neg == (j - 3) % 2 = 1
  IN IF Size(y) <= m \/ j < 3 THEN Fail
     ELSE [k    |-> HgcdJebelean(rw, neg),
           rows |-> rw,
           neg  |-> neg,
           qs   |-> SubSeq(QuotientsOf(rs), 1, j - 1)]

=============================================================================
