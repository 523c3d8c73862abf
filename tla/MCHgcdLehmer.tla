---------------------------- MODULE MCHgcdLehmer ----------------------------
(***************************************************************************)
(* mpn_hgcd_lehmer on two-bit limbs, for six-limb a (N = 6, M = 3): the    *)
(* main loop runs while row 1 has five or more limbs, so a call makes      *)
(* zero to two lehmer steps before hgcd_final.                             *)
(***************************************************************************)
EXTENDS HgcdLehmer

\* a spread over the six-limb range, both with the top bit of its top
\* limb set (the "full" truncation) and clear (the shifted one); b from a
\* downwards, so that every size of b relative to a occurs.
MCA == {1024 + 97 * i : i \in 0 .. 31}

MCGrid == UNION {{<<x, x - 61 * j>> : j \in 0 .. (x - 1) \div 61} : x \in MCA}

\* hgcd2 returning 4 with r3 small at once (Case4Small) is rare; one pair
\* that takes it.
MCEdge == {<<1214, 477>>}

MCInputs == MCGrid \cup MCEdge
====
