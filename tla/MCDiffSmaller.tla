--------------------------- MODULE MCDiffSmaller ---------------------------
(***************************************************************************)
(* Inputs for DiffSmaller with W = 4: every a of up to four limbs, b at a  *)
(* distance up to 24 below a or of one limb, and c of one to four limbs    *)
(* near those distances, so that A - B = 0, 1 and more all occur with     *)
(* csize below, at and above bsize, and the borrow chains                  *)
(* (X, 0, .., 0) - (X-1, MAX, .., MAX) are among the pairs.                *)
(***************************************************************************)
EXTENDS DiffSmaller

MCTriples ==
  {t \in (0 .. 255) \X (0 .. 255) \X ((0 .. 24) \cup (63 .. 70)) :
     t[1] >= t[2] /\ (t[1] - t[2] <= 24 \/ t[2] <= 3)}

=============================================================================
