------------------------------- MODULE Gcdext -------------------------------
(***************************************************************************)
(* mpn_gcdext (mpn/generic/gcdext.c), the extended-GCD driver.  After one  *)
(* initial division it keeps the current pair (a, b) and the running      *)
(* cofactors (u0, u1) of the comment at lines 425 - 429:                   *)
(*                                                                         *)
(*     B = u0 a + u1 b,   a = u1 A + ... B,   b = -u0 A + ... B            *)
(*                                                                         *)
(* It shrinks (a, b) with mpn_hgcd and mpn_hgcd_matrix_adjust while n is  *)
(* at or above GCDEXT_DC_THRESHOLD, falls back to mpn_gcdext_subdiv_step  *)
(* when mpn_hgcd fails, and ends with mpn_gcdext_lehmer_n on the small    *)
(* pair, whose cofactor it combines with (u0, u1).  pc:                    *)
(*   "start"  entry;  "first"  the first hgcd block (lines 285 - 335);     *)
(*   "loop"   the head of the while loop (line 337);  "done"  returned.    *)
(*                                                                         *)
(* The four callees are not in this tree (they belong to the newer hgcd   *)
(* interface); each is its contract, one step of the caller:              *)
(*   mpn_hgcd + mpn_hgcd_matrix_adjust: subtractive Euclidean steps on    *)
(*     the whole pair, M the product of their matrices, as many as keep   *)
(*     both high parts above s limbs and M within the sizes the caller    *)
(*     asserts (lines 301 - 302); it fails when not even one step does;   *)
(*   mpn_gcdext_subdiv_step: one subtraction and one division (the        *)
(*     comment at line 315), keeping B = u0 a + u1 b;                      *)
(*   mpn_gcdext_lehmer_n: g and the cofactor of the Euclidean sequence.   *)
(***************************************************************************)
EXTENDS Euclid

CONSTANTS
  Inputs,       \* the operand pairs <<A, B>>, Size(A) >= Size(B) > 0
  THRESHOLD     \* GCDEXT_DC_THRESHOLD

ASSUME /\ \A p \in Inputs : p[2] > 0 /\ Size(p[1]) >= Size(p[2])
       /\ THRESHOLD \in Nat \ {0}

VARIABLES
  A, B,         \* {ap, an} and {bp, n} as passed (read only)
  a, b,         \* the current contents of ap[0..n-1] and bp[0..n-1]
  n,
  u0, u1, un,   \* the running cofactors and their common size
  g, u, usize,  \* the results: gp, the value of up, *usizep
  pc

vars == <<A, B, a, b, n, u0, u1, un, g, u, usize, pc>>

Magnitude(x) == IF x < 0 THEN -x ELSE x
MaxOf(x, y) == IF x >= y THEN x ELSE y

\* ABOVE_THRESHOLD (n, GCDEXT_DC_THRESHOLD)
AboveThreshold(k) == k >= THRESHOLD

\* ualloc = n + 1, with n the size of B at entry.
ualloc == Size(B) + 1

(***************************************************************************)
(* The contracts of the callees.                                           *)
(***************************************************************************)
\* A hgcd matrix M->p[i][j] as four entries, and M->n.
Identity == [p00 |-> 1, p01 |-> 0, p10 |-> 0, p11 |-> 1]
MatrixN(M) == MaxOf(MaxOf(Size(M.p00), Size(M.p01)), MaxOf(Size(M.p10), Size(M.p11)))

\* One subtractive step, a -= b or b -= a, and M times its matrix, so
\* that (A'; B') = M (a; b) is kept.
SubStep(o) ==
  IF o.x > o.y
  THEN [x |-> o.x - o.y, y |-> o.y,
        M |-> [o.M EXCEPT !.p01 = o.M.p00 + o.M.p01, !.p11 = o.M.p10 + o.M.p11]]
  ELSE [x |-> o.x, y |-> o.y - o.x,
        M |-> [o.M EXCEPT !.p00 = o.M.p00 + o.M.p01, !.p10 = o.M.p10 + o.M.p11]]

\* mpn_hgcd (ap + p, bp + p, n - p, &M, ...) followed by
\* mpn_hgcd_matrix_adjust: the reductions it may return.
HgcdOutcomes(x, y, k, p) ==
  LET s == (k - p) \div 2 + 1
      Valid(o) == /\ Size(o.x \div W^p) > s /\ Size(o.y \div W^p) > s
                  /\ MatrixN(o.M) <= (k - p - 1) \div 2
                  /\ MatrixN(o.M) + p <= (p + k - 1) \div 2
      RECURSIVE Path(_)
      Path(o) == IF o.x = o.y \/ ~Valid(SubStep(o)) THEN {}
                 ELSE {SubStep(o)} \cup Path(SubStep(o))
  IN Path([x |-> x, y |-> y, M |-> Identity])

\* q times the smaller subtracted from the larger, with the cofactor
\* update that keeps B = u0 a + u1 b.
Reduce(o, q) ==
  IF o.a >= o.b THEN [o EXCEPT !.a = o.a - q * o.b, !.u1 = o.u1 + q * o.u0]
  ELSE [o EXCEPT !.b = o.b - q * o.a, !.u0 = o.u0 + q * o.u1]

\* A returned gcd with its cofactor, once a (or b) is zero.
Found(o) ==
  IF o.a = 0 THEN [found |-> TRUE, g |-> o.b, u |-> -o.u0]
  ELSE [found |-> TRUE, g |-> o.a, u |-> o.u1]

\* mpn_gcdext_subdiv_step: the gcd with its cofactor, or the reduced pair.
SubdivStep(x, y, c0, c1) ==
  LET o0 == [a |-> x, b |-> y, u0 |-> c0, u1 |-> c1]
      o1 == Reduce(o0, 1)
      o2 == Reduce(o1, MaxOf(o1.a, o1.b) \div (o1.a + o1.b - MaxOf(o1.a, o1.b)))
  IN CASE x = 0 \/ y = 0 -> {Found(o0)}
       [] x = y -> {[found |-> TRUE, g |-> x, u |-> c1],
                    [found |-> TRUE, g |-> x, u |-> -c0]}
       [] o2.a = 0 \/ o2.b = 0 -> {Found(o2)}
       [] OTHER -> {[found |-> FALSE, a |-> o2.a, b |-> o2.b, u0 |-> o2.u0, u1 |-> o2.u1]}

\* mpn_gcdext_lehmer_n: g and the cofactor of the last non-zero row of
\* the remainder sequence, r_i = (-1)^i (u_i x - v_i y).
LehmerN(x, y) ==
  LET rs == TrueRows(x, y)
      i  == Len(rs) - 2
  IN [g |-> rs[i + 1].r, u |-> IF i % 2 = 0 THEN rs[i + 1].u ELSE -rs[i + 1].u]

\* A signed size as the code returns it: -un for a negative u.
SignedSize(x) == IF x < 0 THEN -Size(-x) ELSE Size(x)

(***************************************************************************)
(* The code of gcdext.c.                                                   *)
(***************************************************************************)
\* Mutant: the product taken as u a - v b, the signed form of the rows
\* of the older hgcd interface.
MulMatrixVectorSigned(M, x, y, k) ==
  LET r  == M.p00 * x - M.p10 * y
      s  == M.p01 * x + M.p11 * y
      sz == k + MatrixN(M)
  IN [r |-> r, b |-> s,
      n |-> IF r >= W^sz \/ s >= W^sz THEN sz + 1 ELSE Size(MaxOf(r, s))]

\* Mutant: b = u01 * a stored before t = u11 * b has read b.
MulMatrixVectorOverwrite(M, x, y, k) ==
  LET r  == M.p00 * x + M.p10 * y
      s  == M.p01 * x + M.p11 * (M.p01 * x)
      sz == k + MatrixN(M)
  IN [r |-> r, b |-> s,
      n |-> IF r >= W^sz \/ s >= W^sz THEN sz + 1 ELSE Size(MaxOf(r, s))]

\* hgcd_mul_matrix_vector (M, rp, ap, bp, k): t = u00 a, r = u10 b + t,
\* then t = u11 b before b = u01 a + t overwrites b.  The size is k + M->n,
\* one more on a carry out of either sum, else normalized down while both
\* top limbs are zero.
MulMatrixVector(M, x, y, k) ==
  LET r  == M.p10 * y + M.p00 * x
      t  == M.p11 * y
      s  == M.p01 * x + t
      sz == k + MatrixN(M)
  IN [r |-> r, b |-> s,
      n |-> IF r >= W^sz \/ s >= W^sz THEN sz + 1 ELSE Size(MaxOf(r, s))]

\* compute_v (vp, ap, bp, k, gp, gn, up, usize): |v| = |g - u x| / y and
\* the size vn it returns.  The product u x has an + |usize| limbs, of
\* which only the u > 0 branch normalizes; the quotient of size + 1 - bn
\* limbs loses at most its top limb.
ComputeV(x, y, gv, uv) ==
  LET size0 == Size(Magnitude(uv)) + Size(x)
      t     == IF uv > 0 THEN uv * x - gv ELSE Magnitude(uv) * x + gv
      size  == CASE uv > 0         -> Size(t)
                 [] t >= W^size0   -> size0 + 1
                 [] OTHER          -> size0
      q     == t \div y
      vn    == size + 1 - Size(y)
  IN IF uv > 0 /\ size = 0 THEN [v |-> 0, vn |-> 0]
     ELSE [v |-> q, vn |-> vn - (IF Limb(q, vn - 1) = 0 THEN 1 ELSE 0)]

\* The product of two operands of sizes k1, k2: k1 + k2 limbs, one less
\* when the top one is zero (un -= (up[un - 1] == 0)).
MulSize(x, k1, y, k2) == k1 + k2 - (IF Limb(x * y, k1 + k2 - 1) = 0 THEN 1 ELSE 0)

\* Mutant: *usizep = un without the sign of u (negate ignored).
CombineNoNegate(x, y, c0, c1) ==
  LET lr     == LehmerN(x, y)
      u0n    == Size(c0)
      u1n    == Size(c1)
      cv     == ComputeV(x, y, lr.g, lr.u)
      negate == lr.u < 0
      lun    == Size(Magnitude(lr.u))
      p1     == c1 * Magnitude(lr.u)
      p1n    == MulSize(c1, u1n, Magnitude(lr.u), lun)
      p2     == c0 * cv.v
      p2n    == MulSize(c0, u0n, cv.v, cv.vn)
      sn     == MaxOf(p1n, p2n)
      sumn   == IF cv.vn = 0 THEN p1n
                ELSE sn + (IF p1 + p2 >= W^sn THEN 1 ELSE 0)
      sum    == IF cv.vn = 0 THEN p1 ELSE p1 + p2
  IN CASE lr.u = 0 -> [g |-> lr.g, u |-> -c0, usize |-> -u0n]
       [] u1n = 0  -> [g |-> lr.g, u |-> IF negate THEN cv.v ELSE -cv.v,
                       usize |-> IF negate THEN cv.vn ELSE -cv.vn]
       [] OTHER    -> [g |-> lr.g, u |-> sum, usize |-> sumn]

\* Lines 442 - 547: g = u a + v b from mpn_gcdext_lehmer_n and compute_v,
\* then u u1 + |v| u0 with the sign of u.
Combine(x, y, c0, c1) ==
  LET lr     == LehmerN(x, y)
      u0n    == Size(c0)
      u1n    == Size(c1)
      cv     == ComputeV(x, y, lr.g, lr.u)
      negate == lr.u < 0
      lun    == Size(Magnitude(lr.u))
      p1     == c1 * Magnitude(lr.u)
      p1n    == MulSize(c1, u1n, Magnitude(lr.u), lun)
      p2     == c0 * cv.v
      p2n    == MulSize(c0, u0n, cv.v, cv.vn)
      sn     == MaxOf(p1n, p2n)
      sumn   == IF cv.vn = 0 THEN p1n
                ELSE sn + (IF p1 + p2 >= W^sn THEN 1 ELSE 0)
      sum    == IF cv.vn = 0 THEN p1 ELSE p1 + p2
  IN CASE lr.u = 0 -> [g |-> lr.g, u |-> -c0, usize |-> -u0n]
       [] u1n = 0  -> [g |-> lr.g, u |-> IF negate THEN cv.v ELSE -cv.v,
                       usize |-> IF negate THEN cv.vn ELSE -cv.vn]
       [] OTHER    -> [g |-> lr.g, u |-> IF negate THEN -sum ELSE sum,
                       usize |-> IF negate THEN -sumn ELSE sumn]

\* Lines 260 - 271: an > n divides A by B in place.
Reduced(x, y) == IF Size(x) > Size(y) THEN x % y ELSE x

Init ==
  /\ \E p \in Inputs : A = p[1] /\ B = p[2]
  /\ a = 0 /\ b = 0 /\ n = 0
  /\ u0 = 0 /\ u1 = 0 /\ un = 0
  /\ g = 0 /\ u = 0 /\ usize = 0
  /\ pc = "start"

Return(r) ==
  /\ g' = r.g /\ u' = r.u /\ usize' = SignedSize(r.u)
  /\ pc' = "done"

\* an > n and A mod B = 0: g = B, *usizep = 0.
DivisionZero ==
  /\ pc = "start"
  /\ Size(A) > Size(B) /\ A % B = 0
  /\ Return([g |-> B, u |-> 0])
  /\ UNCHANGED <<A, B, a, b, n, u0, u1, un>>

\* BELOW_THRESHOLD (n, GCDEXT_DC_THRESHOLD): mpn_gcdext_lehmer_n.
SmallLehmer ==
  /\ pc = "start"
  /\ Reduced(A, B) # 0 /\ ~AboveThreshold(Size(B))
  /\ Return(LehmerN(Reduced(A, B), B))
  /\ UNCHANGED <<A, B, a, b, n, u0, u1, un>>

\* MPN_ZERO (tp, 2*ualloc): u0 = u1 = 0, and the first hgcd block.
Setup ==
  /\ pc = "start"
  /\ Reduced(A, B) # 0 /\ AboveThreshold(Size(B))
  /\ a' = Reduced(A, B) /\ b' = B /\ n' = Size(B)
  /\ u0' = 0 /\ u1' = 0 /\ un' = 0
  /\ pc' = "first"
  /\ UNCHANGED <<A, B, g, u, usize>>

\* The first mpn_hgcd, p = CHOOSE_P_1 (n), succeeds: (u0, u1) is row 1
\* of M, un = M.n normalized down.
FirstHgcd ==
  /\ pc = "first"
  /\ \E o \in HgcdOutcomes(a, b, n, n \div 2) :
       /\ a' = o.x /\ b' = o.y /\ n' = Size(MaxOf(o.x, o.y))
       /\ u0' = o.M.p10 /\ u1' = o.M.p11
       /\ un' = Size(MaxOf(o.M.p10, o.M.p11))
  /\ pc' = "loop"
  /\ UNCHANGED <<A, B, g, u, usize>>

\* mpn_hgcd has failed: u1 = 1, one mpn_gcdext_subdiv_step, which either
\* returns the gcd or the reduced pair.
Subdiv(c0, c1) ==
  \E r \in SubdivStep(a, b, c0, c1) :
    \/ /\ r.found
       /\ Return(r)
       /\ UNCHANGED <<a, b, n, u0, u1, un>>
    \/ /\ ~r.found
       /\ a' = r.a /\ b' = r.b /\ n' = Size(MaxOf(r.a, r.b))
       /\ u0' = r.u0 /\ u1' = r.u1 /\ un' = Size(MaxOf(r.u0, r.u1))
       /\ pc' = "loop"
       /\ UNCHANGED <<g, u, usize>>

FirstSubdiv ==
  /\ pc = "first"
  /\ HgcdOutcomes(a, b, n, n \div 2) = {}
  /\ Subdiv(0, 1)
  /\ UNCHANGED <<A, B>>

\* A round of the while loop, p = CHOOSE_P_2 (n): mpn_hgcd succeeds and
\* hgcd_mul_matrix_vector takes (u0, u1) to (u0, u1) M.
LoopHgcd ==
  /\ pc = "loop" /\ AboveThreshold(n)
  /\ \E o \in HgcdOutcomes(a, b, n, n \div 3) :
       LET uv == MulMatrixVector(o.M, u0, u1, un)
       IN /\ a' = o.x /\ b' = o.y /\ n' = Size(MaxOf(o.x, o.y))
          /\ u0' = uv.r /\ u1' = uv.b /\ un' = uv.n
  /\ UNCHANGED <<A, B, g, u, usize, pc>>

LoopSubdiv ==
  /\ pc = "loop" /\ AboveThreshold(n)
  /\ HgcdOutcomes(a, b, n, n \div 3) = {}
  /\ Subdiv(u0, u1)
  /\ UNCHANGED <<A, B>>

\* Lines 391 - 548 after the loop.
Finish ==
  /\ pc = "loop" /\ ~AboveThreshold(n)
  /\ LET r == CASE a = 0  -> [g |-> b, u |-> -u0, usize |-> -Size(u0)]
                [] b = 0  -> [g |-> a, u |-> u1, usize |-> Size(u1)]
                [] u0 = 0 -> LET l == LehmerN(a, b)
                             IN [g |-> l.g, u |-> l.u, usize |-> SignedSize(l.u)]
                [] OTHER  -> Combine(a, b, u0, u1)
     IN /\ g' = r.g /\ u' = r.u
        /\ usize' = r.usize
        /\ pc' = "done"
  /\ UNCHANGED <<A, B, a, b, n, u0, u1, un>>

Terminated == pc = "done" /\ UNCHANGED vars

Next ==
  \/ DivisionZero \/ SmallLehmer \/ Setup
  \/ FirstHgcd \/ FirstSubdiv \/ LoopHgcd \/ LoopSubdiv \/ Finish

Spec == Init /\ [][Next \/ Terminated]_vars


(***************************************************************************)
(* Properties.                                                             *)
(***************************************************************************)
TypeOK ==
  /\ a \in Nat /\ b \in Nat /\ u0 \in Nat /\ u1 \in Nat
  /\ un \in 0 .. ualloc
  /\ pc \in {"start", "first", "loop", "done"}

\* At the head of the loop (and at its exit) the pair and the running
\* cofactors are what lines 425 - 429 say: B = u0 a + u1 b, a = u1 A and
\* b = -u0 A modulo B, gcd(a, b) = gcd(A, B); un is the size of the
\* larger cofactor and below ualloc (the ASSERTs at lines 333, 366, 367).
\* The first hgcd block, hgcd_mul_matrix_vector and the subdiv fallback
\* each have to keep all of it.
CofactorInvariant ==
  pc = "loop" =>
    /\ B = u0 * a + u1 * b
    /\ (u1 * A - a) % B = 0 /\ (u0 * A + b) % B = 0
    /\ Gcd(a, b) = Gcd(A, B)
    /\ un = Size(MaxOf(u0, u1)) /\ un < ualloc

\* The returned size *usizep is the normalized signed size of u: its top
\* limb is nonzero, as mpz needs of SIZ, and the other returns get with
\* MPN_NORMALIZE (lines 394, 404) and un -= (up[un - 1] == 0).
ResultNormalized == pc = "done" => usize = SignedSize(u)

\* mpn_gcdext implements its contract: the returned g and u are a result
\* GcdextSpec allows, once the call returns.
AbsResult == IF pc = "done" THEN [g |-> g, u |-> u] ELSE [g |-> 0, u |-> 0]
ABS == INSTANCE GcdextSpec WITH result <- AbsResult
Implements == ABS!AbsSpec

=============================================================================
