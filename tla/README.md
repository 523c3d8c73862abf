# TLA+ models of the GMP half-GCD and extended-GCD engine

This directory holds TLA+ models of the half-GCD (`hgcd`) engine in
`src/mpn/generic/hgcd.c` and the parts of the tree around it, plus the TLC
configurations that check them. Every operator is translated from the C
source. The exceptions are the callees that are not in this tree:
`mpn_hgcd2`, and the newer `mpn_hgcd`, `mpn_hgcd_matrix_adjust`,
`mpn_gcdext_subdiv_step` and `mpn_gcdext_lehmer_n` that gcdext.c calls.
They are modelled from the spec, as contracts (see below).

## 1. The system

`mpn_gcdext` (gcdext.c) computes g = gcd(A, B) and a cofactor u. It calls
`mpn_hgcd` over and over to shrink (A, B) and keeps a running cofactor pair.

`mpn_hgcd` reduces two n-limb numbers a >= b to four consecutive remainders
r0..r3 of their Euclidean remainder sequence, together with the cofactors
(u, v) of each one. The reduction stops at the point where the numbers have
about halved in size.
* Above a threshold it recurses on the high halves.
* Below the threshold it calls `mpn_hgcd_lehmer`.
* `mpn_hgcd_lehmer` loops over `mpn_hgcd2`, a two-limb half-GCD. It corrects
  each approximate step with exact limb arithmetic: `mpn_hgcd2_fix`,
  `hgcd2_mul` and `hgcd_adjust`.
* It ends in `hgcd_final`, which takes plain Euclid steps.
* Every path finishes in `hgcd_jebelean`, `hgcd_small_1` or `hgcd_small_2`.
  These decide how many of the rows satisfy Jebelean's exactness criterion,
  and back up one or two steps when needed.

Every quotient computed along the way is pushed on a *quotient stack*. The
backup steps read quotients from it, and later steps adjust or drop them.

### State and operations (hgcd.c)

| code | state | operations |
|---|---|---|
| `struct hgcd` | 4 rows (r, u0, u1), `sign`, `size`, `alloc` | `hgcd_start`, `euclid_step`, `hgcd_update_r/uv`, `hgcd_backup`, `hgcd_mul`, `hgcd_adjust`, `HGCD_SWAP4_*` |
| `struct qstack` | quotient limbs, sizes, and the top index | `push_quotient`, `drop`, `get_0`, `get_1`, `adjust`, `rotate` |
| `struct hgcd2` | two-limb matrix rows and sign | `mpn_hgcd2` (not in tree), `mpn_hgcd2_lehmer_step` |

### Hard behaviours

Every path through these routines has to keep three pieces of state in step:
the four rows, the single global sign, and the stack.
* A step can be one quotient too small, so r3 >= r2 comes out. The code has
  to rebuild with `hgcd_adjust` or drop back to `correct_r2`.
* A step can overshoot, so r3 or even r2 ends up at or below M limbs. The
  code then backs up with `hgcd_backup` and the stack's quotients.
* The rows can turn out to be the start rows, and the call fails (returns 0).

None of this is concurrent; the hazards are long sequences of legal steps,
numeric edges and bookkeeping that must stay in step.

### The rest of the tree

The other C files are small routines. The engine treats them as the
arithmetic substrate, or they sit beside it:
* `mpn_diff_smaller_p` (hgcd.c) decides a - b < c from limbs. `hgcd_jebelean`
  calls it for both of its exactness tests.
* `mpn_gcd_1` (gcd_1.c) is the single-limb gcd.
* `mpn_rshift` (rshift.c) is the limb shift.
* `mpz_rrandomb` (rrandomb.c) generates the test operands with long runs of
  ones and zeros.
* `mpfr_cmp_ui_2exp` and `mpfr_cmp_si_2exp` (mpfr/cmp_ui.c) compare a
  floating-point number with i 2^f.

## 2. Modules

| module | models |
|---|---|
| `Limbs` | limb width W = 2^LimbBits, normalized size, limb extraction, count of leading zeros |
| `Euclid` | the true remainder sequence (rows r, u, v) as a recursive function; the reference the hgcd models are checked against |
| `QStack` | `struct qstack` as its limb and size arrays, and push_quotient, drop, get_0, get_1 and adjust on them |
| `HgcdRows` | the row helpers of hgcd.c, one operator per helper, including `mpn_hgcd_fix`; each reads and writes the cofactor arrays with the size the code passes it |
| `HgcdResult` | the half-GCD contract: the result a correct hgcd call returns for (a, b) |
| `HgcdSpec` | the abstract spec: one step from "called" to the contract's result |
| `HgcdCore` | the state both hgcd functions share, the tails that end a call, `hgcd_case0`, `hgcd_final`, and the shared properties |
| `HgcdLehmer` | `mpn_hgcd_lehmer` as a state machine, refining `HgcdSpec` |
| `Hgcd` | the recursive `mpn_hgcd`, both phases, refining `HgcdSpec` |
| `HgcdItch` | the scratch-size formulas of hgcd.c (`mpn_hgcd_itch`, `mpn_hgcd_init_itch`, `mpn_hgcd_lehmer_itch`, `mpn_hgcd_max_recursion`) and the scratch `mpn_hgcd` consumes at every depth of its recursion |
| `DiffSmaller` | `mpn_diff_smaller_p`, one operator per branch, and `slow_diff_smaller_p` |
| `Gcd1` | `mpn_gcd_1` as a state machine |
| `Rshift` | `mpn_rshift` as a state machine over one memory that holds source and destination |
| `Rrandomb` | `mpz_rrandomb` / `gmp_rrandomb` as a state machine over nondeterministic random bits |
| `CmpUi` | `mpfr_cmp_ui_2exp` and `mpfr_cmp_si_2exp` as operators, with int and long widths |
| `GcdextSpec` | what `mpn_gcdext` promises: g = gcd(A, B), g = u A mod B, u fits in n limbs |
| `Gcdext` | `mpn_gcdext` as a state machine over contracts of its callees, refining `GcdextSpec` |
| `MC*` | the input sets for TLC, one per model |

### The contract (`HgcdResult`, abstract spec `HgcdSpec`)

The contract is built from the reference sequence rs = `TrueRows(a, b)`.
* M = ceil(N/2), where N is the limb size of a.
* j is the first index whose remainder r_j has at most M limbs.
* The call fails (k = 0) when b has at most M limbs, or when j < 3.
* Otherwise it returns:
  * the rows r_{j-3} .. r_j;
  * the sign given by the parity of j-3;
  * the stack q_1 .. q_{j-1};
  * k = `hgcd_jebelean` of those rows.

`HgcdSpec` has one action, `Return`, which moves `result` from `NoResult` to
the contract. `HgcdCore` instantiates it with the refinement mapping
`AbsResult`: `NoResult` until `pc = "done"`, then the returned rows, sign,
stack and k. On a failure it maps to `Fail` with whatever the stack holds.
Both `HgcdLehmer` and `Hgcd` check `Implements == ABS!AbsSpec`.

### `HgcdCore`: the shared state

* The variables `a, b, row, sign, qs, size` are `ap, bp, hgcd->row[0..3]`,
  `hgcd->sign` (as a Boolean), the quotient stack (the `QStack` record
  described below) and `hgcd->size`.
* `pc` is the point in the code. `ret` is the return value.
* `HgcdCase0Small`/`HgcdCase0Step` are `hgcd_case0`.
* `FinalSmall`, `FinalEnter`, `FinalDone` and `FinalStep` are `hgcd_final`:
  its first `euclid_step`, then each round of its loop.
* `HgcdSmall1`, `HgcdSmall2` and `Jebelean` are the tails that return. Every
  action that ends in one of them returns its result, so the tail is part of
  the branch's action.

### `HgcdRows`: cofactor arrays and `hgcd->size`

A cofactor is a natural number, but each helper touches it as the code
touches the array:
* `Low(x, n)` is a read of n limbs.
* `Overwrite(old, x, k)` writes k limbs; the limbs above k keep whatever
  the array held.
* Every helper takes the size the code passes it, and returns the new
  `hgcd->size` with its rows:
  * `HgcdUpdateUv` / `UvGrow` (hgcd_update_uv) grows the size by what
    the v entry needs; the u entry's carry is not consulted;
  * `Hgcd2Mul` (hgcd2_mul, `AddMul2N1`) and `HgcdMul` (hgcd_mul, with
    `MulRSize`, the normalization of the sub-call's R.size) store a carry
    limb only in the entries that carry (`MulRows`), then return the size
    as the code computes it, trimming a zero top limb;
  * `HgcdAdjust` stores the carries at limb n only when v carries;
  * `HgcdNormalize` (hgcd_normalize, in `hgcd_small_1`) cuts the size to
    v3's limbs and zeroes row 0 in between.
* `HgcdBackup` subtracts on n limbs; a borrow wraps modulo W^n.

So a size that is too small truncates a cofactor, and a stale limb above
a short write stays in the value. `ExactRows` and `Implements` see
either. The sub-call's size (`SubCallSize`) is the limbs of its v3,
which `SizeNormalized` shows of `mpn_hgcd_lehmer`'s return.

### `QStack`: the quotient stack

`qs` is `[limb, size]`. These are `limb[0 .. limb_next-1]` and
`size[0 .. size_next-1]` as sequences. Entry i sits right after the limbs
of the entries below it. The operators translate hgcd.c lines 292 - 431:
* `QstackPushQuotient` reserves asize - bsize + 1 limbs. It does not count
  a zero top limb, and it stores the quotient 1 with size 0.
* `QstackDrop` drops the top entry.
* `QstackGet0` and `QstackGet1` read the top entry, and the one below it,
  by their offsets from limb_next.
* `QstackAdjust` stores d + 1 on a unit quotient. Otherwise it adds d, and
  a carry grows the entry by one limb.

Callees that are contracts push their quotients normalized
(`QstackPushAll`). `StackQuotients` reads the buffer back as the sequence
of quotients. `ExactRows` and the refinement mappings compare that
sequence with the true quotients. `TypeOK` includes `QstackOK`, the
accounting: limb_next is the sum of the sizes, and every entry is stored
normalized.

`qstack_rotate` is not in the tree. The spec says it keeps the live
entries in order, so it changes no content here, and the buffer always
has room.

### `HgcdLehmer`

* `LehmerFail` and `LehmerStart` are the entry: the `bsize <= M` test and
  `hgcd_start`.
* There is one action per way through a loop iteration. Each one is fed the
  result R of `mpn_hgcd2_lehmer_step`:
  * `Case0Small` and `Case0Step` are case 0.
  * `Case23Correct` is case 3, and case 2 when r3 < r2 holds; both reach
    `correct_r2`.
  * `Case2AdjustSmall` and `Case2AdjustStep` are case 2 with `hgcd_adjust`.
  * `Case4Small` and `Case4Step` are case 4.
* `mpn_hgcd2_lehmer_step` is translated fully: the choice between full and
  partial high limbs with its shift, the early returns of 0, and the
  truncation of both operands to two limbs.
* `mpn_hgcd2` on the truncation is the contract with N = 2. This is the
  spec's description of hgcd2 (not in the tree): it returns 2, 3 or 4
  correct rows of the two-limb problem, or 0.

### `Hgcd`

* `HgcdFail`, `HgcdLehmerCall` and `HgcdStartCall` are the entry. Below
  `HGCD_SCHOENHAGE_THRESHOLD` the call goes to `mpn_hgcd_lehmer`, modelled by
  the contract. `lehmer_contract` checks that `mpn_hgcd_lehmer` meets it.
* Phase 1 (`pc = "p1"`): while row 1 has more than M + m + 1 limbs, the
  sub-call is the contract on the rows shifted down by W^M. One action per
  case: `P1Case0*`, `P1Correct`, `P1Adjust*`, `P1Case4`.
* `reduction_done` (`RdCase0*`, `RdSkip`) is one `hgcd_case0` when row 0 is
  still longer than M + m + 1.
* Phase 2 (`pc = "loop"`): the sub-call is on the rows shifted down by
  W^k with k = 2M - row[0].rsize. `P2Case0*`, `P2Small2`, `P2First`,
  `P2Small1`, `P2Second`, `P2Done` and `P2Step` are the ways through it. They
  read the sub-call's quotients from the stack with get_1, get_0 and drops,
  in the order the code uses.
* Every sub-call's quotients are appended to the stack, as the code's
  `qstack` sharing does.
* Each recursive call is the contract. The run therefore checks one level of
  recursion, assuming the level below meets the contract it is itself shown
  to meet. This is the induction step; `lehmer_contract` is the base case.

### `HgcdItch`: scratch space

A caller passes `mpn_hgcd` talloc = `mpn_hgcd_itch (asize)` limbs. Above
the threshold each call does three things with them:
* it takes `mpn_hgcd_init_itch (n + 3)` for R and asserts `itch <= talloc`
  (hgcd.c:1807);
* it passes the rest to its recursive calls;
* it passes the rest also to `hgcd_mul`, `mpn_hgcd_fix` and `hgcd_jebelean`,
  which assert their temporaries fit (lines 660, 743, 1194).

`HgcdScratchNeed` is a recursive function. It gives the least talloc with
which every one of those assertions holds, at every depth. It uses the
largest sizes the code allows:
* `hgcd->size <= asize / 2`, which `__gmpn_hgcd_sanity` asserts;
* first-phase sub-calls of n limbs;
* second-phase sub-calls of n1 <= min (n + 3, 2 (m + 1)) limbs
  (`HgcdSubCallMax`).

Below the threshold the need is `mpn_hgcd_lehmer_itch`. A sub-call is
smaller than its caller only from threshold 7 on: at N = 6 the second
phase may call `mpn_hgcd` on all six limbs again. The module assumes
`HGCD_SCHOENHAGE_THRESHOLD >= 7`.

### The small routines

* `DiffSmaller`: `MpnDiffSmallerP` dispatches on the three sizes to
  `DiffSameSize`, `DiffBShort`, `DiffALonger` and `DiffCancel`.
  * `CancelHigh` is the loop over equal high limbs.
  * `BorrowChain` is the scan for (X, 0..0) - (X-1, MAX..MAX).
  * `DiffIsOneCheck` is the `mpn_sub_1` / `mpn_add` / carry test.
  * One action, `Call`, evaluates it as `wrap_mpn_diff_smaller_p` does.
* `Gcd1` has these actions:
  * `ModZero` is the early return;
  * `Strip` is the reduction and both trailing-zero shifts;
  * `SubU` and `SubV` are the two arms of the loop, each with its do-while;
  * `Finish` is the return with the common power of two.
  * The module has no type invariant. ret is a limb by construction, being
    taken `% W` or equal to vlimb, so a type invariant would check nothing.
* `Rshift` keeps one memory `mem` from `rp[0]` to `up[n-1]`, with `up` at
  offset `gap` (0 = in place). Its actions are `FirstLimb`, `LoopStep` (read
  `*up` first, then store) and `LastStore`.
* `Rrandomb`:
  * `Enter` and `ZeroBits` are the entry. `Enter` includes the grow test
    `if (x->_mp_alloc < nl) _mpz_realloc (x, nl)` (`MpzRealloc`) on the
    variable `alloc`, which starts at any value of `AllocInit`.
  * Each round is `RanStep` (the refill test, lines 87-92, and the shift of
    `ran`, lines 122-123) with one of `OnesCross`, `OnesWithin`,
    `ZerosCross` and `ZerosWithin`, on a block drawn from the bits `ran` can
    hold.
  * `NormalizeSize` is `MPN_NORMALIZE` and `SIZ(x) = nl`.
  * `ran_nbits` starts at any value of `UninitNbits`, and `ran` at any limb,
    because the code reads both before assigning them.
* `CmpUi`: `MpfrCmpUi2exp` and `MpfrCmpSi2exp` are the functions with every
  early return in order. e, f and k are wrapped to `INTBITS`, and the long
  product to `BITS`. `CompareLimbs` is the shared limb tail. The reference
  `ExactCmp` compares b with i 2^f in exact arithmetic.

### `Gcdext`

gcdext.c is written against a newer hgcd interface than the hgcd.c of this
tree, so it is not composed with `Hgcd`. Its callees are contracts, all
built on subtractive Euclid steps of the pair with the cofactor updates
of lines 425 - 429 (a -= q b adds q u0 to u1, b -= q a adds q u1 to u0):
* `HgcdOutcomes(a, b, n, p)` is `mpn_hgcd` on the high parts plus
  `mpn_hgcd_matrix_adjust`. It returns every prefix of steps that keeps both
  high parts (div W^p) above s = (n-p)/2 + 1 limbs and M->n within the two
  ASSERTs of lines 301 - 302. An empty set is the failure (nn = 0).
* `SubdivStep` is one subtraction and one division. When a or b becomes 0
  it returns the gcd, with either of the two valid cofactors for a = b.
* `LehmerN` is the cofactor of the last nonzero row of `TrueRows`.

The variables are `A, B` (the inputs), `a, b, n` (ap, bp and their size),
`u0, u1, un` (the cofactor buffers and their size), `g, u, usize` (gp, the
value at up and *usizep) and `pc`. The actions follow the code:
* `DivisionZero` is the an > n division with a zero remainder, and
  `SmallLehmer` the call below `GCDEXT_DC_THRESHOLD`. `Setup` zeroes u0, u1.
* `FirstHgcd` takes row 1 of M as (u0, u1) and strips un; `FirstSubdiv` is
  the fallback with u1 = 1.
* `LoopHgcd` is a round of the while loop: hgcd with p = n/3 and then
  `MulMatrixVector` (hgcd_mul_matrix_vector, with its in-place order and
  its size rule). `LoopSubdiv` is the fallback.
* `Finish` is lines 391 - 548. `Combine` calls `LehmerN` and `ComputeV`
  (compute_v, with both sign branches and the size arithmetic), then forms
  u u1 + |v| u0 with the limb counts of lines 507 - 540.

Three arms of `Finish` never fire. a = 0 and b = 0 do not, because the loop
keeps both positive. u0 = 0 does not either, because it would leave b = B,
at least THRESHOLD limbs. The u1n = 0 arm of `Combine` is unreachable too,
because u1 >= 1 at every loop head.

## 3. Runs

| run | cfg (module) | checks | result |
|---|---|---|---|
| `lehmer_contract` | `MCHgcdLehmer.cfg` | `TypeOK`, `ExactRows`, `CofactorsFit`, `SizeCoversCofactors`, `SizeNormalized`, `Implements` | pass |
| `hgcd_contract` | `MCHgcd.cfg` | `TypeOK`, `ExactRows`, `CofactorsFit`, `SubCallFits`, `SizeCoversCofactors`, `SizeNormalized`, `ItchSuffices`, `Implements` | pass |
| `lehmer_stack_balance` | `MCHgcdLehmerStack.cfg` | `StackBalancedOnReturn` | violation |
| `diff_smaller_p` | `MCDiffSmaller.cfg` | `AgreesWithSlow` | pass |
| `gcd_1` | `MCGcd1.cfg` | `LoopKeepsGcd`, `ReturnsGcd` | pass |
| `rshift` | `MCRshift.cfg` | `ShiftCorrect` | pass |
| `rrandomb` | `MCRrandomb.cfg` | `TypeOK`, `BitPosInRange`, `ResultNormalized`, `StoresWithinAlloc` | pass |
| `rrandomb_uninit` | `MCRrandombInit.cfg` | `BlocksFromRand` | violation |
| `cmp_in_range` | `MCCmpUi.cfg` | `CmpUiSign`, `CmpSiSign` | pass |
| `cmp_defects` | `MCCmpDefects.cfg` | `CmpSign` | violation |
| `gcdext_contract` | `MCGcdext.cfg` | `TypeOK`, `CofactorInvariant`, `Implements` | pass |
| `gcdext_normalized` | `MCGcdextSize.cfg` | `ResultNormalized` | violation |

What the hgcd properties say:
* `ExactRows`: at every loop head, rows 0 and 1 are two consecutive true
  remainders with their exact cofactors. At the head of `hgcd_final`'s loop,
  rows 0..2 are. In every case the stack is exactly the quotients before
  them, and the sign is the parity of the position. This is the invariant the
  whole backtracking protocol exists to keep. A wrong drop, sign flip, fix or
  adjust breaks it, often several iterations later.
* `CofactorsFit`: once `hgcd_start` has run, `hgcd->size` stays below
  `alloc = N/2 + 1` (`mpn_hgcd_init`). The code only asserts this, after
  the fact.
* `SizeCoversCofactors`: in all four rows, the rows left behind by swaps
  included, no cofactor has a non-zero limb at or above `hgcd->size`
  (what `__gmpn_hgcd_sanity` and `hgcd_start` assert). It breaks if the
  size grows by the wrong entry, or if a stale limb survives a short
  write.
* `SizeNormalized`: `hgcd->size` is exactly the limb count of the newest
  live row's v cofactor: row 1 at the loop heads, row 2 in `hgcd_final`,
  row 3 when the call returns rows. These are the asserts
  `uvp[1][size - 1] != 0` of `hgcd_update_uv`, `hgcd_mul` and
  `hgcd_jebelean`. Together with `SizeCoversCofactors`, it shows that no u
  cofactor ever needs more limbs than its v, which the size rules rely on.
* `SubCallFits`: every phase-2 sub-call has 2 .. n + 3 limbs, the size of the
  struct R it reuses (the assert at hgcd.c:2062).
* `ItchSuffices`: for the asize N of the call, `HgcdScratchNeed[N] <=
  mpn_hgcd_itch (N)`. The caller's reservation covers every assertion on
  scratch at every depth below the call. It is checked at the run's
  threshold of 8, for the 7-, 8- and 10-limb calls. At asize 10,
  `mpn_hgcd_itch` without its 6 k term is already too small.
  * Outside TLC's integer range, the same recurrence shows what the run
    cannot reach. At threshold 8, `mpn_hgcd_max_recursion` undercounts
    the depth: a 38-limb call can recurse through 22, 14, 10 and 8 limbs,
    but k = 4. The formula still holds there, with 43 limbs to spare, from
    its asize term. No run reaches this case, because at 4-bit limbs TLC's
    integers stop at about 15-limb operands.
  * At the tuned thresholds of the `gmp-mparam.h` files (112 and up), the
    slack is hundreds of limbs.
* `Implements`: the function refines `HgcdSpec`. On every path, the returned
  k, rows, sign and stack are those of the contract, including the failure
  returns through `hgcd_small_1`/`hgcd_small_2`.
* `StackBalancedOnReturn` states the spec's section 8 claim that a complete
  call leaves the quotient stack empty on every path. TLC refutes it: on
  success the code leaves q_1..q_{j-1} for its caller (finding in
  PROJECT.json).

What the other properties say:
* `AgreesWithSlow`: `mpn_diff_smaller_p` equals `slow_diff_smaller_p`. This
  is the code's own `ASSERT (r1 == r2)`.
* `LoopKeepsGcd`: both limbs stay odd in the loop, and
  gcd(ulimb, vlimb) 2^min(zeros) = gcd(U, V).
* `ReturnsGcd`: every call returns gcd(U, V). This is a liveness property;
  fairness is discussed below.
* `ShiftCorrect`: rp holds U >> cnt and retval the bits shifted out, also
  when rp and up overlap.
* `BitPosInRange`: every shift count of lines 100, 103 and 108 is within the
  limb.
* `ResultNormalized`: every limb is stored, x < 2^nbits, and SIZ(x) has a
  nonzero leading limb.
* `StoresWithinAlloc`: after the entry, x has at least nl limbs allocated,
  and every store `rp[ri]` lies below `_mp_alloc`. The grow test rounds nl
  up, while the top index `(nbits - 1) / BITS` is rounded down. Dropping
  the reallocation breaks the property for x fresh from `mpz_init`.
* `BlocksFromRand`: every block comes from `_gmp_rand` bits. It is refuted:
  `ran_nbits` is read uninitialized at rrandomb.c:87.
* `CmpUiSign` and `CmpSiSign`: the sign of the result is that of b - i 2^f,
  as the comments above the functions say. They hold on `cmp_in_range`, which
  has no zero b, no i = LONG_MIN and f far from INT_MAX.
* `CmpSign` is both of them together. `cmp_defects` adds those inputs: zeros
  of both signs, f near INT_MAX and i = LONG_MIN. TLC stops at the first
  counterexample, -0 compared with 0. Narrowing `Calls` to `MCZeroCalls`,
  `MCBigFCalls` or `MCLongMinCalls` shows each of the four defects on its own
  (findings in PROJECT.json):
  * -0 is caught by the sign test first and compared as negative (line 48);
  * the si zero branch returns the sign of i, not its opposite (line 101);
  * f + BITS_PER_MP_LIMB overflows (line 56);
  * MPFR_SIGN(b) * i overflows for LONG_MIN (line 97).
* `CofactorInvariant` (gcdext): at each loop head, B = u0 a + u1 b,
  a = u1 A and b = -u0 A mod B, and gcd(a, b) = gcd(A, B). Also
  un = size(max(u0, u1)) < ualloc. These are the comment of lines 425 - 429
  and the ASSERTs of lines 333, 366 and 367.
* `Implements` (gcdext): `mpn_gcdext` refines `GcdextSpec`.
* `ResultNormalized` (gcdext): *usizep is the normalized signed size of u.
  It is refuted (finding in PROJECT.json). For A = 2813, B = 164 the code
  returns u = -59 with *usizep = -4, though 59 needs only 3 two-bit limbs.
  The cause is compute_v: in its usize < 0 branch it does not normalize
  |u| a + g.

Every property of a passing run has a mutant in PROJECT.json: a plausible
bug in one mapped definition, under which TLC finds the property violated.

### Bounds

* **hgcd.** LimbBits = 2, so W = 4. With limbs this small, every size class
  the code distinguishes occurs at a few hundred: bsize < asize, a leading
  limb with or without the high bit, truncations with a zero high limb.
  * `MCHgcdLehmer` uses 32 values of a over six limbs, each paired with
    b = a - 61 j (1342 pairs), plus one pair that reaches case 4 through
    `hgcd_small_2`. Every branch fires, including case 2 with
    `hgcd_adjust`.
  * `MCHgcd` uses 32 values of a over eight limbs (N = 8, M = 4, n = 4,
    m = 2), each with b = a - 733 j (1767 pairs), plus the seven-limb pair
    (5000, 3001) that goes to `mpn_hgcd_lehmer`, and twelve ten-limb pairs
    (N = 10, n = 5). Ten limbs is the smallest asize at which a slip in
    `mpn_hgcd_itch`'s 6 k term shows at threshold 8, and these values still
    fit TLC's 31-bit integers. The threshold 8 makes the top call
    recursive.
  * The grids were chosen with a replica of the models that measures branch
    coverage. The pass runs between them fire every action and every disjunct
    of both Next relations.
  * Two paths are not reached at these sizes: phase 1 case 4 returning through
    `hgcd_small_2`, and `hgcd_adjust` with d = 2. They are inside actions that
    do fire.
* **diff_smaller_p.** W = 4; a up to four limbs; b within 24 of a, or of one
  limb; c in 0..24 and 63..70. These include:
  * csize below, equal to and above bsize;
  * A - B = 0, 1 and more;
  * the borrow chains (X, 0..0) - (X-1, 3..3).
  A replica confirms every return of the function is reached.
* **gcd_1.** 4-bit limbs. Every U up to 1023 (one to three limbs) with every
  V. This covers every count of trailing zeros.
* **rshift.** 3-bit limbs, one to three limbs, cnt in {1, 2}, and gap 0
  (in place), 1 and 3 (disjoint).
* **rrandomb.** Checked at a reduced scale. 6-bit limbs, LOGBITS_PER_BLOCK
  = 2 (runs of 1 to 4 bits) and 6 bits per `_gmp_rand` call. Each refill then
  feeds two blocks and leaves bits over, as 32 bits feed six blocks of five.
  nbits is 0..13 (up to three limbs). The code needs
  BITS_PER_MP_LIMB >= 2^LOGBITS_PER_BLOCK, its FIXME about small limbs; the
  scale keeps that ratio's condition. `ran_nbits` starts at -7, 0, 2, 3 or
  1000: below the refill threshold, at it, and far above it. x starts with
  one limb allocated, as after `mpz_init`, or with three, so that the
  realloc happens for two and three limbs and is skipped when x is big
  enough.
* **cmp_ui.** 3-bit limbs and longs, 8-bit ints. Mantissas of one or two
  limbs with every precision 1..6, exponents -3..4 and f -4..3, so the
  exponents of b and i 2^f meet, cross and differ by a limb.

* **gcdext.** LimbBits = 2 and THRESHOLD = 4. B takes 32 values from 40
  to 1001 (3 to 5 limbs), and A takes 69 values from 40 to 4052 (3 to 6
  limbs) with size(A) >= size(B), plus A = B. This covers all of these
  cases:
  * the an > n division, with and without a zero remainder;
  * the small case;
  * the first hgcd succeeding and failing;
  * loop rounds of both kinds;
  * the final combination with v = 0 and v != 0, and with u of both signs.
  The run has 10112 distinct states, and every action fires.

### Fairness and termination

Every routine here is a sequential call, so there is no scheduler.
* The hgcd models need no fairness. `ExactRows` keeps the stack a prefix of
  the finite quotient sequence, and each step either pushes a quotient or
  returns. Deadlock checking is on, and `Terminated` is the only step allowed
  after the return, so no reachable state is stuck before returning. The
  other models end the same way.
* `Gcd1` assumes weak fairness of `Next`. A running sequential loop always
  takes its next enabled step, and `ReturnsGcd` then says the loop ends with
  the gcd.
* `Gcdext` and `GcdextSpec` assume no fairness and state no liveness. With
  weak fairness, checking `Implements` made TLC evaluate ENABLED over the
  abstract result set. That took minutes, for a property that adds little.
  Every step moves pc forward or strictly shrinks a + b. With deadlock checking on,
  every behaviour ends in `Terminated`.

## 4. Not modelled

* **hgcd.c's missing callees.** `mpn_hgcd2` and `mpn_hgcd2_fix` are called
  but not defined in the tree. `HgcdLehmer` uses `mpn_hgcd2` as the spec's
  contract (section 4.2). `HgcdFix` (and `Fix`, its use on rows 0 and 1) is
  the exact matrix row application of spec section 4.3 step 2, the same
  formula `mpn_hgcd_fix` computes at lines 720-782.
* **gcdext.c's callees.** `mpn_hgcd` with a matrix argument,
  `mpn_hgcd_matrix_adjust`, `mpn_gcdext_subdiv_step` and
  `mpn_gcdext_lehmer_n` are not in the tree. `Gcdext` uses their contracts,
  so the model cannot show a defect inside them. Scratch sizing (`talloc`)
  is left out because it changes no value.
* **`qstack_rotate`, `limb_alloc` and `QSTACK_MAX_QUOTIENTS`.** The
  rotation and the constant are not in the tree. By the spec, rotation
  keeps every entry, so it cannot bring size_next below
  `QSTACK_MAX_QUOTIENTS` as line 312 asserts. With neither in the tree,
  nothing at line 306 can be checked, and it is not listed as a hazard.
* **The carry branches of `hgcd_mul` and `hgcd2_mul`.** Both are modelled
  limb-exactly, with the limb they leave unwritten. But at these bounds no
  entry ever carries out of psize (n + 1) limbs: for hgcd2_mul that needs
  u_i + v_i >= W, which hgcd2's single-limb cofactors do not reach. The
  stale-limb hazard at hgcd.c:676 is therefore not checked by any run. Likewise
  `hgcd_normalize` never shrinks the size in any reached state: the size
  entering `hgcd_small_1` is already v2's.
* **Checking code.** `__gmpn_hgcd_sanity` and tracing only assert or
  print. What sanity asserts is stated as `ExactRows` and
  `SizeCoversCofactors`. The `*_itch` formulas are modelled, in `HgcdItch`.
* **The `gmp-mparam.h` tuning tables.** They are constant thresholds.
* **The allocator behind `_mpz_realloc`.** Only its effect on
  `_mp_alloc` is modelled; the copy of the old limbs does not matter,
  since every limb is stored afterwards.
* **mini-gmp's `t-lcm.c`.** A test driver.
