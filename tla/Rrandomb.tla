----------------------------- MODULE Rrandomb -----------------------------
(***************************************************************************)
(* mpz_rrandomb and gmp_rrandomb (mpz/rrandomb.c): a random nbits-bit     *)
(* number made of runs of ones and zeros.  gmp_rrandomb fills the limbs   *)
(* from the top: each block takes LOGBITS_PER_BLOCK + 1 bits of the       *)
(* random buffer ran, bit 0 choosing ones or zeros and the next bits the  *)
(* run length nb; a run that crosses bit 0 of the limb being built stores *)
(* it (rp[ri--]) and carries on in the next one.  mpz_rrandomb then        *)
(* normalizes the size.                                                    *)
(*                                                                         *)
(* Random bits are a nondeterministic choice.  ran is kept as the number  *)
(* of its bits that may still be nonzero (ranlen): a block reads the low  *)
(* bits of ran, and ran >>= LOGBITS_PER_BLOCK + 1 shortens it.  ran_nbits *)
(* and ran are read before they are first assigned (rrandomb.c:87, 94),   *)
(* so their first values are any the build can leave there: ran_nbits    *)
(* from UninitNbits, ran any limb.                                          *)
(***************************************************************************)
EXTENDS Integers, Bitwise

CONSTANTS
  BITS,           \* BITS_PER_MP_LIMB
  LOGBITS,        \* LOGBITS_PER_BLOCK
  RANDCALL,       \* BITS_PER_RANDCALL, the bits one _gmp_rand call returns
  NBits,          \* the nbits arguments
  AllocInit,      \* values x->_mp_alloc may have on entry
  UninitNbits     \* values ran_nbits may hold before its first assignment

ASSUME /\ LOGBITS \in Nat /\ 2^LOGBITS <= BITS
       /\ RANDCALL \in LOGBITS + 1 .. BITS
       /\ NBits \subseteq Nat /\ AllocInit \subseteq Nat \ {0}
       /\ UninitNbits \subseteq Int

VARIABLES
  nbits,
  rp,           \* the limbs of x; -1 for a limb not yet stored
  ri, bit_pos, acc,
  ran_nbits,
  ranlen,       \* how many low bits of ran may be nonzero
  fromrand,     \* ran holds bits of a _gmp_rand call
  garbage,      \* some block was made from bits that were never drawn
  siz,          \* SIZ(x)
  pc,           \* "start", "loop", "norm", "done"
  alloc         \* x->_mp_alloc, the limbs allocated at PTR (x)

vars == <<nbits, rp, ri, bit_pos, acc, ran_nbits, ranlen, fromrand, garbage, siz, pc, alloc>>

Mask == 2^BITS                  \* limb arithmetic is mod 2^BITS
BlockBits == LOGBITS + 1

\* nl = (nbits + BITS_PER_MP_LIMB - 1) / BITS_PER_MP_LIMB
NLimbs(nb) == (nb + BITS - 1) \div BITS

\* MPN_NORMALIZE (xp, nl)
RECURSIVE Normalize(_, _)
Normalize(x, k) == IF k > 0 /\ x[k - 1] = 0 THEN Normalize(x, k - 1) ELSE k

\* The value of limbs 0 .. k-1.
RECURSIVE LimbsValue(_, _)
LimbsValue(x, k) == IF k = 0 THEN 0 ELSE x[k - 1] * Mask^(k - 1) + LimbsValue(x, k - 1)

Init ==
  /\ nbits \in NBits
  /\ rp = [j \in 0 .. NLimbs(nbits) - 1 |-> -1]
  /\ ri = 0 /\ bit_pos = 0 /\ acc = 0
  /\ ran_nbits \in UninitNbits
  /\ ranlen = BITS /\ fromrand = FALSE /\ garbage = FALSE
  /\ siz = 0
  /\ pc = "start"
  /\ alloc \in AllocInit

\* mpz_rrandomb with nbits = 0: SIZ(x) = 0.
ZeroBits ==
  /\ pc = "start" /\ nbits = 0
  /\ pc' = "done"
  /\ UNCHANGED <<nbits, rp, ri, bit_pos, acc, ran_nbits, ranlen, fromrand, garbage, siz, alloc>>

\* Mutant: the reallocation left out, x used at its old size.
MpzReallocSkipped(al, nl) == al

\* if (x->_mp_alloc < nl) _mpz_realloc (x, nl): x grows to nl limbs.
MpzRealloc(al, nl) == IF al < nl THEN nl ELSE al

\* Mutant: the top limb index computed as nbits / BITS_PER_MP_LIMB.
EnterTopLimbOff ==
  /\ pc = "start" /\ nbits # 0
  /\ bit_pos' = (nbits - 1) % BITS
  /\ ri' = nbits \div BITS
  /\ acc' = 0
  /\ pc' = "loop"
  /\ alloc' = MpzRealloc(alloc, NLimbs(nbits))
  /\ UNCHANGED <<nbits, rp, ran_nbits, ranlen, fromrand, garbage, siz>>

\* Entry of gmp_rrandomb: the top bit position and limb.
Enter ==
  /\ pc = "start" /\ nbits # 0
  /\ bit_pos' = (nbits - 1) % BITS
  /\ ri' = (nbits - 1) \div BITS
  /\ acc' = 0
  /\ pc' = "loop"
  /\ alloc' = MpzRealloc(alloc, NLimbs(nbits))
  /\ UNCHANGED <<nbits, rp, ran_nbits, ranlen, fromrand, garbage, siz>>

(***************************************************************************)
(* One round of while (ri >= 0): the refill test, the block, and the      *)
(* shift of ran (RanStep), with one of the four ways through the round.   *)
(***************************************************************************)
Refill == ran_nbits < BlockBits

\* The bits ran has at line 94, and the block values they allow.
RanLenNow == IF Refill THEN RANDCALL ELSE ranlen
BlockValues == 0 .. 2^(IF RanLenNow < BlockBits THEN RanLenNow ELSE BlockBits) - 1

\* The updates of lines 87 - 92 and 122 - 123 common to every round.
RanStep ==
  /\ ran_nbits' = (IF Refill THEN RANDCALL ELSE ran_nbits) - BlockBits
  /\ ranlen' = IF RanLenNow < BlockBits THEN 0 ELSE RanLenNow - BlockBits
  /\ fromrand' = (Refill \/ fromrand)
  /\ garbage' = (garbage \/ ~(Refill \/ fromrand))
  /\ UNCHANGED <<nbits, siz, alloc>>

\* while (ri >= 0), and the block cut from ran: (ran & 1) != 0 and
\* nb = (ran >> 1) % (1 << LOGBITS_PER_BLOCK) + 1 (line 94).
InRound == pc = "loop" /\ ri >= 0

One(blk) == blk % 2 = 1
Nb(blk) == ((blk \div 2) % 2^LOGBITS) + 1

\* Next round, or the return to mpz_rrandomb and MPN_NORMALIZE.
Continue(ri2) == pc' = IF ri2 >= 0 THEN "loop" ELSE "norm"

\* Mutant: a run of ones ending at bit 0 of the limb, nb = bit_pos, is
\* taken as crossing it.
OnesCrossGe(one, nb) ==
  /\ one /\ nb >= bit_pos
  /\ rp' = [rp EXCEPT ![ri] = acc | ((((2 * 2^bit_pos) % Mask) - 1) % Mask)]
  /\ ri' = ri - 1
  /\ bit_pos' = bit_pos + BITS - nb
  /\ acc' = ((Mask - 2) * 2^(bit_pos + BITS - nb)) % Mask
  /\ Continue(ri - 1)

\* A run of ones reaching below bit 0: store the limb with bits bit_pos..0
\* set, and start the next limb with the rest of the run.
OnesCross(one, nb) ==
  /\ one /\ nb > bit_pos
  /\ rp' = [rp EXCEPT ![ri] = acc | ((((2 * 2^bit_pos) % Mask) - 1) % Mask)]
  /\ ri' = ri - 1
  /\ bit_pos' = bit_pos + BITS - nb
  /\ acc' = ((Mask - 2) * 2^(bit_pos + BITS - nb)) % Mask
  /\ Continue(ri - 1)

\* A run of ones within the limb.
OnesWithin(one, nb) ==
  /\ one /\ nb <= bit_pos
  /\ bit_pos' = bit_pos - nb
  /\ acc' = acc | (((((2 * 2^nb) % Mask) - 2) * 2^(bit_pos - nb)) % Mask)
  /\ UNCHANGED <<rp, ri>>
  /\ Continue(ri)

\* A run of zeros reaching below bit 0: store acc, start from 0.
ZerosCross(one, nb) ==
  /\ ~one /\ nb > bit_pos
  /\ rp' = [rp EXCEPT ![ri] = acc]
  /\ ri' = ri - 1
  /\ acc' = 0
  /\ bit_pos' = bit_pos + BITS - nb
  /\ Continue(ri - 1)

ZerosWithin(one, nb) ==
  /\ ~one /\ nb <= bit_pos
  /\ bit_pos' = bit_pos - nb
  /\ UNCHANGED <<rp, ri, acc>>
  /\ Continue(ri)

\* Mutant: SIZ(x) = nl without MPN_NORMALIZE.
NormalizeSkipped ==
  /\ pc = "norm"
  /\ siz' = NLimbs(nbits)
  /\ pc' = "done"
  /\ UNCHANGED <<nbits, rp, ri, bit_pos, acc, ran_nbits, ranlen, fromrand, garbage, alloc>>

\* Back in mpz_rrandomb: MPN_NORMALIZE (xp, nl); SIZ(x) = nl.
NormalizeSize ==
  /\ pc = "norm"
  /\ siz' = Normalize(rp, NLimbs(nbits))
  /\ pc' = "done"
  /\ UNCHANGED <<nbits, rp, ri, bit_pos, acc, ran_nbits, ranlen, fromrand, garbage, alloc>>

Terminated == pc = "done" /\ UNCHANGED vars

Next ==
  \/ ZeroBits \/ Enter
  \/ InRound /\ \E blk \in BlockValues : RanStep /\ OnesCross(One(blk), Nb(blk))
  \/ InRound /\ \E blk \in BlockValues : RanStep /\ OnesWithin(One(blk), Nb(blk))
  \/ InRound /\ \E blk \in BlockValues : RanStep /\ ZerosCross(One(blk), Nb(blk))
  \/ InRound /\ \E blk \in BlockValues : RanStep /\ ZerosWithin(One(blk), Nb(blk))
  \/ NormalizeSize

Spec == Init /\ [][Next \/ Terminated]_vars

(***************************************************************************)
(* Properties.                                                             *)
(***************************************************************************)
TypeOK ==
  /\ rp \in [0 .. NLimbs(nbits) - 1 -> -1 .. Mask - 1]
  /\ pc # "start" /\ nbits # 0 => ri \in -1 .. NLimbs(nbits) - 1
  /\ acc \in 0 .. Mask - 1
  /\ pc \in {"start", "loop", "norm", "done"}
  /\ alloc \in Nat \ {0}

\* At every round bit_pos, the count of the shifts at lines 100, 103 and
\* 108, is a bit of the limb being built: the crossing test nb > bit_pos
\* and the update bit_pos += BITS_PER_MP_LIMB - nb keep it in
\* 0 .. BITS-1 for every run length, so no shift is by a negative count
\* or by the limb width.
BitPosInRange == pc = "loop" => bit_pos \in 0 .. BITS - 1

\* On return every limb of x was stored, the number has at most nbits
\* bits, and SIZ(x) is normalized: the leading limb is nonzero (the file's
\* comment: early versions "produced random numbers with the leading
\* limb == 0").
ResultNormalized ==
  pc = "done" =>
    /\ \A j \in DOMAIN rp : rp[j] >= 0
    /\ LimbsValue(rp, NLimbs(nbits)) < 2^nbits
    /\ siz = 0 \/ rp[siz - 1] # 0
    /\ \A j \in DOMAIN rp : j >= siz => rp[j] = 0

\* Every limb gmp_rrandomb stores, rp[ri] from ri = (nbits - 1) / BITS
\* down, and every limb MPN_NORMALIZE and SIZ (x) = nl then cover, lies in
\* the _mp_alloc limbs of x: the grow test of mpz_rrandomb, on nl rounded
\* up, covers the top index gmp_rrandomb computes rounded down.
StoresWithinAlloc ==
  pc # "start" => /\ NLimbs(nbits) <= alloc
                  /\ pc = "loop" => ri < alloc

\* The file's comment: returned bits are kept in ranm/ran "and a count of
\* how many bits remaining in ran_nbits".  Every block is then made of
\* bits a _gmp_rand call returned.
BlocksFromRand == ~garbage

=============================================================================
