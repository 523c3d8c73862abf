----------------------------- MODULE MCRrandomb -----------------------------
(***************************************************************************)
(* Rrandomb at a reduced scale: 6-bit limbs, runs of 1 to 4 bits           *)
(* (LOGBITS_PER_BLOCK = 2), 6 bits per _gmp_rand call, so that a call     *)
(* feeds two blocks and the refill test fires with bits left over, as     *)
(* with 32 bits and blocks of 5.  nbits ranges over one to three limbs    *)
(* and their boundaries.  ran_nbits starts below the refill threshold, at *)
(* it, and far above it.  x has one limb allocated, or three.              *)
(***************************************************************************)
EXTENDS Rrandomb

MCNBits == 0 .. 13

\* x fresh from mpz_init (one limb), or already grown to three.
MCAllocInit == {1, 3}

MCUninitNbits == {-7, 0, 2, 3, 1000}

=============================================================================
