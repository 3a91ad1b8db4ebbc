-------------------------------- MODULE Prng --------------------------------
(***************************************************************************)
(* The random source of the bus (kernel/virtrtlab_core.c): one xorshift32  *)
(* state, shared by every device, written by the `seed' attribute and      *)
(* advanced by every fault draw, both under virtrtlab_bus_lock.            *)
(*                                                                         *)
(* A u32 is the set of its one bits, so ^ is symmetric difference and a    *)
(* shift moves the bits and loses those that leave the word.               *)
(***************************************************************************)
EXTENDS Integers, FiniteSetsExt

CONSTANTS
    Seeds,    \* the values written to `seed'
    MaxDraws  \* bound: draws since the last seed

Bits == 0..31
Word == SUBSET Bits

ASSUME SeedAssumption == Seeds \subseteq Word
ASSUME DrawAssumption == MaxDraws \in Nat

VARIABLES
    prng,   \* virtrtlab_bus_prng_state
    draws   \* draws since the last seed

prngVars == <<prng, draws>>

\* VIRTRTLAB_DEFAULT_SEED, 1.
DefaultSeed == {0}

ShiftLeft(x, k)  == {b + k : b \in x} \cap Bits
ShiftRight(x, k) == {b - k : b \in x} \cap Bits

\* Mutant: value = value << 13 for value ^= value << 13, and so on.
XorshiftPlain(x) ==
    ShiftLeft(ShiftRight(ShiftLeft(x, 13), 17), 5)

\* The three lines of virtrtlab_bus_next_prng_u32() that advance value.
Xorshift(x) ==
    LET a == SymDiff(x, ShiftLeft(x, 13))
        b == SymDiff(a, ShiftRight(a, 17))
    IN  SymDiff(b, ShiftLeft(b, 5))

PrngInit == prng = DefaultSeed /\ draws = 0

\* virtrtlab_bus_next_prng_u32()
NextPrng ==
    /\ draws < MaxDraws
    /\ prng' = Xorshift(IF prng = {} THEN DefaultSeed ELSE prng)
    /\ draws' = draws + 1

\* seed_store(): zero, like anything kstrtou32() rejects, is -EINVAL.
SeedStore(v) ==
    /\ v # {}
    /\ prng' = v /\ draws' = 0

PrngNext == NextPrng \/ \E v \in Seeds : SeedStore(v)

PrngSpec == PrngInit /\ [][PrngNext]_prngVars

-----------------------------------------------------------------------------

\* virtrtlab_core.h: the state is "never allowed to remain zero".  It never
\* even becomes zero, so the test in virtrtlab_bus_next_prng_u32() is only a
\* second line of defence: xorshift32 maps no other word to zero.
PrngNeverZero == prng \in Word /\ prng # {}

=============================================================================
