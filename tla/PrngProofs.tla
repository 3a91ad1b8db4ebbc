------------------------------ MODULE PrngProofs ------------------------------
(***************************************************************************)
(* The random state never becomes zero, for every set of seeds and every   *)
(* number of draws.                                                        *)
(*                                                                         *)
(* Each of the three lines of xorshift32 combines a word with a shifted    *)
(* copy of itself.  A shift to the left moves every bit up, so the lowest  *)
(* bit of the word has no partner in the copy and survives; a shift to the *)
(* right moves every bit down, and the highest bit survives.               *)
(***************************************************************************)
EXTENDS Prng, TLAPS, WellFoundedInduction

\* A non-zero word has a lowest bit.
LEMMA LowestBit ==
    ASSUME NEW x \in Word, x # {}
    PROVE  \E m \in x : \A b \in x : m <= b
<1> DEFINE R == OpToRel(<, Nat)
<1>1. x \subseteq Nat
  BY DEF Word, Bits
<1>2. PICK m \in x : \A b \in x : ~(<<b, m>> \in R)
  <2>1. IsWellFoundedOn(R, Nat)
    BY NatLessThanWellFounded
  <2> HIDE DEF R
  <2> QED  BY <1>1, <2>1, WFMin
<1>3. ASSUME NEW b \in x PROVE m <= b
  <2>1. b \in Nat /\ m \in Nat
    BY <1>1
  <2>2. b < m => <<b, m>> \in R
    BY <2>1 DEF OpToRel
  <2>3. ~(b < m)
    <3> HIDE DEF R
    <3> QED  BY <1>2, <2>2
  <2> QED  BY <2>1, <2>3
<1> QED  BY <1>3

\* A non-zero word has a highest bit: the lowest one of the reversed word.
LEMMA HighestBit ==
    ASSUME NEW x \in Word, x # {}
    PROVE  \E m \in x : \A b \in x : b <= m
<1> DEFINE y == {31 - b : b \in x}
<1>1. y \in Word /\ y # {}
  <2>1. \A b \in x : b \in 0..31 /\ 31 - b \in 0..31
    BY DEF Word, Bits
  <2>2. y \subseteq 0..31
    BY <2>1
  <2>3. PICK b \in x : TRUE
    OBVIOUS
  <2>4. 31 - b \in y
    OBVIOUS
  <2> QED  BY <2>2, <2>4 DEF Word, Bits
<1>2. PICK n \in y : \A c \in y : n <= c
  <2> HIDE DEF y
  <2> QED  BY <1>1, LowestBit
<1>3. PICK m \in x : n = 31 - m
  BY <1>2
<1>4. ASSUME NEW b \in x PROVE b <= m
  <2>1. 31 - m <= 31 - b
    BY <1>2, <1>3
  <2> QED  BY <2>1 DEF Word, Bits
<1> QED  BY <1>4

\* value ^= value << k keeps the lowest bit.
LEMMA LeftKeepsBit ==
    ASSUME NEW x \in Word, x # {}, NEW k \in Nat \ {0}
    PROVE  SymDiff(x, ShiftLeft(x, k)) \in Word \ {{}}
<1>1. SymDiff(x, ShiftLeft(x, k)) \in Word
  BY DEF SymDiff, ShiftLeft, Word
<1>2. PICK m \in x : \A b \in x : m <= b
  BY LowestBit
<1>3. m \notin ShiftLeft(x, k)
  <2> SUFFICES ASSUME NEW b \in x, m = b + k PROVE FALSE
    BY DEF ShiftLeft
  <2>1. b \in Nat /\ m \in Nat /\ m <= b
    BY <1>2 DEF Word, Bits
  <2> QED  BY <2>1
<1> QED  BY <1>1, <1>3 DEF SymDiff

\* value ^= value >> k keeps the highest bit.
LEMMA RightKeepsBit ==
    ASSUME NEW x \in Word, x # {}, NEW k \in Nat \ {0}
    PROVE  SymDiff(x, ShiftRight(x, k)) \in Word \ {{}}
<1>1. SymDiff(x, ShiftRight(x, k)) \in Word
  BY DEF SymDiff, ShiftRight, Word
<1>2. PICK m \in x : \A b \in x : b <= m
  BY HighestBit
<1>3. m \notin ShiftRight(x, k)
  <2> SUFFICES ASSUME NEW b \in x, m = b - k PROVE FALSE
    BY DEF ShiftRight
  <2>1. b \in Nat /\ m \in Nat /\ b <= m
    BY <1>2 DEF Word, Bits
  <2> QED  BY <2>1
<1> QED  BY <1>1, <1>3 DEF SymDiff

\* One call of virtrtlab_bus_next_prng_u32() maps no non-zero word to zero.
THEOREM XorshiftNonZero ==
    ASSUME NEW x \in Word, x # {}
    PROVE  Xorshift(x) \in Word \ {{}}
<1> DEFINE a == SymDiff(x, ShiftLeft(x, 13))
           b == SymDiff(a, ShiftRight(a, 17))
<1>1. a \in Word \ {{}}
  BY LeftKeepsBit
<1>2. b \in Word \ {{}}
  <2> HIDE DEF a
  <2> QED  BY <1>1, RightKeepsBit
<1>3. SymDiff(b, ShiftLeft(b, 5)) \in Word \ {{}}
  <2> HIDE DEF b
  <2> QED  BY <1>2, LeftKeepsBit
<1> QED  BY <1>3 DEF Xorshift

\* virtrtlab_core.h, "never allowed to remain zero": whatever seeds are written
\* and however many draws are made, the state of the generator is never zero.
THEOREM PrngSafe == PrngSpec => []PrngNeverZero
<1>1. PrngInit => PrngNeverZero
  BY DEF PrngInit, PrngNeverZero, DefaultSeed, Word, Bits
<1>2. PrngNeverZero /\ [PrngNext]_prngVars => PrngNeverZero'
  <2> SUFFICES ASSUME PrngNeverZero, [PrngNext]_prngVars PROVE PrngNeverZero'
    OBVIOUS
  <2>1. CASE NextPrng
    <3>1. prng' = Xorshift(prng)
      BY <2>1 DEF NextPrng, PrngNeverZero
    <3>2. Xorshift(prng) \in Word \ {{}}
      BY XorshiftNonZero DEF PrngNeverZero
    <3> QED  BY <3>1, <3>2 DEF PrngNeverZero
  <2>2. CASE \E v \in Seeds : SeedStore(v)
    BY <2>2, SeedAssumption DEF SeedStore, PrngNeverZero
  <2>3. CASE UNCHANGED prngVars
    BY <2>3 DEF prngVars, PrngNeverZero
  <2> QED  BY <2>1, <2>2, <2>3 DEF PrngNext
<1> QED  BY <1>1, <1>2, PTL DEF PrngSpec

=============================================================================
