--------------------------- MODULE AddressPoolProofs ---------------------------
(***************************************************************************)
(* Facts about the address pool that hold for every size of the pool and   *)
(* of a word of the bitmap, the code's 65536 offsets in words of 64 bits   *)
(* among them.                                                             *)
(***************************************************************************)
EXTENDS AddressPool, TLAPS, WellFoundedInduction

\* What FiniteSetsExt!Min returns for a set of natural numbers.
LEMMA MinNat ==
    ASSUME NEW S \in SUBSET Nat, S # {}
    PROVE  /\ Min(S) \in S
           /\ \A n \in S : Min(S) <= n
<1> DEFINE less == {pair \in Nat \X Nat : pair[1] < pair[2]}
<1>1. IsWellFoundedOn(less, Nat)
  BY NatLessThanWellFounded DEF OpToRel
<1>2. PICK m \in S : \A n \in S : <<n, m>> \notin less
  <2> HIDE DEF less
  <2> QED
    BY <1>1, WFMin
<1>3. ASSUME NEW n \in S
      PROVE  m <= n
  <2>1. <<n, m>> \in Nat \X Nat /\ <<n, m>> \notin less
    BY <1>2
  <2>2. ~ (n < m)
    BY <2>1
  <2> QED
    BY <2>2
<1> QED
  BY <1>3 DEF Min

\* Offset n is bit n % WordSize of word n \div WordSize, one of the pool's words.
LEMMA PlaceOfOffset ==
    ASSUME NEW n \in Offset
    PROVE  /\ n \div WordSize \in Words
           /\ n % WordSize \in Bits
           /\ n = (n \div WordSize) * WordSize + (n % WordSize)
<1> USE PoolAssumption
<1>1. /\ n \in Nat /\ n <= MaxValue
      /\ n % WordSize \in 0 .. WordSize - 1
      /\ n = WordSize * (n \div WordSize) + (n % WordSize)
  BY DEF Offset
<1>2. n \div WordSize \in Nat
  BY <1>1
<1>3. (MaxValue + 1) = WordSize * ((MaxValue + 1) \div WordSize)
  OBVIOUS
<1>4. (MaxValue + 1) \div WordSize \in Nat
  OBVIOUS
<1>5. ASSUME n \div WordSize >= (MaxValue + 1) \div WordSize
      PROVE  FALSE
  <2>1. WordSize * (n \div WordSize) >= WordSize * ((MaxValue + 1) \div WordSize)
    BY <1>2, <1>4, <1>5
  <2> QED
    BY <2>1, <1>1, <1>3
<1> QED
  BY <1>1, <1>2, <1>4, <1>5 DEF Words, Bits

\* A bit of a word of the pool is an offset of the pool.
LEMMA OffsetOfPlace ==
    ASSUME NEW word \in Words, NEW bit \in Bits
    PROVE  word * WordSize + bit \in Offset
<1> USE PoolAssumption
<1> DEFINE last == (MaxValue + 1) \div WordSize
<1>1. last \in Nat /\ MaxValue + 1 = WordSize * last
  OBVIOUS
<1>2. word \in Nat /\ word + 1 <= last /\ bit \in Nat /\ bit + 1 <= WordSize
  BY <1>1 DEF Words, Bits
<1> HIDE DEF last
<1>3. (word + 1) * WordSize <= last * WordSize
  BY <1>1, <1>2
<1>4. (word + 1) * WordSize = word * WordSize + WordSize
  BY <1>2
<1>5. word * WordSize \in Nat
  BY <1>2
<1> QED
  BY <1>1, <1>2, <1>3, <1>4, <1>5 DEF Offset

\* firstAvailable, which scans a bitmap word by word, returns the least offset that
\* is free, and says that there is none only if there is none: no offset of the
\* pool is lost, at the border of a word or at the end of the pool.
THEOREM FirstAvailableIsLeast ==
    ASSUME NEW seen
    PROVE  LET free == firstAvailable(seen)
           IN  IF free.found
               THEN /\ free.offset \in Offset \ seen
                    /\ \A n \in Offset \ seen : free.offset <= n
               ELSE Offset \subseteq seen
<1> DEFINE notFull == {word \in Words : FreeBits(seen, word) # {}}
           word == Min(notFull)
           bit == Min(FreeBits(seen, word))
<1>1. ASSUME NEW n \in Offset \ seen
      PROVE  /\ n \div WordSize \in notFull
             /\ n % WordSize \in FreeBits(seen, n \div WordSize)
  <2>1. n \in Offset /\ n \notin seen
    BY <1>1
  <2>2. /\ n \div WordSize \in Words
        /\ n % WordSize \in Bits
        /\ (n \div WordSize) * WordSize + (n % WordSize) = n
    BY <2>1, PlaceOfOffset
  <2> QED
    BY <2>1, <2>2 DEF FreeBits
<1>2. CASE notFull = {}
  BY <1>1, <1>2 DEF firstAvailable
<1>3. CASE notFull # {}
  <2>1. notFull \subseteq Nat
    BY PoolAssumption DEF Words
  <2>2. word \in notFull /\ \A w \in notFull : word <= w
    BY <1>3, <2>1, MinNat
  <2>3. FreeBits(seen, word) \subseteq Nat
    BY PoolAssumption DEF FreeBits, Bits
  <2>4. bit \in FreeBits(seen, word) /\ \A b \in FreeBits(seen, word) : bit <= b
    BY <2>2, <2>3, MinNat
  <2>5. firstAvailable(seen) = [offset |-> word * WordSize + bit, found |-> TRUE]
    BY <1>3 DEF firstAvailable
  <2>6. word \in Words /\ bit \in Bits /\ word * WordSize + bit \notin seen
    BY <2>2, <2>4 DEF FreeBits
  <2>7. word * WordSize + bit \in Offset
    BY <2>6, OffsetOfPlace
  <2>8. ASSUME NEW n \in Offset \ seen
        PROVE  word * WordSize + bit <= n
    <3> DEFINE w == n \div WordSize
               b == n % WordSize
    <3>1. w \in notFull /\ b \in FreeBits(seen, w)
      BY <1>1, <2>8
    <3>2. n = w * WordSize + b /\ w \in Words /\ b \in Bits
      BY PlaceOfOffset
    <3>3. word <= w
      BY <2>2, <3>1
    <3>4. CASE word = w
      <4>1. bit <= b
        BY <2>4, <3>1, <3>4
      <4> HIDE DEF word, bit, w, b
      <4>2. word * WordSize \in Nat /\ bit \in Nat /\ b \in Nat
        BY <2>6, <3>2, PoolAssumption DEF Words, Bits
      <4> QED
        BY <3>2, <3>4, <4>1, <4>2
    <3>5. CASE word < w
      <4> HIDE DEF word, bit, w, b
      <4>1. /\ word \in Nat /\ w \in Nat /\ bit \in Nat /\ b \in Nat
            /\ bit < WordSize /\ WordSize \in Nat
        BY <2>6, <3>2, PoolAssumption DEF Words, Bits
      <4>2. (word + 1) * WordSize <= w * WordSize
        BY <4>1, <3>5
      <4>3. (word + 1) * WordSize = word * WordSize + WordSize
        BY <4>1
      <4>4. word * WordSize \in Nat /\ w * WordSize \in Nat
        BY <4>1
      <4> QED
        BY <3>2, <4>1, <4>2, <4>3, <4>4
    <3> QED
      BY <3>3, <3>4, <3>5, <2>6, <3>2, PoolAssumption DEF Words
  <2> QED
    BY <2>5, <2>6, <2>7, <2>8
<1> QED
  BY <1>2, <1>3

\* The text of an allocated address and its offset tell each other apart, with two
\* exceptions: the first offset is read back as the last, and so is an address
\* that was never allocated.  Allocate and SetActiveFirewall take a session's
\* reservation from this number.
THEOREM OffsetsReadBack ==
    /\ \A offset \in Offset \ {0} : OffsetFromIP4(IP4fromOffset(offset)) = offset
    /\ OffsetFromIP4(IP4fromOffset(0)) = MaxValue
    /\ OffsetFromIP4(NoIP) = MaxValue
BY PoolAssumption DEF OffsetFromIP4, IP4fromOffset, Offset, NoIP

=============================================================================
