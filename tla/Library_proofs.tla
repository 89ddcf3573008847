--------------------------- MODULE Library_proofs ----------------------------
(***************************************************************************)
(* The parts of Library: a bit field holds what was set and finds its      *)
(* first zero, the formulas of the clock agree with a calendar that is     *)
(* turned day by day, a digest is the one of the whole message however it  *)
(* is cut, and with GCM the receiver gets the text and the tag of the      *)
(* sender, from counter blocks never used twice; what the encoders write,  *)
(* the readers get back and the walk follows, whole or cut at any byte;    *)
(* the cursors of an array and the bytes it touches, for any width of the  *)
(* indices, any buffer and any lengths.                                    *)
(***************************************************************************)
EXTENDS Bitfield, GcmStream, Clock, HashStream, Codec, CsmArray, Integers, Sequences,
        FiniteSets, FiniteSetTheorems, SequenceTheorems, WellFoundedInduction, TLAPS

-----------------------------------------------------------------------------
(* The least element of a set of numbers                                    *)

\* Of the intervals from 0 to the elements of a set, one is least.
LEMMA Least ==
  ASSUME NEW S \in SUBSET Nat, S # {}
  PROVE  \E m \in S : \A k \in S : m <= k
<1>. DEFINE Below == {0..x : x \in S}
<1>1. Below \subseteq FiniteSubsetsOf(Nat)
  <2>1. ASSUME NEW x \in S
        PROVE  0..x \in SUBSET Nat /\ IsFiniteSet(0..x)
    <3>1. x \in Int /\ 0 \in Int
      OBVIOUS
    <3>. QED  BY <3>1, FS_Interval
  <2>. QED  BY <2>1 DEF FiniteSubsetsOf
<1>2. Below # {}
  OBVIOUS
<1>3. PICK B \in Below : \A C \in Below : << C, B >> \notin StrictSubsetOrdering(Nat)
  BY <1>1, <1>2, FS_StrictSubsetOrderingWellFounded, WFMin
<1>4. PICK m \in S : B = 0..m
  OBVIOUS
<1>5. ASSUME NEW k \in S, k < m
      PROVE  FALSE
  <2>1. 0..k \in Below /\ 0..k \subseteq 0..m /\ 0..k # 0..m
    BY <1>5
  <2>2. << 0..k, B >> \in StrictSubsetOrdering(Nat)
    BY <2>1, <1>4 DEF StrictSubsetOrdering
  <2>. QED  BY <1>3, <2>1, <2>2
<1>. QED  BY <1>5

-----------------------------------------------------------------------------
(* The inductive invariant: bytes as many as the field needs, whose bits    *)
(* that are in the field are those that are held                            *)

FieldType(f) ==
    /\ f.max_bits \in Nat \ {0}
    /\ f.bits \in [1..BYTE_ARRAY_SIZE(f.max_bits) -> SUBSET Low8]
    /\ f.held \subseteq 0..f.max_bits - 1
    /\ f = [max_bits |-> f.max_bits, bits |-> f.bits, held |-> f.held]

InField(f) ==
    \A bit \in 0..f.max_bits - 1 : (bit % 8) \in f.bits[bit \div 8 + 1] <=> bit \in f.held

FieldInv == FieldType(bf) /\ InField(bf)

\* Where a bit is: in a byte of the field, and no other bit is there.
LEMMA Place ==
  ASSUME NEW max \in Nat \ {0}, NEW bit \in 0..max - 1
  PROVE  /\ bit \div 8 + 1 \in 1..BYTE_ARRAY_SIZE(max)
         /\ bit % 8 \in Low8
         /\ bit = 8 * (bit \div 8) + (bit % 8)
         /\ \A n \in 0..max - 1 : n % 8 = bit % 8 /\ n \div 8 = bit \div 8 => n = bit
BY DEF BYTE_ARRAY_SIZE, Low8

LEMMA FieldInit == InitField => FieldInv
<1>. SUFFICES ASSUME NEW n \in Fields, NEW level \in {{}, Low8},
                     bf = [max_bits |-> n, bits |-> [i \in 1..BYTE_ARRAY_SIZE(n) |-> level],
                           held |-> IF level = {} THEN {} ELSE 0..n - 1]
              PROVE  FieldInv
  BY DEF InitField
<1>1. n \in Nat \ {0}
  BY FieldsAssumption
<1>2. FieldType(bf)
  BY <1>1 DEF FieldType
<1>3. InField(bf)
  <2>1. SUFFICES ASSUME NEW bit \in 0..n - 1
                 PROVE  (bit % 8) \in bf.bits[bit \div 8 + 1] <=> bit \in bf.held
    BY DEF InField
  <2>2. bf.bits[bit \div 8 + 1] = level /\ bit % 8 \in Low8
    BY <1>1, Place
  <2>3. Low8 # {} /\ (level = {} \/ level = Low8)
    BY DEF Low8
  <2>. QED  BY <2>2, <2>3
<1>. QED  BY <1>2, <1>3 DEF FieldInv

LEMMA FieldNext == FieldInv /\ [NextBit]_bf => FieldInv'
<1>. SUFFICES ASSUME FieldInv, [NextBit]_bf
              PROVE  FieldInv'
  OBVIOUS
<1>. USE DEF FieldInv
<1>. DEFINE max == bf.max_bits
<1>1. ASSUME NEW bit \in Nat, SetBit(bit) \/ ClearBit(bit)
      PROVE  FieldInv'
  <2>. DEFINE new == IF SetBit(bit) THEN bf.bits[bit \div 8 + 1] \cup {bit % 8}
                                    ELSE bf.bits[bit \div 8 + 1] \ {bit % 8}
              held == IF SetBit(bit) THEN bf.held \cup {bit} ELSE bf.held \ {bit}
  <2>1. max \in Nat \ {0} /\ bit \in 0..max - 1
    BY <1>1 DEF FieldType, SetBit, ClearBit
  <2>2. bf' = [max_bits |-> max, bits |-> [bf.bits EXCEPT ![bit \div 8 + 1] = new], held |-> held]
    BY <1>1 DEF FieldType, SetBit, ClearBit
  <2>3. bit \div 8 + 1 \in 1..BYTE_ARRAY_SIZE(max) /\ bit % 8 \in Low8
    BY <2>1, Place
  <2>4. new \in SUBSET Low8 /\ held \subseteq 0..max - 1
    BY <2>1, <2>3 DEF FieldType
  <2>5. FieldType(bf)'
    BY <2>1, <2>2, <2>4 DEF FieldType
  <2>6. ASSUME NEW n \in 0..max - 1
        PROVE  (n % 8) \in bf'.bits[n \div 8 + 1] <=> n \in bf'.held
    <3>1. n \div 8 + 1 \in 1..BYTE_ARRAY_SIZE(max)
      BY <2>1, Place
    <3>2. (n % 8) \in bf.bits[n \div 8 + 1] <=> n \in bf.held
      BY DEF InField
    <3>3. CASE n \div 8 = bit \div 8
      <4>1. n % 8 = bit % 8 <=> n = bit
        BY <2>1, <3>3, Place
      <4>2. bf'.bits[n \div 8 + 1] = new /\ bf'.held = held
        BY <2>2, <3>1, <3>3 DEF FieldType
      <4>. QED  BY <3>2, <3>3, <4>1, <4>2
    <3>4. CASE n \div 8 # bit \div 8
      <4>1. bf'.bits[n \div 8 + 1] = bf.bits[n \div 8 + 1] /\ bf'.held = held /\ n # bit
        BY <2>1, <2>2, <2>3, <3>1, <3>4 DEF FieldType
      <4>. QED  BY <3>2, <4>1
    <3>. QED  BY <3>3, <3>4
  <2>7. InField(bf)'
    BY <2>2, <2>6 DEF InField
  <2>. QED  BY <2>5, <2>7
<1>2. CASE \E bit \in Nat : OutOfField(bit)
  BY <1>2 DEF OutOfField, FieldType, InField
<1>3. CASE UNCHANGED bf
  BY <1>3 DEF FieldType, InField
<1>4. NextBit => \E bit \in Nat : SetBit(bit) \/ ClearBit(bit) \/ OutOfField(bit)
  BY DEF NextBit
<1>. QED  BY <1>1, <1>2, <1>3, <1>4

-----------------------------------------------------------------------------
(* The first zero                                                           *)

\* A field as it is held: either every byte is full, or the search stops at
\* the least bit that is not set, in the field or beyond it.
LEMMA FirstZero ==
  ASSUME NEW f, FieldType(f), InField(f)
  PROVE  bitfield_get_first_zero(f) =
            {n \in 0..f.max_bits - 1 : n \notin f.held /\ 0..n - 1 \subseteq f.held}
<1>. DEFINE max == f.max_bits
            Zeros == {n \in 0..max - 1 : n \notin f.held /\ 0..n - 1 \subseteq f.held}
            Free(i) == f.bits[i] # Low8
            Places == 1..BYTE_ARRAY_SIZE(max)
<1>0. /\ max \in Nat \ {0} /\ DOMAIN f.bits = Places /\ Places \subseteq Nat
      /\ \A i \in Places : f.bits[i] \subseteq Low8
  <2>1. f.bits \in [Places -> SUBSET Low8] /\ max \in Nat \ {0}
    BY DEF FieldType
  <2>. QED  BY <2>1 DEF BYTE_ARRAY_SIZE
<1>1. ASSUME NEW n \in 0..max - 1
      PROVE  /\ n \div 8 + 1 \in Places /\ n % 8 \in Low8
             /\ (n % 8) \in f.bits[n \div 8 + 1] <=> n \in f.held
  BY <1>0, Place DEF InField
<1>2. CASE ~\E i \in Places : Free(i)
  <2>1. \A n \in 0..max - 1 : n \in f.held
    BY <1>1, <1>2
  <2>2. bitfield_get_first_zero(f) = {}
    BY <1>0, <1>2 DEF bitfield_get_first_zero
  <2>. QED  BY <2>1, <2>2
<1>3. CASE \E i \in Places : Free(i)
  <2>. DEFINE i == CHOOSE i \in DOMAIN f.bits : Free(i) /\ \A k \in 1..i - 1 : ~Free(k)
              b == CHOOSE b \in Low8 \ f.bits[i] : \A k \in Low8 \ f.bits[i] : b <= k
              zero == 8 * (i - 1) + b
  <2>1. i \in Places /\ Free(i) /\ \A k \in 1..i - 1 : ~Free(k)
    <3>. HIDE DEF Free
    <3>. DEFINE S == {j \in Places : Free(j)}
    <3>1. PICK j \in S : \A k \in S : j <= k
      <4>. SUFFICES S \in SUBSET Nat /\ S # {}
        BY Least
      <4>. QED  BY <1>0, <1>3
    <3>2. \A k \in 1..j - 1 : k \in Places /\ k < j
      BY <1>0 DEF BYTE_ARRAY_SIZE
    <3>3. \A k \in 1..j - 1 : ~Free(k)
      BY <3>1, <3>2, <1>0
    <3>. QED  BY <1>0, <3>1, <3>3
  <2>. HIDE DEF i
  <2>2. b \in Low8 \ f.bits[i] /\ \A k \in Low8 \ f.bits[i] : b <= k
    <3>1. Low8 \ f.bits[i] \in SUBSET Nat /\ Low8 \ f.bits[i] # {}
      BY <1>0, <2>1 DEF Low8
    <3>. QED  BY <3>1, Least
  <2>. HIDE DEF b
  <2>3. bitfield_get_first_zero(f) = {zero} \cap 0..max - 1
    BY <1>0, <1>3 DEF bitfield_get_first_zero, i, b
  <2>4. zero \in Nat /\ zero \div 8 = i - 1 /\ zero % 8 = b
    BY <1>0, <2>1, <2>2 DEF Low8
  <2>5. ASSUME NEW n \in 0..max - 1, n < zero
        PROVE  n \in f.held
    <3>1. CASE n \div 8 + 1 = i
      <4>1. n % 8 < b
        BY <2>4, <2>5, <3>1, <2>2, <2>1 DEF Low8
      <4>. QED  BY <1>1, <2>2, <3>1, <4>1 DEF Low8
    <3>2. CASE n \div 8 + 1 # i
      <4>1. n \div 8 + 1 \in 1..i - 1
        <5>1. n \in Nat /\ i \in Nat
          BY <1>0, <2>1
        <5>. HIDE DEF zero
        <5>. QED  BY <2>4, <2>5, <3>2, <5>1
      <4>2. f.bits[n \div 8 + 1] = Low8
        BY <2>1, <4>1
      <4>. QED  BY <1>1, <4>2
    <3>. QED  BY <3>1, <3>2
  <2>6. zero \in 0..max - 1 => zero \notin f.held
    BY <1>1, <2>2, <2>4, <2>1
  <2>. HIDE DEF zero
  <2>7. \A n \in Zeros : n = zero
    <3>1. ASSUME NEW n \in Zeros
          PROVE  n = zero
      <4>1. ~(n < zero)
        BY <2>5
      <4>2. ~(zero < n)
        BY <2>4, <2>6, <1>0
      <4>. QED  BY <4>1, <4>2, <2>4, <1>0
    <3>. QED  BY <3>1
  <2>8. zero \in 0..max - 1 => zero \in Zeros
    BY <2>4, <2>5, <2>6, <1>0
  <2>. QED  BY <2>3, <2>7, <2>8
<1>. QED  BY <1>2, <1>3

LEMMA HeldBits == FieldInv => BitsAsHeld
<1>. SUFFICES ASSUME FieldInv
              PROVE  BitsAsHeld
  OBVIOUS
<1>1. \A bit \in 0..8 * Len(bf.bits) : bitfield_is_set(bf, bit) <=> bit \in bf.held
  <2>1. \A bit \in Nat : bit < bf.max_bits <=> bit \in 0..bf.max_bits - 1
    BY DEF FieldInv, FieldType
  <2>2. \A bit \in bf.held : bit \in 0..bf.max_bits - 1
    BY DEF FieldInv, FieldType
  <2>3. 0..8 * Len(bf.bits) \subseteq Nat
    OBVIOUS
  <2>. QED  BY <2>1, <2>2, <2>3 DEF FieldInv, InField, bitfield_is_set
<1>. QED  BY <1>1, FirstZero DEF FieldInv, BitsAsHeld

\* A bit is reported as set exactly when the last call on it set it, and the
\* first zero is the least bit of the field that is not, for fields of any
\* size and whatever the bits beyond the field are.
THEOREM FieldHolds == FieldSpec => []BitsAsHeld
<1>1. FieldSpec => []FieldInv
  BY FieldInit, FieldNext, PTL DEF FieldSpec
<1>. QED  BY <1>1, HeldBits, PTL

-----------------------------------------------------------------------------
(* Arithmetic                                                               *)

LEMMA Division ==
  ASSUME NEW n \in Nat, NEW d \in Nat \ {0}
  PROVE  /\ n \div d \in Nat /\ n % d \in 0..d - 1
         /\ n = d * (n \div d) + (n % d)
OBVIOUS

LEMMA Quotient ==
  ASSUME NEW d \in Nat \ {0}, NEW q \in Int, NEW r \in 0..d - 1, NEW p \in Int, NEW s \in 0..d - 1,
         d * q + r = d * p + s
  PROVE  q = p /\ r = s
<1>1. ASSUME NEW x \in Int, NEW y \in Int, x < y
      PROVE  d * x + d <= d * y
  <2>1. y - x - 1 \in Nat
    BY <1>1
  <2>2. d * (y - x - 1) \in Nat
    BY <2>1
  <2>3. d * (y - x - 1) = d * y - d * x - d
    OBVIOUS
  <2>4. d * x \in Int /\ d * y \in Int
    OBVIOUS
  <2>. QED  BY <2>2, <2>3, <2>4
<1>2. d * q \in Int /\ d * p \in Int
  OBVIOUS
<1>3. ~(q < p) /\ ~(p < q)
  BY <1>1, <1>2
<1>. QED  BY <1>3, <1>2

\* A number that is d times q and a rest.
LEMMA Divided ==
  ASSUME NEW n \in Nat, NEW d \in Nat \ {0}, NEW q \in Int, NEW r \in 0..d - 1, n = d * q + r
  PROVE  n \div d = q /\ n % d = r
BY Division, Quotient

\* Whole blocks in front of k bytes add to their blocks and leave their rest.
AddsTo(n, d, q, k) == n \div d = q + (k \div d) /\ n % d = k % d

LEMMA SumOfBlocks ==
  ASSUME NEW d \in Nat \ {0}, NEW q \in Nat, NEW k \in Nat, NEW n \in Nat, n = d * q + k
  PROVE  AddsTo(n, d, q, k)
<1>. DEFINE e == k \div d
            f == k % d
            x == d * q
            y == d * e
<1>1. e \in Nat /\ f \in 0..d - 1 /\ k = d * e + f
  BY Division
<1>. HIDE DEF e, f
<1>2. k = y + f /\ n = x + k /\ x \in Nat /\ y \in Nat /\ f \in Int
  BY <1>1
<1>3. d * (q + e) = x + y
  BY <1>1
<1>. HIDE DEF x, y
<1>4. n = (x + y) + f
  BY <1>2
<1>5. n = d * (q + e) + f /\ q + e \in Int
  BY <1>1, <1>3, <1>4
<1>6. n \div d = q + e /\ n % d = f
  BY <1>1, <1>5, Divided
<1>. QED  BY <1>6 DEF e, f, AddsTo

\* Blocks of n bytes, and of n bytes after whole blocks.
Blocks(n) == (n + GcmBlock - 1) \div GcmBlock

LEMMA MoreBlocks ==
  ASSUME NEW len \in Nat, NEW n \in Nat, len % GcmBlock = 0
  PROVE  /\ Blocks(n) \in Nat /\ Blocks(len) \in Nat
         /\ Blocks(len + n) = Blocks(len) + Blocks(n)
         /\ n % GcmBlock = 0 => (len + n) % GcmBlock = 0
<1>. DEFINE d == GcmBlock
            q == len \div d
<1>1. d \in Nat \ {0}
  BY GcmAssumption
<1>. HIDE DEF d
<1>2. q \in Nat /\ len = d * q
  BY <1>1, Division DEF d
<1>. HIDE DEF q
<1>3. Blocks(len) = q
  <2>1. len + d - 1 \in Nat /\ len + d - 1 = d * q + (d - 1) /\ d - 1 \in 0..d - 1
    BY <1>1, <1>2
  <2>. QED  BY <2>1, <1>1, <1>2, Divided DEF Blocks, d
<1>4. PICK p \in Nat, r \in 0..d - 1 : p = (n + d - 1) \div d /\ n + d - 1 = d * p + r
  <2>1. n + d - 1 \in Nat
    BY <1>1
  <2>. QED  BY <2>1, <1>1, Division
<1>5. Blocks(n) = p
  BY <1>4 DEF Blocks, d
<1>6. Blocks(len + n) = q + p
  <2>1. d * (q + p) = d * q + d * p
    BY <1>1, <1>2
  <2>2. d * q \in Nat /\ d * p \in Nat
    BY <1>1, <1>2
  <2>3. len + n + d - 1 \in Nat /\ len + n + d - 1 = d * (q + p) + r
    BY <1>1, <1>2, <1>4, <2>1, <2>2
  <2>. QED  BY <2>3, <1>1, <1>2, Divided DEF Blocks, d
<1>7. ASSUME n % GcmBlock = 0
      PROVE  (len + n) % GcmBlock = 0
  <2>. DEFINE k == n \div d
  <2>1. k \in Nat /\ n = d * k
    <3>1. n % d = 0
      BY <1>7 DEF d
    <3>2. k \in Nat /\ n = d * k + (n % d)
      BY <1>1, Division
    <3>3. d * k \in Nat
      BY <1>1, <3>2
    <3>. QED  BY <3>1, <3>2, <3>3
  <2>. HIDE DEF k
  <2>2. d * (q + k) = d * q + d * k /\ d * q \in Nat /\ d * k \in Nat
    BY <1>1, <1>2, <2>1
  <2>3. len + n = d * (q + k) + 0 /\ 0 \in 0..d - 1 /\ len + n \in Nat /\ q + k \in Int
    BY <1>1, <1>2, <2>1, <2>2
  <2>4. (len + n) % d = 0
    BY <2>3, <1>1, Divided
  <2>. QED  BY <2>4 DEF d
<1>. QED  BY <1>2, <1>3, <1>5, <1>6, <1>7

\* Up to the longest message there are fewer blocks than counters but one.
LEMMA FewBlocks ==
  ASSUME NEW len \in Nat, len <= LongestMessage
  PROVE  Blocks(len) \in 0..Counters - 2
<1>. DEFINE d == GcmBlock
            c == Counters - 2
            p == (len + d - 1) \div d
            r == (len + d - 1) % d
<1>1. d \in Nat \ {0} /\ c \in Nat
  BY GcmAssumption
<1>2. len <= c * d
  BY DEF LongestMessage
<1>. HIDE DEF d, c
<1>3. p \in Nat /\ r \in 0..d - 1 /\ len + d - 1 = d * p + r
  <2>1. len + d - 1 \in Nat
    BY <1>1
  <2>. QED  BY <2>1, <1>1, Division
<1>. HIDE DEF p, r
<1>4. ASSUME p > c
      PROVE  FALSE
  <2>1. d * (p - c - 1) \in Nat
    <3>1. p - c - 1 \in Nat
      BY <1>1, <1>3, <1>4
    <3>. QED  BY <3>1, <1>1
  <2>2. d * (p - c - 1) = d * p - c * d - d
    BY <1>1, <1>3
  <2>3. d * p \in Nat /\ c * d \in Nat
    BY <1>1, <1>3
  <2>. QED  BY <1>1, <1>2, <1>3, <2>1, <2>2, <2>3
<1>5. Blocks(len) = p
  BY DEF Blocks, p, d
<1>. QED  BY <1>1, <1>3, <1>4, <1>5 DEF c

-----------------------------------------------------------------------------
(* Counters                                                                 *)

IsCounter(y) == y = [iv |-> y.iv, ctr |-> y.ctr] /\ y.ctr \in 0..Counters - 1

\* The place n steps after c on a circle of m places.
Turned(m, c, n) == (c + n) % m

LEMMA Circle ==
  ASSUME NEW m \in Nat \ {0}, NEW c \in 0..m - 1, NEW j \in Nat, NEW k \in Nat
  PROVE  /\ Turned(m, c, k) \in 0..m - 1 /\ Turned(m, c, 0) = c
         /\ Turned(m, Turned(m, c, j), k) = Turned(m, c, j + k)
         /\ j < m /\ k < m /\ Turned(m, c, j) = Turned(m, c, k) => j = k
<1>. DEFINE After(n) == (c + n) % m
            Rounds(n) == m * ((c + n) \div m)
<1>1. ASSUME NEW n \in Nat
      PROVE  /\ After(n) \in 0..m - 1 /\ Rounds(n) \in Nat
             /\ c + n = Rounds(n) + After(n)
             /\ \E q \in Nat : Rounds(n) = m * q
  <2>1. c + n \in Nat
    OBVIOUS
  <2>2. /\ (c + n) \div m \in Nat /\ (c + n) % m \in 0..m - 1
        /\ c + n = m * ((c + n) \div m) + ((c + n) % m)
    BY <2>1, Division
  <2>3. m * ((c + n) \div m) \in Nat
    BY <2>2
  <2>. QED  BY <2>2, <2>3
<1>2. After(0) = c
  OBVIOUS
<1>3. (After(j) + k) % m = After(j + k)
  <2>. DEFINE a == After(j)
              e == After(j + k)
  <2>1. a \in 0..m - 1 /\ e \in 0..m - 1 /\ j + k \in Nat
    BY <1>1
  <2>2. PICK q \in Nat : c + j = m * q + a /\ m * q \in Nat
    BY <1>1
  <2>3. PICK p \in Nat : c + (j + k) = m * p + e /\ m * p \in Nat
    BY <1>1, <2>1
  <2>. HIDE DEF a, e
  <2>4. m * (p - q) = m * p - m * q /\ p - q \in Int
    OBVIOUS
  <2>5. a + k = (m * p - m * q) + e
    BY <2>1, <2>2, <2>3
  <2>6. a + k \in Nat /\ a + k = m * (p - q) + e
    BY <2>1, <2>4, <2>5
  <2>7. (a + k) % m = e
    BY <2>1, <2>4, <2>6, Divided
  <2>. QED  BY <2>7 DEF a, e
<1>4. ASSUME NEW x \in Nat, NEW y \in Nat, x < m, y < m, After(x) = After(y), x < y
      PROVE  FALSE
  <2>1. PICK q \in Nat : c + x = m * q + After(x) /\ m * q \in Nat
    BY <1>1
  <2>2. PICK p \in Nat : c + y = m * p + After(x) /\ m * p \in Nat
    BY <1>1, <1>4
  <2>3. After(x) \in Int
    BY <1>1
  <2>. HIDE DEF After
  <2>4. m * (p - q) = m * p - m * q /\ p - q \in Int /\ m * 0 = 0
    OBVIOUS
  <2>5. m * p - m * q = y - x
    BY <2>1, <2>2, <2>3
  <2>6. m * (p - q) + 0 = m * 0 + (y - x) /\ 0 \in 0..m - 1 /\ y - x \in 0..m - 1
    BY <1>4, <2>4, <2>5
  <2>7. 0 = y - x
    BY <2>4, <2>6, Quotient
  <2>. QED  BY <1>4, <2>7
<1>5. j < m /\ k < m /\ After(j) = After(k) => j = k
  <2>. HIDE DEF After
  <2>. QED  BY <1>4
<1>6. \A n : Turned(m, c, n) = After(n)
  BY DEF Turned
<1>7. Turned(m, Turned(m, c, j), k) = (After(j) + k) % m
  BY DEF Turned
<1>. HIDE DEF After
<1>. QED  BY <1>1, <1>2, <1>3, <1>5, <1>6, <1>7

LEMMA BumpFacts ==
  ASSUME NEW y, IsCounter(y), NEW j \in Nat, NEW k \in Nat
  PROVE  /\ IsCounter(Bump(y, k)) /\ Bump(y, k).iv = y.iv
         /\ Bump(y, 0) = y
         /\ Bump(Bump(y, j), k) = Bump(y, j + k)
         /\ j < Counters /\ k < Counters /\ Bump(y, j) = Bump(y, k) => j = k
<1>. DEFINE m == Counters
            c == y.ctr
            At(n) == [iv |-> y.iv, ctr |-> n]
<1>1. m \in Nat \ {0} /\ c \in 0..m - 1 /\ y = At(c)
  BY GcmAssumption DEF IsCounter
<1>2. \A n, a : Bump(At(n), a) = At(Turned(m, n, a))
  BY DEF Bump, Turned
<1>3. \A n, a : At(n) = At(a) => n = a
  BY Zenon
<1>4. \A n \in 0..m - 1 : IsCounter(At(n)) /\ At(n).iv = y.iv
  BY DEF IsCounter
<1>. HIDE DEF m, c, At
<1>5. \A n : Bump(y, n) = At(Turned(m, c, n))
  BY <1>1, <1>2
<1>6. m \in Nat \ {0} /\ c \in 0..m - 1
  BY <1>1
<1>7. /\ Turned(m, c, k) \in 0..m - 1 /\ Turned(m, c, 0) = c
      /\ Turned(m, Turned(m, c, j), k) = Turned(m, c, j + k)
      /\ j < m /\ k < m /\ Turned(m, c, j) = Turned(m, c, k) => j = k
  BY <1>6, Circle
<1>8. IsCounter(Bump(y, k)) /\ Bump(y, k).iv = y.iv
  BY <1>4, <1>5, <1>7
<1>9. Bump(y, 0) = y
  BY <1>1, <1>5, <1>7
<1>10. Bump(Bump(y, j), k) = Bump(y, j + k)
  <2>1. Bump(Bump(y, j), k) = At(Turned(m, Turned(m, c, j), k))
    BY <1>2, <1>5
  <2>. QED  BY <1>5, <1>7, <2>1
<1>11. j < m /\ k < m /\ Bump(y, j) = Bump(y, k) => j = k
  <2>1. Bump(y, j) = Bump(y, k) => Turned(m, c, j) = Turned(m, c, k)
    BY <1>3, <1>5
  <2>. QED  BY <1>7, <2>1
<1>. QED  BY <1>8, <1>9, <1>10, <1>11 DEF m

\* The counters up to the k-th after y.
UpTo(y, k) == {Bump(y, j) : j \in 0..k}

\* All of them are different when there are no more than counters.
LEMMA CountUpTo ==
  ASSUME NEW y, IsCounter(y), NEW k \in 0..Counters - 1
  PROVE  Cardinality(UpTo(y, k)) = 1 + k
<1>. DEFINE f == [j \in 0..k |-> Bump(y, j)]
<1>1. f \in Bijection(0..k, UpTo(y, k))
  <2>1. f \in [0..k -> UpTo(y, k)]
    BY DEF UpTo
  <2>2. \A i, j \in 0..k : f[i] = f[j] => i = j
    <3>1. ASSUME NEW i \in 0..k, NEW j \in 0..k, f[i] = f[j]
          PROVE  i = j
      <4>1. Bump(y, i) = Bump(y, j) /\ i \in Nat /\ j \in Nat /\ i < Counters /\ j < Counters
        BY <3>1, GcmAssumption
      <4>. QED  BY <4>1, BumpFacts
    <3>. QED  BY <3>1
  <2>3. \A z \in UpTo(y, k) : \E j \in 0..k : f[j] = z
    BY DEF UpTo
  <2>. QED  BY <2>1, <2>2, <2>3 DEF Bijection, Injection, Surjection, IsInjective
<1>2. IsFiniteSet(0..k) /\ Cardinality(0..k) = k + 1
  <2>1. k \in Nat /\ 0 \in Int
    BY GcmAssumption
  <2>. QED  BY <2>1, FS_Interval
<1>. QED  BY <1>1, <1>2, FS_Bijection DEF ExistsBijection

-----------------------------------------------------------------------------
(* The inductive invariant: a context has used the counters from its first  *)
(* one on, one for each block, and stands at the last while blocks are      *)
(* whole                                                                    *)

Context(ctx, whole) ==
    /\ ctx = [mode |-> ctx.mode, y |-> ctx.y, base |-> ctx.base, len |-> ctx.len,
              add |-> ctx.add, buf |-> ctx.buf, used |-> ctx.used]
    /\ ctx.len \in Nat
    /\ IsCounter(ctx.base)
    /\ ctx.used = UpTo(ctx.base, Blocks(ctx.len))
    /\ whole => ctx.len % GcmBlock = 0 /\ ctx.y = Bump(ctx.base, Blocks(ctx.len))

IsSequence(s) == \E S : s \in Seq(S)

GoodGcm(g) ==
    /\ g = [start |-> g.start, sender |-> g.sender, receiver |-> g.receiver,
            wire |-> g.wire, got |-> g.got, sent |-> g.sent, received |-> g.received]
    /\ Context(g.sender, g.sent) /\ Context(g.receiver, g.received)
    /\ IsSequence(g.wire) /\ Len(g.wire) = g.sender.len
    /\ IsSequence(g.got) /\ Len(g.got) = g.receiver.len
    /\ g.receiver.len <= g.sender.len
    /\ g.sender.len <= LongestMessage

GcmInv == GoodGcm(gcm)

\* The same of a record that is given by its fields.
LEMMA GoodRecord ==
  ASSUME NEW start, NEW s, NEW r, NEW wire, NEW got, NEW sent, NEW received,
         Context(s, sent), Context(r, received),
         IsSequence(wire), Len(wire) = s.len, IsSequence(got), Len(got) = r.len,
         r.len <= s.len, s.len <= LongestMessage
  PROVE  GoodGcm([start |-> start, sender |-> s, receiver |-> r, wire |-> wire, got |-> got,
                  sent |-> sent, received |-> received])
BY DEF GoodGcm

LEMMA StartsInv ==
  ASSUME NEW start \in Starts, NEW mode
  PROVE  Context(mbedtls_gcm_starts(mode, start), TRUE) /\ mbedtls_gcm_starts(mode, start).len = 0
<1>. DEFINE y == [iv |-> start.iv, ctr |-> start.ctr]
            ctx == mbedtls_gcm_starts(mode, start)
<1>1. IsCounter(y)
  BY GcmAssumption DEF IsCounter
<1>2. /\ ctx.y = y /\ ctx.base = y /\ ctx.len = 0 /\ ctx.used = {y}
      /\ ctx = [mode |-> ctx.mode, y |-> ctx.y, base |-> ctx.base, len |-> ctx.len,
                add |-> ctx.add, buf |-> ctx.buf, used |-> ctx.used]
  BY DEF mbedtls_gcm_starts
<1>. HIDE DEF y, ctx
<1>3. Blocks(0) = 0 /\ 0 % GcmBlock = 0
  <2>1. GcmBlock \in Nat \ {0} /\ GcmBlock - 1 \in 0..GcmBlock - 1 /\ 0 + GcmBlock - 1 \in Nat
    BY GcmAssumption
  <2>2. 0 + GcmBlock - 1 = GcmBlock * 0 + (GcmBlock - 1) /\ 0 = GcmBlock * 0 + 0
    BY <2>1
  <2>3. 0 \in 0..GcmBlock - 1
    BY <2>1
  <2>. QED  BY <2>1, <2>2, <2>3, Divided DEF Blocks
<1>4. UpTo(y, 0) = {y} /\ Bump(y, 0) = y
  BY <1>1, BumpFacts DEF UpTo
<1>. QED  BY <1>1, <1>2, <1>3, <1>4 DEF Context, ctx

\* A piece goes on with the counters where the pieces before ended.
LEMMA UpdateInv ==
  ASSUME NEW ctx, Context(ctx, TRUE), NEW bytes, Len(bytes) \in Nat
  PROVE  /\ Context(mbedtls_gcm_update(ctx, bytes), Len(bytes) % GcmBlock = 0)
         /\ mbedtls_gcm_update(ctx, bytes).len = ctx.len + Len(bytes)
<1>. DEFINE new == mbedtls_gcm_update(ctx, bytes)
            n == Len(bytes)
            b == Blocks(ctx.len)
            k == Blocks(n)
<1>1. /\ new.len = ctx.len + n /\ new.base = ctx.base /\ new.y = Bump(ctx.y, k)
      /\ new.used = ctx.used \cup {Bump(ctx.y, j) : j \in 1..k}
      /\ new = [mode |-> new.mode, y |-> new.y, base |-> new.base, len |-> new.len,
                add |-> new.add, buf |-> new.buf, used |-> new.used]
  <2>1. BlocksOf(bytes) = k
    BY DEF BlocksOf, Blocks
  <2>. DEFINE y == Bump(ctx.y, k)
              buf == Absorb(ctx.buf, Hashed(ctx, bytes))
              used == ctx.used \cup {Bump(ctx.y, j) : j \in 1..k}
  <2>2. new = [ctx EXCEPT !.len = ctx.len + n, !.y = y, !.buf = buf, !.used = used]
    BY <2>1 DEF mbedtls_gcm_update
  <2>3. ctx = [mode |-> ctx.mode, y |-> ctx.y, base |-> ctx.base, len |-> ctx.len,
               add |-> ctx.add, buf |-> ctx.buf, used |-> ctx.used]
    BY DEF Context
  <2>. HIDE DEF new, n, y, buf, used
  <2>4. new = [mode |-> ctx.mode, y |-> y, base |-> ctx.base, len |-> ctx.len + n,
               add |-> ctx.add, buf |-> buf, used |-> used]
    BY <2>2, <2>3
  <2>. QED  BY <2>4 DEF y, used
<1>2. /\ b \in Nat /\ k \in Nat /\ Blocks(ctx.len + n) = b + k
      /\ n % GcmBlock = 0 => (ctx.len + n) % GcmBlock = 0
  BY MoreBlocks DEF Context
<1>3. \A j \in Nat : Bump(ctx.y, j) = Bump(ctx.base, b + j)
  BY <1>2, BumpFacts DEF Context
<1>. HIDE DEF new, b, k
<1>4. new.used = UpTo(new.base, b + k)
  <2>1. ctx.used = UpTo(ctx.base, b)
    BY DEF Context, b
  <2>2. ASSUME NEW z \in UpTo(ctx.base, b + k)
        PROVE  z \in ctx.used \cup {Bump(ctx.y, j) : j \in 1..k}
    <3>1. PICK j \in 0..b + k : z = Bump(ctx.base, j)
      BY DEF UpTo
    <3>2. CASE j <= b
      <4>1. j \in 0..b
        BY <1>2, <3>2
      <4>. QED  BY <2>1, <3>1, <4>1 DEF UpTo
    <3>3. CASE j > b
      <4>1. j - b \in 1..k /\ j - b \in Nat /\ b + (j - b) = j
        BY <1>2, <3>3
      <4>2. z = Bump(ctx.y, j - b)
        BY <1>3, <3>1, <4>1
      <4>. QED  BY <4>1, <4>2
    <3>. QED  BY <1>2, <3>2, <3>3
  <2>3. UpTo(ctx.base, b) \subseteq UpTo(ctx.base, b + k)
    <3>1. 0..b \subseteq 0..b + k
      BY <1>2
    <3>. QED  BY <3>1 DEF UpTo
  <2>4. {Bump(ctx.y, j) : j \in 1..k} \subseteq UpTo(ctx.base, b + k)
    <3>1. \A j \in 1..k : j \in Nat /\ b + j \in 0..b + k
      BY <1>2
    <3>. QED  BY <1>3, <3>1 DEF UpTo
  <2>. QED  BY <1>1, <2>1, <2>2, <2>3, <2>4
<1>5. new.len \in Nat /\ IsCounter(new.base)
  BY <1>1 DEF Context
<1>6. new.y = Bump(new.base, b + k)
  BY <1>1, <1>2, <1>3
<1>. QED  BY <1>1, <1>2, <1>4, <1>5, <1>6 DEF Context, new

\* What a piece is turned into is as long as it.
LEMMA CryptedLength ==
  ASSUME NEW ctx, NEW bytes, NEW n \in Nat, DOMAIN bytes = 1..n
  PROVE  IsSequence(Crypted(ctx, bytes)) /\ Len(Crypted(ctx, bytes)) = n
<1>. DEFINE s == Crypted(ctx, bytes)
            S == {s[i] : i \in 1..n}
<1>1. s = [i \in 1..n |-> s[i]]
  BY DEF Crypted
<1>. HIDE DEF s
<1>2. s \in [1..n -> S]
  BY <1>1
<1>. HIDE DEF S
<1>3. s \in Seq(S)
  BY <1>2
<1>4. Len(s) = n
  BY <1>2, <1>3
<1>. QED  BY <1>3, <1>4 DEF IsSequence, s

LEMMA Appended ==
  ASSUME NEW s, NEW t, IsSequence(s), IsSequence(t)
  PROVE  IsSequence(s \o t) /\ Len(s \o t) = Len(s) + Len(t)
<1>1. PICK S, T : s \in Seq(S) /\ t \in Seq(T)
  BY DEF IsSequence
<1>2. s \in Seq(S \cup T) /\ t \in Seq(S \cup T)
  <2>1. S \subseteq S \cup T /\ T \subseteq S \cup T
    OBVIOUS
  <2>. QED  BY <1>1, <2>1, SeqMonotonic
<1>. QED  BY <1>2, ConcatProperties DEF IsSequence

LEMMA Slice ==
  ASSUME NEW s, IsSequence(s), NEW at \in Nat, NEW n \in Nat, at + n <= Len(s)
  PROVE  /\ DOMAIN SubSeq(s, at + 1, at + n) = 1..n
         /\ Len(SubSeq(s, at + 1, at + n)) = n
<1>1. PICK S : s \in Seq(S)
  BY DEF IsSequence
<1>. DEFINE l == at + 1
            r == at + n
<1>2. l \in Int /\ r \in Int /\ l..r \subseteq 1..Len(s) /\ r - l + 1 = n /\ (l <= r \/ n = 0)
  BY <1>1
<1>. HIDE DEF l, r
<1>3. \A i \in l..r : s[i] \in S
  BY <1>1, <1>2, ElementOfSeq
<1>4. SubSeq(s, l, r) \in Seq(S) /\ Len(SubSeq(s, l, r)) = IF l <= r THEN r - l + 1 ELSE 0
  BY <1>2, <1>3, SubSeqProperties
<1>5. Len(SubSeq(s, l, r)) = n
  BY <1>2, <1>4
<1>6. DOMAIN SubSeq(s, l, r) = 1..n
  BY <1>4, <1>5, LenProperties
<1>. QED  BY <1>5, <1>6 DEF l, r

-----------------------------------------------------------------------------
(* Every step keeps it                                                      *)

LEMMA GcmInit == InitGcm => GcmInv
<1>. SUFFICES ASSUME NEW start \in Starts, gcm = StartedGcm(start)
              PROVE  GcmInv
  BY DEF InitGcm
<1>1. /\ gcm.sender = mbedtls_gcm_starts("ENCRYPT", start)
      /\ gcm.receiver = mbedtls_gcm_starts("DECRYPT", start)
      /\ gcm.wire = <<>> /\ gcm.got = <<>> /\ gcm.sent = TRUE /\ gcm.received = TRUE
      /\ gcm = [start |-> gcm.start, sender |-> gcm.sender, receiver |-> gcm.receiver,
                wire |-> gcm.wire, got |-> gcm.got, sent |-> gcm.sent, received |-> gcm.received]
  BY DEF StartedGcm
<1>2. /\ Context(gcm.sender, gcm.sent) /\ gcm.sender.len = 0
      /\ Context(gcm.receiver, gcm.received) /\ gcm.receiver.len = 0
  BY <1>1, StartsInv
<1>3. IsSequence(<<>>) /\ Len(<<>>) = 0
  BY EmptySeq DEF IsSequence
<1>4. 0 <= LongestMessage
  <2>1. Counters - 2 \in Nat /\ GcmBlock \in Nat
    BY GcmAssumption
  <2>2. (Counters - 2) * GcmBlock \in Nat
    BY <2>1
  <2>. QED  BY <2>2 DEF LongestMessage
<1>. QED  BY <1>1, <1>2, <1>3, <1>4 DEF GcmInv, GoodGcm

LEMMA SendInv == GcmInv /\ SendPiece => GcmInv'
<1>. SUFFICES ASSUME GcmInv, NEW n \in GcmPieces, gcm.sent, Fits(gcm.sender, Plain(0, n)),
                     LET piece == Plain(Len(gcm.wire), n)
                     IN  gcm' = [gcm EXCEPT !.sender = mbedtls_gcm_update(@, piece),
                                   !.wire = @ \o Crypted(gcm.sender, piece),
                                   !.sent = n % GcmBlock = 0]
              PROVE  GcmInv'
  BY DEF SendPiece
<1>. DEFINE piece == Plain(Len(gcm.wire), n)
            new == mbedtls_gcm_update(gcm.sender, piece)
            cipher == Crypted(gcm.sender, piece)
            whole == n % GcmBlock = 0
<1>1. n \in Nat
  BY GcmAssumption
<1>2. \A from : DOMAIN Plain(from, n) = 1..n /\ Len(Plain(from, n)) = n
  BY <1>1 DEF Plain
<1>3. gcm' = [start |-> gcm.start, sender |-> new, receiver |-> gcm.receiver,
              wire |-> gcm.wire \o cipher, got |-> gcm.got,
              sent |-> whole, received |-> gcm.received]
  BY DEF GcmInv, GoodGcm
<1>4. DOMAIN piece = 1..n /\ Len(piece) = n
  BY <1>2
<1>. HIDE DEF piece
<1>5. Context(new, whole) /\ new.len = gcm.sender.len + n
  BY <1>1, <1>4, UpdateInv DEF GcmInv, GoodGcm
<1>6. IsSequence(gcm.wire \o cipher) /\ Len(gcm.wire \o cipher) = Len(gcm.wire) + n
  BY <1>1, <1>4, CryptedLength, Appended DEF GcmInv, GoodGcm
<1>7. new.len <= LongestMessage
  BY <1>2, <1>5 DEF Fits
<1>. HIDE DEF new, cipher, whole
<1>8. gcm.receiver.len <= new.len
  BY <1>1, <1>5 DEF GcmInv, GoodGcm, Context
<1>9. /\ Context(gcm.receiver, gcm.received) /\ IsSequence(gcm.got)
      /\ Len(gcm.got) = gcm.receiver.len /\ Len(gcm.wire) = gcm.sender.len
  BY DEF GcmInv, GoodGcm
<1>10. Len(gcm.wire \o cipher) = new.len
  BY <1>5, <1>6, <1>9
<1>11. GoodGcm([start |-> gcm.start, sender |-> new, receiver |-> gcm.receiver,
                wire |-> gcm.wire \o cipher, got |-> gcm.got,
                sent |-> whole, received |-> gcm.received])
  BY <1>5, <1>6, <1>7, <1>8, <1>9, <1>10, GoodRecord, Zenon
<1>. QED  BY <1>3, <1>11 DEF GcmInv

LEMMA ReceiveInv == GcmInv /\ ReceivePiece => GcmInv'
<1>. SUFFICES ASSUME GcmInv, NEW n \in GcmPieces, gcm.received, Len(gcm.got) + n <= Len(gcm.wire),
                     LET piece == SubSeq(gcm.wire, Len(gcm.got) + 1, Len(gcm.got) + n)
                     IN  gcm' = [gcm EXCEPT !.receiver = mbedtls_gcm_update(@, piece),
                                   !.got = @ \o Crypted(gcm.receiver, piece),
                                   !.received = n % GcmBlock = 0]
              PROVE  GcmInv'
  BY DEF ReceivePiece
<1>. DEFINE at == Len(gcm.got)
            piece == SubSeq(gcm.wire, at + 1, at + n)
            new == mbedtls_gcm_update(gcm.receiver, piece)
            plain == Crypted(gcm.receiver, piece)
            whole == n % GcmBlock = 0
<1>1. n \in Nat /\ at \in Nat
  BY GcmAssumption DEF GcmInv, GoodGcm, Context
<1>2. DOMAIN piece = 1..n /\ Len(piece) = n
  BY <1>1, Slice DEF GcmInv, GoodGcm
<1>3. gcm' = [start |-> gcm.start, sender |-> gcm.sender, receiver |-> new,
              wire |-> gcm.wire, got |-> gcm.got \o plain,
              sent |-> gcm.sent, received |-> whole]
  BY DEF GcmInv, GoodGcm
<1>. HIDE DEF piece
<1>4. Context(new, whole) /\ new.len = gcm.receiver.len + n
  BY <1>1, <1>2, UpdateInv DEF GcmInv, GoodGcm
<1>5. IsSequence(gcm.got \o plain) /\ Len(gcm.got \o plain) = at + n
  BY <1>1, <1>2, CryptedLength, Appended DEF GcmInv, GoodGcm
<1>. HIDE DEF new, plain, whole
<1>6. new.len <= gcm.sender.len
  BY <1>1, <1>4 DEF GcmInv, GoodGcm
<1>7. /\ Context(gcm.sender, gcm.sent) /\ IsSequence(gcm.wire)
      /\ Len(gcm.got) = gcm.receiver.len /\ Len(gcm.wire) = gcm.sender.len
      /\ gcm.sender.len <= LongestMessage
  BY DEF GcmInv, GoodGcm
<1>8. Len(gcm.got \o plain) = new.len
  BY <1>4, <1>5, <1>7
<1>9. GoodGcm([start |-> gcm.start, sender |-> gcm.sender, receiver |-> new,
               wire |-> gcm.wire, got |-> gcm.got \o plain,
               sent |-> gcm.sent, received |-> whole])
  BY <1>4, <1>5, <1>6, <1>7, <1>8, GoodRecord, Zenon
<1>. QED  BY <1>3, <1>9 DEF GcmInv

LEMMA GcmNext == GcmInv /\ [NextGcm]_gcm => GcmInv'
<1>1. GcmInv /\ UNCHANGED gcm => GcmInv'
  BY DEF GcmInv, GoodGcm, Context
<1>2. SendTooLong => UNCHANGED gcm
  BY DEF SendTooLong
<1>. QED  BY <1>1, <1>2, SendInv, ReceiveInv DEF NextGcm

LEMMA Fresh ==
  ASSUME NEW ctx, NEW whole, Context(ctx, whole), ctx.len <= LongestMessage
  PROVE  Cardinality(ctx.used) = 1 + ((ctx.len + GcmBlock - 1) \div GcmBlock)
<1>1. Blocks(ctx.len) \in 0..Counters - 1
  <2>1. Blocks(ctx.len) \in 0..Counters - 2
    BY FewBlocks DEF Context
  <2>. QED  BY <2>1, GcmAssumption
<1>2. Cardinality(ctx.used) = 1 + Blocks(ctx.len)
  BY <1>1, CountUpTo DEF Context
<1>. QED  BY <1>2 DEF Blocks

\* No counter block serves two blocks of a message, nor that of the tag, however
\* sender and receiver cut a message of an accepted length.
THEOREM FreshCounters == GcmSpec => []CounterIsFresh
<1>1. GcmSpec => []GcmInv
  BY GcmInit, GcmNext, PTL DEF GcmSpec
<1>2. GcmInv => CounterIsFresh
  <2>. SUFFICES ASSUME GcmInv
                PROVE  CounterIsFresh
    OBVIOUS
  <2>1. gcm.receiver.len <= LongestMessage
    <3>1. LongestMessage \in Int
      BY GcmAssumption DEF LongestMessage
    <3>. QED  BY <3>1 DEF GcmInv, GoodGcm, Context
  <2>2. /\ Context(gcm.sender, gcm.sent) /\ gcm.sender.len <= LongestMessage
        /\ Context(gcm.receiver, gcm.received)
    BY DEF GcmInv, GoodGcm
  <2>3. \A ctx, whole : Context(ctx, whole) /\ ctx.len <= LongestMessage =>
           Cardinality(ctx.used) = 1 + ((ctx.len + GcmBlock - 1) \div GcmBlock)
    BY Fresh
  <2>4. SUFFICES ASSUME NEW ctx \in {gcm.sender, gcm.receiver}
                 PROVE  Cardinality(ctx.used) = 1 + ((ctx.len + GcmBlock - 1) \div GcmBlock)
    BY DEF CounterIsFresh
  <2>5. CASE ctx = gcm.sender
    BY <2>2, <2>3, <2>5
  <2>6. CASE ctx = gcm.receiver
    BY <2>1, <2>2, <2>3, <2>6
  <2>. QED  BY <2>5, <2>6
<1>. QED  BY <1>1, <1>2, PTL

-----------------------------------------------------------------------------
(* The calendar: the days before a year and before a month                  *)

\* A multiple of the number d begins after every d numbers.
LEMMA NextMultiple ==
  ASSUME NEW n \in Nat
  PROVE  /\ (n + 1) \div 4 = n \div 4 + (IF (n + 1) % 4 = 0 THEN 1 ELSE 0)
         /\ (n + 1) \div 100 = n \div 100 + (IF (n + 1) % 100 = 0 THEN 1 ELSE 0)
         /\ (n + 1) \div 400 = n \div 400 + (IF (n + 1) % 400 = 0 THEN 1 ELSE 0)
         /\ (n + 1) % 100 = 0 => (n + 1) % 4 = 0
         /\ (n + 1) % 400 = 0 => (n + 1) % 100 = 0
OBVIOUS

\* The two rules of the leap years are the same.
LEMMA LeapRule ==
  ASSUME NEW y \in Nat
  PROVE  /\ Leap(y) <=> isleap(y)
         /\ isleap(y) \in BOOLEAN
<1>1. y % 100 = 0 => y % 4 = 0
  OBVIOUS
<1>2. y % 400 = 0 => y % 100 = 0
  OBVIOUS
<1>. QED  BY <1>1, <1>2 DEF Leap, isleap

LeapDays(y) == IF isleap(y) THEN 1 ELSE 0

LEMMA YearLength ==
  ASSUME NEW y \in Nat
  PROVE  /\ years_to_days(y) \in Nat
         /\ years_to_days(y + 1) = years_to_days(y) + 365 + LeapDays(y + 1)
<1>1. years_to_days(y) \in Nat
  BY DEF years_to_days
<1>. QED  BY <1>1, NextMultiple DEF years_to_days, LeapDays, isleap

\* The days before a year are those of the years, 365 each, and a day for each leap year.
LEMMA LeapYears ==
  ASSUME NEW y \in Nat
  PROVE  365 * y + Cardinality({k \in 1..y : Leap(k)}) = years_to_days(y)
<1>. DEFINE Leaps(n) == {k \in 1..n : Leap(k)}
            Wrong == {n \in Nat : 365 * n + Cardinality(Leaps(n)) # years_to_days(n)}
<1>1. ASSUME NEW n \in Nat
      PROVE  IsFiniteSet(Leaps(n)) /\ Cardinality(Leaps(n)) \in Nat
  <2>1. IsFiniteSet(1..n)
    BY FS_Interval
  <2>2. Leaps(n) \subseteq 1..n
    OBVIOUS
  <2>. QED  BY <2>1, <2>2, FS_Subset, FS_CardinalityType
<1>2. 0 \notin Wrong
  <2>1. Leaps(0) = {}
    OBVIOUS
  <2>. QED  BY <2>1, FS_EmptySet DEF years_to_days
<1>3. ASSUME NEW n \in Nat, n \notin Wrong
      PROVE  n + 1 \notin Wrong
  <2>1. Leaps(n + 1) = IF Leap(n + 1) THEN Leaps(n) \cup {n + 1} ELSE Leaps(n)
    OBVIOUS
  <2>2. n + 1 \notin Leaps(n)
    OBVIOUS
  <2>3. Cardinality(Leaps(n + 1)) = Cardinality(Leaps(n)) + LeapDays(n + 1)
    <3>. HIDE DEF Leaps
    <3>1. Cardinality(Leaps(n) \cup {n + 1}) = Cardinality(Leaps(n)) + 1
      BY <1>1, <2>2, FS_AddElement, Zenon
    <3>2. n + 1 \in Nat /\ Cardinality(Leaps(n)) \in Nat
      BY <1>1
    <3>. QED  BY <2>1, <3>1, <3>2, LeapRule DEF LeapDays
  <2>4. 365 * n + Cardinality(Leaps(n)) = years_to_days(n)
    BY <1>3
  <2>. QED
    <3>. HIDE DEF Leaps
    <3>1. 365 * (n + 1) + Cardinality(Leaps(n + 1)) = years_to_days(n + 1)
      BY <1>1, <2>3, <2>4, YearLength DEF LeapDays
    <3>. QED  BY <3>1
<1>4. Wrong = {}
  <2>1. SUFFICES ASSUME Wrong # {} PROVE FALSE
    OBVIOUS
  <2>2. PICK n \in Wrong : \A k \in Wrong : n <= k
    <3>. HIDE DEF Leaps
    <3>1. Wrong \in SUBSET Nat
      OBVIOUS
    <3>. QED  BY <2>1, <3>1, Least
  <2>3. n - 1 \in Nat /\ (n - 1) + 1 = n
    <3>1. n \in Nat /\ n # 0
      BY <1>2
    <3>. QED  BY <3>1
  <2>4. n - 1 \notin Wrong
    <3>. HIDE DEF Wrong
    <3>. QED  BY <2>2, <2>3
  <2>. QED
    <3>. HIDE DEF Wrong
    <3>. QED  BY <1>3, <2>2, <2>3, <2>4
<1>. QED  BY <1>4

LEMMA Months ==
  ASSUME NEW m \in 1..12
  PROVE  months_to_days(m) =
            IF m = 1 THEN 0 ELSE IF m = 2 THEN 31 ELSE IF m = 3 THEN 61 ELSE
            IF m = 4 THEN 92 ELSE IF m = 5 THEN 122 ELSE IF m = 6 THEN 153 ELSE
            IF m = 7 THEN 183 ELSE IF m = 8 THEN 214 ELSE IF m = 9 THEN 245 ELSE
            IF m = 10 THEN 275 ELSE IF m = 11 THEN 306 ELSE 336
BY DEF months_to_days

\* Of a month of the year y: its days, and the days of the year before it.
Length(m, leap) == IF m \in {4, 6, 9, 11} THEN 30 ELSE IF m = 2 THEN 28 + leap ELSE 31

Before(m, leap) ==
    IF m = 1 THEN 0 ELSE IF m = 2 THEN 31 ELSE
    leap + (IF m = 3 THEN 59 ELSE IF m = 4 THEN 90 ELSE IF m = 5 THEN 120 ELSE
            IF m = 6 THEN 151 ELSE IF m = 7 THEN 181 ELSE IF m = 8 THEN 212 ELSE
            IF m = 9 THEN 243 ELSE IF m = 10 THEN 273 ELSE IF m = 11 THEN 304 ELSE 334)

LEMMA Lengths12 ==
  ASSUME NEW y \in Nat, NEW m \in 1..12
  PROVE  /\ LastDay(y, m) = Length(m, LeapDays(y))
         /\ days[m] + (IF m = 2 /\ isleap(y) THEN 1 ELSE 0) = Length(m, LeapDays(y))
         /\ days[m] = Length(m, 0)
<1>1. LastDay(y, m) = Length(m, LeapDays(y))
  BY LeapRule DEF LastDay, Length, LeapDays
<1>2. days[m] = Length(m, 0)
  BY DEF days, Length
<1>. QED  BY <1>1, <1>2 DEF Length, LeapDays

\* The number of a day, as its day of the year.
LEMMA Scalar ==
  ASSUME NEW y \in Nat \ {0}, NEW m \in 1..12, NEW d \in Int
  PROVE  ymd_to_scalar(y, m, d) = years_to_days(y - 1) + Before(m, LeapDays(y)) + d
<1>1. years_to_days(y - 1) \in Nat
  BY YearLength
<1>. QED  BY <1>1, Months DEF ymd_to_scalar, Before, LeapDays

-----------------------------------------------------------------------------
(* A number of a day is its date again                                      *)

\* The years before a day, 400 times: 97 years of 400 are leap.
LEMMA YearBounds ==
  ASSUME NEW y \in Nat
  PROVE  /\ 400 * years_to_days(y) <= 146097 * y + 396
         /\ 400 * years_to_days(y) >= 146097 * y - 699
<1>1. /\ 4 * (y \div 4) <= y /\ 4 * (y \div 4) >= y - 3
      /\ 100 * (y \div 100) <= y /\ 100 * (y \div 100) >= y - 99
      /\ 400 * (y \div 400) <= y /\ 400 * (y \div 400) >= y - 399
      /\ y \div 4 \in Nat /\ y \div 100 \in Nat /\ y \div 400 \in Nat
  OBVIOUS
<1>. QED  BY <1>1 DEF years_to_days

\* The number of a day in the year y lies after the days before the year, and in the year.
LEMMA YearOfDay ==
  ASSUME NEW y \in Nat \ {0}, NEW s \in Int,
         years_to_days(y - 1) < s, s <= years_to_days(y)
  PROVE  YearOf(s) = y
<1>. DEFINE n0 == (s * 400) \div 146097
            Found(n) == years_to_days(n) >= s /\ \A k \in n0..n - 1 : years_to_days(k) < s
<1>1. /\ years_to_days(y - 1) \in Nat /\ years_to_days(y) \in Nat
      /\ s \in Nat \ {0}
  BY YearLength
<1>2. n0 \in Nat /\ n0 <= y /\ y <= n0 + 2
  <2>1. /\ 400 * years_to_days(y) <= 146097 * y + 396
        /\ 400 * years_to_days(y - 1) >= 146097 * (y - 1) - 699
    BY YearBounds
  <2>2. s * 400 <= 146097 * y + 396 /\ s * 400 >= 146097 * (y - 1) - 699 + 400
    BY <1>1, <2>1
  <2>3. n0 \in Nat /\ 146097 * n0 <= s * 400 /\ s * 400 < 146097 * (n0 + 1)
    BY <1>1
  <2>. HIDE DEF n0
  <2>. QED  BY <2>2, <2>3
<1>3. ASSUME NEW a \in Nat, NEW b \in Nat, a <= b
      PROVE  years_to_days(a) <= years_to_days(b)
  <2>1. /\ 400 * years_to_days(a) <= 146097 * a + 396
        /\ 400 * years_to_days(b) >= 146097 * b - 699
    BY YearBounds
  <2>0. years_to_days(a) \in Nat /\ years_to_days(b) \in Nat
    BY YearLength
  <2>2. CASE a = b
    BY <2>0, <2>2
  <2>3. CASE a < b
    <3>1. 146097 * a + 396 <= 146097 * b - 699
      BY <2>3
    <3>. QED  BY <2>0, <2>1, <3>1
  <2>. QED  BY <1>3, <2>2, <2>3
<1>4. y \in n0..n0 + 2 /\ Found(y)
  <2>. HIDE DEF n0
  <2>1. ASSUME NEW k \in n0..y - 1
        PROVE  years_to_days(k) < s
    <3>1. k \in Nat /\ y - 1 \in Nat /\ k <= y - 1
      BY <1>2
    <3>2. years_to_days(k) <= years_to_days(y - 1)
      BY <1>3, <3>1
    <3>. QED  BY <1>1, <3>1, <3>2, YearLength
  <2>. QED  BY <1>1, <1>2, <2>1
<1>5. ASSUME NEW n \in n0..n0 + 2, Found(n)
      PROVE  n = y
  <2>. HIDE DEF n0
  <2>0. n \in Nat /\ years_to_days(n) \in Nat
    BY <1>2, YearLength
  <2>1. CASE n > y
    <3>1. y \in n0..n - 1
      BY <1>2, <2>0, <2>1
    <3>. QED  BY <1>1, <1>5, <3>1
  <2>2. CASE n < y
    <3>1. y - 1 \in Nat /\ n <= y - 1
      BY <2>0, <2>2
    <3>2. years_to_days(n) <= years_to_days(y - 1)
      BY <1>3, <2>0, <3>1
    <3>. QED  BY <1>1, <1>5, <2>0, <3>2
  <2>. QED  BY <2>0, <2>1, <2>2
<1>6. (CHOOSE n \in n0..n0 + 2 : Found(n)) = y
  <2>. HIDE DEF n0, Found
  <2>. QED  BY <1>4, <1>5
<1>. QED  BY <1>6 DEF YearOf

\* A day that exists, and its place in the year.
IsDate(y, m, d) == y \in Nat \ {0} /\ m \in 1..12 /\ d \in 1..LastDay(y, m)

IsInMonth(leap, m, d) == leap \in {0, 1} /\ m \in 1..12 /\ d \in 1..Length(m, leap)

LEMMA InYear ==
  ASSUME NEW leap, NEW m, NEW d, IsInMonth(leap, m, d)
  PROVE  Before(m, leap) + d \in 1..365 + leap
BY DEF IsInMonth, Before, Length

LEMMA DayOfYear ==
  ASSUME NEW y, NEW m, NEW d, IsDate(y, m, d)
  PROVE  /\ d \in Int /\ d \in 1..Length(m, LeapDays(y)) /\ LeapDays(y) \in {0, 1}
         /\ Before(m, LeapDays(y)) + d \in 1..365 + LeapDays(y)
         /\ years_to_days(y) = years_to_days(y - 1) + 365 + LeapDays(y)
         /\ years_to_days(y - 1) \in Nat
         /\ ymd_to_scalar(y, m, d) = years_to_days(y - 1) + Before(m, LeapDays(y)) + d
         /\ ymd_to_scalar(y, 1, 1) = years_to_days(y - 1) + 1
<1>1. /\ y \in Nat \ {0} /\ m \in 1..12 /\ d \in 1..LastDay(y, m)
      /\ LastDay(y, m) = Length(m, LeapDays(y))
  BY Lengths12 DEF IsDate
<1>2. LeapDays(y) \in {0, 1} /\ d \in 1..Length(m, LeapDays(y)) /\ d \in Int
  BY <1>1 DEF LeapDays, Length
<1>3. Before(m, LeapDays(y)) + d \in 1..365 + LeapDays(y)
  <2>. DEFINE leap == LeapDays(y)
  <2>1. IsInMonth(leap, m, d)
    BY <1>1, <1>2, Zenon DEF IsInMonth
  <2>. HIDE DEF leap
  <2>2. Before(m, leap) + d \in 1..365 + leap
    BY <2>1, InYear, Zenon
  <2>. QED  BY <2>2 DEF leap
<1>4. /\ years_to_days(y) = years_to_days(y - 1) + 365 + LeapDays(y)
      /\ years_to_days(y - 1) \in Nat
  <2>1. y - 1 \in Nat /\ (y - 1) + 1 = y
    BY <1>1
  <2>. QED  BY <2>1, YearLength
<1>5. Before(1, LeapDays(y)) = 0
  BY DEF Before
<1>. QED  BY <1>1, <1>2, <1>3, <1>4, <1>5, Scalar

\* The month and the day of the month, from the day n of the year yr.
MonthAndDay(yr, n1) ==
    LET n  == IF n1 <= 59 THEN n1
              ELSE n1 + 2 - (IF ~isleap(yr) THEN 0 ELSE IF n1 + 2 > 61 THEN 1 ELSE 2)
        mo == (n * 100 + 3007) \div 3057
    IN  [yr |-> yr, mo |-> mo, day |-> n - months_to_days(mo)]

LEMMA BackInYear ==
  ASSUME NEW y \in Nat \ {0}, NEW m \in 1..12, NEW d \in 1..Length(m, LeapDays(y)),
         ~(m = 2 /\ d = 29)
  PROVE  MonthAndDay(y, Before(m, LeapDays(y)) + d) = [yr |-> y, mo |-> m, day |-> d]
<1>. DEFINE n1 == Before(m, LeapDays(y)) + d
            n  == IF n1 <= 59 THEN n1
                  ELSE n1 + 2 - (IF ~isleap(y) THEN 0 ELSE IF n1 + 2 > 61 THEN 1 ELSE 2)
            mo == (n * 100 + 3007) \div 3057
<1>1. d \in 1..31 /\ (m = 2 => d <= 28) /\ (m \in {4, 6, 9, 11} => d <= 30)
  BY DEF Length, LeapDays
<1>2. n1 \in Int /\ (n1 <= 59 <=> m <= 2) /\ (n1 + 2 > 61 <=> m > 2)
  BY <1>1 DEF Before, LeapDays
<1>3. months_to_days(m) \in Int
      /\ n1 = months_to_days(m) + d - (IF m <= 2 THEN 0 ELSE 2 - LeapDays(y))
  BY <1>1, Months DEF Before, LeapDays
<1>4. n = months_to_days(m) + d
  <2>. HIDE DEF n1
  <2>. QED  BY <1>1, <1>2, <1>3 DEF LeapDays
<1>5. mo = m
  <2>. HIDE DEF n
  <2>. QED  BY <1>1, <1>4, Months
<1>6. n - months_to_days(mo) = d
  <2>. HIDE DEF n, mo
  <2>. QED  BY <1>1, <1>3, <1>4, <1>5
<1>7. MonthAndDay(y, n1) = [yr |-> y, mo |-> mo, day |-> n - months_to_days(mo)]
  BY DEF MonthAndDay
<1>. HIDE DEF n, mo
<1>. QED  BY <1>5, <1>6, <1>7

LEMMA DateOfNumber ==
  ASSUME NEW y, NEW m, NEW d, IsDate(y, m, d), ~(m = 2 /\ d = 29)
  PROVE  scalar_to_ymd(ymd_to_scalar(y, m, d)) = [yr |-> y, mo |-> m, day |-> d]
<1>. DEFINE s  == ymd_to_scalar(y, m, d)
            n1 == Before(m, LeapDays(y)) + d
<1>1. scalar_to_ymd(s) = MonthAndDay(YearOf(s), s - years_to_days(YearOf(s) - 1))
  <2>. HIDE DEF s
  <2>. QED  BY DEF scalar_to_ymd, MonthAndDay
<1>2. y \in Nat \ {0} /\ m \in 1..12
  BY DEF IsDate
<1>3. /\ s = years_to_days(y - 1) + Before(m, LeapDays(y)) + d
      /\ n1 \in 1..365 + LeapDays(y)
      /\ years_to_days(y) = years_to_days(y - 1) + 365 + LeapDays(y)
      /\ years_to_days(y - 1) \in Nat /\ LeapDays(y) \in {0, 1}
      /\ d \in 1..Length(m, LeapDays(y)) /\ d \in Int /\ Before(m, LeapDays(y)) \in Int
  <2>1. Before(m, LeapDays(y)) \in Int
    BY <1>2 DEF Before, LeapDays
  <2>. QED  BY <2>1, DayOfYear
<1>. HIDE DEF s
<1>4. YearOf(s) = y
  <2>1. s \in Int /\ years_to_days(y - 1) < s /\ s <= years_to_days(y)
    BY <1>3
  <2>. QED  BY <1>2, <2>1, YearOfDay
<1>5. s - years_to_days(YearOf(s) - 1) = n1
  BY <1>3, <1>4
<1>6. MonthAndDay(y, n1) = [yr |-> y, mo |-> m, day |-> d]
  BY <1>2, <1>3, BackInYear
<1>. QED  BY <1>1, <1>4, <1>5, <1>6 DEF s

-----------------------------------------------------------------------------
(* The inductive invariant of the calendar                                  *)

LEMMA NextDates ==
  ASSUME NEW y, NEW m, NEW d, IsDate(y, m, d)
  PROVE  /\ d < LastDay(y, m) =>
               /\ IsDate(y, m, d + 1)
               /\ ymd_to_scalar(y, m, d + 1) = ymd_to_scalar(y, m, d) + 1
         /\ d = LastDay(y, m) /\ m < 12 =>
               /\ IsDate(y, m + 1, 1)
               /\ ymd_to_scalar(y, m + 1, 1) = ymd_to_scalar(y, m, d) + 1
         /\ d = 31 /\ m = 12 =>
               /\ IsDate(y + 1, 1, 1)
               /\ ymd_to_scalar(y + 1, 1, 1) = ymd_to_scalar(y, m, d) + 1
               /\ years_to_days(y) = ymd_to_scalar(y, m, d)
<1>1. y \in Nat \ {0} /\ m \in 1..12
  BY DEF IsDate
<1>2. /\ d \in Int /\ d \in 1..Length(m, LeapDays(y)) /\ LeapDays(y) \in {0, 1}
      /\ years_to_days(y) = years_to_days(y - 1) + 365 + LeapDays(y)
      /\ years_to_days(y - 1) \in Nat
      /\ ymd_to_scalar(y, m, d) = years_to_days(y - 1) + Before(m, LeapDays(y)) + d
  BY DayOfYear
<1>3. LastDay(y, m) = Length(m, LeapDays(y))
  BY <1>1, Lengths12
<1>4. Before(m, LeapDays(y)) \in Int /\ Length(m, LeapDays(y)) \in Int
  BY <1>1, <1>2 DEF Before, Length
<1>5. ASSUME d < LastDay(y, m)
      PROVE  /\ IsDate(y, m, d + 1)
             /\ ymd_to_scalar(y, m, d + 1) = ymd_to_scalar(y, m, d) + 1
  <2>1. IsDate(y, m, d + 1)
    BY <1>1, <1>2, <1>3, <1>4, <1>5 DEF IsDate
  <2>2. ymd_to_scalar(y, m, d + 1) = years_to_days(y - 1) + Before(m, LeapDays(y)) + (d + 1)
    <3>1. d + 1 \in Int
      BY <1>2
    <3>. QED  BY <1>1, <3>1, Scalar
  <2>. QED  BY <1>2, <1>4, <2>1, <2>2
<1>6. ASSUME d = LastDay(y, m), m < 12
      PROVE  /\ IsDate(y, m + 1, 1)
             /\ ymd_to_scalar(y, m + 1, 1) = ymd_to_scalar(y, m, d) + 1
  <2>1. m + 1 \in 1..12
    BY <1>1, <1>6
  <2>2. 1 \in 1..LastDay(y, m + 1)
    <3>1. LastDay(y, m + 1) = Length(m + 1, LeapDays(y))
      BY <1>1, <2>1, Lengths12
    <3>. QED  BY <1>2, <2>1, <3>1 DEF Length
  <2>3. ymd_to_scalar(y, m + 1, 1) = years_to_days(y - 1) + Before(m + 1, LeapDays(y)) + 1
    BY <1>1, <2>1, Scalar
  <2>4. Before(m + 1, LeapDays(y)) = Before(m, LeapDays(y)) + Length(m, LeapDays(y))
    BY <1>1, <1>2, <1>6 DEF Before, Length
  <2>5. ymd_to_scalar(y, m + 1, 1) = ymd_to_scalar(y, m, d) + 1
    BY <1>2, <1>3, <1>4, <1>6, <2>3, <2>4
  <2>. QED  BY <1>1, <2>1, <2>2, <2>5 DEF IsDate
<1>7. ASSUME d = 31, m = 12
      PROVE  /\ IsDate(y + 1, 1, 1)
             /\ ymd_to_scalar(y + 1, 1, 1) = ymd_to_scalar(y, m, d) + 1
             /\ years_to_days(y) = ymd_to_scalar(y, m, d)
  <2>1. Before(12, LeapDays(y)) = 334 + LeapDays(y)
    BY <1>2 DEF Before
  <2>2. years_to_days(y) = ymd_to_scalar(y, m, d)
    BY <1>2, <1>7, <2>1
  <2>3. IsDate(y + 1, 1, 1)
    <3>1. LastDay(y + 1, 1) = 31
      BY DEF LastDay
    <3>2. y + 1 \in Nat \ {0} /\ 1 \in 1..31 /\ 1 \in 1..12
      BY <1>1
    <3>. QED  BY <3>1, <3>2 DEF IsDate
  <2>4. ymd_to_scalar(y + 1, 1, 1) = years_to_days((y + 1) - 1) + 1
    BY <2>3, DayOfYear
  <2>5. (y + 1) - 1 = y
    BY <1>1
  <2>. QED  BY <2>2, <2>3, <2>4, <2>5
<1>. QED  BY <1>5, <1>6, <1>7

\* The week of the day n of a year that begins after first days.
WeekOf(n, first) == (n - first + (first % 7) - 1) \div 7 + FirstWeek(first % 7)

LEMMA NextWeek ==
  ASSUME NEW n \in Int, NEW first \in Int
  PROVE  WeekOf(n + 1, first) = IF n % 7 = 0 THEN WeekOf(n, first) + 1 ELSE WeekOf(n, first)
<1>. DEFINE x == n - first + (first % 7) - 1
            w == FirstWeek(first % 7)
<1>1. x \in Int /\ w \in Int
  BY DEF FirstWeek
<1>2. (x + 1) % 7 = n % 7
  OBVIOUS
<1>3. (x + 1) \div 7 = x \div 7 + (IF (x + 1) % 7 = 0 THEN 1 ELSE 0)
  <2>. HIDE DEF x
  <2>. QED  BY <1>1
<1>4. WeekOf(n + 1, first) = (x + 1) \div 7 + w /\ WeekOf(n, first) = x \div 7 + w
  <2>1. (n + 1) - first + (first % 7) - 1 = x + 1
    OBVIOUS
  <2>. QED  BY <2>1 DEF WeekOf
<1>. HIDE DEF x, w
<1>. QED  BY <1>1, <1>2, <1>3, <1>4

Dated(t) ==
    /\ IsDate(t.y, t.m, t.d)
    /\ t.turns \in Nat \ {0} /\ t.y <= 65536 - t.turns

Numbered(t) ==
    /\ t.n = ymd_to_scalar(t.y, t.m, t.d)
    /\ t.dow = (t.n - 1) % 7
    /\ t.yday = t.n - years_to_days(t.y - 1)
    /\ t.week = WeekOf(t.n, years_to_days(t.y - 1))

Timed(t) == t.hour \in 0..23 /\ t.min \in 0..59 /\ t.sec \in 0..59

IsDay(t) ==
    t = [y |-> t.y, m |-> t.m, d |-> t.d, dow |-> t.dow, yday |-> t.yday, n |-> t.n,
         week |-> t.week, hour |-> t.hour, min |-> t.min, sec |-> t.sec, turns |-> t.turns]

ClockInv == IsDay(today) /\ Dated(today) /\ Numbered(today) /\ Timed(today)

LEMMA ClockInit == InitClock => ClockInv
<1>. SUFFICES ASSUME NEW y \in FirstYears, today = NewYear(y)
              PROVE  ClockInv
  BY DEF InitClock
<1>. DEFINE n == 365 * (y - 1) + Cardinality({k \in 1..y - 1 : Leap(k)}) + 1
<1>1. y \in 1..65536 - Turns /\ Turns \in Nat \ {0} /\ y \in Nat \ {0} /\ y - 1 \in Nat
  BY ClockAssumption
<1>2. n = years_to_days(y - 1) + 1
  <2>1. 365 * (y - 1) + Cardinality({k \in 1..y - 1 : Leap(k)}) = years_to_days(y - 1)
    BY <1>1, LeapYears
  <2>. QED  BY <2>1
<1>. HIDE DEF n
<1>3. today = [y |-> y, m |-> 1, d |-> 1, dow |-> (n - 1) % 7, yday |-> 1, n |-> n,
               week |-> FirstWeek((n - 1) % 7), hour |-> 0, min |-> 0, sec |-> 0,
               turns |-> Turns]
  BY DEF NewYear, n
<1>4. years_to_days(y - 1) \in Nat
  BY <1>1, YearLength
<1>5. IsDate(y, 1, 1)
  BY <1>1 DEF IsDate, LastDay
<1>6. ymd_to_scalar(y, 1, 1) = years_to_days(y - 1) + 1
  BY <1>5, DayOfYear
<1>7. WeekOf(n, years_to_days(y - 1)) = FirstWeek((n - 1) % 7)
  <2>. DEFINE first == years_to_days(y - 1)
  <2>1. n - first + (first % 7) - 1 = first % 7 /\ (n - 1) % 7 = first % 7
        /\ (first % 7) \div 7 = 0
    <3>. HIDE DEF first
    <3>1. first \in Nat /\ n = first + 1
      BY <1>2, <1>4 DEF first
    <3>. QED  BY <3>1
  <2>2. FirstWeek(first % 7) \in Int
    BY DEF FirstWeek
  <2>. HIDE DEF first
  <2>3. WeekOf(n, first) = FirstWeek((n - 1) % 7)
    BY <2>1, <2>2 DEF WeekOf
  <2>. QED  BY <2>3 DEF first
<1>8. IsDay(today)
  BY <1>3 DEF IsDay
<1>9. Dated(today)
  BY <1>1, <1>3, <1>5 DEF Dated
<1>10. Numbered(today)
  BY <1>2, <1>3, <1>4, <1>6, <1>7 DEF Numbered
<1>11. Timed(today)
  BY <1>3 DEF Timed
<1>. QED  BY <1>8, <1>9, <1>10, <1>11 DEF ClockInv

\* The day after t, on another date.
Tomorrow(t, y, m, d, yday, week, turns) ==
    [y |-> y, m |-> m, d |-> d, dow |-> (t.dow + 1) % 7, yday |-> yday, n |-> t.n + 1,
     week |-> week, hour |-> (t.hour + 5) % 24, min |-> (t.min + 7) % 60,
     sec |-> (t.sec + 11) % 60, turns |-> turns]

\* The three ways to the next day: in a month, to the next month, and to the next year.
SameMonth(t) ==
    /\ t.d < LastDay(t.y, t.m)
    /\ today' = Tomorrow(t, t.y, t.m, t.d + 1, t.yday + 1,
                         IF (t.dow + 1) % 7 = 0 THEN t.week + 1 ELSE t.week, t.turns)

NextMonth(t) ==
    /\ t.d = LastDay(t.y, t.m) /\ t.m < 12
    /\ today' = Tomorrow(t, t.y, t.m + 1, 1, t.yday + 1,
                         IF (t.dow + 1) % 7 = 0 THEN t.week + 1 ELSE t.week, t.turns)

NextYear(t) ==
    /\ t.d = 31 /\ t.m = 12 /\ t.turns > 1
    /\ today' = Tomorrow(t, t.y + 1, 1, 1, 1, FirstWeek((t.dow + 1) % 7), t.turns - 1)

\* A day on the date of t, and the one that NextDay moves.
OnDate(t, dow, yday, n, week, hour, min, sec) ==
    [y |-> t.y, m |-> t.m, d |-> t.d, dow |-> dow, yday |-> yday, n |-> n, week |-> week,
     hour |-> hour, min |-> min, sec |-> sec, turns |-> t.turns]

MovedTo(t, dow, yday, n, week, hour, min, sec) ==
    [t EXCEPT !.dow = dow, !.n = n, !.yday = yday, !.week = week,
              !.hour = hour, !.min = min, !.sec = sec]

LEMMA MovedIs ==
  ASSUME NEW t, IsDay(t), NEW dow, NEW week, NEW n, NEW yday, NEW hour, NEW min, NEW sec
  PROVE  MovedTo(t, dow, yday, n, week, hour, min, sec)
            = OnDate(t, dow, yday, n, week, hour, min, sec)
<1>. DEFINE R(dw, yd, k, wk, h, mi, s) ==
               [y |-> t.y, m |-> t.m, d |-> t.d, dow |-> dw, yday |-> yd, n |-> k, week |-> wk,
                hour |-> h, min |-> mi, sec |-> s, turns |-> t.turns]
            a1 == [t EXCEPT !.dow = dow]
            a2 == [a1 EXCEPT !.n = n]
            a3 == [a2 EXCEPT !.yday = yday]
            a4 == [a3 EXCEPT !.week = week]
            a5 == [a4 EXCEPT !.hour = hour]
            a6 == [a5 EXCEPT !.min = min]
            a7 == [a6 EXCEPT !.sec = sec]
<1>1. t = R(t.dow, t.yday, t.n, t.week, t.hour, t.min, t.sec)
  BY DEF IsDay
<1>2. a1 = R(dow, t.yday, t.n, t.week, t.hour, t.min, t.sec)
  BY <1>1
<1>. HIDE DEF a1
<1>3. a2 = R(dow, t.yday, n, t.week, t.hour, t.min, t.sec)
  BY <1>2
<1>. HIDE DEF a2
<1>4. a3 = R(dow, yday, n, t.week, t.hour, t.min, t.sec)
  BY <1>3
<1>. HIDE DEF a3
<1>5. a4 = R(dow, yday, n, week, t.hour, t.min, t.sec)
  BY <1>4
<1>. HIDE DEF a4
<1>6. a5 = R(dow, yday, n, week, hour, t.min, t.sec)
  BY <1>5
<1>. HIDE DEF a5
<1>7. a6 = R(dow, yday, n, week, hour, min, t.sec)
  BY <1>6
<1>. HIDE DEF a6
<1>8. a7 = R(dow, yday, n, week, hour, min, sec)
  BY <1>7
<1>9. a7 = MovedTo(t, dow, yday, n, week, hour, min, sec)
  BY Zenon DEF a1, a2, a3, a4, a5, a6, a7, MovedTo
<1>. HIDE DEF a7
<1>. QED  BY <1>8, <1>9 DEF OnDate

\* The same on another date, with the time of t.
AtTime(t, y, m, d, yday, week, turns) ==
    [y |-> y, m |-> m, d |-> d, dow |-> t.dow, yday |-> yday, n |-> t.n, week |-> week,
     hour |-> t.hour, min |-> t.min, sec |-> t.sec, turns |-> turns]

RedatedTo(t, y, m, d, yday, week, turns) ==
    [t EXCEPT !.d = d, !.m = m, !.yday = yday, !.y = y, !.week = week, !.turns = turns]

LEMMA Redated ==
  ASSUME NEW t, IsDay(t), NEW y, NEW m, NEW d, NEW yday, NEW week, NEW turns
  PROVE  RedatedTo(t, y, m, d, yday, week, turns) = AtTime(t, y, m, d, yday, week, turns)
<1>. DEFINE R(yy, mm, dd, yd, wk, tu) ==
               [y |-> yy, m |-> mm, d |-> dd, dow |-> t.dow, yday |-> yd, n |-> t.n, week |-> wk,
                hour |-> t.hour, min |-> t.min, sec |-> t.sec, turns |-> tu]
            a1 == [t EXCEPT !.d = d]
            a2 == [a1 EXCEPT !.m = m]
            a3 == [a2 EXCEPT !.yday = yday]
            a4 == [a3 EXCEPT !.y = y]
            a5 == [a4 EXCEPT !.week = week]
            a6 == [a5 EXCEPT !.turns = turns]
<1>1. t = R(t.y, t.m, t.d, t.yday, t.week, t.turns)
  BY DEF IsDay
<1>2. a1 = R(t.y, t.m, d, t.yday, t.week, t.turns)
  BY <1>1
<1>. HIDE DEF a1
<1>3. a2 = R(t.y, m, d, t.yday, t.week, t.turns)
  BY <1>2
<1>. HIDE DEF a2
<1>4. a3 = R(t.y, m, d, yday, t.week, t.turns)
  BY <1>3
<1>. HIDE DEF a3
<1>5. a4 = R(y, m, d, yday, t.week, t.turns)
  BY <1>4
<1>. HIDE DEF a4
<1>6. a5 = R(y, m, d, yday, week, t.turns)
  BY <1>5
<1>. HIDE DEF a5
<1>7. a6 = R(y, m, d, yday, week, turns)
  BY <1>6
<1>8. a6 = RedatedTo(t, y, m, d, yday, week, turns)
  BY Zenon DEF a1, a2, a3, a4, a5, a6, RedatedTo
<1>. HIDE DEF a6
<1>. QED  BY <1>7, <1>8 DEF AtTime

LEMMA DayStep ==
  ASSUME IsDay(today), NextDay
  PROVE  SameMonth(today) \/ NextMonth(today) \/ NextYear(today)
<1>. DEFINE dow   == (today.dow + 1) % 7
            moved == [today EXCEPT !.dow = dow, !.n = @ + 1, !.yday = @ + 1,
                        !.week = IF dow = 0 THEN @ + 1 ELSE @,
                        !.hour = (@ + 5) % 24, !.min = (@ + 7) % 60, !.sec = (@ + 11) % 60]
<1>1. moved = Tomorrow(today, today.y, today.m, today.d, today.yday + 1,
                       IF dow = 0 THEN today.week + 1 ELSE today.week, today.turns)
  <2>. DEFINE wk == IF dow = 0 THEN today.week + 1 ELSE today.week
              yd == today.yday + 1
              k  == today.n + 1
              h  == (today.hour + 5) % 24
              mi == (today.min + 7) % 60
              s  == (today.sec + 11) % 60
  <2>1. moved = MovedTo(today, dow, yd, k, wk, h, mi, s)
    BY Zenon DEF MovedTo
  <2>2. OnDate(today, dow, yd, k, wk, h, mi, s)
            = Tomorrow(today, today.y, today.m, today.d, yd, wk, today.turns)
    BY Zenon DEF OnDate, Tomorrow
  <2>. HIDE DEF dow, wk, yd, k, h, mi, s, moved
  <2>3. MovedTo(today, dow, yd, k, wk, h, mi, s) = OnDate(today, dow, yd, k, wk, h, mi, s)
    BY MovedIs, Zenon
  <2>4. moved = Tomorrow(today, today.y, today.m, today.d, yd, wk, today.turns)
    BY <2>1, <2>2, <2>3, Zenon
  <2>. QED  BY <2>4 DEF yd, wk
<1>2. CASE today.d < LastDay(today.y, today.m) /\ today' = [moved EXCEPT !.d = @ + 1]
  <2>. HIDE DEF moved
  <2>. QED  BY <1>1, <1>2 DEF Tomorrow, SameMonth
<1>3. CASE today.d = LastDay(today.y, today.m) /\ today.m < 12
             /\ today' = [moved EXCEPT !.d = 1, !.m = @ + 1]
  <2>. HIDE DEF moved
  <2>. QED  BY <1>1, <1>3 DEF Tomorrow, NextMonth
<1>4. CASE today.d = 31 /\ today.m = 12 /\ today.turns > 1
             /\ today' = [moved EXCEPT !.d = 1, !.m = 1, !.yday = 1, !.y = @ + 1,
                            !.week = FirstWeek(dow), !.turns = @ - 1]
  <2>. DEFINE y == today.y + 1
              tu == today.turns - 1
              wk == FirstWeek(dow)
              a == AtTime(moved, y, 1, 1, 1, wk, tu)
  <2>1. today' = RedatedTo(moved, y, 1, 1, 1, wk, tu)
    <3>1. moved.y = today.y /\ moved.turns = today.turns
      <4>. HIDE DEF moved
      <4>. QED  BY <1>1 DEF Tomorrow
    <3>2. today' = [moved EXCEPT !.d = 1, !.m = 1, !.yday = 1, !.y = moved.y + 1,
                      !.week = wk, !.turns = moved.turns - 1]
      BY <1>4, Zenon
    <3>. HIDE DEF moved, wk
    <3>. QED  BY <3>1, <3>2, Zenon DEF RedatedTo
  <2>. HIDE DEF moved
  <2>2. IsDay(moved)
    BY <1>1 DEF IsDay, Tomorrow
  <2>. HIDE DEF y, tu, wk
  <2>3. today' = a
    BY <2>1, <2>2, Redated, Zenon
  <2>4. /\ moved.dow = (today.dow + 1) % 7 /\ moved.n = today.n + 1
        /\ moved.hour = (today.hour + 5) % 24 /\ moved.min = (today.min + 7) % 60
        /\ moved.sec = (today.sec + 11) % 60
    BY <1>1 DEF Tomorrow
  <2>5. a = Tomorrow(today, y, 1, 1, 1, wk, tu)
    BY <2>4, Zenon DEF AtTime, Tomorrow
  <2>6. today' = Tomorrow(today, y, 1, 1, 1, wk, tu)
    BY <2>3, <2>5, Zenon
  <2>. QED  BY <1>4, <2>6, Zenon DEF NextYear, y, tu, wk
<1>. QED  BY <1>2, <1>3, <1>4 DEF NextDay

LEMMA NextTime ==
  ASSUME NEW t, Timed(t)
  PROVE  (t.hour + 5) % 24 \in 0..23 /\ (t.min + 7) % 60 \in 0..59 /\ (t.sec + 11) % 60 \in 0..59
BY DEF Timed

LEMMA ClockNext == ClockInv /\ [NextDay]_today => ClockInv'
<1>. SUFFICES ASSUME ClockInv, [NextDay]_today PROVE ClockInv'
  OBVIOUS
<1>. DEFINE t == today
            first == years_to_days(t.y - 1)
<1>1. IsDay(t) /\ Dated(t) /\ Numbered(t) /\ Timed(t)
  BY DEF ClockInv
<1>2. /\ IsDate(t.y, t.m, t.d) /\ t.turns \in Nat \ {0} /\ t.y <= 65536 - t.turns
      /\ t.y \in Nat \ {0} /\ t.m \in 1..12
  BY <1>1 DEF Dated, IsDate
<1>3. /\ t.n = ymd_to_scalar(t.y, t.m, t.d) /\ t.n \in Int /\ first \in Int /\ t.d \in Int
      /\ t.dow = (t.n - 1) % 7 /\ (t.dow + 1) % 7 = t.n % 7
      /\ t.yday = t.n - first
      /\ t.week = WeekOf(t.n, first)
  <2>1. /\ first \in Int /\ t.d \in Int
        /\ ymd_to_scalar(t.y, t.m, t.d) = first + Before(t.m, LeapDays(t.y)) + t.d
    BY <1>2, DayOfYear
  <2>2. Before(t.m, LeapDays(t.y)) \in Int
    BY <1>2 DEF Before, LeapDays
  <2>3. /\ t.n = ymd_to_scalar(t.y, t.m, t.d) /\ t.dow = (t.n - 1) % 7
        /\ t.yday = t.n - first /\ t.week = WeekOf(t.n, first)
    BY <1>1 DEF Numbered
  <2>4. t.n \in Int
    BY <2>1, <2>2, <2>3
  <2>5. (t.dow + 1) % 7 = t.n % 7
    BY <2>3, <2>4
  <2>. HIDE DEF t, first
  <2>. QED  BY <2>1, <2>3, <2>4, <2>5
<1>4. WeekOf(t.n + 1, first) = IF (t.dow + 1) % 7 = 0 THEN t.week + 1 ELSE t.week
  BY <1>3, NextWeek
<1>5. ((t.n + 1) - 1) % 7 = (t.dow + 1) % 7 /\ (t.n + 1) - first = t.yday + 1
  BY <1>3
<1>6. CASE SameMonth(t)
  <2>1. IsDate(t.y, t.m, t.d + 1) /\ ymd_to_scalar(t.y, t.m, t.d + 1) = t.n + 1
    BY <1>2, <1>3, <1>6, NextDates DEF SameMonth
  <2>2. /\ today'.y = t.y /\ today'.m = t.m /\ today'.d = t.d + 1 /\ today'.n = t.n + 1
        /\ today'.dow = (t.dow + 1) % 7 /\ today'.yday = t.yday + 1 /\ today'.turns = t.turns
        /\ today'.week = IF (t.dow + 1) % 7 = 0 THEN t.week + 1 ELSE t.week
        /\ today'.hour = (t.hour + 5) % 24 /\ today'.min = (t.min + 7) % 60
        /\ today'.sec = (t.sec + 11) % 60
        /\ IsDay(today')
    BY <1>6 DEF SameMonth, Tomorrow, IsDay
  <2>3. Dated(today')
    BY <1>2, <2>1, <2>2 DEF Dated
  <2>4. Numbered(today')
    BY <1>4, <1>5, <2>1, <2>2 DEF Numbered
  <2>5. Timed(today')
    BY <1>1, <2>2, NextTime DEF Timed
  <2>. QED  BY <2>2, <2>3, <2>4, <2>5 DEF ClockInv, IsDay, Dated, Numbered, Timed
<1>7. CASE NextMonth(t)
  <2>1. IsDate(t.y, t.m + 1, 1) /\ ymd_to_scalar(t.y, t.m + 1, 1) = t.n + 1
    BY <1>2, <1>3, <1>7, NextDates DEF NextMonth
  <2>2. /\ today'.y = t.y /\ today'.m = t.m + 1 /\ today'.d = 1 /\ today'.n = t.n + 1
        /\ today'.dow = (t.dow + 1) % 7 /\ today'.yday = t.yday + 1 /\ today'.turns = t.turns
        /\ today'.week = IF (t.dow + 1) % 7 = 0 THEN t.week + 1 ELSE t.week
        /\ today'.hour = (t.hour + 5) % 24 /\ today'.min = (t.min + 7) % 60
        /\ today'.sec = (t.sec + 11) % 60
        /\ IsDay(today')
    BY <1>7 DEF NextMonth, Tomorrow, IsDay
  <2>3. Dated(today')
    BY <1>2, <2>1, <2>2 DEF Dated
  <2>4. Numbered(today')
    BY <1>4, <1>5, <2>1, <2>2 DEF Numbered
  <2>5. Timed(today')
    BY <1>1, <2>2, NextTime DEF Timed
  <2>. QED  BY <2>2, <2>3, <2>4, <2>5 DEF ClockInv, IsDay, Dated, Numbered, Timed
<1>8. CASE NextYear(t)
  <2>0. t.d = 31 /\ t.m = 12 /\ t.turns > 1
    BY <1>8 DEF NextYear
  <2>1. /\ IsDate(t.y + 1, 1, 1) /\ ymd_to_scalar(t.y + 1, 1, 1) = t.n + 1
        /\ years_to_days((t.y + 1) - 1) = t.n
    <3>1. (t.y + 1) - 1 = t.y
      BY <1>2
    <3>. QED  BY <1>2, <1>3, <2>0, <3>1, NextDates
  <2>2. /\ today'.y = t.y + 1 /\ today'.m = 1 /\ today'.d = 1 /\ today'.n = t.n + 1
        /\ today'.dow = (t.dow + 1) % 7 /\ today'.yday = 1 /\ today'.turns = t.turns - 1
        /\ today'.week = FirstWeek((t.dow + 1) % 7)
        /\ today'.hour = (t.hour + 5) % 24 /\ today'.min = (t.min + 7) % 60
        /\ today'.sec = (t.sec + 11) % 60
        /\ IsDay(today')
    BY <1>8 DEF NextYear, Tomorrow, IsDay
  <2>3. Dated(today')
    <3>1. t.turns - 1 \in Nat \ {0} /\ t.y + 1 <= 65536 - (t.turns - 1)
      BY <1>2, <2>0
    <3>. QED  BY <2>1, <2>2, <3>1 DEF Dated
  <2>4. WeekOf(t.n + 1, t.n) = FirstWeek((t.dow + 1) % 7) /\ (t.n + 1) - t.n = 1
    <3>. DEFINE n == t.n
    <3>1. n \in Int /\ (t.dow + 1) % 7 = n % 7
      BY <1>3
    <3>. HIDE DEF n
    <3>2. (n + 1) - n + (n % 7) - 1 = n % 7 /\ (n % 7) \div 7 = 0 /\ FirstWeek(n % 7) \in Int
          /\ (n + 1) - n = 1
      BY <3>1 DEF FirstWeek
    <3>3. WeekOf(n + 1, n) = FirstWeek(n % 7)
      BY <3>2 DEF WeekOf
    <3>. QED  BY <3>1, <3>2, <3>3 DEF n
  <2>5. Numbered(today')
    BY <1>5, <2>1, <2>2, <2>4 DEF Numbered
  <2>6. Timed(today')
    BY <1>1, <2>2, NextTime DEF Timed
  <2>. QED  BY <2>2, <2>3, <2>5, <2>6 DEF ClockInv, IsDay, Dated, Numbered, Timed
<1>9. CASE UNCHANGED today
  BY <1>9 DEF ClockInv, IsDay, Dated, Numbered, Timed
<1>. QED  BY <1>1, <1>6, <1>7, <1>8, <1>9, DayStep

LEMMA ClockHolds == ClockSpec => []ClockInv
<1>. QED  BY ClockInit, ClockNext, PTL DEF ClockSpec

-----------------------------------------------------------------------------
(* The formulas on the day that the calendar shows                          *)

\* What the invariant says of the day, and of the days before its year.
LEMMA Shown ==
  ASSUME ClockInv
  PROVE  /\ IsDate(today.y, today.m, today.d)
         /\ today.y \in Nat \ {0} /\ today.m \in 1..12 /\ today.d \in Int
         /\ today.y <= 65535
         /\ today.n = ymd_to_scalar(today.y, today.m, today.d) /\ today.n \in Int
         /\ today.dow = (today.n - 1) % 7
         /\ today.yday = today.n - years_to_days(today.y - 1)
         /\ today.week = WeekOf(today.n, years_to_days(today.y - 1))
         /\ years_to_days(today.y - 1) \in Int
         /\ ymd_to_scalar(today.y, 1, 1) = years_to_days(today.y - 1) + 1
<1>1. /\ IsDate(today.y, today.m, today.d)
      /\ today.turns \in Nat \ {0} /\ today.y <= 65536 - today.turns
      /\ today.y \in Nat \ {0} /\ today.m \in 1..12
  BY DEF ClockInv, Dated, IsDate
<1>2. today.y <= 65535
  BY <1>1
<1>3. /\ years_to_days(today.y - 1) \in Int /\ today.d \in Int
      /\ ymd_to_scalar(today.y, today.m, today.d)
            = years_to_days(today.y - 1) + Before(today.m, LeapDays(today.y)) + today.d
      /\ ymd_to_scalar(today.y, 1, 1) = years_to_days(today.y - 1) + 1
  BY <1>1, DayOfYear
<1>4. Before(today.m, LeapDays(today.y)) \in Int
  BY <1>1 DEF Before, LeapDays
<1>5. /\ today.n = ymd_to_scalar(today.y, today.m, today.d)
      /\ today.dow = (today.n - 1) % 7
      /\ today.yday = today.n - years_to_days(today.y - 1)
      /\ today.week = WeekOf(today.n, years_to_days(today.y - 1))
  BY DEF ClockInv, Numbered
<1>6. today.n \in Int
  BY <1>3, <1>4, <1>5
<1>. QED  BY <1>1, <1>2, <1>3, <1>5, <1>6

LEMMA ShownWeek ==
  ASSUME ClockInv
  PROVE  /\ clk_dow(today.y, today.m, today.d) = today.dow
         /\ clk_daynum(today.y, today.m, today.d) = today.yday
         /\ clk_weeknum(today.y, today.m, today.d) = today.week
<1>. DEFINE first == years_to_days(today.y - 1)
            n == today.n
<1>1. /\ n \in Int /\ first \in Int
      /\ ymd_to_scalar(today.y, today.m, today.d) = n /\ ymd_to_scalar(today.y, 1, 1) = first + 1
      /\ today.dow = (n - 1) % 7 /\ today.yday = n - first /\ today.week = WeekOf(n, first)
  BY Shown
<1>. HIDE DEF first, n
<1>2. clk_dow(today.y, today.m, today.d) = today.dow
  BY <1>1 DEF clk_dow
<1>3. clk_daynum(today.y, today.m, today.d) = today.yday
  BY <1>1 DEF clk_daynum
<1>4. clk_weeknum(today.y, today.m, today.d) = today.week
  <2>1. (first + 1) - 1 = first
    BY <1>1
  <2>2. clk_weeknum(today.y, today.m, today.d)
           = (n - first + (first % 7) - 1) \div 7 + (IF first % 7 < 4 THEN 1 ELSE 0)
    BY <1>1, <1>3, <2>1 DEF clk_weeknum
  <2>3. (IF first % 7 < 4 THEN 1 ELSE 0) = FirstWeek(first % 7)
    BY <1>1 DEF FirstWeek
  <2>. QED  BY <1>1, <2>2, <2>3 DEF WeekOf
<1>. QED  BY <1>2, <1>3, <1>4

LEMMA ShownValid ==
  ASSUME ClockInv
  PROVE  /\ clk_is_valid_date(today.y, today.m, today.d)
         /\ clk_is_valid_date(today.y, today.m, today.d + 1) <=> today.d < LastDay(today.y, today.m)
<1>1. /\ today.m \in 1..12 /\ today.d \in Int /\ today.d \in 1..LastDay(today.y, today.m)
      /\ LastDay(today.y, today.m) = Length(today.m, LeapDays(today.y))
      /\ LeapDays(today.y) \in {0, 1}
      /\ days[today.m] + (IF today.m = 2 /\ isleap(today.y) THEN 1 ELSE 0)
            = LastDay(today.y, today.m)
  BY Shown, Lengths12 DEF IsDate, LeapDays
<1>2. LastDay(today.y, today.m) \in Int
  BY <1>1 DEF Length
<1>3. ASSUME NEW d \in Int
      PROVE  clk_is_valid_date(today.y, today.m, d) <=> d \in 1..LastDay(today.y, today.m)
  BY <1>1 DEF clk_is_valid_date, clk_is_valid_month
<1>. QED  BY <1>1, <1>2, <1>3

LEMMA ShownLast ==
  ASSUME ClockInv, ~LeapDay, today.d + 7 > LastDay(today.y, today.m)
  PROVE  clk_last_dow(today.y, today.m, today.dow) = today.d
<1>. DEFINE k == days[today.m] - today.d
            last == clk_dow(today.y, today.m, days[today.m])
<1>1. /\ today.m \in 1..12 /\ today.d \in Int /\ today.d \in 1..LastDay(today.y, today.m)
      /\ LastDay(today.y, today.m) = Length(today.m, LeapDays(today.y))
      /\ LeapDays(today.y) \in {0, 1}
      /\ days[today.m] = Length(today.m, 0)
      /\ today.y \in Nat \ {0}
  BY Shown, Lengths12 DEF IsDate, LeapDays
<1>2. days[today.m] \in Int /\ k \in 0..6
  BY <1>1 DEF Length, LeapDay
<1>3. last = ((today.n + k) - 1) % 7
  <2>1. /\ ymd_to_scalar(today.y, today.m, days[today.m])
              = years_to_days(today.y - 1) + Before(today.m, LeapDays(today.y)) + days[today.m]
        /\ ymd_to_scalar(today.y, today.m, today.d)
              = years_to_days(today.y - 1) + Before(today.m, LeapDays(today.y)) + today.d
    BY <1>1, <1>2, Scalar
  <2>2. Before(today.m, LeapDays(today.y)) \in Int
    BY <1>1 DEF Before
  <2>3. ymd_to_scalar(today.y, today.m, days[today.m]) = today.n + k
    BY <1>1, <1>2, <2>1, <2>2, Shown
  <2>. QED  BY <2>3 DEF clk_dow
<1>4. today.n \in Int /\ today.dow = (today.n - 1) % 7
  BY Shown
<1>5. IF today.dow <= last THEN last - today.dow = k ELSE 7 - (today.dow - last) = k
  <2>. HIDE DEF k, last
  <2>. QED  BY <1>2, <1>3, <1>4
<1>6. clk_last_dow(today.y, today.m, today.dow)
         = IF today.dow <= last THEN days[today.m] - (last - today.dow)
                                ELSE days[today.m] - (7 - (today.dow - last))
  BY DEF clk_last_dow
<1>7. clk_last_dow(today.y, today.m, today.dow) = days[today.m] - k
  <2>. HIDE DEF k, last
  <2>. QED  BY <1>5, <1>6
<1>. QED  BY <1>1, <1>2, <1>7

LEMMA InDay ==
  ASSUME NEW t, Timed(t)
  PROVE  SecondOfDay(t) \in Nat /\ SecondOfDay(t) < 86400
<1>1. /\ t.hour \in Nat /\ t.hour <= 23 /\ t.min \in Nat /\ t.min <= 59
      /\ t.sec \in Nat /\ t.sec <= 59
  BY DEF Timed
<1>2. ASSUME NEW h \in Nat, h <= 23, NEW m \in Nat, m <= 59, NEW s \in Nat, s <= 59
      PROVE  3600 * h + 60 * m + s \in Nat /\ 3600 * h + 60 * m + s < 86400
  BY <1>2
<1>. QED  BY <1>1, <1>2 DEF SecondOfDay

LEMMA ShownEpoch ==
  ASSUME ClockInv, ~LeapDay
  PROVE  clk_to_datetime(clk_to_epoch(today.y, today.m, today.d, SecondOfDay(today))) =
            [yr |-> today.y, mo |-> today.m, day |-> today.d, sec |-> SecondOfDay(today),
             yday |-> today.yday - 1, wday |-> today.dow]
<1>. DEFINE sec == SecondOfDay(today)
            epoch == ymd_to_scalar(1970, 1, 1)
            timer == clk_to_epoch(today.y, today.m, today.d, sec)
<1>1. sec \in Nat /\ sec < 86400
  BY InDay DEF ClockInv
<1>2. epoch \in Int
  <2>1. 1 \in 1..LastDay(1970, 1)
    BY DEF LastDay
  <2>2. IsDate(1970, 1, 1)
    BY <2>1 DEF IsDate
  <2>3. epoch = years_to_days(1970 - 1) + 1 /\ years_to_days(1970 - 1) \in Nat
    BY <2>2, DayOfYear
  <2>. QED  BY <2>3
<1>3. timer = (today.n - epoch) * 86400 + sec /\ today.n \in Int
  BY Shown DEF clk_to_epoch
<1>4. timer \div 86400 + epoch = today.n /\ timer % 86400 = sec
  <2>. DEFINE q == today.n - epoch
  <2>1. q \in Int /\ timer = q * 86400 + sec /\ q + epoch = today.n
    BY <1>2, <1>3
  <2>. HIDE DEF timer, epoch, sec, q
  <2>2. timer \div 86400 = q
    BY <1>1, <2>1
  <2>3. timer % 86400 = sec
    BY <1>1, <2>1
  <2>. QED  BY <2>1, <2>2, <2>3
<1>5. scalar_to_ymd(today.n) = [yr |-> today.y, mo |-> today.m, day |-> today.d]
  BY Shown, DateOfNumber DEF LeapDay
<1>6. /\ clk_dow(today.y, today.m, today.d) = today.dow
      /\ ymd_to_scalar(today.y, today.m, today.d) - ymd_to_scalar(today.y, 1, 1) = today.yday - 1
  BY Shown, ShownWeek
<1>. DEFINE date == scalar_to_ymd(today.n)
<1>7. clk_to_datetime(timer)
         = [yr |-> date.yr, mo |-> date.mo, day |-> date.day, sec |-> sec,
            yday |-> ymd_to_scalar(date.yr, date.mo, date.day) - ymd_to_scalar(date.yr, 1, 1),
            wday |-> clk_dow(date.yr, date.mo, date.day)]
  <2>. HIDE DEF timer, sec
  <2>. QED  BY <1>4 DEF clk_to_datetime
<1>8. date.yr = today.y /\ date.mo = today.m /\ date.day = today.d
  BY <1>5
<1>. HIDE DEF date, timer, sec
<1>9. clk_to_datetime(timer)
         = [yr |-> today.y, mo |-> today.m, day |-> today.d, sec |-> sec,
            yday |-> today.yday - 1, wday |-> today.dow]
  BY <1>6, <1>7, <1>8
<1>. QED  BY <1>9 DEF timer, sec

\* On every day of a calendar that begins in any year, the formulas of clock.c agree with it:
\* the number of the day (ymd_to_scalar), clk_dow, clk_daynum, clk_weeknum, the days that
\* clk_is_valid_date takes, and but on leap days clk_last_dow, scalar_to_ymd and Unix time
\* there and back.
THEOREM CalendarRight == ClockSpec => []CalendarAgrees
<1>1. ASSUME ClockInv PROVE CalendarAgrees
  <2>1. ymd_to_scalar(today.y, today.m, today.d) = today.n
    BY <1>1, Shown
  <2>2. ~LeapDay => DateIsKept
    BY <1>1, Shown, DateOfNumber DEF LeapDay, DateIsKept
  <2>. QED  BY <1>1, <2>1, <2>2, ShownWeek, ShownValid, ShownLast, ShownEpoch, Zenon
            DEF CalendarAgrees
<1>. QED  BY <1>1, ClockHolds, PTL

-----------------------------------------------------------------------------
(* Sums of times                                                            *)

LEMMA Carried ==
  ASSUME NEW h \in Int, NEW m \in Int, NEW s \in Int, NEW sh \in Int, NEW sm \in Int,
         NEW ss \in Int, NEW hr \in Int, NEW mr \in Int, NEW sr \in Int,
         NEW hq \in Int, NEW mq \in Int, NEW sq \in Int,
         s + ss = 60 * sq + sr, m + sm + sq = 60 * mq + mr, h + sh + mq = 24 * hq + hr
  PROVE  3600 * hr + 60 * mr + sr + 86400 * hq
            = (3600 * h + 60 * m + s) + (3600 * sh + 60 * sm + ss)
OBVIOUS

\* A carry loses nothing, and leaves n only of a negative number of whole n.
LEMMA CarryKeeps ==
  ASSUME NEW x \in Int, NEW n \in {24, 60}
  PROVE  /\ Carry(x, n).quot \in Int /\ Carry(x, n).rem \in Nat /\ Carry(x, n).rem <= n
         /\ x = n * Carry(x, n).quot + Carry(x, n).rem
         /\ Carry(x, n).rem = n => x < 0 /\ x % n = 0
<1>1. CASE x >= 0
  <2>1. Carry(x, n).quot = x \div n /\ Carry(x, n).rem = x % n
    BY <1>1 DEF Carry
  <2>. QED  BY <1>1, <2>1
<1>2. CASE x < 0
  <2>1. Carry(x, n).quot = -((-x) \div n) - 1 /\ Carry(x, n).rem = n - ((-x) % n)
    BY <1>2 DEF Carry
  <2>2. CASE n = 24
    BY <1>2, <2>1, <2>2
  <2>3. CASE n = 60
    BY <1>2, <2>1, <2>3
  <2>. QED  BY <2>2, <2>3
<1>. QED  BY <1>1, <1>2

\* No second is lost when add_time carries and borrows from second to minute to hour to day,
\* for spans of any size and sign below 2^31; what it gives is a time of the day, but for the
\* 60 or the 24 that a negative sum of whole minutes, hours or days keeps, and the number of
\* the days modulo the values of its word.
THEOREM SumsRight == ClockSpec => []AddTimeAgrees
<1>1. ASSUME ClockInv PROVE AddTimeAgrees
  <2>. SUFFICES ASSUME NEW span \in Spans
                PROVE  /\ SumAgrees(add_time(TimeAt(today.hour), span), span)
                       /\ add_time(TimeAt(24), span) = add_time(TimeAt(0), span)
                       /\ add_time(TimeAt(25), span) = [ret |-> -1]
    BY Zenon DEF AddTimeAgrees
  <2>. DEFINE xs == today.sec + span.sec
              s == Carry(xs, 60)
              xm == today.min + span.min + s.quot
              m == Carry(xm, 60)
              xh == today.hour + span.hour + m.quot
              h == Carry(xh, 24)
              r == add_time(TimeAt(today.hour), span)
  <2>1. /\ today.hour \in Int /\ 0 <= today.hour /\ today.hour < 24
        /\ today.min \in Int /\ 0 <= today.min /\ today.min < 60
        /\ today.sec \in Int /\ 0 <= today.sec /\ today.sec < 60
        /\ span.hour \in Int /\ span.min \in Int /\ span.sec \in Int
    BY <1>1, ClockAssumption DEF ClockInv, Timed
  <2>2. r = [ret |-> 0, hour |-> h.rem, min |-> m.rem, sec |-> s.rem,
             days |-> h.quot % DayValues]
    <3>1. ~OutOfRange(TimeAt(today.hour)) /\ today.hour # 24
      BY <2>1 DEF OutOfRange, TimeAt
    <3>. QED  BY <3>1 DEF add_time, TimeAt
  <2>3. /\ r.ret = 0 /\ r.hour = h.rem /\ r.min = m.rem /\ r.sec = s.rem
        /\ r.days = h.quot % DayValues
    <3>. HIDE DEF r, h, m, s
    <3>. QED  BY <2>2
  <2>. HIDE DEF r
  <2>4. /\ s.quot \in Int /\ s.rem \in Nat /\ s.rem <= 60 /\ xs = 60 * s.quot + s.rem
        /\ s.rem = 60 => xs < 0 /\ xs % 60 = 0
    <3>1. xs \in Int
      BY <2>1
    <3>. HIDE DEF xs
    <3>. QED  BY <3>1, CarryKeeps
  <2>. HIDE DEF s
  <2>5. /\ m.quot \in Int /\ m.rem \in Nat /\ m.rem <= 60 /\ xm = 60 * m.quot + m.rem
        /\ m.rem = 60 => xm < 0 /\ xm % 60 = 0
    <3>1. xm \in Int
      BY <2>1, <2>4
    <3>. HIDE DEF xm
    <3>. QED  BY <3>1, CarryKeeps
  <2>. HIDE DEF m
  <2>6. /\ h.quot \in Int /\ h.rem \in Nat /\ h.rem <= 24 /\ xh = 24 * h.quot + h.rem
        /\ h.rem = 24 => xh < 0 /\ xh % 24 = 0
    <3>1. xh \in Int
      BY <2>1, <2>5
    <3>. HIDE DEF xh
    <3>. QED  BY <3>1, CarryKeeps
  <2>. HIDE DEF h
  <2>. DEFINE over == SecondOfDay(today) + SecondOfDay(span) - SecondOfDay(r)
              sum2 == today.min + span.min + ((xs - r.sec) \div 60)
              sum3 == today.hour + span.hour + ((sum2 - r.min) \div 60)
  <2>7. over = 86400 * h.quot
    <3>. DEFINE hr == h.rem  mr == m.rem  sr == s.rem  hq == h.quot  mq == m.quot  sq == s.quot
    <3>1. /\ hr \in Int /\ mr \in Int /\ sr \in Int /\ hq \in Int /\ mq \in Int /\ sq \in Int
          /\ today.sec + span.sec = 60 * sq + sr
          /\ today.min + span.min + sq = 60 * mq + mr
          /\ today.hour + span.hour + mq = 24 * hq + hr
      BY <2>4, <2>5, <2>6
    <3>. HIDE DEF hr, mr, sr, hq, mq, sq
    <3>2. (3600 * today.hour + 60 * today.min + today.sec)
             + (3600 * span.hour + 60 * span.min + span.sec) - (3600 * hr + 60 * mr + sr)
             = 86400 * hq
      <4>. DEFINE H == today.hour  M == today.min  S == today.sec
                  sH == span.hour  sM == span.min  sS == span.sec
      <4>1. /\ H \in Int /\ M \in Int /\ S \in Int /\ sH \in Int /\ sM \in Int /\ sS \in Int
            /\ S + sS = 60 * sq + sr /\ M + sM + sq = 60 * mq + mr /\ H + sH + mq = 24 * hq + hr
        BY <2>1, <3>1
      <4>. HIDE DEF H, M, S, sH, sM, sS
      <4>2. (3600 * H + 60 * M + S) + (3600 * sH + 60 * sM + sS) - (3600 * hr + 60 * mr + sr)
               = 86400 * hq
        BY <3>1, <4>1
      <4>. QED  BY <4>2 DEF H, M, S, sH, sM, sS
    <3>3. SecondOfDay(r) = 3600 * hr + 60 * mr + sr
      BY <2>3 DEF SecondOfDay, hr, mr, sr
    <3>. QED  BY <3>2, <3>3 DEF SecondOfDay, hq
  <2>8. InRange(r.sec, xs, 60)
    <3>. HIDE DEF xs
    <3>. QED  BY <2>3, <2>4 DEF InRange
  <2>9. sum2 = xm
    <3>1. ASSUME NEW x \in Int, NEW q \in Int, NEW rem \in Int, x = 60 * q + rem
          PROVE  (x - rem) \div 60 = q
      BY <3>1
    <3>2. (xs - r.sec) \div 60 = s.quot
      <4>1. xs \in Int
        BY <2>1
      <4>. HIDE DEF xs
      <4>. QED  BY <2>3, <2>4, <3>1, <4>1
    <3>. QED  BY <3>2
  <2>. HIDE DEF sum2
  <2>10. InRange(r.min, sum2, 60)
    <3>. HIDE DEF xm
    <3>. QED  BY <2>3, <2>5, <2>9 DEF InRange
  <2>11. sum3 = xh
    <3>1. ASSUME NEW x \in Int, NEW q \in Int, NEW rem \in Int, x = 60 * q + rem
          PROVE  (x - rem) \div 60 = q
      BY <3>1
    <3>2. (sum2 - r.min) \div 60 = m.quot
      <4>1. xm \in Int
        BY <2>1, <2>4
      <4>. HIDE DEF xm
      <4>. QED  BY <2>3, <2>5, <2>9, <3>1, <4>1
    <3>. QED  BY <3>2
  <2>. HIDE DEF sum3
  <2>12. InRange(r.hour, sum3, 24)
    <3>. HIDE DEF xh
    <3>. QED  BY <2>3, <2>6, <2>11 DEF InRange
  <2>13. over % 86400 = 0 /\ r.days = (over \div 86400) % DayValues
    <3>1. \A q \in Int : (86400 * q) % 86400 = 0 /\ (86400 * q) \div 86400 = q
      OBVIOUS
    <3>. HIDE DEF over
    <3>. QED  BY <2>3, <2>6, <2>7, <3>1
  <2>. HIDE DEF over
  <2>14. SumAgrees(r, span)
    <3>1. r.ret = 0
      BY <2>3
    <3>. QED  BY <2>8, <2>10, <2>12, <2>13, <3>1, SMT DEF SumAgrees, over, sum2, sum3
  <2>15. add_time(TimeAt(24), span) = add_time(TimeAt(0), span)
    <3>1. /\ TimeAt(24).hour = 24 /\ TimeAt(24).min = today.min /\ TimeAt(24).sec = today.sec
          /\ TimeAt(0).hour = 0 /\ TimeAt(0).min = today.min /\ TimeAt(0).sec = today.sec
      BY DEF TimeAt
    <3>2. ~OutOfRange(TimeAt(24)) /\ ~OutOfRange(TimeAt(0))
      BY <2>1, <3>1 DEF OutOfRange
    <3>. QED  BY <3>1, <3>2 DEF add_time
  <2>16. add_time(TimeAt(25), span) = [ret |-> -1]
    <3>1. OutOfRange(TimeAt(25))
      BY DEF OutOfRange, TimeAt
    <3>. QED  BY <3>1 DEF add_time
  <2>. QED  BY <2>14, <2>15, <2>16 DEF r
<1>. QED  BY <1>1, ClockHolds, PTL

-----------------------------------------------------------------------------
(* Date-time of COSEM                                                       *)

\* A date-time of these fields.
DateTime(yr, mo, dd, dw, h, mi, s, hu, dev, st) ==
    [year |-> yr, month |-> mo, day |-> dd, dow |-> dw, hour |-> h, minute |-> mi,
     second |-> s, hundredths |-> hu, deviation |-> dev, status |-> st]

\* A word that is written as two bytes is read back.
LEMMA WordBack ==
  /\ \A y \in Nat : y <= 65535 => 256 * HighByte(y) + LowByte(y) = y
  /\ \A d \in Int : -32768 <= d /\ d < 32768 => Signed(HighByte(d), LowByte(d)) = d
<1>1. ASSUME NEW y \in Nat, y <= 65535
      PROVE  256 * HighByte(y) + LowByte(y) = y
  BY <1>1 DEF HighByte, LowByte
<1>2. ASSUME NEW d \in Int, -32768 <= d, d < 32768
      PROVE  Signed(HighByte(d), LowByte(d)) = d
  <2>1. d % 65536 = IF d >= 0 THEN d ELSE d + 65536
    BY <1>2
  <2>. DEFINE w == d % 65536
  <2>2. w \in Nat /\ w < 65536
    OBVIOUS
  <2>3. LowByte(d) = w % 256 /\ HighByte(d) = w \div 256
    BY DEF LowByte, HighByte
  <2>. HIDE DEF w
  <2>4. 256 * (w \div 256) + (w % 256) = w
    BY <2>2
  <2>5. Signed(HighByte(d), LowByte(d)) = IF w >= 32768 THEN w - 65536 ELSE w
    BY <2>3, <2>4 DEF Signed
  <2>. QED  BY <1>2, <2>1, <2>5 DEF w
<1>. QED  BY <1>1, <1>2

LEMMA Twelve ==
  ASSUME NEW a1, NEW a2, NEW a3, NEW a4, NEW a5, NEW a6, NEW a7, NEW a8, NEW a9,
         NEW a10, NEW a11, NEW a12, NEW b,
         b = << a1, a2, a3, a4, a5 >> \o << a6, a7, a8, a9 >> \o << a10, a11, a12 >>
  PROVE  /\ b[1] = a1 /\ b[2] = a2 /\ b[3] = a3 /\ b[4] = a4 /\ b[5] = a5 /\ b[6] = a6
         /\ b[7] = a7 /\ b[8] = a8 /\ b[9] = a9 /\ b[10] = a10 /\ b[11] = a11 /\ b[12] = a12
<1>. DEFINE S == {a1, a2, a3, a4, a5, a6, a7, a8, a9, a10, a11, a12}
            s == << a1, a2, a3, a4, a5 >>
            t == << a6, a7, a8, a9 >>
            u == << a10, a11, a12 >>
            st == s \o t
<1>1. /\ s \in Seq(S) /\ Len(s) = 5
      /\ s[1] = a1 /\ s[2] = a2 /\ s[3] = a3 /\ s[4] = a4 /\ s[5] = a5
  OBVIOUS
<1>2. /\ t \in Seq(S) /\ Len(t) = 4
      /\ t[1] = a6 /\ t[2] = a7 /\ t[3] = a8 /\ t[4] = a9
  OBVIOUS
<1>3. /\ u \in Seq(S) /\ Len(u) = 3
      /\ u[1] = a10 /\ u[2] = a11 /\ u[3] = a12
  OBVIOUS
<1>4. b = st \o u
  OBVIOUS
<1>. HIDE DEF S, s, t, u
<1>5. /\ st \in Seq(S) /\ Len(st) = 9
      /\ \A k \in 1..9 : st[k] = IF k <= 5 THEN s[k] ELSE t[k - 5]
  <2>1. /\ st \in Seq(S) /\ Len(st) = Len(s) + Len(t)
        /\ \A k \in 1..Len(s) + Len(t) : st[k] = IF k <= Len(s) THEN s[k] ELSE t[k - Len(s)]
    BY <1>1, <1>2, ConcatProperties, Zenon
  <2>. HIDE DEF st
  <2>. QED  BY <1>1, <1>2, <2>1
<1>. HIDE DEF st
<1>6. \A k \in 1..12 : b[k] = IF k <= 9 THEN st[k] ELSE u[k - 9]
  <2>1. \A k \in 1..Len(st) + Len(u) :
           (st \o u)[k] = IF k <= Len(st) THEN st[k] ELSE u[k - Len(st)]
    BY <1>3, <1>5, ConcatProperties, Zenon
  <2>3. \A k \in 1..Len(st) + Len(u) : b[k] = IF k <= Len(st) THEN st[k] ELSE u[k - Len(st)]
    BY ONLY <1>4, <2>1
  <2>2. Len(st) = 9 /\ Len(u) = 3
    BY <1>3, <1>5, Zenon
  <2>. QED  BY <2>2, <2>3
<1>7. b[1] = a1 /\ b[2] = a2 /\ b[3] = a3 /\ b[4] = a4 /\ b[5] = a5
  BY <1>1, <1>5, <1>6
<1>8. b[6] = a6 /\ b[7] = a7 /\ b[8] = a8 /\ b[9] = a9
  BY <1>2, <1>5, <1>6
<1>9. b[10] = a10 /\ b[11] = a11 /\ b[12] = a12
  BY <1>3, <1>6
<1>. QED  BY <1>7, <1>8, <1>9

LEMMA DateTimeBack ==
  ASSUME NEW yr \in Nat, yr <= 65535, NEW mo, NEW dd, NEW dw, NEW h, NEW mi, NEW s, NEW hu,
         NEW dev \in Int, -32768 <= dev, dev < 32768, NEW st
  PROVE  IsReadBack(DateTime(yr, mo, dd, dw, h, mi, s, hu, dev, st))
<1>. DEFINE v == DateTime(yr, mo, dd, dw, h, mi, s, hu, dev, st)
            b == clk_datetime_to_cosem(v)
<1>1. clk_date_to_cosem(v) = << HighByte(yr), LowByte(yr), mo, dd, dw >>
  BY DEF clk_date_to_cosem, DateTime
<1>2. clk_time_to_cosem(v) = << h, mi, s, hu >>
  BY DEF clk_time_to_cosem, DateTime
<1>3. v.deviation = dev /\ v.status = st
  BY DEF DateTime
<1>4. b = << HighByte(yr), LowByte(yr), mo, dd, dw >> \o << h, mi, s, hu >>
             \o << HighByte(dev), LowByte(dev), st >>
  <2>. HIDE DEF v
  <2>1. b = clk_date_to_cosem(v) \o clk_time_to_cosem(v)
               \o << HighByte(v.deviation), LowByte(v.deviation), v.status >>
    BY DEF clk_datetime_to_cosem
  <2>. HIDE DEF b
  <2>. QED  BY <1>1, <1>2, <1>3, <2>1
<1>6. /\ b[1] = HighByte(yr) /\ b[2] = LowByte(yr) /\ b[3] = mo /\ b[4] = dd /\ b[5] = dw
      /\ b[6] = h /\ b[7] = mi /\ b[8] = s /\ b[9] = hu
      /\ b[10] = HighByte(dev) /\ b[11] = LowByte(dev) /\ b[12] = st
  <2>. DEFINE yh == HighByte(yr)  yl == LowByte(yr)  dh == HighByte(dev)  dl == LowByte(dev)
  <2>1. b = << yh, yl, mo, dd, dw >> \o << h, mi, s, hu >> \o << dh, dl, st >>
    BY <1>4
  <2>. HIDE DEF b, yh, yl, dh, dl
  <2>2. /\ b[1] = yh /\ b[2] = yl /\ b[3] = mo /\ b[4] = dd /\ b[5] = dw /\ b[6] = h
        /\ b[7] = mi /\ b[8] = s /\ b[9] = hu /\ b[10] = dh /\ b[11] = dl /\ b[12] = st
    BY <2>1, Twelve
  <2>. QED  BY <2>2 DEF yh, yl, dh, dl
<1>. HIDE DEF b, v
<1>7. clk_datetime_from_cosem(b)
         = DateTime(256 * HighByte(yr) + LowByte(yr), mo, dd, dw, h, mi, s, hu,
                    Signed(HighByte(dev), LowByte(dev)), st)
  BY <1>6 DEF clk_datetime_from_cosem, DateTime
<1>8. 256 * HighByte(yr) + LowByte(yr) = yr /\ Signed(HighByte(dev), LowByte(dev)) = dev
  BY WordBack
<1>9. clk_datetime_from_cosem(b) = DateTime(yr, mo, dd, dw, h, mi, s, hu, dev, st)
  BY <1>7, <1>8
<1>. QED  BY <1>9 DEF b, v, IsReadBack

\* A date-time that clk_datetime_to_cosem writes is read back by clk_datetime_from_cosem, on
\* every day and with every deviation, undefined and at the start too; and
\* clk_cosem_update_status marks it valid when its deviation is.
THEOREM DateTimesRight == ClockSpec => []CosemAgrees
<1>2. IsReadBack(CosemUndefined)
  <2>1. CosemUndefined = DateTime(65535, 255, 255, 255, 255, 255, 255, 0, -32768, 255)
    BY DEF CosemUndefined, DateTime
  <2>2. 65535 \in Nat /\ 65535 <= 65535 /\ -32768 \in Int /\ -32768 <= -32768 /\ -32768 < 32768
    OBVIOUS
  <2>. QED  BY <2>1, <2>2, DateTimeBack
<1>3. IsReadBack(CosemInit)
  <2>. DEFINE c == [year |-> 2000, month |-> 1, day |-> 1, dow |-> clk_dow(2000, 1, 1), hour |-> 0,
                    minute |-> 0, second |-> 0, hundredths |-> 0, deviation |-> -60, status |-> 0]
              st == Status(c)
              dw == clk_dow(2000, 1, 1)
  <2>1. CosemInit = [c EXCEPT !.status = st]
    BY Zenon DEF CosemInit
  <2>2. c = DateTime(2000, 1, 1, dw, 0, 0, 0, 0, -60, 0)
    BY Zenon DEF DateTime
  <2>. HIDE DEF c, st, dw
  <2>3. CosemInit = DateTime(2000, 1, 1, dw, 0, 0, 0, 0, -60, st)
    BY <2>1, <2>2 DEF DateTime
  <2>4. 2000 \in Nat /\ 2000 <= 65535 /\ -60 \in Int /\ -32768 <= -60 /\ -60 < 32768
    OBVIOUS
  <2>. QED  BY <2>3, <2>4, DateTimeBack
<1>4. ASSUME ClockInv, NEW d \in Deviations
      PROVE  /\ IsReadBack([Moment(d) EXCEPT !.status = Status(Moment(d))])
             /\ Status(Moment(d)) % 2 = 0 <=> -720 <= d /\ d <= 720
  <2>. DEFINE c == Moment(d)
              st == Status(c)
  <2>1. /\ d \in Int /\ -32768 <= d /\ d < 32768
        /\ today.y \in Nat /\ today.y <= 65535
    BY <1>4, ClockAssumption, Shown
  <2>2. c = DateTime(today.y, today.m, today.d, today.dow, today.hour, today.min, today.sec,
                     99, d, 0)
    BY Zenon DEF Moment, DateTime
  <2>3. /\ c.year = today.y /\ c.month = today.m /\ c.day = today.d /\ c.hour = today.hour
        /\ c.minute = today.min /\ c.second = today.sec /\ c.deviation = d
    BY DEF Moment
  <2>4. clk_is_valid_date(c.year, c.month, c.day)
    BY <1>4, <2>3, ShownValid
  <2>5. clk_is_valid_time(c.hour, c.minute, c.second)
    BY <1>4, <2>3 DEF ClockInv, Timed, clk_is_valid_time
  <2>6. clk_is_valid_deviation(c.deviation) <=> -720 <= d /\ d <= 720
    BY <2>3 DEF clk_is_valid_deviation
  <2>. HIDE DEF c
  <2>7. st % 2 = 0 <=> clk_is_valid_deviation(c.deviation)
    BY <2>4, <2>5 DEF Status
  <2>. HIDE DEF st
  <2>8. [c EXCEPT !.status = st]
           = DateTime(today.y, today.m, today.d, today.dow, today.hour, today.min, today.sec,
                      99, d, st)
    BY <2>2 DEF DateTime
  <2>9. IsReadBack([c EXCEPT !.status = st])
    <3>1. IsReadBack(DateTime(today.y, today.m, today.d, today.dow, today.hour, today.min,
                              today.sec, 99, d, st))
      BY <2>1, DateTimeBack
    <3>. HIDE DEF st
    <3>. QED  BY ONLY <2>8, <3>1
  <2>10. st % 2 = 0 <=> -720 <= d /\ d <= 720
    BY <2>6, <2>7, Zenon
  <2>. QED  BY <2>9, <2>10, Zenon DEF c, st
<1>5. ASSUME ClockInv PROVE CosemAgrees
  BY <1>2, <1>3, <1>4, <1>5, Zenon DEF CosemAgrees
<1>. QED  BY <1>5, ClockHolds, PTL

-----------------------------------------------------------------------------
(* Summer time                                                              *)

\* Of seven days in a row one is SUNDAY modulo 7: from a day on, or up to a day.
From7(n) == n + ((6 - n) % 7)
Upto7(n) == n - ((n - 6) % 7)

LEMMA OneOfSeven ==
  ASSUME NEW n \in Int
  PROVE  /\ (CHOOSE k \in n..n + 6 : k % 7 = SUNDAY) = From7(n)
         /\ (CHOOSE k \in n - 6..n : k % 7 = SUNDAY) = Upto7(n)
         /\ From7(n) \in n..n + 6 /\ From7(n) % 7 = 6
         /\ Upto7(n) \in n - 6..n /\ Upto7(n) % 7 = 6
<1>1. From7(n) \in n..n + 6 /\ From7(n) % 7 = 6
  BY DEF From7
<1>2. Upto7(n) \in n - 6..n /\ Upto7(n) % 7 = 6
  BY DEF Upto7
<1>3. ASSUME NEW k \in n..n + 6, k % 7 = 6
      PROVE  k = From7(n)
  BY <1>3 DEF From7
<1>4. ASSUME NEW k \in n - 6..n, k % 7 = 6
      PROVE  k = Upto7(n)
  BY <1>4 DEF Upto7
<1>5. (CHOOSE k \in n..n + 6 : k % 7 = SUNDAY) = From7(n)
  BY <1>1, <1>3 DEF SUNDAY
<1>6. (CHOOSE k \in n - 6..n : k % 7 = SUNDAY) = Upto7(n)
  BY <1>2, <1>4 DEF SUNDAY
<1>. QED  BY <1>1, <1>2, <1>5, <1>6

\* The first and the last day of the summer time of the year y.
SummerFrom(y) == From7(ymd_to_scalar(y, 4, 1))
SummerTo(y) == Upto7(ymd_to_scalar(y, 10, 31))

LEMMA Summer ==
  ASSUME NEW y \in Nat \ {0}, NEW m \in 1..12, NEW d \in 1..LastDay(y, m)
  PROVE  /\ ymd_to_scalar(y, m, d) \in Int /\ SummerFrom(y) \in Int /\ SummerTo(y) \in Int
         /\ SummerFrom(y) % 7 = 6 /\ SummerTo(y) % 7 = 6 /\ SummerFrom(y) < SummerTo(y)
         /\ clk_is_dst(y, m, d) <=> ymd_to_scalar(y, m, d) >= SummerFrom(y)
                                       /\ ymd_to_scalar(y, m, d) < SummerTo(y)
         /\ ymd_to_scalar(y, m, d) = SummerFrom(y) => m = 4 /\ d \in 1..7
         /\ ymd_to_scalar(y, m, d) = SummerTo(y) => m = 10 /\ d \in 25..31
         /\ m = 1 => ymd_to_scalar(y, m, d) < SummerFrom(y)
         /\ m = 12 => ymd_to_scalar(y, m, d) > SummerTo(y)
<1>. DEFINE n == ymd_to_scalar(y, m, d)
            a == ymd_to_scalar(y, 4, 1)
            z == ymd_to_scalar(y, 10, 31)
            l == LeapDays(y)
            first == years_to_days(y - 1)
<1>1. /\ first \in Int /\ l \in {0, 1} /\ d \in Int /\ d \in 1..Length(m, l)
      /\ n = first + Before(m, l) + d
  BY DayOfYear DEF IsDate
<1>2. a = first + Before(4, l) + 1 /\ z = first + Before(10, l) + 31
  BY Scalar
<1>. HIDE DEF n, a, z, l, first
<1>3. a = first + l + 91 /\ z = first + l + 304 /\ a \in Int /\ z \in Int
  BY <1>1, <1>2 DEF Before
<1>4. n \in Int /\ Before(m, l) \in Int
  BY <1>1 DEF Before
<1>5. /\ SummerFrom(y) \in a..a + 6 /\ SummerFrom(y) % 7 = 6
      /\ SummerTo(y) \in z - 6..z /\ SummerTo(y) % 7 = 6
      /\ (CHOOSE k \in a..a + 6 : k % 7 = SUNDAY) = SummerFrom(y)
      /\ (CHOOSE k \in z - 6..z : k % 7 = SUNDAY) = SummerTo(y)
  BY <1>3, OneOfSeven DEF SummerFrom, SummerTo, a, z
<1>6. clk_is_dst(y, m, d) <=> n >= SummerFrom(y) /\ n < SummerTo(y)
  BY <1>5, Zenon DEF clk_is_dst, n, a, z, DST_start_mo, DST_start_dt, DST_stop_mo, DST_stop_dt
<1>. DEFINE f == SummerFrom(y)  t == SummerTo(y)
<1>7. f \in Int /\ t \in Int /\ f >= a /\ f <= a + 6 /\ t >= z - 6 /\ t <= z /\ f < t
  <2>1. f \in a..a + 6 /\ t \in z - 6..z
    BY <1>5
  <2>. HIDE DEF f, t
  <2>. QED  BY <1>1, <1>3, <2>1
<1>. HIDE DEF f, t
<1>8. n = f => m = 4 /\ d \in 1..7
  BY <1>1, <1>3, <1>4, <1>7 DEF Before, Length
<1>9. n = t => m = 10 /\ d \in 25..31
  BY <1>1, <1>3, <1>4, <1>7 DEF Before, Length
<1>10. (m = 1 => n < f) /\ (m = 12 => n > t)
  BY <1>1, <1>3, <1>4, <1>7 DEF Before, Length
<1>. QED  BY <1>4, <1>5, <1>6, <1>7, <1>8, <1>9, <1>10 DEF n, f, t

\* The summer time of clk_is_dst turns on on one of the first seven days of April and off on
\* one of the last seven of October, in every year, and never else.
THEOREM SummerTurns == ClockSpec => DstTurns
<1>1. ASSUME ClockInv, ClockInv', [NextDay]_today
      PROVE  [ DstOf(today') # DstOf(today) =>
                  IF DstOf(today') THEN today'.m = 4 /\ today'.d \in 1..7
                                   ELSE today'.m = 10 /\ today'.d \in 25..31 ]_today
  <2>. SUFFICES ASSUME NextDay, DstOf(today') # DstOf(today)
                PROVE  IF DstOf(today') THEN today'.m = 4 /\ today'.d \in 1..7
                                        ELSE today'.m = 10 /\ today'.d \in 25..31
    BY <1>1
  <2>. DEFINE f(y) == SummerFrom(y)  t(y) == SummerTo(y)
  <2>1. /\ today.y \in Nat \ {0} /\ today.m \in 1..12 /\ today.d \in 1..LastDay(today.y, today.m)
        /\ today.n = ymd_to_scalar(today.y, today.m, today.d)
    BY <1>1, Shown DEF IsDate
  <2>2. /\ today'.y \in Nat \ {0} /\ today'.m \in 1..12
        /\ today'.d \in 1..LastDay(today'.y, today'.m)
        /\ today'.n = ymd_to_scalar(today'.y, today'.m, today'.d)
    BY <1>1 DEF ClockInv, Dated, Numbered, IsDate
  <2>3. /\ today.n \in Int /\ f(today.y) \in Int /\ t(today.y) \in Int
        /\ DstOf(today) <=> today.n >= f(today.y) /\ today.n < t(today.y)
        /\ today.m = 12 => today.n > t(today.y)
        /\ f(today.y) < t(today.y)
    BY <2>1, Summer DEF DstOf
  <2>4. /\ today'.n \in Int /\ f(today'.y) \in Int /\ t(today'.y) \in Int
        /\ f(today'.y) % 7 = 6 /\ t(today'.y) % 7 = 6
        /\ DstOf(today') <=> today'.n >= f(today'.y) /\ today'.n < t(today'.y)
        /\ today'.n = f(today'.y) => today'.m = 4 /\ today'.d \in 1..7
        /\ today'.n = t(today'.y) => today'.m = 10 /\ today'.d \in 25..31
        /\ today'.m = 1 => today'.n < f(today'.y)
    <3>. DEFINE y == today'.y  m == today'.m  d == today'.d
    <3>1. y \in Nat \ {0} /\ m \in 1..12 /\ d \in 1..LastDay(y, m)
          /\ today'.n = ymd_to_scalar(y, m, d) /\ DstOf(today') = clk_is_dst(y, m, d)
      BY <2>2 DEF DstOf
    <3>. HIDE DEF y, m, d
    <3>2. /\ ymd_to_scalar(y, m, d) \in Int /\ f(y) \in Int /\ t(y) \in Int
          /\ f(y) % 7 = 6 /\ t(y) % 7 = 6
          /\ clk_is_dst(y, m, d) <=> ymd_to_scalar(y, m, d) >= f(y) /\ ymd_to_scalar(y, m, d) < t(y)
          /\ ymd_to_scalar(y, m, d) = f(y) => m = 4 /\ d \in 1..7
          /\ ymd_to_scalar(y, m, d) = t(y) => m = 10 /\ d \in 25..31
          /\ m = 1 => ymd_to_scalar(y, m, d) < f(y)
      BY <3>1, Summer, Zenon
    <3>3. DstOf(today') <=> today'.n >= f(y) /\ today'.n < t(y)
      BY <3>1, <3>2, Zenon
    <3>. QED  BY <3>1, <3>2, <3>3, Zenon DEF y, m, d
  <2>5. SameMonth(today) \/ NextMonth(today) \/ NextYear(today)
    BY <1>1, DayStep DEF ClockInv
  <2>. HIDE DEF f, t
  <2>6. (DstOf(today') /\ ~DstOf(today)) \/ (~DstOf(today') /\ DstOf(today))
    <3>1. DstOf(today) \in BOOLEAN /\ DstOf(today') \in BOOLEAN
      BY Zenon DEF DstOf, clk_is_dst
    <3>2. \A a, b \in BOOLEAN : a # b => (b /\ ~a) \/ (~b /\ a)
      OBVIOUS
    <3>. QED  BY <3>1, <3>2, Zenon
  <2>7. CASE today'.y = today.y /\ today'.n = today.n + 1
    <3>1. (DstOf(today') /\ today'.n = f(today'.y)) \/ (~DstOf(today') /\ today'.n = t(today'.y))
      BY <2>3, <2>4, <2>6, <2>7
    <3>. QED  BY <2>4, <3>1
  <2>8. CASE today.m = 12 /\ today'.m = 1
    <3>1. ~DstOf(today) /\ ~DstOf(today')
      BY <2>3, <2>4, <2>8
    <3>. QED  BY <3>1, <2>6
  <2>9. (today'.y = today.y /\ today'.n = today.n + 1) \/ (today.m = 12 /\ today'.m = 1)
    BY <2>5 DEF SameMonth, NextMonth, NextYear, Tomorrow
  <2>. QED  BY <2>7, <2>8, <2>9
<1>. QED  BY <1>1, ClockHolds, PTL DEF ClockSpec, DstTurns

-----------------------------------------------------------------------------
(* Rows: what is joined and what is cut out of them                         *)

\* s has n elements, numbered from one.
Row(s, n) == n \in Nat /\ s = [i \in 1..n |-> s[i]]

\* j is s, of m elements, followed by t, of n.
IsJoin(j, s, t, m, n) ==
    /\ m \in Nat /\ n \in Nat /\ Row(j, m + n)
    /\ \A i \in 1..m : j[i] = s[i]
    /\ \A i \in 1..n : j[m + i] = t[i]

\* p is the n elements of s behind the first m.
IsPart(p, s, m, n) ==
    /\ m \in Nat /\ Row(p, n)
    /\ \A i \in 1..n : p[i] = s[m + i]

LEMMA RowLength ==
  ASSUME NEW s, NEW n, Row(s, n)
  PROVE  s \in Seq({s[i] : i \in 1..n}) /\ Len(s) = n /\ DOMAIN s = 1..n
BY DEF Row

LEMMA JoinedRows ==
  ASSUME NEW s, NEW t, NEW m, NEW n, Row(s, m), Row(t, n)
  PROVE  IsJoin(s \o t, s, t, m, n)
<1>. DEFINE S == {s[i] : i \in 1..m} \cup {t[i] : i \in 1..n}
<1>1. s \in Seq(S) /\ t \in Seq(S)
  <2>1. /\ m \in Nat /\ n \in Nat
        /\ s = [i \in 1..m |-> s[i]] /\ \A i \in 1..m : s[i] \in S
        /\ t = [i \in 1..n |-> t[i]] /\ \A i \in 1..n : t[i] \in S
    BY DEF Row
  <2>. HIDE DEF S
  <2>. QED  BY <2>1
<1>2. Len(s) = m /\ Len(t) = n /\ m \in Nat /\ n \in Nat
  BY RowLength DEF Row
<1>. HIDE DEF S
<1>3. s \o t \in Seq(S) /\ Len(s \o t) = m + n
  BY <1>1, <1>2
<1>4. Row(s \o t, m + n)
  BY <1>2, <1>3 DEF Row
<1>5. /\ \A i \in 1..m : (s \o t)[i] = s[i]
      /\ \A i \in 1..n : (s \o t)[m + i] = t[i]
  BY <1>1, <1>2
<1>. QED  BY <1>2, <1>4, <1>5 DEF IsJoin

LEMMA AppendedRow ==
  ASSUME NEW s, NEW m, NEW x, Row(s, m)
  PROVE  IsJoin(Append(s, x), s, << x >>, m, 1)
<1>. DEFINE S == {s[i] : i \in 1..m} \cup {x}
            a == Append(s, x)
<1>1. s \in Seq(S) /\ Len(s) = m /\ m \in Nat /\ x \in S
  <2>1. m \in Nat /\ s = [i \in 1..m |-> s[i]] /\ \A i \in 1..m : s[i] \in S
    BY DEF Row
  <2>2. x \in S
    OBVIOUS
  <2>. HIDE DEF S
  <2>3. s \in Seq(S)
    BY <2>1
  <2>. QED  BY <2>1, <2>2, <2>3, RowLength
<1>. HIDE DEF S
<1>2. a \in Seq(S) /\ Len(a) = m + 1 /\ a[m + 1] = x /\ \A i \in 1..m : a[i] = s[i]
  BY <1>1, AppendProperties
<1>. HIDE DEF a
<1>3. Row(a, m + 1)
  BY <1>1, <1>2 DEF Row
<1>4. \A i \in 1..1 : a[m + i] = << x >>[i]
  BY <1>1, <1>2
<1>5. IsJoin(a, s, << x >>, m, 1)
  BY <1>1, <1>2, <1>3, <1>4 DEF IsJoin
<1>. QED  BY <1>5 DEF a

LEMMA PartOfRow ==
  ASSUME NEW s, NEW k, Row(s, k), NEW m \in Nat, NEW n \in Nat, m + n <= k
  PROVE  IsPart(SubSeq(s, m + 1, m + n), s, m, n)
<1>. DEFINE S == {s[i] : i \in 1..k}
            l == m + 1
            r == m + n
            p == SubSeq(s, l, r)
<1>1. s \in Seq(S) /\ Len(s) = k /\ DOMAIN s = 1..k /\ k \in Nat
  BY RowLength DEF Row
<1>. HIDE DEF S
<1>2. l \in Int /\ r \in Int /\ l..r \subseteq 1..k /\ r - l + 1 = n /\ (l <= r \/ n = 0)
  BY <1>1
<1>3. l = m + 1
  OBVIOUS
<1>. HIDE DEF l, r
<1>4. \A i \in l..r : s[i] \in S
  BY <1>1, <1>2, ElementOfSeq
<1>5. /\ SubSeq(s, l, r) \in Seq(S) /\ Len(SubSeq(s, l, r)) = IF l <= r THEN r - l + 1 ELSE 0
      /\ \A i \in 1..r - l + 1 : SubSeq(s, l, r)[i] = s[l + i - 1]
  BY <1>2, <1>4, SubSeqProperties
<1>6. Len(p) = n /\ p \in Seq(S)
  BY <1>2, <1>5
<1>. HIDE DEF p
<1>7. Row(p, n)
  BY <1>6 DEF Row
<1>8. \A i \in 1..n : p[i] = s[m + i]
  BY <1>2, <1>3, <1>5 DEF p
<1>. QED  BY <1>7, <1>8 DEF IsPart, p, l, r

LEMMA EqualRows ==
  ASSUME NEW s, NEW t, NEW n, Row(s, n), Row(t, n), \A i \in 1..n : s[i] = t[i]
  PROVE  s = t
BY DEF Row

-----------------------------------------------------------------------------
(* Blocks of a stream of bytes                                              *)

HashBlockOf(s, k) == [j \in 1..HashBlock |-> s[HashBlock * k + j]]

\* The first q blocks of s.
StreamBlocks(s, q) == [k \in 1..q |-> HashBlockOf(s, k - 1)]

\* The piece is what s has behind n bytes.
Follows(s, n, piece) == \A i \in 1..Len(piece) : piece[i] = s[n + i]

\* The first n bytes of the buffer are those that s has behind m.
Buffered(buffer, s, m, n) == \A i \in 1..n : buffer[i] = s[m + i]

LEMMA CutOf ==
  ASSUME NEW bytes
  PROVE  Cut(bytes) = StreamBlocks(bytes, Len(bytes) \div HashBlock)
<1>1. ASSUME NEW k \in Int
      PROVE  [j \in 1..HashBlock |-> bytes[(k - 1) * HashBlock + j]] = HashBlockOf(bytes, k - 1)
  <2>1. (k - 1) * HashBlock = HashBlock * (k - 1)
    BY HashAssumption
  <2>. QED  BY <2>1 DEF HashBlockOf
<1>. DEFINE m == Len(bytes) \div HashBlock
<1>2. Cut(bytes) = [k \in 1..m |-> [j \in 1..HashBlock |-> bytes[(k - 1) * HashBlock + j]]]
  BY DEF Cut
<1>. HIDE DEF m
<1>3. \A k \in 1..m : k \in Int
  OBVIOUS
<1>4. Cut(bytes) = StreamBlocks(bytes, m)
  BY <1>1, <1>2, <1>3, Zenon DEF StreamBlocks
<1>. QED  BY <1>4 DEF m

LEMMA BlockSize == HashBlock \in Nat \ {0} /\ HashBlock \in Nat /\ 1 < HashBlock
BY HashAssumption

\* What is processed of whole blocks that come after q blocks of s.
LEMMA MoreBlocksOf ==
  ASSUME NEW s, NEW q \in Nat, NEW piece, NEW n, Row(piece, n), Follows(s, HashBlock * q, piece)
  PROVE  Processed(StreamBlocks(s, q), piece) = StreamBlocks(s, q + (n \div HashBlock))
<1>. DEFINE m == n \div HashBlock
            a == StreamBlocks(s, q)
            b == Cut(piece)
            c == StreamBlocks(s, q + m)
<1>1. n \in Nat /\ Len(piece) = n /\ m \in Nat /\ HashBlock * m <= n
  <2>1. n \in Nat /\ Len(piece) = n
    BY RowLength DEF Row
  <2>2. m \in Nat /\ n % HashBlock \in 0..HashBlock - 1 /\ n = HashBlock * m + (n % HashBlock)
    BY <2>1, BlockSize, Division
  <2>3. HashBlock * m \in Nat
    BY <2>2, BlockSize
  <2>. QED  BY <2>1, <2>2, <2>3, BlockSize
<1>2. b = StreamBlocks(piece, m)
  BY <1>1, CutOf
<1>. HIDE DEF m, b
<1>3. ASSUME NEW k \in 1..m
      PROVE  b[k] = c[q + k]
  <2>1. b[k] = HashBlockOf(piece, k - 1)
    BY <1>2 DEF StreamBlocks
  <2>2. c[q + k] = HashBlockOf(s, q + (k - 1))
    BY <1>1 DEF StreamBlocks
  <2>3. ASSUME NEW j \in 1..HashBlock
        PROVE  piece[HashBlock * (k - 1) + j] = s[HashBlock * (q + (k - 1)) + j]
    <3>1. HashBlock * (q + (k - 1)) = HashBlock * q + HashBlock * (k - 1)
      BY BlockSize
    <3>2. HashBlock * (m - (k - 1) - 1) \in Nat
      <4>1. m - (k - 1) - 1 \in Nat
        BY <1>1
      <4>. QED  BY <4>1, BlockSize
    <3>3. HashBlock * (m - (k - 1) - 1) = HashBlock * m - HashBlock * (k - 1) - HashBlock
      BY BlockSize, <1>1
    <3>4. HashBlock * (k - 1) \in Nat /\ HashBlock * q \in Nat /\ HashBlock * m \in Nat
      BY BlockSize, <1>1
    <3>5. HashBlock * (k - 1) + j \in 1..n
      BY <1>1, <3>2, <3>3, <3>4, BlockSize
    <3>6. piece[HashBlock * (k - 1) + j] = s[HashBlock * q + (HashBlock * (k - 1) + j)]
      BY <1>1, <3>5 DEF Follows
    <3>7. HashBlock * q + (HashBlock * (k - 1) + j) = HashBlock * (q + (k - 1)) + j
      BY <3>1, <3>4, BlockSize
    <3>. QED  BY <3>6, <3>7
  <2>4. HashBlockOf(piece, k - 1) = HashBlockOf(s, q + (k - 1))
    BY <2>3 DEF HashBlockOf
  <2>. QED  BY <2>1, <2>2, <2>4
<1>4. Row(a, q) /\ Row(b, m) /\ Row(c, q + m)
  BY <1>1, <1>2 DEF Row, StreamBlocks
<1>5. \A k \in 1..q : a[k] = c[k]
  BY <1>1 DEF StreamBlocks
<1>. HIDE DEF a, c
<1>6. IsJoin(a \o b, a, b, q, m)
  BY <1>4, JoinedRows
<1>7. ASSUME NEW k \in 1..q + m
      PROVE  (a \o b)[k] = c[k]
  <2>1. CASE k \in 1..q
    BY <2>1, <1>5, <1>6 DEF IsJoin
  <2>2. CASE k \notin 1..q
    <3>1. k - q \in 1..m /\ k = q + (k - q)
      BY <2>2, <1>1
    <3>2. b[k - q] = c[q + (k - q)] /\ (a \o b)[q + (k - q)] = b[k - q]
      BY <3>1, <1>3, <1>6 DEF IsJoin
    <3>. QED  BY <3>1, <3>2
  <2>. QED  BY <2>1, <2>2
<1>8. a \o b = c
  BY <1>4, <1>6, <1>7, EqualRows DEF IsJoin
<1>. QED  BY <1>8 DEF a, b, c, m, Processed

\* A block that is filled is the next one.
LEMMA OneMoreBlock ==
  ASSUME NEW s, NEW q \in Nat
  PROVE  Append(StreamBlocks(s, q), HashBlockOf(s, q)) = StreamBlocks(s, q + 1)
<1>. DEFINE a == StreamBlocks(s, q)
            x == HashBlockOf(s, q)
            c == StreamBlocks(s, q + 1)
<1>1. Row(a, q) /\ Row(c, q + 1) /\ c[q + 1] = x /\ \A k \in 1..q : a[k] = c[k]
  BY DEF Row, StreamBlocks
<1>. HIDE DEF a, x, c
<1>2. IsJoin(Append(a, x), a, << x >>, q, 1)
  BY <1>1, AppendedRow
<1>3. Append(a, x)[q + 1] = x /\ \A k \in 1..q : Append(a, x)[k] = a[k]
  <2>1. 1 \in 1..1 /\ << x >>[1] = x
    OBVIOUS
  <2>. QED  BY <1>2, <2>1 DEF IsJoin
<1>4. \A k \in 1..q + 1 : Append(a, x)[k] = c[k]
  <2>1. \A k \in 1..q + 1 : k \in 1..q \/ k = q + 1
    OBVIOUS
  <2>. QED  BY <1>1, <1>3, <2>1
<1>5. Append(a, x) = c
  BY <1>1, <1>2, <1>4, EqualRows DEF IsJoin
<1>. QED  BY <1>5 DEF a, x, c
\* What is written into the buffer behind the bytes that are in it.
LEMMA WrittenBehind ==
  ASSUME NEW s, NEW m \in Nat, NEW left \in Nat, NEW n \in Nat, NEW buffer, NEW bytes,
         left + n <= HashBlock, Row(bytes, n), Buffered(buffer, s, m, left),
         Follows(s, m + left, bytes)
  PROVE  Buffered(Overwrite(buffer, left, bytes), s, m, left + n)
<1>. DEFINE o == Overwrite(buffer, left, bytes)
<1>1. Len(bytes) = n
  BY RowLength
<1>2. ASSUME NEW i \in 1..left + n
      PROVE  o[i] = s[m + i]
  <2>1. i \in 1..HashBlock
    BY BlockSize
  <2>2. CASE i \in left + 1..left + n
    <3>1. o[i] = bytes[i - left]
      BY <1>1, <2>1, <2>2 DEF Overwrite
    <3>2. i - left \in 1..n /\ (m + left) + (i - left) = m + i
      BY <2>2
    <3>3. bytes[i - left] = s[(m + left) + (i - left)]
      BY <1>1, <3>2 DEF Follows
    <3>. QED  BY <3>1, <3>2, <3>3
  <2>3. CASE i \notin left + 1..left + n
    <3>1. o[i] = buffer[i]
      BY <1>1, <2>1, <2>3 DEF Overwrite
    <3>2. i \in 1..left
      BY <2>3
    <3>. QED  BY <3>1, <3>2 DEF Buffered
  <2>. QED  BY <2>2, <2>3
<1>. QED  BY <1>2 DEF Buffered

\* A buffer that is full is a block.
LEMMA Filled ==
  ASSUME NEW s, NEW q \in Nat, NEW buffer, NEW left, NEW bytes,
         Buffered(Overwrite(buffer, left, bytes), s, HashBlock * q, HashBlock)
  PROVE  Overwrite(buffer, left, bytes) = HashBlockOf(s, q)
BY DEF Overwrite, HashBlockOf, Buffered

\* The part of what follows follows too.
LEMMA FollowsOn ==
  ASSUME NEW s, NEW at \in Nat, NEW piece, NEW k, Row(piece, k), Follows(s, at, piece),
         NEW p, NEW m, NEW n, IsPart(p, piece, m, n), m + n <= k
  PROVE  Row(p, n) /\ Len(p) = n /\ Follows(s, at + m, p)
<1>1. Row(p, n) /\ Len(p) = n /\ Len(piece) = k /\ m \in Nat /\ n \in Nat /\ k \in Nat
  BY RowLength DEF IsPart, Row
<1>2. ASSUME NEW i \in 1..n
      PROVE  p[i] = s[at + m + i]
  <2>1. p[i] = piece[m + i] /\ m + i \in 1..k
    BY <1>1 DEF IsPart
  <2>2. piece[m + i] = s[at + (m + i)]
    BY <1>1, <2>1 DEF Follows
  <2>3. at + (m + i) = at + m + i
    BY <1>1
  <2>. QED  BY <2>1, <2>2, <2>3
<1>. QED  BY <1>1, <1>2 DEF Follows

-----------------------------------------------------------------------------
(* The words that count the bytes                                           *)

\* A number of bytes as the context counts it.
TotalOf(n) == << n % WordValues, (n \div WordValues) % WordValues >>

LEMMA RestOfSum ==
  ASSUME NEW n \in Nat, NEW k \in Nat, NEW d \in Nat \ {0}
  PROVE  ((n % d) + k) % d = (n + k) % d
<1>1. PICK q \in Nat : n = d * q + (n % d)
  BY Division
<1>2. PICK p \in Nat, r \in 0..d - 1 : (n % d) + k = d * p + r /\ r = ((n % d) + k) % d
  <2>1. n % d \in Nat
    BY Division
  <2>2. (n % d) + k \in Nat
    BY <2>1
  <2>. QED  BY <2>2, Division
<1>3. d * (q + p) = d * q + d * p /\ d * q \in Nat /\ d * p \in Nat /\ n % d \in Nat
  BY Division
<1>4. n + k = d * (q + p) + r /\ q + p \in Int /\ n + k \in Nat
  BY <1>1, <1>2, <1>3
<1>. QED  BY <1>2, <1>4, Divided

LEMMA RestOfRest ==
  ASSUME NEW n \in Nat
  PROVE  (n % WordValues) % HashBlock = n % HashBlock
<1>. DEFINE a == n \div WordValues
            b == n % WordValues
            w == WordValues \div HashBlock
            x == b \div HashBlock
            y == b % HashBlock
<1>1. /\ a \in Nat /\ b \in Nat /\ n = WordValues * a + b
      /\ w \in Nat /\ WordValues = HashBlock * w
  <2>1. WordValues \in Nat \ {0} /\ WordValues % HashBlock = 0
    BY HashAssumption
  <2>2. w \in Nat /\ WordValues = HashBlock * w + (WordValues % HashBlock)
    BY <2>1, BlockSize, Division
  <2>3. HashBlock * w \in Nat
    BY <2>2, BlockSize
  <2>4. a \in Nat /\ b \in 0..WordValues - 1 /\ n = WordValues * a + b
    BY <2>1, Division
  <2>. QED  BY <2>1, <2>2, <2>3, <2>4
<1>. HIDE DEF a, b, w
<1>2. x \in Nat /\ y \in 0..HashBlock - 1 /\ b = HashBlock * x + y
  BY <1>1, BlockSize, Division
<1>. HIDE DEF x, y
<1>3. HashBlock * (w * a + x) = HashBlock * (w * a) + HashBlock * x
  <2>1. w * a \in Nat
    BY <1>1
  <2>. QED  BY <2>1, <1>2, BlockSize
<1>4. WordValues * a = HashBlock * (w * a)
  BY <1>1, BlockSize
<1>5. n = HashBlock * (w * a + x) + y /\ w * a + x \in Int
  <2>1. w * a \in Nat
    BY <1>1
  <2>2. HashBlock * (w * a) \in Nat /\ HashBlock * x \in Nat
    BY <2>1, <1>2, BlockSize
  <2>. QED  BY <1>1, <1>2, <1>3, <1>4, <2>1, <2>2
<1>6. n % HashBlock = y
  BY <1>2, <1>5, BlockSize, Divided
<1>. QED  BY <1>6 DEF y, b

LEMMA CountedIs ==
  ASSUME NEW n \in Nat, NEW m \in Nat, m <= WordValues
  PROVE  Counted(TotalOf(n), m) = TotalOf(n + m)
<1>. DEFINE W == WordValues
            a == n \div W
            b == n % W
            low == (b + m) % W
<1>1. W \in Nat \ {0}
  BY HashAssumption
<1>. HIDE DEF W
<1>2. a \in Nat /\ b \in 0..W - 1 /\ n = W * a + b
  BY <1>1, Division
<1>. HIDE DEF a, b
<1>3. Counted(TotalOf(n), m) = << low, IF low < m THEN ((a % W) + 1) % W ELSE a % W >>
  BY DEF Counted, TotalOf, a, b, W
<1>4. TotalOf(n + m) = << (n + m) % W, ((n + m) \div W) % W >>
  BY DEF TotalOf, W
<1>5. n + m \in Nat /\ W * a \in Nat /\ W * (a + 1) = W * a + W
  BY <1>1, <1>2
<1>6. CASE b + m < W
  <2>1. b + m \in 0..W - 1 /\ n + m = W * a + (b + m)
    BY <1>1, <1>2, <1>5, <1>6
  <2>2. (n + m) \div W = a /\ (n + m) % W = b + m
    BY <2>1, <1>1, <1>2, <1>5, Divided
  <2>3. low = b + m
    BY <2>1, <1>1
  <2>4. ~(low < m)
    BY <2>3, <1>2
  <2>. QED  BY <1>3, <1>4, <2>2, <2>3, <2>4
<1>7. CASE W <= b + m
  <2>. DEFINE r == b + m - W
              x == W * a
  <2>5. r \in 0..W - 1 /\ r < m /\ b + m = W + r /\ b + m \in Nat /\ r \in Nat
    <3>1. m <= W
      BY DEF W
    <3>2. b \in Nat /\ b < W /\ m \in Nat
      BY <1>1, <1>2
    <3>. QED  BY <1>1, <1>7, <3>1, <3>2
  <2>6. n = x + b /\ x \in Nat /\ W * (a + 1) = x + W /\ b \in Int /\ W \in Nat /\ W * 1 = W
    BY <1>1, <1>2, <1>5
  <2>. HIDE DEF r, x
  <2>7. n + m = (x + W) + r
    BY <2>5, <2>6
  <2>1. r \in 0..W - 1 /\ r < m /\ n + m = W * (a + 1) + r /\ b + m = W * 1 + r /\ b + m \in Nat
    BY <2>5, <2>6, <2>7
  <2>. HIDE DEF r
  <2>2. (n + m) \div W = a + 1 /\ (n + m) % W = r
    BY <2>1, <1>1, <1>2, <1>5, Divided
  <2>3. low = r
    BY <2>1, <1>1, Divided
  <2>4. ((a % W) + 1) % W = (a + 1) % W
    BY <1>1, <1>2, RestOfSum
  <2>. QED  BY <1>3, <1>4, <2>1, <2>2, <2>3, <2>4
<1>. QED  BY <1>1, <1>2, <1>6, <1>7
-----------------------------------------------------------------------------
(* A piece                                                                  *)

\* A context of MD5 or SHA that took the first n bytes of s.
Taken(c, s, n) ==
    /\ c.total = TotalOf(n)
    /\ c.state = StreamBlocks(s, n \div HashBlock)
    /\ Buffered(c.buffer, s, HashBlock * (n \div HashBlock), n % HashBlock)

\* What is kept of a piece that is behind whole blocks.
KeptOf(rest) == SubSeq(rest, Len(rest) - (Len(rest) % HashBlock) + 1, Len(rest))

LEMMA BehindBlocks ==
  ASSUME NEW s, NEW q \in Nat, NEW buffer, NEW rest, NEW k, Row(rest, k),
         Follows(s, HashBlock * q, rest)
  PROVE  /\ Processed(StreamBlocks(s, q), rest) = StreamBlocks(s, q + (k \div HashBlock))
         /\ Buffered(Overwrite(buffer, 0, KeptOf(rest)), s,
                     HashBlock * (q + (k \div HashBlock)), k % HashBlock)
<1>. DEFINE p == k \div HashBlock
            r == k % HashBlock
            m == k - r
            kept == KeptOf(rest)
            at == HashBlock * q
<1>1. k \in Nat /\ Len(rest) = k
  BY RowLength DEF Row
<1>2. p \in Nat /\ r \in 0..HashBlock - 1 /\ k = HashBlock * p + r
  BY <1>1, BlockSize, Division
<1>. HIDE DEF p, r
<1>3. HashBlock * p \in Nat /\ at \in Nat /\ HashBlock * (q + p) = at + HashBlock * p
  BY <1>2, BlockSize
<1>4. m \in Nat /\ r \in Nat /\ m + r = k /\ m + r <= k /\ HashBlock * (q + p) = at + m
  BY <1>1, <1>2, <1>3
<1>5. kept = SubSeq(rest, m + 1, m + r)
  BY <1>1, <1>4 DEF KeptOf, r
<1>. HIDE DEF m, kept, at
<1>6. IsPart(kept, rest, m, r)
  BY <1>4, <1>5, PartOfRow
<1>7. Follows(s, at, rest)
  BY DEF at
<1>8. Row(kept, r) /\ Follows(s, at + m, kept)
  BY <1>3, <1>4, <1>6, <1>7, FollowsOn
<1>9. Buffered(Overwrite(buffer, 0, kept), s, at + m, 0 + r)
  <2>1. at + m \in Nat /\ 0 + r <= HashBlock /\ 0 \in Nat /\ at + m + 0 = at + m
    BY <1>2, <1>3, <1>4, BlockSize
  <2>2. Buffered(buffer, s, at + m, 0)
    BY DEF Buffered
  <2>3. Follows(s, at + m + 0, kept)
    BY <1>8, <2>1
  <2>. QED  BY <1>4, <1>8, <2>1, <2>2, <2>3, WrittenBehind
<1>10. Buffered(Overwrite(buffer, 0, kept), s, HashBlock * (q + p), r)
  BY <1>4, <1>9
<1>11. Processed(StreamBlocks(s, q), rest) = StreamBlocks(s, q + (k \div HashBlock))
  BY MoreBlocksOf
<1>. QED  BY <1>10, <1>11 DEF p, r, kept

\* A context is a record of its three fields.
IsContext(c) == c = [total |-> c.total, state |-> c.state, buffer |-> c.buffer]

LEMMA UpdatedTakes ==
  ASSUME NEW c, NEW s, NEW n \in Nat, Taken(c, s, n),
         NEW input, NEW m, Row(input, m), m <= WordValues, Follows(s, n, input)
  PROVE  /\ Taken(Updated(c, input), s, n + m)
         /\ m > 0 => IsContext(Updated(c, input))
<1>. DEFINE left == n % HashBlock
            q == n \div HashBlock
            fill == HashBlock - left
            begun == Fills(left, m)
            whole == Overwrite(c.buffer, left, SubSeq(input, 1, fill))
            rest == IF begun THEN SubSeq(input, fill + 1, m) ELSE input
            u == [total |-> Counted(c.total, m),
                  state |-> Processed(IF begun THEN Append(c.state, whole) ELSE c.state, rest),
                  buffer |-> Overwrite(IF begun THEN whole ELSE c.buffer,
                                       IF begun THEN 0 ELSE left, KeptOf(rest))]
<1>1. m \in Nat /\ Len(input) = m
  BY RowLength DEF Row
<1>2. left \in 0..HashBlock - 1 /\ q \in Nat /\ n = HashBlock * q + left /\ HashBlock * q \in Nat
  <2>1. left \in 0..HashBlock - 1 /\ q \in Nat /\ n = HashBlock * q + left
    BY BlockSize, Division
  <2>. QED  BY <2>1, BlockSize
<1>. HIDE DEF left, q
<1>3. CASE m = 0
  <2>1. input = <<>>
    BY <1>3, RowLength, EmptySeq
  <2>2. Updated(c, input) = c /\ n + m = n
    BY <1>3, <2>1 DEF Updated
  <2>. QED  BY <1>3, <2>2
<1>4. CASE m > 0
  <2>1. Updated(c, input) = u
    <3>1. input # <<>>
      BY <1>1, <1>4
    <3>2. c.total[1] % HashBlock = left
      BY RestOfRest DEF Taken, TotalOf, left
    <3>. QED  BY <1>1, <3>1, <3>2 DEF Updated, KeptOf
  <2>2. IsContext(u)
    BY DEF IsContext
  <2>3. u.total = TotalOf(n + m)
    BY <1>1, CountedIs DEF Taken
  <2>4. /\ c.state = StreamBlocks(s, q)
        /\ Buffered(c.buffer, s, HashBlock * q, left)
    BY DEF Taken, left, q
  <2>5. CASE begun
    <3>1. left > 0 /\ m >= fill /\ fill \in Nat /\ m - fill \in Nat
      BY <1>1, <1>2, <2>5, BlockSize DEF Fills
    <3>. DEFINE k == m - fill
                first == SubSeq(input, 0 + 1, 0 + fill)
                second == SubSeq(input, fill + 1, fill + k)
    <3>2. first = SubSeq(input, 1, fill) /\ second = SubSeq(input, fill + 1, m) /\ k \in Nat
      <4>1. 0 + 1 = 1 /\ 0 + fill = fill /\ fill + k = m /\ k \in Nat
        BY <1>1, <3>1
      <4>. HIDE DEF k
      <4>. QED  BY <4>1
    <3>. HIDE DEF first, second
    <3>3. Row(first, fill) /\ Follows(s, n + 0, first)
      <4>1. IsPart(first, input, 0, fill) /\ 0 + fill <= m
        BY <1>1, <3>1, PartOfRow DEF first
      <4>. QED  BY <4>1, FollowsOn
    <3>4. Row(second, k) /\ Follows(s, n + fill, second)
      <4>1. IsPart(second, input, fill, k) /\ fill + k <= m
        BY <1>1, <3>1, <3>2, PartOfRow DEF second
      <4>. QED  BY <4>1, FollowsOn
    <3>. HIDE DEF k
    <3>5. Buffered(Overwrite(c.buffer, left, first), s, HashBlock * q, left + fill)
      <4>1. Follows(s, HashBlock * q + left, first)
        <5>1. n + 0 = HashBlock * q + left
          BY <1>2
        <5>. QED  BY <3>3, <5>1
      <4>2. left + fill <= HashBlock /\ left \in Nat
        BY <1>2, BlockSize
      <4>. QED  BY <1>2, <2>4, <3>1, <3>3, <4>1, <4>2, WrittenBehind
    <3>6. Overwrite(c.buffer, left, first) = HashBlockOf(s, q)
      <4>1. left + fill = HashBlock
        BY <1>2, BlockSize
      <4>2. Buffered(Overwrite(c.buffer, left, first), s, HashBlock * q, HashBlock)
        BY <3>5, <4>1
      <4>. QED  BY <1>2, <4>2, Filled
    <3>7. Append(c.state, whole) = StreamBlocks(s, q + 1)
      BY <1>2, <2>4, <3>2, <3>6, OneMoreBlock
    <3>8. n + fill = HashBlock * (q + 1) /\ q + 1 \in Nat
      BY <1>2, BlockSize
    <3>9. /\ Processed(StreamBlocks(s, q + 1), second) = StreamBlocks(s, (q + 1) + (k \div HashBlock))
          /\ Buffered(Overwrite(whole, 0, KeptOf(second)), s,
                      HashBlock * ((q + 1) + (k \div HashBlock)), k % HashBlock)
      BY <3>4, <3>8, BehindBlocks
    <3>10. (n + m) \div HashBlock = (q + 1) + (k \div HashBlock) /\ (n + m) % HashBlock = k % HashBlock
      <4>. DEFINE x == HashBlock * (q + 1)
      <4>1. n + fill = x /\ n \in Nat /\ m \in Nat /\ fill \in Nat /\ k \in Nat
        BY <1>1, <1>2, <3>1, <3>2, <3>8
      <4>. HIDE DEF x
      <4>2. fill + k = m
        BY <1>1, <3>1, <4>1 DEF k
      <4>3. n + m = x + k /\ n + m \in Nat
        BY <4>1, <4>2
      <4>. DEFINE sum == n + m
      <4>4. sum \in Nat /\ sum = HashBlock * (q + 1) + k
        BY <4>3 DEF x
      <4>. HIDE DEF sum
      <4>5. sum \div HashBlock = (q + 1) + (k \div HashBlock) /\ sum % HashBlock = k % HashBlock
        <5>1. AddsTo(sum, HashBlock, q + 1, k)
          BY <3>8, <4>1, <4>4, BlockSize, SumOfBlocks, Zenon
        <5>. QED  BY <5>1 DEF AddsTo
      <4>. QED  BY <4>5 DEF sum
    <3>11. u.state = StreamBlocks(s, (n + m) \div HashBlock)
      BY <2>5, <3>2, <3>7, <3>9, <3>10
    <3>12. Buffered(u.buffer, s, HashBlock * ((n + m) \div HashBlock), (n + m) % HashBlock)
      BY <2>5, <3>2, <3>9, <3>10
    <3>. QED  BY <2>1, <2>2, <2>3, <3>11, <3>12 DEF Taken
  <2>6. CASE ~begun /\ left = 0
    <3>1. Follows(s, HashBlock * q, input) /\ n = HashBlock * q
      <4>1. n = HashBlock * q
        BY <1>2, <2>6
      <4>. QED  BY <4>1
    <3>2. /\ Processed(StreamBlocks(s, q), input) = StreamBlocks(s, q + (m \div HashBlock))
          /\ Buffered(Overwrite(c.buffer, 0, KeptOf(input)), s,
                      HashBlock * (q + (m \div HashBlock)), m % HashBlock)
      BY <1>2, <3>1, BehindBlocks
    <3>3. (n + m) \div HashBlock = q + (m \div HashBlock) /\ (n + m) % HashBlock = m % HashBlock
      <4>1. n + m = HashBlock * q + m
        BY <3>1
      <4>. DEFINE sum == n + m
      <4>2. sum \in Nat /\ sum = HashBlock * q + m /\ q \in Nat /\ m \in Nat
        BY <1>1, <1>2, <4>1
      <4>. HIDE DEF sum
      <4>3. sum \div HashBlock = q + (m \div HashBlock) /\ sum % HashBlock = m % HashBlock
        <5>1. AddsTo(sum, HashBlock, q, m)
          BY <4>2, BlockSize, SumOfBlocks, Zenon
        <5>. QED  BY <5>1 DEF AddsTo
      <4>. QED  BY <4>3 DEF sum
    <3>4. u.state = StreamBlocks(s, (n + m) \div HashBlock)
      BY <2>4, <2>6, <3>2, <3>3
    <3>5. Buffered(u.buffer, s, HashBlock * ((n + m) \div HashBlock), (n + m) % HashBlock)
      BY <2>6, <3>2, <3>3
    <3>. QED  BY <2>1, <2>2, <2>3, <3>4, <3>5 DEF Taken
  <2>7. CASE ~begun /\ left > 0
    <3>1. m < fill /\ left + m < HashBlock /\ m \in 0..HashBlock - 1
      BY <1>1, <1>2, <2>7, BlockSize DEF Fills
    <3>2. m \div HashBlock = 0 /\ m % HashBlock = m
      <4>1. m = HashBlock * 0 + m
        BY <1>1, BlockSize
      <4>. QED  BY <1>1, <3>1, <4>1, BlockSize, Divided
    <3>3. KeptOf(input) = input
      <4>1. KeptOf(input) = SubSeq(input, 0 + 1, 0 + m)
        BY <1>1, <3>2 DEF KeptOf
      <4>2. IsPart(SubSeq(input, 0 + 1, 0 + m), input, 0, m)
        BY <1>1, PartOfRow
      <4>3. \A i \in 1..m : 0 + i = i
        BY <1>1
      <4>. QED  BY <1>1, <4>1, <4>2, <4>3, EqualRows DEF IsPart
    <3>4. Processed(c.state, input) = c.state
      <4>1. Cut(input) = <<>>
        <5>1. Cut(input) = StreamBlocks(input, 0)
          BY <1>1, <3>2, CutOf
        <5>. QED  BY <5>1 DEF StreamBlocks
      <4>2. Row(c.state, q)
        BY <1>2, <2>4 DEF Row, StreamBlocks
      <4>3. c.state \o <<>> = c.state
        BY <4>2, RowLength, ConcatEmptySeq
      <4>. QED  BY <4>1, <4>3 DEF Processed
    <3>5. Buffered(Overwrite(c.buffer, left, input), s, HashBlock * q, left + m)
      <4>1. Follows(s, HashBlock * q + left, input)
        BY <1>2
      <4>2. left + m <= HashBlock /\ left \in Nat
        BY <1>2, <3>1, BlockSize
      <4>. QED  BY <1>1, <1>2, <2>4, <4>1, <4>2, WrittenBehind
    <3>6. (n + m) \div HashBlock = q /\ (n + m) % HashBlock = left + m
      <4>1. n + m = HashBlock * q + (left + m) /\ n + m \in Nat /\ left + m \in 0..HashBlock - 1
        BY <1>1, <1>2, <3>1, BlockSize
      <4>. DEFINE t == n + m
                  r == left + m
      <4>. HIDE DEF t, r
      <4>2. t = HashBlock * q + r /\ t \in Nat /\ r \in 0..HashBlock - 1 /\ q \in Int
        BY <1>2, <4>1 DEF t, r
      <4>3. t \div HashBlock = q /\ t % HashBlock = r
        BY <4>2, BlockSize, Divided
      <4>. QED  BY <4>3 DEF t, r
    <3>7. u.state = StreamBlocks(s, (n + m) \div HashBlock)
      BY <2>4, <2>7, <3>4, <3>6
    <3>8. Buffered(u.buffer, s, HashBlock * ((n + m) \div HashBlock), (n + m) % HashBlock)
      BY <2>7, <3>3, <3>5, <3>6
    <3>. QED  BY <2>1, <2>2, <2>3, <3>7, <3>8 DEF Taken
  <2>. QED  BY <1>2, <2>5, <2>6, <2>7
<1>. QED  BY <1>1, <1>3, <1>4
-----------------------------------------------------------------------------
(* The padding                                                              *)

\* The bytes of every message, and those of one of n bytes.
EveryByte == [i \in Nat |-> i]
Message(n) == [i \in 1..n |-> i]

\* A context took the bytes of every stream that begins as this one does.
LEMMA SameBeginning ==
  ASSUME NEW c, NEW s, NEW n \in Nat, Taken(c, s, n), NEW t, \A i \in 1..n : s[i] = t[i]
  PROVE  Taken(c, t, n)
<1>. DEFINE q == n \div HashBlock
            r == n % HashBlock
<1>1. q \in Nat /\ r \in Nat /\ n = HashBlock * q + r
  <2>1. q \in Nat /\ r \in 0..HashBlock - 1 /\ n = HashBlock * q + r
    BY BlockSize, Division
  <2>. QED  BY <2>1, BlockSize
<1>2. c.total = TotalOf(n) /\ c.state = StreamBlocks(s, q) /\ Buffered(c.buffer, s, HashBlock * q, r)
  BY DEF Taken
<1>. HIDE DEF q, r
<1>3. HashBlock * q \in Nat
  BY <1>1, BlockSize
<1>4. ASSUME NEW k \in 1..q
      PROVE  HashBlockOf(s, k - 1) = HashBlockOf(t, k - 1)
  <2>1. ASSUME NEW j \in 1..HashBlock
        PROVE  s[HashBlock * (k - 1) + j] = t[HashBlock * (k - 1) + j]
    <3>1. HashBlock * (k - 1) \in Nat /\ HashBlock * (q - k) \in Nat
      <4>1. k - 1 \in Nat /\ q - k \in Nat
        BY <1>1
      <4>. QED  BY <4>1, BlockSize
    <3>2. HashBlock * (q - k) = HashBlock * q - HashBlock * (k - 1) - HashBlock
      BY <1>1, BlockSize
    <3>3. HashBlock * (k - 1) + j \in 1..n
      BY <1>1, <1>3, <3>1, <3>2, BlockSize
    <3>. QED  BY <3>3
  <2>. QED  BY <2>1 DEF HashBlockOf
<1>5. StreamBlocks(s, q) = StreamBlocks(t, q)
  BY <1>4 DEF StreamBlocks
<1>6. Buffered(c.buffer, t, HashBlock * q, r)
  <2>1. ASSUME NEW i \in 1..r
        PROVE  c.buffer[i] = t[HashBlock * q + i]
    <3>1. HashBlock * q + i \in 1..n
      BY <1>1, <1>3
    <3>. QED  BY <1>2, <3>1 DEF Buffered
  <2>. QED  BY <2>1 DEF Buffered
<1>. QED  BY <1>2, <1>5, <1>6 DEF Taken, q, r

\* The zeros of the padding: the fewest that let the length end a block.
Zeros(n) == CHOOSE z \in 0..HashBlock - 1 : (n + 1 + z + LengthField) % HashBlock = 0

\* The mark and the zeros behind it.
MarkAndZeros(z) == [i \in 1..z + 1 |-> IF i = 1 THEN Pad80 ELSE ZeroByte]

LEMMA PaddingIs ==
  ASSUME NEW n \in Nat
  PROVE  /\ Zeros(n) \in 0..HashBlock - 1
         /\ Padding(TotalOf(n)) = MarkAndZeros(Zeros(n))
<1>. DEFINE B == HashBlock
            q == n \div B
            last == n % B
            zero == IF last < B - LengthField THEN B - LengthField - last - 1
                                              ELSE 2 * B - LengthField - last - 1
            Ends(z) == (n + 1 + z + LengthField) % B = 0
<1>1. B \in Nat \ {0} /\ LengthField \in 1..B - 1
  BY HashAssumption
<1>2. last \in 0..B - 1 /\ q \in Nat /\ n = B * q + last
  BY <1>1, Division
<1>3. Padding(TotalOf(n)) = MarkAndZeros(zero)
  <2>1. TotalOf(n)[1] % HashBlock = last
    BY RestOfRest DEF TotalOf
  <2>2. (IF last < B - LengthField THEN B - LengthField - last ELSE 2 * B - LengthField - last)
           = zero + 1
    <3>. HIDE DEF last
    <3>. QED  BY <1>1, <1>2
  <2>. HIDE DEF zero, last
  <2>. QED  BY <2>1, <2>2 DEF Padding, MarkAndZeros
<1>. HIDE DEF B, q, last
<1>4. zero \in 0..B - 1
  BY <1>1, <1>2
<1>5. ASSUME NEW z \in 0..B - 1
      PROVE  Ends(z) <=> z = zero
  <2>. DEFINE p == IF last < B - LengthField THEN q + 1 ELSE q + 2
  <2>1. B * (q + 1) = B * q + B /\ B * (q + 2) = B * q + 2 * B /\ B * q \in Nat
    BY <1>1, <1>2
  <2>2. n + 1 + zero + LengthField = B * p /\ p \in Nat
    BY <1>1, <1>2, <2>1
  <2>. HIDE DEF p
  <2>3. zero \in 0..B - 1
    BY <1>4
  <2>. HIDE DEF zero
  <2>4. n + 1 + z + LengthField = B * p + (z - zero) /\ B * p \in Nat
        /\ n + 1 + z + LengthField \in Nat
    BY <1>1, <1>2, <2>2, <2>3
  <2>. DEFINE t == n + 1 + z + LengthField
  <2>. HIDE DEF t
  <2>9. t = B * p + (z - zero) /\ t \in Nat /\ p \in Int /\ (Ends(z) <=> t % B = 0)
    BY <2>2, <2>4 DEF t
  <2>. HIDE DEF Ends
  <2>5. CASE z = zero
    <3>1. t = B * p + 0 /\ 0 \in 0..B - 1
      BY <1>1, <2>3, <2>5, <2>9
    <3>2. t % B = 0
      BY <1>1, <2>9, <3>1, Divided
    <3>. QED  BY <2>5, <2>9, <3>2
  <2>6. CASE z > zero
    <3>1. z - zero \in 0..B - 1 /\ z - zero # 0
      BY <1>1, <2>3, <2>6
    <3>2. t % B = z - zero
      BY <1>1, <2>9, <3>1, Divided
    <3>. QED  BY <2>9, <3>1, <3>2
  <2>7. CASE z < zero
    <3>1. B + (z - zero) \in 0..B - 1 /\ B + (z - zero) # 0 /\ p - 1 \in Int
      BY <1>1, <2>2, <2>3, <2>7
    <3>2. B * (p - 1) = B * p - B
      BY <1>1, <2>2
    <3>3. t = B * (p - 1) + (B + (z - zero))
      <4>. DEFINE x == B * p
                  w == B * (p - 1)
      <4>1. w = x - B /\ t = x + (z - zero) /\ x \in Int /\ B \in Int
        BY <1>1, <2>4, <2>9, <3>2
      <4>2. z \in Int /\ zero \in Int
        BY <2>3
      <4>. HIDE DEF x, w
      <4>3. t = w + (B + (z - zero))
        BY <4>1, <4>2
      <4>. QED  BY <4>3 DEF w
    <3>. DEFINE v == B + (z - zero)
    <3>5. v \in 0..B - 1 /\ v # 0 /\ t = B * (p - 1) + v
      BY <3>1, <3>3
    <3>. HIDE DEF v
    <3>4. t % B = v
      <4>. DEFINE before == p - 1
      <4>1. t \in Nat /\ B \in Nat \ {0} /\ before \in Int /\ t = B * before + v
        BY <1>1, <2>9, <3>1, <3>5
      <4>. HIDE DEF before
      <4>. QED  BY <3>5, <4>1, Divided
    <3>. QED  BY <2>9, <3>5, <3>4, <2>7
  <2>. QED  BY <2>3, <2>5, <2>6, <2>7
<1>. HIDE DEF zero
<1>6. Zeros(n) = zero
  BY <1>4, <1>5 DEF Zeros, B
<1>. QED  BY <1>3, <1>4, <1>6 DEF B

\* A message with its padding and the words of its length.
Paddeds(n, w) ==
    Message(n) \o << Pad80 >> \o [i \in 1..Zeros(n) |-> ZeroByte] \o w

\* The stream is the message, the mark and the zeros, and the words.
IsPadded(s, n, w) ==
    LET m == n + (Zeros(n) + 1) IN
    /\ Row(s, m + 2)
    /\ \A i \in 1..n : s[i] = i
    /\ \A i \in 1..Zeros(n) + 1 : s[n + i] = MarkAndZeros(Zeros(n))[i]
    /\ \A i \in 1..2 : s[m + i] = w[i]

LEMMA PaddedsIs ==
  ASSUME NEW n \in Nat, NEW w, Row(w, 2)
  PROVE  IsPadded(Paddeds(n, w), n, w)
<1>. DEFINE z == Zeros(n)
            a == Message(n)
            b == << Pad80 >>
            d == [i \in 1..z |-> ZeroByte]
            ab == a \o b
            abd == ab \o d
            s == abd \o w
<1>1. z \in Nat
  BY PaddingIs, BlockSize
<1>. HIDE DEF z
<1>2. Row(a, n) /\ Row(b, 1) /\ Row(d, z)
  <2>1. b = [i \in 1..1 |-> b[i]]
    OBVIOUS
  <2>. HIDE DEF b
  <2>. QED  BY <1>1, <2>1 DEF Row, Message
<1>3. (\A i \in 1..n : a[i] = i) /\ b[1] = Pad80 /\ 1 \in 1..1 /\ (\A i \in 1..z : d[i] = ZeroByte)
  BY DEF Message
<1>. HIDE DEF a, b, d
<1>4. IsJoin(ab, a, b, n, 1)
  BY <1>2, JoinedRows
<1>5. Row(ab, n + 1) /\ (\A i \in 1..n : ab[i] = i) /\ ab[n + 1] = Pad80
  BY <1>3, <1>4 DEF IsJoin
<1>. HIDE DEF ab
<1>6. IsJoin(abd, ab, d, n + 1, z)
  BY <1>2, <1>5, JoinedRows
<1>. DEFINE m == n + (z + 1)
<1>7. m \in Nat /\ m = (n + 1) + z
  BY <1>1
<1>8. /\ Row(abd, m) /\ (\A i \in 1..n : abd[i] = i)
      /\ \A i \in 1..z + 1 : abd[n + i] = MarkAndZeros(z)[i]
  <2>1. Row(abd, m)
    BY <1>6, <1>7 DEF IsJoin
  <2>2. \A i \in 1..n + 1 : abd[i] = ab[i]
    BY <1>6 DEF IsJoin
  <2>3. \A i \in 1..n : abd[i] = i
    <3>1. \A i \in 1..n : i \in 1..n + 1
      OBVIOUS
    <3>. QED  BY <1>5, <2>2, <3>1
  <2>4. abd[n + 1] = Pad80
    <3>1. n + 1 \in 1..n + 1
      OBVIOUS
    <3>. QED  BY <1>5, <2>2, <3>1
  <2>5. ASSUME NEW i \in 1..z + 1
        PROVE  abd[n + i] = MarkAndZeros(z)[i]
    <3>1. CASE i = 1
      <4>1. MarkAndZeros(z)[i] = Pad80
        BY <3>1, <1>1 DEF MarkAndZeros
      <4>. QED  BY <3>1, <4>1, <2>4
    <3>2. CASE i # 1
      <4>1. i - 1 \in 1..z /\ n + i = (n + 1) + (i - 1)
        BY <3>2, <1>1
      <4>2. abd[(n + 1) + (i - 1)] = d[i - 1] /\ d[i - 1] = ZeroByte
        BY <4>1, <1>6, <1>3 DEF IsJoin
      <4>3. MarkAndZeros(z)[i] = ZeroByte
        BY <3>2 DEF MarkAndZeros
      <4>. QED  BY <4>1, <4>2, <4>3
    <3>. QED  BY <3>1, <3>2
  <2>. QED  BY <2>1, <2>3, <2>5
<1>. HIDE DEF abd
<1>9. IsJoin(s, abd, w, m, 2)
  BY <1>8, JoinedRows
<1>. HIDE DEF m
<1>10. Row(s, m + 2) /\ (\A i \in 1..m : s[i] = abd[i]) /\ (\A i \in 1..2 : s[m + i] = w[i])
  BY <1>9 DEF IsJoin
<1>11. \A i \in 1..n : i \in 1..m
  BY <1>1, <1>7
<1>12. \A i \in 1..z + 1 : n + i \in 1..m
  BY <1>1, <1>7 DEF m
<1>13. s = Paddeds(n, w)
  BY DEF abd, ab, a, b, d, z, Paddeds
<1>. HIDE DEF s
<1>14. /\ \A i \in 1..n : s[i] = i
       /\ \A i \in 1..z + 1 : s[n + i] = MarkAndZeros(z)[i]
  BY <1>8, <1>10, <1>11, <1>12
<1>15. IsPadded(s, n, w)
  BY <1>10, <1>14 DEF IsPadded, m, z
<1>. QED  BY <1>13, <1>15

-----------------------------------------------------------------------------
(* The end of a message                                                     *)

LEMMA FinishedTakes ==
  ASSUME NEW c, NEW n \in Nat, Taken(c, EveryByte, n), NEW w, Row(w, 2)
  PROVE  LET u == Updated(Updated(c, Padding(c.total)), w)
         IN  u.state = Processed(<<>>, Paddeds(n, w)) /\ IsContext(u)
<1>. DEFINE s == Paddeds(n, w)
            z == Zeros(n)
            pad == Padding(c.total)
            m == n + (z + 1)
            d == Updated(c, pad)
            u == Updated(d, w)
<1>1. z \in Nat /\ z + 1 <= HashBlock
  BY PaddingIs, BlockSize
<1>2. pad = MarkAndZeros(z)
  BY PaddingIs DEF Taken
<1>3. IsPadded(s, n, w)
  BY PaddedsIs
<1>. HIDE DEF s, pad
<1>4. /\ Row(s, m + 2) /\ (\A i \in 1..n : s[i] = i)
      /\ (\A i \in 1..z + 1 : s[n + i] = MarkAndZeros(z)[i])
      /\ (\A i \in 1..2 : s[m + i] = w[i])
  BY <1>3 DEF IsPadded
<1>. HIDE DEF z
<1>5. HashBlock <= WordValues /\ 2 <= WordValues
  <2>1. WordValues \in Nat \ {0} /\ WordValues % HashBlock = 0
    BY HashAssumption
  <2>2. ASSUME WordValues < HashBlock
        PROVE  FALSE
    <3>1. WordValues = HashBlock * 0 + WordValues /\ WordValues \in 0..HashBlock - 1
      BY <2>1, <2>2, BlockSize
    <3>2. WordValues % HashBlock = WordValues
      BY <2>1, <3>1, BlockSize, Divided
    <3>. QED  BY <2>1, <3>2
  <2>. QED  BY <2>1, <2>2, BlockSize
<1>6. Taken(c, s, n)
  <2>1. \A i \in 1..n : EveryByte[i] = s[i]
    BY <1>4 DEF EveryByte
  <2>. QED  BY <2>1, SameBeginning
<1>7. Row(pad, z + 1) /\ Follows(s, n, pad)
  <2>1. Row(pad, z + 1)
    BY <1>1, <1>2 DEF Row, MarkAndZeros
  <2>2. Len(pad) = z + 1
    BY <2>1, RowLength
  <2>. QED  BY <1>2, <1>4, <2>1, <2>2 DEF Follows
<1>8. z + 1 <= WordValues /\ m \in Nat
  BY <1>1, <1>5, BlockSize, HashAssumption
<1>9. Taken(d, s, m)
  BY <1>6, <1>7, <1>8, UpdatedTakes
<1>. HIDE DEF m, d
<1>10. Follows(s, m, w)
  <2>1. Len(w) = 2
    BY RowLength
  <2>. QED  BY <1>4, <2>1 DEF Follows
<1>11. Taken(u, s, m + 2) /\ IsContext(u)
  <2>1. 2 > 0
    OBVIOUS
  <2>. QED  BY <1>5, <1>8, <1>9, <1>10, <2>1, UpdatedTakes
<1>12. Processed(<<>>, s) = StreamBlocks(s, (m + 2) \div HashBlock)
  <2>1. Len(s) = m + 2
    BY <1>4, RowLength
  <2>2. Cut(s) = StreamBlocks(s, (m + 2) \div HashBlock)
    BY <2>1, CutOf
  <2>3. m + 2 \in Nat
    BY <1>8
  <2>4. (m + 2) \div HashBlock \in Nat
    BY <2>3, BlockSize, Division
  <2>5. Row(Cut(s), (m + 2) \div HashBlock)
    BY <2>2, <2>4 DEF Row, StreamBlocks
  <2>6. <<>> \o Cut(s) = Cut(s)
    BY <2>5, RowLength, ConcatEmptySeq
  <2>. QED  BY <2>2, <2>6 DEF Processed
<1>. QED  BY <1>11, <1>12 DEF Taken, s, d, pad

\* The words of the length are those of the number of bits.
LEMMA LengthWords ==
  ASSUME NEW n \in Nat
  PROVE  /\ LengthLow(TotalOf(n)) = (8 * n) % WordValues
         /\ LengthHigh(TotalOf(n)) = ((8 * n) \div WordValues) % WordValues
<1>. DEFINE W == WordValues
            a == n \div W
            b == n % W
            e == (8 * b) \div W
            f == (8 * b) % W
<1>1. W \in Nat \ {0}
  BY HashAssumption
<1>. HIDE DEF W
<1>2. a \in Nat /\ b \in Nat /\ n = W * a + b
  BY <1>1, Division
<1>3. TotalOf(n)[1] = b /\ TotalOf(n)[2] = a % W
  BY DEF TotalOf, W
<1>. HIDE DEF a, b
<1>4. e \in Nat /\ f \in 0..W - 1 /\ 8 * b = W * e + f
  <2>1. 8 * b \in Nat
    BY <1>2
  <2>. QED  BY <1>1, <2>1, Division
<1>5. LengthLow(TotalOf(n)) = f /\ LengthHigh(TotalOf(n)) = (e + 8 * (a % W)) % W
  BY <1>3 DEF LengthLow, LengthHigh, W
<1>. HIDE DEF e, f
<1>6. (8 * n) \div W = 8 * a + e /\ (8 * n) % W = f
  <2>1. W * (8 * a + e) = 8 * (W * a) + W * e /\ W * a \in Nat /\ W * e \in Nat
    BY <1>1, <1>2, <1>4
  <2>2. 8 * n = W * (8 * a + e) + f /\ 8 * n \in Nat /\ 8 * a + e \in Int
    BY <1>1, <1>2, <1>4, <2>1
  <2>. QED  BY <1>1, <1>4, <2>2, Divided
<1>7. (e + 8 * (a % W)) % W = (8 * a + e) % W
  <2>. DEFINE g == a \div W
              h == a % W
              t == e + 8 * h
              x == t \div W
              y == t % W
  <2>1. g \in Nat /\ h \in Nat /\ a = W * g + h
    BY <1>1, <1>2, Division
  <2>. HIDE DEF g, h
  <2>2. t \in Nat
    BY <1>4, <2>1
  <2>3. x \in Nat /\ y \in 0..W - 1 /\ t = W * x + y
    <3>. HIDE DEF t
    <3>. QED  BY <1>1, <2>2, Division
  <2>. HIDE DEF x, y
  <2>4. W * (8 * g + x) = 8 * (W * g) + W * x /\ W * g \in Nat /\ W * x \in Nat
    BY <1>1, <2>1, <2>3
  <2>5. 8 * a + e = W * (8 * g + x) + y /\ 8 * a + e \in Nat /\ 8 * g + x \in Int
    BY <1>1, <1>2, <1>4, <2>1, <2>3, <2>4
  <2>6. (8 * a + e) % W = y
    BY <1>1, <2>3, <2>5, Divided
  <2>. QED  BY <2>6 DEF y, h
<1>. QED  BY <1>5, <1>6, <1>7 DEF W
-----------------------------------------------------------------------------
(* CMAC: a last block is kept, which may be whole                           *)

\* n bytes are q blocks and r bytes more, at least one unless there is none.
LastOf(n, q, r) ==
    /\ q \in Nat /\ r \in Nat /\ r <= HashBlock /\ n = HashBlock * q + r
    /\ n > 0 => r > 0

\* A context of CMAC that took the first n bytes of s.
KeptLast(c, s, n, q, r) ==
    /\ LastOf(n, q, r)
    /\ c.total = << r, 0 >>
    /\ c.state = StreamBlocks(s, q)
    /\ Buffered(c.buffer, s, HashBlock * q, r)

\* The bytes of k that are processed at once.
WholeBefore(k) ==
    LET blocks == (k + HashBlock - 1) \div HashBlock
    IN  IF blocks > 1 THEN (blocks - 1) * HashBlock ELSE 0

BehindOf(s, q, buffer, rest, k, p, r) ==
  /\ k = HashBlock * p + r /\ r > 0 /\ r <= HashBlock
  /\ WholeBefore(k) = HashBlock * p
  /\ Len(SubSeq(rest, WholeBefore(k) + 1, k)) = r
  /\ Processed(StreamBlocks(s, q), SubSeq(rest, 1, WholeBefore(k))) = StreamBlocks(s, q + p)
  /\ Buffered(Overwrite(buffer, 0, SubSeq(rest, WholeBefore(k) + 1, k)), s,
              HashBlock * (q + p), r)

LEMMA BehindLast ==
  ASSUME NEW s, NEW q \in Nat, NEW buffer, NEW rest, NEW k, Row(rest, k), k > 0,
         Follows(s, HashBlock * q, rest)
  PROVE  \E p \in Nat, r \in Nat : BehindOf(s, q, buffer, rest, k, p, r)
<1>. DEFINE e == (k + HashBlock - 1) \div HashBlock
            f == (k + HashBlock - 1) % HashBlock
            p == e - 1
            at == HashBlock * q
            m == HashBlock * p
            r == f + 1
            first == SubSeq(rest, 0 + 1, 0 + m)
            second == SubSeq(rest, m + 1, m + r)
<1>1. k \in Nat /\ Len(rest) = k
  BY RowLength DEF Row
<1>2. e \in Nat /\ f \in 0..HashBlock - 1 /\ k + HashBlock - 1 = HashBlock * e + f
  <2>1. k + HashBlock - 1 \in Nat
    BY <1>1, BlockSize
  <2>. QED  BY <2>1, BlockSize, Division
<1>3. WholeBefore(k) = IF e > 1 THEN (e - 1) * HashBlock ELSE 0
  BY DEF WholeBefore
<1>. HIDE DEF e, f
<1>4. e # 0
  <2>1. e = 0 => HashBlock * e = 0
    BY BlockSize
  <2>. QED  BY <1>1, <1>2, <2>1, BlockSize
<1>5. p \in Nat /\ r \in Nat /\ r > 0 /\ r <= HashBlock
  BY <1>2, <1>4, BlockSize
<1>6. m \in Nat /\ HashBlock * e = m + HashBlock /\ at \in Nat /\ HashBlock * (q + p) = at + m
  <2>. HIDE DEF p
  <2>1. e = p + 1
    BY <1>2 DEF p
  <2>. QED  BY <1>5, <2>1, BlockSize
<1>7. k = m + r
  <2>. HIDE DEF m
  <2>. QED  BY <1>1, <1>2, <1>6, BlockSize
<1>8. WholeBefore(k) = m
  <2>1. CASE e > 1
    <3>1. (e - 1) * HashBlock = m
      BY <1>2, BlockSize
    <3>. QED  BY <1>3, <2>1, <3>1
  <2>2. CASE ~(e > 1)
    <3>1. p = 0
      BY <1>2, <1>4, <2>2
    <3>. HIDE DEF p
    <3>2. m = 0
      BY <3>1, BlockSize
    <3>. QED  BY <1>3, <2>2, <3>2
  <2>. QED  BY <2>1, <2>2
<1>. HIDE DEF p, m, r
<1>9. first = SubSeq(rest, 1, m) /\ second = SubSeq(rest, m + 1, k)
  <2>1. 0 + 1 = 1 /\ 0 + m = m
    BY <1>6
  <2>. QED  BY <1>7, <2>1
<1>10. Follows(s, at, rest) /\ m + r <= k /\ 0 + m <= k
  BY <1>5, <1>6, <1>7 DEF at
<1>11. IsPart(first, rest, 0, m) /\ IsPart(second, rest, m, r)
  BY <1>5, <1>6, <1>10, PartOfRow
<1>. HIDE DEF first, second, at
<1>12. Row(first, m) /\ Follows(s, at + 0, first)
  BY <1>6, <1>10, <1>11, FollowsOn
<1>13. Row(second, r) /\ Len(second) = r /\ Follows(s, at + m, second)
  BY <1>6, <1>10, <1>11, FollowsOn
<1>14. Processed(StreamBlocks(s, q), first) = StreamBlocks(s, q + p)
  <2>1. Follows(s, HashBlock * q, first)
    <3>1. at + 0 = at
      BY <1>6
    <3>. QED  BY <1>12, <3>1 DEF at
  <2>2. Processed(StreamBlocks(s, q), first) = StreamBlocks(s, q + (m \div HashBlock))
    BY <1>12, <2>1, MoreBlocksOf
  <2>3. m = HashBlock * p + 0 /\ 0 \in 0..HashBlock - 1 /\ p \in Int
    BY <1>5, <1>6, BlockSize DEF m
  <2>4. m \div HashBlock = p
    BY <1>6, <2>3, BlockSize, Divided
  <2>. QED  BY <2>2, <2>4
<1>15. Buffered(Overwrite(buffer, 0, second), s, HashBlock * (q + p), r)
  <2>1. at + m \in Nat /\ 0 + r <= HashBlock /\ 0 \in Nat /\ at + m + 0 = at + m /\ 0 + r = r
    BY <1>5, <1>6, BlockSize
  <2>2. Buffered(buffer, s, at + m, 0)
    BY DEF Buffered
  <2>3. Follows(s, at + m + 0, second)
    BY <1>13, <2>1
  <2>4. Buffered(Overwrite(buffer, 0, second), s, at + m, 0 + r)
    BY <1>5, <1>13, <2>1, <2>2, <2>3, WrittenBehind
  <2>. QED  BY <1>6, <2>1, <2>4
<1>16. k = HashBlock * p + r /\ WholeBefore(k) = HashBlock * p
  BY <1>7, <1>8 DEF m
<1>17. SubSeq(rest, WholeBefore(k) + 1, k) = second /\ SubSeq(rest, 1, WholeBefore(k)) = first
  BY <1>8, <1>9
<1>18. BehindOf(s, q, buffer, rest, k, p, r)
  BY <1>5, <1>13, <1>14, <1>15, <1>16, <1>17 DEF BehindOf
<1>. QED  BY <1>5, <1>6, <1>18

LEMMA CmacTakes ==
  ASSUME NEW c, NEW s, NEW n \in Nat, NEW q, NEW r, KeptLast(c, s, n, q, r),
         NEW input, NEW m, Row(input, m), Follows(s, n, input)
  PROVE  \E p \in Nat, t \in Nat : KeptLast(mbedtls_cipher_cmac_update(c, input), s, n + m, p, t)
<1>. DEFINE fill == HashBlock - r
            begun == r > 0 /\ m > fill
            whole == Overwrite(c.buffer, r, SubSeq(input, 1, fill))
            rest == IF begun THEN SubSeq(input, fill + 1, m) ELSE input
            from == IF begun THEN 0 ELSE r
            k == Len(rest)
            kept == SubSeq(rest, WholeBefore(k) + 1, k)
            u == [total |-> << from + Len(kept), 0 >>,
                  state |-> Processed(IF begun THEN Append(c.state, whole) ELSE c.state,
                                      SubSeq(rest, 1, WholeBefore(k))),
                  buffer |-> Overwrite(IF begun THEN whole ELSE c.buffer, from, kept)]
<1>1. m \in Nat /\ Len(input) = m
  BY RowLength DEF Row
<1>2. /\ q \in Nat /\ r \in Nat /\ r <= HashBlock /\ n = HashBlock * q + r /\ (n > 0 => r > 0)
      /\ c.total = << r, 0 >> /\ c.state = StreamBlocks(s, q)
      /\ Buffered(c.buffer, s, HashBlock * q, r)
  BY DEF KeptLast, LastOf
<1>3. HashBlock * q \in Nat
  BY <1>2, BlockSize
<1>4. mbedtls_cipher_cmac_update(c, input) = u
  <2>1. c.total[1] = r
    BY <1>2
  <2>. QED  BY <1>1, <2>1 DEF mbedtls_cipher_cmac_update, WholeBefore
<1>5. CASE begun
  <2>1. r > 0 /\ fill \in Nat /\ m - fill \in Nat /\ m - fill > 0
    BY <1>1, <1>2, <1>5, BlockSize
  <2>. DEFINE i == m - fill
              first == SubSeq(input, 0 + 1, 0 + fill)
              second == SubSeq(input, fill + 1, fill + i)
  <2>2. first = SubSeq(input, 1, fill) /\ second = SubSeq(input, fill + 1, m) /\ i \in Nat /\ i > 0
    <3>1. 0 + 1 = 1 /\ 0 + fill = fill /\ fill + i = m
      BY <1>1, <2>1
    <3>. HIDE DEF i
    <3>2. i \in Nat /\ i > 0
      BY <2>1 DEF i
    <3>. QED  BY <3>1, <3>2
  <2>. HIDE DEF first, second
  <2>3. Row(first, fill) /\ Follows(s, n + 0, first)
    <3>1. IsPart(first, input, 0, fill) /\ 0 + fill <= m
      BY <1>1, <2>1, PartOfRow DEF first
    <3>. QED  BY <3>1, FollowsOn
  <2>4. Row(second, i) /\ Len(second) = i /\ Follows(s, n + fill, second)
    <3>1. IsPart(second, input, fill, i) /\ fill + i <= m
      BY <1>1, <2>1, <2>2, PartOfRow DEF second
    <3>. QED  BY <3>1, FollowsOn
  <2>. HIDE DEF i
  <2>5. Overwrite(c.buffer, r, first) = HashBlockOf(s, q)
    <3>1. Follows(s, HashBlock * q + r, first)
      <4>1. n + 0 = HashBlock * q + r
        BY <1>2
      <4>. QED  BY <2>3, <4>1
    <3>2. r + fill = HashBlock /\ r + fill <= HashBlock
      BY <1>2, BlockSize
    <3>3. Buffered(Overwrite(c.buffer, r, first), s, HashBlock * q, r + fill)
      BY <1>2, <1>3, <2>1, <2>3, <3>1, <3>2, WrittenBehind
    <3>4. Buffered(Overwrite(c.buffer, r, first), s, HashBlock * q, HashBlock)
      BY <3>2, <3>3
    <3>. QED  BY <1>2, <3>4, Filled
  <2>6. Append(c.state, whole) = StreamBlocks(s, q + 1)
    BY <1>2, <2>2, <2>5, OneMoreBlock
  <2>7. n + fill = HashBlock * (q + 1) /\ q + 1 \in Nat /\ HashBlock * (q + 1) \in Nat
    BY <1>2, BlockSize
  <2>16. PICK p \in Nat, t \in Nat : BehindOf(s, q + 1, whole, second, i, p, t)
    <3>. HIDE DEF whole
    <3>1. Follows(s, HashBlock * (q + 1), second)
      BY <2>4, <2>7, Zenon
    <3>. QED  BY <2>2, <2>4, <2>7, <3>1, BehindLast
  <2>8. /\ i = HashBlock * p + t /\ t > 0 /\ t <= HashBlock
        /\ WholeBefore(i) = HashBlock * p
        /\ Len(SubSeq(second, WholeBefore(i) + 1, i)) = t
        /\ Processed(StreamBlocks(s, q + 1), SubSeq(second, 1, WholeBefore(i)))
              = StreamBlocks(s, (q + 1) + p)
        /\ Buffered(Overwrite(whole, 0, SubSeq(second, WholeBefore(i) + 1, i)), s,
                    HashBlock * ((q + 1) + p), t)
    BY <2>16 DEF BehindOf
  <2>9. rest = second /\ k = i /\ from = 0
    BY <1>5, <2>2, <2>4
  <2>10. LastOf(n + m, (q + 1) + p, t)
    <3>. DEFINE x == HashBlock * (q + 1)
                y == HashBlock * p
    <3>1. /\ HashBlock * ((q + 1) + p) = x + y /\ x \in Nat /\ y \in Nat
          /\ n + fill = x /\ i = y + t
      <4>1. HashBlock \in Nat /\ q \in Nat /\ p \in Nat
        BY <1>2, <2>8, BlockSize
      <4>2. HashBlock * ((q + 1) + p) = x + y /\ x \in Nat /\ y \in Nat
        BY <4>1
      <4>. QED  BY <2>7, <2>8, <4>2
    <3>. HIDE DEF x, y
    <3>2. fill + i = m /\ n \in Nat /\ m \in Nat /\ fill \in Nat /\ t \in Nat
      BY <1>1, <1>2, <2>1, <2>8 DEF i
    <3>4. n + m = (x + y) + t
      BY <3>1, <3>2
    <3>3. n + m = HashBlock * ((q + 1) + p) + t
      BY <3>1, <3>4
    <3>. QED  BY <1>2, <2>8, <3>3 DEF LastOf
  <2>11. u.total = << t, 0 >>
    <3>1. kept = SubSeq(second, WholeBefore(i) + 1, i)
      BY <2>9
    <3>. HIDE DEF kept, from
    <3>2. Len(kept) = t
      BY <2>8, <3>1, Zenon
    <3>3. from = 0 /\ 0 + t = t
      BY <2>9
    <3>. QED  BY <3>2, <3>3
  <2>12. u.state = StreamBlocks(s, (q + 1) + p)
    BY <1>5, <2>6, <2>8, <2>9
  <2>13. Buffered(u.buffer, s, HashBlock * ((q + 1) + p), t)
    BY <1>5, <2>8, <2>9
  <2>14. (q + 1) + p \in Nat
    BY <1>2
  <2>. HIDE DEF u
  <2>15. KeptLast(u, s, n + m, (q + 1) + p, t)
    BY <2>10, <2>11, <2>12, <2>13 DEF KeptLast
  <2>. QED  BY <1>4, <2>14, <2>15
<1>6. CASE ~begun /\ r = 0 /\ m > 0
  <2>1. n = 0 /\ q = 0 /\ Follows(s, HashBlock * q, input)
    <3>1. n = 0
      BY <1>2, <1>6
    <3>2. HashBlock * q = 0
      BY <1>2, <1>3, <1>6, <3>1
    <3>3. q = 0
      <4>1. q >= 1 => HashBlock * q >= HashBlock
        <5>1. q >= 1 => HashBlock * (q - 1) \in Nat
          <6>1. q >= 1 => q - 1 \in Nat
            BY <1>2
          <6>. QED  BY <6>1, BlockSize
        <5>2. HashBlock * (q - 1) = HashBlock * q - HashBlock
          BY <1>2, BlockSize
        <5>. QED  BY <1>3, <5>1, <5>2, BlockSize
      <4>. QED  BY <1>2, <3>2, <4>1, BlockSize
    <3>. QED  BY <3>1, <3>2, <3>3
  <2>16. PICK p \in Nat, t \in Nat : BehindOf(s, q, c.buffer, input, m, p, t)
    BY <1>2, <1>6, <2>1, BehindLast
  <2>2. /\ m = HashBlock * p + t /\ t > 0 /\ t <= HashBlock
        /\ WholeBefore(m) = HashBlock * p
        /\ Len(SubSeq(input, WholeBefore(m) + 1, m)) = t
        /\ Processed(StreamBlocks(s, q), SubSeq(input, 1, WholeBefore(m))) = StreamBlocks(s, q + p)
        /\ Buffered(Overwrite(c.buffer, 0, SubSeq(input, WholeBefore(m) + 1, m)), s,
                    HashBlock * (q + p), t)
    BY <2>16 DEF BehindOf
  <2>3. rest = input /\ k = m /\ from = 0 /\ q + p = p /\ n + m = m
    BY <1>1, <1>6, <2>1
  <2>4. LastOf(n + m, p, t)
    BY <1>1, <2>2, <2>3 DEF LastOf
  <2>5. u.total = << t, 0 >>
    <3>1. kept = SubSeq(input, WholeBefore(m) + 1, m)
      BY <2>3
    <3>. HIDE DEF kept, from
    <3>2. Len(kept) = t
      BY <2>2, <3>1, Zenon
    <3>3. from = 0 /\ 0 + t = t
      BY <2>3
    <3>. QED  BY <3>2, <3>3
  <2>7. u.state = StreamBlocks(s, p) /\ Buffered(u.buffer, s, HashBlock * p, t)
    BY <1>2, <1>6, <2>2, <2>3
  <2>. HIDE DEF u
  <2>6. KeptLast(u, s, n + m, p, t)
    BY <2>4, <2>5, <2>7 DEF KeptLast
  <2>. QED  BY <1>4, <2>6
<1>7. CASE ~begun /\ (r > 0 \/ m = 0)
  <2>1. m <= fill /\ r + m <= HashBlock /\ r + m \in Nat /\ (m = 0 \/ m < HashBlock)
    BY <1>1, <1>2, <1>7, BlockSize
  <2>2. WholeBefore(m) = 0
    <3>. DEFINE e == (m + HashBlock - 1) \div HashBlock
                f == (m + HashBlock - 1) % HashBlock
    <3>1. e \in Nat /\ f \in 0..HashBlock - 1 /\ m + HashBlock - 1 = HashBlock * e + f
      <4>1. m + HashBlock - 1 \in Nat
        BY <1>1, BlockSize
      <4>. QED  BY <4>1, BlockSize, Division
    <3>2. WholeBefore(m) = IF e > 1 THEN (e - 1) * HashBlock ELSE 0
      BY DEF WholeBefore
    <3>. HIDE DEF e, f
    <3>3. ASSUME e > 1
          PROVE  FALSE
      <4>1. HashBlock * (e - 2) \in Nat
        <5>1. e - 2 \in Nat
          BY <3>1, <3>3
        <5>. QED  BY <5>1, BlockSize
      <4>2. HashBlock * (e - 2) = HashBlock * e - 2 * HashBlock /\ HashBlock * e \in Nat
        BY <3>1, BlockSize
      <4>. QED  BY <1>1, <2>1, <3>1, <4>1, <4>2, BlockSize
    <3>. QED  BY <3>2, <3>3
  <2>3. SubSeq(input, 0 + 1, m) = input /\ SubSeq(input, 1, 0) = <<>>
    <3>1. 0 + m = m /\ 0 + 1 = 1 /\ 0 + 0 = 0
      BY <1>1
    <3>2. IsPart(SubSeq(input, 0 + 1, 0 + m), input, 0, m)
      BY <1>1, PartOfRow
    <3>3. IsPart(SubSeq(input, 0 + 1, 0 + 0), input, 0, 0)
      BY <1>1, PartOfRow
    <3>4. \A i \in 1..m : 0 + i = i
      BY <1>1
    <3>5. SubSeq(input, 0 + 1, 0 + m) = input
      BY <3>2, <3>4, EqualRows DEF IsPart
    <3>6. Row(SubSeq(input, 1, 0), 0)
      BY <3>1, <3>3 DEF IsPart
    <3>7. SubSeq(input, 1, 0) = <<>>
      BY <3>6, RowLength, EmptySeq
    <3>. QED  BY <3>1, <3>5, <3>7
  <2>4. rest = input /\ k = m /\ from = r /\ kept = input
    BY <1>1, <1>7, <2>2, <2>3
  <2>5. Processed(c.state, <<>>) = c.state
    <3>1. Cut(<<>>) = <<>>
      <4>1. Len(<<>>) \div HashBlock = 0
        <5>1. 0 = HashBlock * 0 + 0 /\ 0 \in 0..HashBlock - 1
          BY BlockSize
        <5>2. 0 \div HashBlock = 0
          BY <5>1, BlockSize, Divided
        <5>3. Len(<<>>) = 0
          OBVIOUS
        <5>. QED  BY <5>2, <5>3
      <4>2. Cut(<<>>) = StreamBlocks(<<>>, 0)
        BY <4>1, CutOf
      <4>. QED  BY <4>2 DEF StreamBlocks
    <3>2. Row(c.state, q)
      BY <1>2 DEF Row, StreamBlocks
    <3>3. c.state \o <<>> = c.state
      BY <3>2, RowLength, ConcatEmptySeq
    <3>. QED  BY <3>1, <3>3 DEF Processed
  <2>6. Buffered(Overwrite(c.buffer, r, input), s, HashBlock * q, r + m)
    <3>1. Follows(s, HashBlock * q + r, input)
      BY <1>2
    <3>. QED  BY <1>1, <1>2, <1>3, <2>1, <3>1, WrittenBehind
  <2>7. LastOf(n + m, q, r + m)
    BY <1>1, <1>2, <1>3, <1>7, <2>1 DEF LastOf
  <2>8. u.total = << r + m, 0 >>
    BY <1>1, <2>4
  <2>9. u.state = StreamBlocks(s, q)
    BY <1>2, <1>7, <2>2, <2>3, <2>4, <2>5
  <2>10. Buffered(u.buffer, s, HashBlock * q, r + m)
    BY <1>7, <2>4, <2>6
  <2>. HIDE DEF u
  <2>11. KeptLast(u, s, n + m, q, r + m)
    BY <2>7, <2>8, <2>9, <2>10 DEF KeptLast
  <2>. QED  BY <1>2, <1>4, <2>1, <2>11
<1>. QED  BY <1>1, <1>2, <1>5, <1>6, <1>7
LEMMA CmacFinished ==
  ASSUME NEW c, NEW n \in Nat, NEW q, NEW r, KeptLast(c, EveryByte, n, q, r)
  PROVE  /\ mbedtls_cipher_cmac_finish(c).state = MaskedBlocks(n)
         /\ IsContext(mbedtls_cipher_cmac_finish(c))
<1>. DEFINE whole == n > 0 /\ n % HashBlock = 0
            before == IF whole THEN n - HashBlock ELSE n - (n % HashBlock)
            end == [i \in 1..HashBlock |-> IF before + i <= n THEN before + i
                                           ELSE IF before + i = n + 1 THEN Pad80 ELSE ZeroByte]
            last == IF r < HashBlock THEN Masked("K2", cmac_pad(c.buffer, r)) ELSE Masked("K1", c.buffer)
<1>1. /\ q \in Nat /\ r \in Nat /\ r <= HashBlock /\ n = HashBlock * q + r /\ (n > 0 => r > 0)
      /\ c.total = << r, 0 >> /\ c.state = StreamBlocks(EveryByte, q)
      /\ Buffered(c.buffer, EveryByte, HashBlock * q, r)
  BY DEF KeptLast, LastOf
<1>2. HashBlock * q \in Nat
  BY <1>1, BlockSize
<1>3. (whole <=> r = HashBlock) /\ before = HashBlock * q
  <2>1. CASE r = HashBlock
    <3>1. n = HashBlock * (q + 1) + 0 /\ 0 \in 0..HashBlock - 1 /\ q + 1 \in Int
      BY <1>1, <1>2, <2>1, BlockSize
    <3>2. n % HashBlock = 0
      BY <3>1, BlockSize, Divided
    <3>3. n > 0 /\ n - HashBlock = HashBlock * q
      BY <1>1, <1>2, <2>1, BlockSize
    <3>. QED  BY <2>1, <3>2, <3>3
  <2>2. CASE r < HashBlock
    <3>1. r \in 0..HashBlock - 1 /\ q \in Int
      BY <1>1, <2>2, BlockSize
    <3>2. n % HashBlock = r
      BY <1>1, <3>1, BlockSize, Divided
    <3>3. n - r = HashBlock * q
      BY <1>1, <1>2
    <3>4. ~whole
      BY <1>1, <3>2
    <3>5. before = n - r
      BY <3>2, <3>4
    <3>. QED  BY <1>1, <2>2, <3>3, <3>4, <3>5
  <2>. QED  BY <1>1, <2>1, <2>2, BlockSize
<1>4. MaskedBlocks(n) = Append(Processed(<<>>, [i \in 1..before |-> i]),
                               Masked(IF whole THEN "K1" ELSE "K2", end))
  BY DEF MaskedBlocks
<1>5. mbedtls_cipher_cmac_finish(c).state = Append(c.state, last)
  <2>1. c.total[1] = r
    BY <1>1
  <2>. QED  BY <2>1 DEF mbedtls_cipher_cmac_finish
<1>6. IsContext(mbedtls_cipher_cmac_finish(c))
  BY DEF mbedtls_cipher_cmac_finish, IsContext
<1>7. Processed(<<>>, [i \in 1..before |-> i]) = StreamBlocks(EveryByte, q)
  <2>. DEFINE b == [i \in 1..before |-> i]
              at == HashBlock * q
  <2>1. Row(b, before) /\ before = at /\ (\A i \in 1..at : b[i] = i)
    BY <1>2, <1>3 DEF Row
  <2>. HIDE DEF b, at, before
  <2>2. StreamBlocks(EveryByte, 0) = <<>>
    BY DEF StreamBlocks
  <2>3. Follows(EveryByte, HashBlock * 0, b)
    <3>1. HashBlock * 0 = 0 /\ Len(b) = at
      <4>1. Len(b) = before
        BY <2>1, RowLength
      <4>2. HashBlock * 0 = 0
        BY BlockSize
      <4>. QED  BY <2>1, <4>1, <4>2
    <3>2. \A i \in 1..at : b[i] = EveryByte[0 + i]
      BY <2>1 DEF EveryByte
    <3>. QED  BY <3>1, <3>2 DEF Follows
  <2>4. Processed(StreamBlocks(EveryByte, 0), b) = StreamBlocks(EveryByte, 0 + (at \div HashBlock))
    BY <2>1, <2>3, MoreBlocksOf
  <2>5. at = HashBlock * q + 0 /\ 0 \in 0..HashBlock - 1 /\ at \in Nat /\ q \in Int
    BY <1>1, <1>2, BlockSize DEF at
  <2>6. at \div HashBlock = q /\ 0 + q = q
    BY <1>1, <2>5, BlockSize, Divided
  <2>. QED  BY <2>2, <2>4, <2>6 DEF b
<1>8. last = Masked(IF whole THEN "K1" ELSE "K2", end)
  <2>1. \A i \in 1..r : c.buffer[i] = HashBlock * q + i
    BY <1>1, <1>2 DEF Buffered, EveryByte
  <2>. DEFINE at == HashBlock * q
  <2>2. end = [i \in 1..HashBlock |-> IF at + i <= n THEN at + i
                                      ELSE IF at + i = n + 1 THEN Pad80 ELSE ZeroByte]
    <3>1. before = at
      BY <1>3
    <3>. HIDE DEF before, at
    <3>. QED  BY <3>1
  <2>3. at \in Nat /\ n = at + r /\ \A i \in 1..r : c.buffer[i] = at + i
    BY <1>1, <1>2, <2>1
  <2>. HIDE DEF end, at, whole
  <2>4. CASE r = HashBlock
    <3>1. \A i \in 1..HashBlock : c.buffer[i] = end[i]
      <4>1. \A i \in 1..HashBlock : at + i <= n
        BY <2>3, <2>4, BlockSize
      <4>. QED  BY <2>2, <2>3, <2>4, <4>1
    <3>2. Masked("K1", c.buffer) = Masked("K1", end)
      BY <3>1 DEF Masked
    <3>. QED  BY <1>3, <2>4, <3>2, BlockSize
  <2>5. CASE r < HashBlock
    <3>1. cmac_pad(c.buffer, r) = end
      <4>1. ASSUME NEW i \in 1..HashBlock
            PROVE  /\ at + i <= n <=> i <= r
                   /\ at + i = n + 1 <=> i = r + 1
                   /\ i <= r => c.buffer[i] = at + i
        BY <1>1, <2>3
      <4>. QED  BY <2>2, <4>1 DEF cmac_pad
    <3>2. ~whole
      BY <1>1, <1>3, <2>5, BlockSize
    <3>. QED  BY <2>5, <3>1, <3>2
  <2>. QED  BY <1>1, <2>4, <2>5, BlockSize
<1>. QED  BY <1>1, <1>4, <1>5, <1>6, <1>7, <1>8

-----------------------------------------------------------------------------
(* The inductive invariant: the context took what the message has so far    *)

HashInv ==
    /\ hash = [algorithm |-> hash.algorithm, size |-> hash.size, ctx |-> hash.ctx]
    /\ hash.algorithm \in Algorithms /\ hash.size \in Nat
    /\ hash.algorithm # "cmac" => Taken(hash.ctx, EveryByte, hash.size)
    /\ hash.algorithm = "cmac" =>
          \E q \in Nat, r \in Nat : KeptLast(hash.ctx, EveryByte, hash.size, q, r)

\* A context that starts has taken nothing.
LEMMA Fresh0 ==
  ASSUME NEW c, c.total = << 0, 0 >>, c.state = <<>>
  PROVE  Taken(c, EveryByte, 0) /\ KeptLast(c, EveryByte, 0, 0, 0)
<1>1. 0 \div HashBlock = 0 /\ 0 % HashBlock = 0 /\ HashBlock * 0 + 0 = 0
  <2>1. 0 = HashBlock * 0 + 0 /\ 0 \in 0..HashBlock - 1
    BY BlockSize
  <2>. QED  BY <2>1, BlockSize, Divided
<1>2. 0 \div WordValues = 0 /\ 0 % WordValues = 0
  <2>1. WordValues \in Nat \ {0}
    BY HashAssumption
  <2>2. 0 = WordValues * 0 + 0 /\ 0 \in 0..WordValues - 1
    BY <2>1
  <2>. QED  BY <2>1, <2>2, Divided
<1>3. StreamBlocks(EveryByte, 0) = <<>>
  BY DEF StreamBlocks
<1>4. \A m : Buffered(c.buffer, EveryByte, m, 0)
  BY DEF Buffered
<1>5. LastOf(0, 0, 0)
  BY <1>1, BlockSize DEF LastOf
<1>6. TotalOf(0) = << 0, 0 >>
  BY <1>2 DEF TotalOf
<1>. QED  BY <1>1, <1>3, <1>4, <1>5, <1>6 DEF Taken, KeptLast

LEMMA HashInit == InitHash => HashInv
<1>. SUFFICES ASSUME NEW a \in Algorithms, hash = StartedHash(a)
              PROVE  HashInv
  BY DEF InitHash
<1>1. /\ hash = [algorithm |-> hash.algorithm, size |-> hash.size, ctx |-> hash.ctx]
      /\ hash.algorithm = a /\ hash.size = 0
      /\ hash.ctx.total = << 0, 0 >> /\ hash.ctx.state = <<>>
  BY DEF StartedHash
<1>2. Taken(hash.ctx, EveryByte, hash.size) /\ KeptLast(hash.ctx, EveryByte, hash.size, 0, 0)
  BY <1>1, Fresh0
<1>3. \E q \in Nat, r \in Nat : KeptLast(hash.ctx, EveryByte, hash.size, q, r)
  <2>1. 0 \in Nat
    OBVIOUS
  <2>. QED  BY <1>2, <2>1
<1>4. hash.algorithm \in Algorithms /\ hash.size \in Nat
  BY <1>1
<1>. QED  BY <1>1, <1>2, <1>3, <1>4, Zenon DEF HashInv

\* What is processed at the end, and the shape of the context then.
LEMMA HashFinished ==
  ASSUME HashInv
  PROVE  DigestOfWhole /\ IsContext(FinishOf(hash.ctx))
<1>. DEFINE n == hash.size
            c == hash.ctx
            low == Word((8 * n) % WordValues)
            high == Word(((8 * n) \div WordValues) % WordValues)
<1>1. n \in Nat /\ hash.algorithm \in Algorithms
  BY DEF HashInv
<1>2. CASE hash.algorithm = "cmac"
  <2>1. PICK q \in Nat, r \in Nat : KeptLast(c, EveryByte, n, q, r)
    BY <1>2 DEF HashInv
  <2>2. FinishOf(c) = mbedtls_cipher_cmac_finish(c)
    BY <1>2 DEF FinishOf
  <2>. QED  BY <1>1, <1>2, <2>1, <2>2, CmacFinished DEF DigestOfWhole
<1>3. CASE hash.algorithm # "cmac"
  <2>. DEFINE w == IF hash.algorithm = "md5" THEN << low, high >> ELSE << high, low >>
              u == Updated(Updated(c, Padding(c.total)), w)
  <2>1. Taken(c, EveryByte, n)
    BY <1>3 DEF HashInv
  <2>2. low = Word(LengthLow(c.total)) /\ high = Word(LengthHigh(c.total))
    BY <1>1, <2>1, LengthWords DEF Taken
  <2>3. FinishOf(c) = u
    BY <1>1, <1>3, <2>2 DEF FinishOf, Algorithms, mbedtls_md5_finish, mbedtls_sha1_finish,
       mbedtls_sha256_finish, mbedtls_md5_update, mbedtls_sha1_update, mbedtls_sha256_update
  <2>4. Padded(n) = Paddeds(n, w)
    <3>1. w = IF hash.algorithm = "md5" THEN << << high, low >>[2], << high, low >>[1] >>
              ELSE << high, low >>
      OBVIOUS
    <3>. QED  BY <3>1 DEF Padded, Paddeds, Zeros, Message
  <2>5. Row(w, 2)
    <3>. HIDE DEF low, high
    <3>. QED  BY DEF Row
  <2>. HIDE DEF w
  <2>6. u.state = Processed(<<>>, Paddeds(n, w)) /\ IsContext(u)
    BY <1>1, <2>1, <2>5, FinishedTakes
  <2>. QED  BY <1>3, <2>3, <2>4, <2>6 DEF DigestOfWhole
<1>. QED  BY <1>2, <1>3

LEMMA HashNext == HashInv /\ [UpdateHash \/ FinishHash]_hash => HashInv'
<1>. SUFFICES ASSUME HashInv, [UpdateHash \/ FinishHash]_hash
              PROVE  HashInv'
  OBVIOUS
<1>1. /\ hash = [algorithm |-> hash.algorithm, size |-> hash.size, ctx |-> hash.ctx]
      /\ hash.algorithm \in Algorithms /\ hash.size \in Nat
  BY DEF HashInv
<1>2. CASE UpdateHash
  <2>1. PICK n \in HashPieces :
          hash' = [hash EXCEPT !.size = @ + n,
                               !.ctx = UpdateOf(@, [i \in 1..n |-> hash.size + i])]
    BY <1>2 DEF UpdateHash
  <2>. DEFINE input == [i \in 1..n |-> hash.size + i]
  <2>2. n \in Nat /\ n <= WordValues
    BY HashAssumption
  <2>3. Row(input, n) /\ Follows(EveryByte, hash.size, input)
    <3>1. Row(input, n) /\ Len(input) = n
      BY <2>2 DEF Row
    <3>2. \A i \in 1..n : input[i] = EveryByte[hash.size + i]
      BY <1>1, <2>2 DEF EveryByte
    <3>. HIDE DEF input
    <3>. QED  BY <3>1, <3>2 DEF Follows
  <2>. HIDE DEF input
  <2>4. /\ hash' = [algorithm |-> hash'.algorithm, size |-> hash'.size, ctx |-> hash'.ctx]
        /\ hash'.algorithm = hash.algorithm /\ hash'.size = hash.size + n
        /\ hash'.ctx = UpdateOf(hash.ctx, input)
    BY <1>1, <2>1 DEF input
  <2>5. CASE hash.algorithm = "cmac"
    <3>1. PICK q \in Nat, r \in Nat : KeptLast(hash.ctx, EveryByte, hash.size, q, r)
      BY <2>5 DEF HashInv
    <3>2. \E p \in Nat, t \in Nat :
            KeptLast(mbedtls_cipher_cmac_update(hash.ctx, input), EveryByte, hash.size + n, p, t)
      BY <1>1, <2>3, <3>1, CmacTakes
    <3>3. hash'.ctx = mbedtls_cipher_cmac_update(hash.ctx, input)
      BY <2>4, <2>5 DEF UpdateOf
    <3>4. hash.size + n \in Nat
      BY <1>1, <2>2
    <3>. QED  BY <1>1, <2>4, <2>5, <3>2, <3>3, <3>4 DEF HashInv
  <2>6. CASE hash.algorithm # "cmac"
    <3>1. Taken(Updated(hash.ctx, input), EveryByte, hash.size + n)
      <4>1. Taken(hash.ctx, EveryByte, hash.size)
        BY <2>6 DEF HashInv
      <4>. QED  BY <1>1, <2>2, <2>3, <4>1, UpdatedTakes
    <3>2. hash'.ctx = Updated(hash.ctx, input)
      BY <1>1, <2>4, <2>6 DEF UpdateOf, Algorithms, mbedtls_md5_update, mbedtls_sha1_update,
         mbedtls_sha256_update
    <3>3. hash.size + n \in Nat
      BY <1>1, <2>2
    <3>. QED  BY <1>1, <2>4, <2>6, <3>1, <3>2, <3>3 DEF HashInv
  <2>. QED  BY <2>5, <2>6
<1>3. CASE FinishHash
  <2>1. hash' = [hash EXCEPT !.size = 0, !.ctx = Started(FinishOf(@))]
    BY <1>3 DEF FinishHash
  <2>2. /\ hash' = [algorithm |-> hash'.algorithm, size |-> hash'.size, ctx |-> hash'.ctx]
        /\ hash'.algorithm = hash.algorithm /\ hash'.size = 0
        /\ hash'.ctx = Started(FinishOf(hash.ctx))
    BY <1>1, <2>1
  <2>3. hash'.ctx.total = << 0, 0 >> /\ hash'.ctx.state = <<>>
    <3>. DEFINE f == FinishOf(hash.ctx)
    <3>1. f = [total |-> f.total, state |-> f.state, buffer |-> f.buffer]
      BY HashFinished DEF IsContext
    <3>. HIDE DEF f
    <3>2. Started(f).total = << 0, 0 >> /\ Started(f).state = <<>>
      BY <3>1 DEF Started
    <3>. QED  BY <2>2, <3>2 DEF f
  <2>4. Taken(hash'.ctx, EveryByte, 0) /\ KeptLast(hash'.ctx, EveryByte, 0, 0, 0)
    BY <2>3, Fresh0
  <2>. QED  BY <1>1, <2>2, <2>4 DEF HashInv
<1>4. CASE UNCHANGED hash
  BY <1>4 DEF HashInv
<1>. QED  BY <1>2, <1>3, <1>4

\* A digest is that of the whole message with its padding, of any length and
\* however it came in pieces, for blocks and words of any size, and after any
\* messages before.
THEOREM DigestsRight == HashSpec => []DigestOfWhole
<1>1. HashSpec => []HashInv
  BY HashInit, HashNext, PTL DEF HashSpec
<1>2. HashInv => DigestOfWhole
  BY HashFinished
<1>. QED  BY <1>1, <1>2, PTL

-----------------------------------------------------------------------------
(* What GHASH takes: the blocks of rows of bytes                            *)

Associates(a, b, c) == (a \o b) \o c = a \o (b \o c)

LEMMA JoinedThree ==
  ASSUME NEW a, NEW b, NEW c, NEW k, NEW m, NEW n, Row(a, k), Row(b, m), Row(c, n)
  PROVE  Associates(a, b, c)
<1>. DEFINE S == {a[i] : i \in 1..k}
            T == {b[i] : i \in 1..m}
            U == {c[i] : i \in 1..n}
            X == S \cup T \cup U
<1>1. a \in Seq(S) /\ b \in Seq(T) /\ c \in Seq(U)
  BY RowLength
<1>2. S \subseteq X /\ T \subseteq X /\ U \subseteq X
  OBVIOUS
<1>. HIDE DEF S, T, U, X
<1>3. a \in Seq(X) /\ b \in Seq(X) /\ c \in Seq(X)
  BY <1>1, <1>2, SeqMonotonic
<1>. QED  BY <1>3, ConcatAssociative DEF Associates

LEMMA NothingJoined ==
  ASSUME NEW a, NEW n, Row(a, n)
  PROVE  a \o <<>> = a /\ <<>> \o a = a
BY RowLength, ConcatEmptySeq

GcmSize == GcmBlock \in Nat \ {0}

LEMMA GcmSized == GcmSize /\ GcmBlock \in Nat
BY GcmAssumption DEF GcmSize

\* The blocks of n bytes.
BlockRow(b, n) == [k \in 1..Blocks(n) |-> BlockAt(b, k - 1)]

LEMMA BlocksCount ==
  ASSUME NEW n \in Nat
  PROVE  Blocks(n) \in Nat
<1>1. n + GcmBlock - 1 \in Nat
  BY GcmAssumption
<1>. QED  BY <1>1, GcmSized, Division DEF Blocks, GcmSize

\* The blocks of b are taken behind a.
TakesRow(a, b, n) == Absorb(a, b) = a \o BlockRow(b, n)

LEMMA AbsorbIs ==
  ASSUME NEW a, NEW m, NEW b, NEW n, Row(a, m), Row(b, n)
  PROVE  /\ TakesRow(a, b, n)
         /\ Row(BlockRow(b, n), Blocks(n))
         /\ Row(Absorb(a, b), m + Blocks(n))
<1>1. Len(b) = n /\ n \in Nat
  BY RowLength DEF Row
<1>2. Absorb(a, b) = a \o BlockRow(b, n)
  <2>1. BlocksOf(b) = Blocks(n)
    BY <1>1 DEF BlocksOf, Blocks
  <2>. QED  BY <2>1 DEF Absorb, BlockRow
<1>3. Row(BlockRow(b, n), Blocks(n))
  BY <1>1, BlocksCount DEF Row, BlockRow
<1>4. IsJoin(a \o BlockRow(b, n), a, BlockRow(b, n), m, Blocks(n))
  BY <1>3, JoinedRows
<1>. QED  BY <1>2, <1>3, <1>4 DEF IsJoin, TakesRow

\* The block and the place in it of a byte.
LEMMA ByteInBlock ==
  ASSUME NEW n \in Nat, NEW i \in 1..n
  PROVE  /\ (i - 1) \div GcmBlock \in Nat /\ (i - 1) \div GcmBlock + 1 \in 1..Blocks(n)
         /\ ((i - 1) % GcmBlock) + 1 \in 1..GcmBlock
         /\ ((i - 1) \div GcmBlock) * GcmBlock + (((i - 1) % GcmBlock) + 1) = i
<1>. DEFINE d == GcmBlock
            q == (i - 1) \div d
            r == (i - 1) % d
            p == (n + d - 1) \div d
            t == (n + d - 1) % d
<1>1. d \in Nat \ {0}
  BY GcmAssumption
<1>. HIDE DEF d
<1>2. q \in Nat /\ r \in 0..d - 1 /\ i - 1 = d * q + r
  <2>1. i - 1 \in Nat
    OBVIOUS
  <2>. QED  BY <1>1, <2>1, Division
<1>3. p \in Nat /\ t \in 0..d - 1 /\ n + d - 1 = d * p + t
  <2>1. n + d - 1 \in Nat
    BY <1>1
  <2>. QED  BY <1>1, <2>1, Division
<1>4. Blocks(n) = p
  BY DEF Blocks, p, d
<1>. HIDE DEF q, r, p, t
<1>5. d * q \in Nat /\ d * p \in Nat /\ q * d = d * q
  BY <1>1, <1>2, <1>3
<1>6. q * d + (r + 1) = i
  BY <1>1, <1>2, <1>5
<1>7. ASSUME p < q + 1
      PROVE  FALSE
  <2>1. d * (q - p) \in Nat
    <3>1. q - p \in Nat
      BY <1>2, <1>3, <1>7
    <3>. QED  BY <1>1, <3>1
  <2>2. d * (q - p) = d * q - d * p
    BY <1>1, <1>2, <1>3
  <2>. QED  BY <1>1, <1>2, <1>3, <1>5, <2>1, <2>2
<1>. QED  BY <1>1, <1>2, <1>3, <1>4, <1>6, <1>7 DEF q, r, d

\* Bytes that are behind whole blocks are taken as if all had come at once.
LEMMA AbsorbTwice ==
  ASSUME NEW a, NEW k, Row(a, k), NEW x, NEW m, Row(x, m), m % GcmBlock = 0, NEW y, NEW n, Row(y, n)
  PROVE  Absorb(Absorb(a, x), y) = Absorb(a, x \o y)
<1>. DEFINE d == GcmBlock
            p == m \div d
            bx == BlockRow(x, m)
            by == BlockRow(y, n)
            xy == x \o y
            b == BlockRow(xy, m + n)
            e == Blocks(n)
<1>1. m \in Nat /\ n \in Nat /\ Len(x) = m /\ Len(y) = n
  BY RowLength DEF Row
<1>2. d \in Nat \ {0} /\ p \in Nat /\ m = d * p
  <2>1. d \in Nat \ {0}
    BY GcmAssumption
  <2>2. p \in Nat /\ m = d * p + (m % d)
    BY <1>1, <2>1, Division
  <2>3. m % d = 0
    OBVIOUS
  <2>. HIDE DEF d, p
  <2>4. d * p \in Nat
    BY <2>1, <2>2
  <2>. QED  BY <2>1, <2>2, <2>3, <2>4
<1>3. e \in Nat /\ Blocks(m) = p /\ Blocks(m + n) = p + e
  <2>1. e \in Nat /\ Blocks(m + n) = Blocks(m) + e
    BY <1>1, MoreBlocks
  <2>2. Blocks(m) = p
    <3>. HIDE DEF p
    <3>1. m + d - 1 = d * p + (d - 1) /\ d - 1 \in 0..d - 1 /\ m + d - 1 \in Nat /\ p \in Int
      BY <1>1, <1>2
    <3>2. (m + d - 1) \div d = p
      BY <1>2, <3>1, Divided
    <3>. QED  BY <3>2 DEF Blocks
  <2>. QED  BY <2>1, <2>2
<1>4. IsJoin(xy, x, y, m, n)
  BY JoinedRows
<1>5. Row(xy, m + n) /\ Len(xy) = m + n
  BY <1>4, RowLength DEF IsJoin
<1>. HIDE DEF e, p, xy
<1>6. ASSUME NEW i \in 1..p
      PROVE  bx[i] = b[i]
  <2>1. ASSUME NEW j \in 1..d
        PROVE  (i - 1) * d + j \in 1..m
    <3>1. d * (p - i) \in Nat /\ d * (i - 1) \in Nat
      <4>1. p - i \in Nat /\ i - 1 \in Nat
        BY <1>2
      <4>. QED  BY <1>2, <4>1
    <3>2. d * (p - i) = d * p - d * (i - 1) - d /\ (i - 1) * d = d * (i - 1)
      BY <1>2
    <3>3. d * p \in Nat
      BY <1>2
    <3>. QED  BY <1>1, <1>2, <3>1, <3>2, <3>3
  <2>2. BlockAt(x, i - 1) = BlockAt(xy, i - 1)
    <3>1. ASSUME NEW j \in 1..d
          PROVE  /\ (i - 1) * d + j <= m /\ (i - 1) * d + j <= m + n
                 /\ xy[(i - 1) * d + j] = x[(i - 1) * d + j]
      <4>1. (i - 1) * d + j \in 1..m
        BY <2>1
      <4>2. xy[(i - 1) * d + j] = x[(i - 1) * d + j]
        BY <4>1, <1>4 DEF IsJoin
      <4>. DEFINE at == (i - 1) * d + j
      <4>. HIDE DEF at
      <4>3. at \in 1..m
        BY <4>1 DEF at
      <4>4. at <= m /\ at <= m + n
        BY <1>1, <4>3
      <4>. QED  BY <4>2, <4>4 DEF at
    <3>. QED  BY <1>1, <1>5, <3>1 DEF BlockAt
  <2>3. i \in 1..p + e
    BY <1>2, <1>3
  <2>. QED  BY <1>3, <2>2, <2>3 DEF BlockRow
<1>7. ASSUME NEW i \in 1..e
      PROVE  by[i] = b[p + i]
  <2>1. BlockAt(y, i - 1) = BlockAt(xy, p + i - 1)
    <3>1. ASSUME NEW j \in 1..d
          PROVE  /\ (i - 1) * d + j <= n <=> (p + i - 1) * d + j <= m + n
                 /\ (i - 1) * d + j <= n => xy[(p + i - 1) * d + j] = y[(i - 1) * d + j]
      <4>. DEFINE at == (i - 1) * d + j
                  far == (p + i - 1) * d + j
      <4>1. far = m + at /\ at \in Nat /\ at > 0
        <5>1. (p + i - 1) * d = d * p + (i - 1) * d
          BY <1>2, <1>3
        <5>2. (i - 1) * d \in Nat /\ d * p \in Nat
          <6>1. i - 1 \in Nat
            BY <1>3
          <6>. QED  BY <1>2, <6>1
        <5>. QED  BY <1>2, <5>1, <5>2
      <4>. HIDE DEF at, far
      <4>2. at <= n <=> far <= m + n
        BY <1>1, <4>1
      <4>3. ASSUME at <= n
            PROVE  xy[far] = y[at]
        <5>1. at \in 1..n
          BY <1>1, <4>1, <4>3
        <5>. QED  BY <1>4, <4>1, <5>1 DEF IsJoin
      <4>. QED  BY <4>2, <4>3 DEF at, far
    <3>. QED  BY <1>1, <1>5, <3>1 DEF BlockAt
  <2>2. p + i \in 1..p + e
    BY <1>2, <1>3
  <2>3. b[p + i] = BlockAt(xy, p + i - 1)
    <3>1. p + i \in 1..Blocks(m + n)
      BY <1>3, <2>2
    <3>. DEFINE z == p + i
    <3>. HIDE DEF z
    <3>2. z \in 1..Blocks(m + n)
      BY <3>1 DEF z
    <3>3. b[z] = BlockAt(xy, z - 1)
      BY <3>2 DEF BlockRow
    <3>4. p + i = z /\ p + i - 1 = z - 1
      BY <1>2, <1>3 DEF z
    <3>. HIDE DEF b
    <3>. QED  BY <3>3, <3>4
  <2>4. by[i] = BlockAt(y, i - 1)
    BY DEF BlockRow, e
  <2>. QED  BY <2>1, <2>3, <2>4
<1>8. Row(bx, p) /\ Row(by, e) /\ Row(b, p + e)
  BY <1>2, <1>3 DEF Row, BlockRow, e
<1>9. Absorb(a, x) = a \o bx /\ Row(a \o bx, k + p)
  <2>1. Absorb(a, x) = a \o bx
    <3>1. TakesRow(a, x, m)
      BY AbsorbIs
    <3>. QED  BY <3>1 DEF TakesRow
  <2>2. IsJoin(a \o bx, a, bx, k, p)
    BY <1>8, JoinedRows
  <2>. QED  BY <2>1, <2>2 DEF IsJoin
<1>10. Absorb(Absorb(a, x), y) = (a \o bx) \o by
  <2>1. TakesRow(Absorb(a, x), y, n)
    <3>1. Row(Absorb(a, x), k + p)
      BY <1>9
    <3>. QED  BY <3>1, AbsorbIs
  <2>. QED  BY <1>9, <2>1 DEF TakesRow
<1>11. Absorb(a, xy) = a \o b
  <2>1. TakesRow(a, xy, m + n)
    BY <1>5, AbsorbIs
  <2>. QED  BY <2>1 DEF TakesRow
<1>. HIDE DEF bx, by, b
<1>12. bx \o by = b
  <2>1. IsJoin(bx \o by, bx, by, p, e)
    BY <1>8, JoinedRows
  <2>2. ASSUME NEW i \in 1..p + e
        PROVE  (bx \o by)[i] = b[i]
    <3>1. CASE i \in 1..p
      BY <3>1, <1>6, <2>1 DEF IsJoin
    <3>2. CASE i \notin 1..p
      <4>1. i - p \in 1..e /\ p + (i - p) = i
        BY <1>2, <1>3, <3>2
      <4>2. (bx \o by)[p + (i - p)] = by[i - p] /\ by[i - p] = b[p + (i - p)]
        BY <4>1, <1>7, <2>1 DEF IsJoin
      <4>. QED  BY <4>1, <4>2
    <3>. QED  BY <3>1, <3>2
  <2>. QED  BY <1>8, <2>1, <2>2, EqualRows DEF IsJoin
<1>13. (a \o bx) \o by = a \o (bx \o by)
  <2>1. Associates(a, bx, by)
    BY <1>8, JoinedThree
  <2>. QED  BY <2>1 DEF Associates
<1>. QED  BY <1>10, <1>11, <1>12, <1>13 DEF xy
-----------------------------------------------------------------------------
(* What a context has taken, and its tag                                    *)

First(start) == [iv |-> start.iv, ctr |-> start.ctr]
Began(start) == Absorb(<<>>, Additional(start.add))

\* A context of a message that began so and has the cipher text b.
HashedSo(ctx, mode, start, b) ==
    /\ ctx.mode = mode /\ ctx.base = First(start) /\ ctx.add = start.add
    /\ ctx.buf = Absorb(Began(start), b)

TagOf(start, b, n) ==
    [i \in 1..GcmBlock |->
        Xor(Stream(First(start), i - 1),
            IF n = 0 /\ start.add = 0 THEN NoByte
            ELSE {<< "ghash", Append(Absorb(Began(start), b), << start.add, n >>), i >>})]

LEMMA StartIs ==
  ASSUME NEW start \in Starts
  PROVE  /\ start.add \in Nat /\ IsCounter(First(start))
         /\ Row(Began(start), Blocks(start.add))
         /\ \A other \in Starts : First(other) = First(start) /\ other.add = start.add => other = start
<1>1. /\ start = [iv |-> start.iv, ctr |-> start.ctr, add |-> start.add]
      /\ start.add \in Nat /\ start.ctr \in 0..Counters - 1
  BY GcmAssumption
<1>2. Row(Began(start), Blocks(start.add))
  <2>. DEFINE a == Additional(start.add)
  <2>1. Row(a, start.add)
    BY <1>1 DEF Row, Additional
  <2>2. Row(<<>>, 0)
    BY DEF Row
  <2>. HIDE DEF a
  <2>3. Row(Absorb(<<>>, a), 0 + Blocks(start.add))
    BY <2>1, <2>2, AbsorbIs
  <2>4. 0 + Blocks(start.add) = Blocks(start.add)
    BY <1>1, BlocksCount
  <2>. QED  BY <2>3, <2>4 DEF Began, a
<1>3. ASSUME NEW other \in Starts, First(other) = First(start), other.add = start.add
      PROVE  other = start
  <2>1. other = [iv |-> other.iv, ctr |-> other.ctr, add |-> other.add]
    BY GcmAssumption
  <2>2. other.iv = start.iv /\ other.ctr = start.ctr
    BY <1>3 DEF First
  <2>. QED  BY <1>1, <1>3, <2>1, <2>2
<1>. QED  BY <1>1, <1>2, <1>3 DEF IsCounter, First

LEMMA FinishIs ==
  ASSUME NEW ctx, NEW mode, NEW start, NEW b, HashedSo(ctx, mode, start, b)
  PROVE  mbedtls_gcm_finish(ctx) = TagOf(start, b, ctx.len)
BY DEF HashedSo, mbedtls_gcm_finish, TagOf

LEMMA CryptedRow ==
  ASSUME NEW ctx, NEW bytes, NEW n, Row(bytes, n)
  PROVE  /\ Row(Crypted(ctx, bytes), n) /\ Row(Hashed(ctx, bytes), n)
         /\ \A i \in 1..n : Crypted(ctx, bytes)[i] =
               Xor(bytes[i], Stream(Bump(ctx.y, (i - 1) \div GcmBlock + 1), (i - 1) % GcmBlock))
<1>1. DOMAIN bytes = 1..n
  BY RowLength
<1>2. Row(Crypted(ctx, bytes), n)
  BY <1>1 DEF Row, Crypted
<1>3. Row(Hashed(ctx, bytes), n)
  BY <1>2 DEF Hashed
<1>. QED  BY <1>1, <1>2, <1>3 DEF Crypted

LEMMA StartsHashed ==
  ASSUME NEW start \in Starts, NEW mode
  PROVE  HashedSo(mbedtls_gcm_starts(mode, start), mode, start, <<>>)
<1>. DEFINE ctx == mbedtls_gcm_starts(mode, start)
<1>1. ctx.mode = mode /\ ctx.base = First(start) /\ ctx.add = start.add /\ ctx.buf = Began(start)
  BY DEF mbedtls_gcm_starts, First, Began
<1>2. Absorb(Began(start), <<>>) = Began(start)
  <2>1. Row(<<>>, 0) /\ Row(Began(start), Blocks(start.add))
    BY StartIs DEF Row
  <2>2. TakesRow(Began(start), <<>>, 0)
    BY <2>1, AbsorbIs
  <2>3. Blocks(0) = 0
    <3>1. 0 + GcmBlock - 1 = GcmBlock * 0 + (GcmBlock - 1) /\ GcmBlock - 1 \in 0..GcmBlock - 1
          /\ 0 + GcmBlock - 1 \in Nat
      BY GcmSized DEF GcmSize
    <3>. QED  BY <3>1, GcmSized, Divided DEF Blocks, GcmSize
  <2>4. BlockRow(<<>>, 0) = <<>>
    BY <2>3 DEF BlockRow
  <2>5. Began(start) \o <<>> = Began(start)
    BY <2>1, NothingJoined
  <2>. QED  BY <2>2, <2>4, <2>5 DEF TakesRow
<1>. QED  BY <1>1, <1>2 DEF HashedSo

LEMMA UpdateHashed ==
  ASSUME NEW ctx, Context(ctx, TRUE), NEW mode, NEW start \in Starts, NEW b, Row(b, ctx.len),
         HashedSo(ctx, mode, start, b), NEW bytes, NEW n, Row(bytes, n)
  PROVE  HashedSo(mbedtls_gcm_update(ctx, bytes), mode, start, b \o Hashed(ctx, bytes))
<1>. DEFINE h == Hashed(ctx, bytes)
            new == mbedtls_gcm_update(ctx, bytes)
<1>1. new.mode = ctx.mode /\ new.base = ctx.base /\ new.add = ctx.add /\ new.buf = Absorb(ctx.buf, h)
  <2>. DEFINE y == Bump(ctx.y, BlocksOf(bytes))
              buf == Absorb(ctx.buf, h)
              used == ctx.used \cup {Bump(ctx.y, j) : j \in 1..BlocksOf(bytes)}
              len == ctx.len + Len(bytes)
  <2>1. new = [ctx EXCEPT !.len = len, !.y = y, !.buf = buf, !.used = used]
    BY DEF mbedtls_gcm_update
  <2>2. ctx = [mode |-> ctx.mode, y |-> ctx.y, base |-> ctx.base, len |-> ctx.len,
               add |-> ctx.add, buf |-> ctx.buf, used |-> ctx.used]
    BY DEF Context
  <2>. HIDE DEF new, len, y, buf, used
  <2>3. new.mode = ctx.mode /\ new.base = ctx.base /\ new.add = ctx.add /\ new.buf = buf
    BY <2>1, <2>2
  <2>. QED  BY <2>3 DEF buf
<1>2. Row(h, n)
  BY CryptedRow
<1>. HIDE DEF h, new
<1>3. Absorb(Absorb(Began(start), b), h) = Absorb(Began(start), b \o h)
  <2>1. ctx.len % GcmBlock = 0 /\ Row(Began(start), Blocks(start.add))
    BY StartIs DEF Context
  <2>. QED  BY <1>2, <2>1, AbsorbTwice
<1>. QED  BY <1>1, <1>3 DEF HashedSo, h, new

\* Equal tags are of the same start and the same cipher text.
LEMMA EqualTags ==
  ASSUME NEW s \in Starts, NEW t \in Starts, NEW n \in Nat, NEW b, NEW c, Row(b, n), Row(c, n),
         TagOf(s, b, n) = TagOf(t, c, n)
  PROVE  s = t /\ b = c
<1>. DEFINE Took(r, e) == Append(Absorb(Began(r), e), << r.add, n >>)
            Hash(r, e) == IF n = 0 /\ r.add = 0 THEN NoByte ELSE {<< "ghash", Took(r, e), 1 >>}
            Mask(r) == {<< "key", First(r), 0 >>}
<1>1. Xor(Mask(s), Hash(s, b)) = Xor(Mask(t), Hash(t, c))
  <2>1. 1 \in 1..GcmBlock /\ 1 - 1 = 0
    BY GcmSized DEF GcmSize
  <2>2. TagOf(s, b, n)[1] = Xor(Mask(s), Hash(s, b)) /\ TagOf(t, c, n)[1] = Xor(Mask(t), Hash(t, c))
    BY <2>1 DEF TagOf, Stream
  <2>. QED  BY <2>2
<1>. HIDE DEF Took
<1>2. First(s) = First(t)
  <2>1. << "key", First(s), 0 >> \in Xor(Mask(s), Hash(s, b))
    <3>1. << "key", First(s), 0 >> \notin Hash(s, b)
      BY DEF NoByte
    <3>. QED  BY <3>1 DEF Xor
  <2>2. << "key", First(s), 0 >> \in Mask(t) \cup Hash(t, c)
    BY <1>1, <2>1 DEF Xor
  <2>3. << "key", First(s), 0 >> \notin Hash(t, c)
    BY DEF NoByte
  <2>4. << "key", First(s), 0 >> = << "key", First(t), 0 >>
    BY <2>2, <2>3
  <2>. QED  BY <2>4
<1>3. Hash(s, b) = Hash(t, c)
  <2>1. Mask(s) = Mask(t)
    BY <1>2
  <2>2. \A x, y, z : Xor(x, y) = Xor(x, z) => y = z
    BY DEF Xor
  <2>. HIDE DEF Mask, Hash
  <2>. QED  BY <1>1, <2>1, <2>2
<1>4. s.add \in Nat /\ t.add \in Nat
  BY StartIs
<1>5. CASE n = 0 /\ s.add = 0 /\ t.add = 0
  <2>1. s = t
    BY <1>2, <1>5, StartIs
  <2>2. b = c
    BY <1>5, EqualRows
  <2>. QED  BY <2>1, <2>2
<1>6. CASE ~(n = 0 /\ s.add = 0 /\ t.add = 0)
  <2>1. << "ghash", Took(s, b), 1 >> = << "ghash", Took(t, c), 1 >>
    BY <1>3, <1>6 DEF NoByte
  <2>2. Took(s, b) = Took(t, c)
    BY <2>1
  <2>. DEFINE p == Blocks(s.add)
              q == Blocks(t.add)
              e == Blocks(n)
              x == Absorb(Began(s), b)
              y == Absorb(Began(t), c)
              k == p + e
              l == q + e
  <2>3. p \in Nat /\ q \in Nat /\ e \in Nat /\ Row(Began(s), p) /\ Row(Began(t), q)
    BY <1>4, BlocksCount, StartIs
  <2>4. Row(x, k) /\ Row(y, l) /\ TakesRow(Began(s), b, n) /\ TakesRow(Began(t), c, n)
        /\ Row(BlockRow(b, n), e) /\ Row(BlockRow(c, n), e)
    BY <2>3, AbsorbIs
  <2>5. Took(s, b) = Append(x, << s.add, n >>) /\ Took(t, c) = Append(y, << t.add, n >>)
    BY DEF Took
  <2>. HIDE DEF p, q, e, x, y
  <2>6. IsJoin(Took(s, b), x, << << s.add, n >> >>, k, 1)
    BY <2>4, <2>5, AppendedRow
  <2>7. IsJoin(Took(t, c), y, << << t.add, n >> >>, l, 1)
    BY <2>4, <2>5, AppendedRow
  <2>8. k + 1 = l + 1 /\ k \in Nat /\ l \in Nat
    <3>1. Row(Took(s, b), k + 1) /\ Row(Took(t, c), l + 1)
      BY <2>6, <2>7 DEF IsJoin
    <3>2. Len(Took(s, b)) = k + 1 /\ Len(Took(t, c)) = l + 1
      BY <3>1, RowLength
    <3>3. k \in Nat /\ l \in Nat
      BY <2>3
    <3>. QED  BY <2>2, <3>2, <3>3
  <2>9. k = l
    BY <2>8
  <2>10. /\ 1 \in 1..1
         /\ << << s.add, n >> >>[1] = << s.add, n >> /\ << << t.add, n >> >>[1] = << t.add, n >>
    OBVIOUS
  <2>11. << s.add, n >> = << t.add, n >>
    BY <2>2, <2>6, <2>7, <2>9, <2>10 DEF IsJoin
  <2>12. s.add = t.add
    BY <2>11
  <2>13. s = t
    BY <1>2, <2>12, StartIs
  <2>14. x = y
    <3>1. \A i \in 1..k : x[i] = y[i]
      BY <2>2, <2>6, <2>7, <2>9 DEF IsJoin
    <3>. QED  BY <2>4, <2>9, <3>1, EqualRows
  <2>15. BlockRow(b, n) = BlockRow(c, n)
    <3>1. IsJoin(x, Began(s), BlockRow(b, n), p, e)
      <4>1. x = Began(s) \o BlockRow(b, n)
        BY <2>4 DEF TakesRow, x
      <4>2. IsJoin(Began(s) \o BlockRow(b, n), Began(s), BlockRow(b, n), p, e)
        BY <2>3, <2>4, JoinedRows
      <4>. QED  BY <4>1, <4>2
    <3>2. IsJoin(y, Began(t), BlockRow(c, n), q, e)
      <4>1. y = Began(t) \o BlockRow(c, n)
        BY <2>4 DEF TakesRow, y
      <4>2. IsJoin(Began(t) \o BlockRow(c, n), Began(t), BlockRow(c, n), q, e)
        BY <2>3, <2>4, JoinedRows
      <4>. QED  BY <4>1, <4>2
    <3>3. p = q
      BY <2>12 DEF p, q
    <3>4. \A i \in 1..e : BlockRow(b, n)[i] = BlockRow(c, n)[i]
      BY <2>14, <3>1, <3>2, <3>3 DEF IsJoin
    <3>. QED  BY <2>4, <3>4, EqualRows
  <2>16. ASSUME NEW i \in 1..n
         PROVE  b[i] = c[i]
    <3>. DEFINE u == (i - 1) \div GcmBlock
                v == ((i - 1) % GcmBlock) + 1
    <3>1. u \in Nat /\ u + 1 \in 1..Blocks(n) /\ v \in 1..GcmBlock /\ u * GcmBlock + v = i
      BY ByteInBlock
    <3>. HIDE DEF u, v
    <3>2. u + 1 - 1 = u
      BY <3>1
    <3>3. BlockRow(b, n)[u + 1] = BlockAt(b, u) /\ BlockRow(c, n)[u + 1] = BlockAt(c, u)
      BY <3>1, <3>2 DEF BlockRow
    <3>4. BlockAt(b, u)[v] = BlockAt(c, u)[v]
      BY <2>15, <3>3
    <3>5. Len(b) = n /\ Len(c) = n /\ i <= n
      <4>1. Len(b) = n /\ Len(c) = n
        BY RowLength
      <4>. QED  BY <4>1
    <3>6. BlockAt(b, u)[v] = b[i] /\ BlockAt(c, u)[v] = c[i]
      BY <3>1, <3>5 DEF BlockAt
    <3>. QED  BY <3>4, <3>6
  <2>17. b = c
    BY <2>16, EqualRows
  <2>. QED  BY <2>13, <2>17
<1>. QED  BY <1>5, <1>6
-----------------------------------------------------------------------------
(* The bytes of a message                                                   *)

KeyByte(start, i) == Stream(Bump(First(start), (i - 1) \div GcmBlock + 1), (i - 1) % GcmBlock)
PlainByte(i) == {<< "plain", i >>}
CipherByte(start, i) == Xor(PlainByte(i), KeyByte(start, i))

\* The cipher text of a message of n bytes that comes at once.
Cipher(start, n) == Crypted(mbedtls_gcm_starts("ENCRYPT", start), Plain(0, n))

LEMMA PlainRow ==
  ASSUME NEW from \in Nat, NEW n \in Nat
  PROVE  Row(Plain(from, n), n) /\ \A i \in 1..n : Plain(from, n)[i] = PlainByte(from + i)
BY DEF Row, Plain, PlainByte

LEMMA CipherRow ==
  ASSUME NEW start \in Starts, NEW n \in Nat
  PROVE  Row(Cipher(start, n), n) /\ \A i \in 1..n : Cipher(start, n)[i] = CipherByte(start, i)
<1>. DEFINE ctx == mbedtls_gcm_starts("ENCRYPT", start)
            p == Plain(0, n)
<1>1. Row(p, n) /\ \A i \in 1..n : p[i] = PlainByte(i)
  <2>1. \A i \in 1..n : 0 + i = i
    OBVIOUS
  <2>. QED  BY <2>1, PlainRow
<1>2. ctx.y = First(start)
  BY DEF mbedtls_gcm_starts, First
<1>3. Cipher(start, n) = Crypted(ctx, p)
  BY DEF Cipher
<1>. HIDE DEF ctx, p
<1>4. /\ Row(Crypted(ctx, p), n)
      /\ \A i \in 1..n : Crypted(ctx, p)[i] =
            Xor(p[i], Stream(Bump(ctx.y, (i - 1) \div GcmBlock + 1), (i - 1) % GcmBlock))
  BY <1>1, CryptedRow
<1>. QED  BY <1>1, <1>2, <1>3, <1>4 DEF CipherByte, KeyByte

\* A byte of a piece that is behind whole blocks has the key of its place in the message.
LEMMA KeyOfPiece ==
  ASSUME NEW ctx, Context(ctx, TRUE), NEW start, ctx.base = First(start), NEW i \in Nat \ {0}
  PROVE  Stream(Bump(ctx.y, (i - 1) \div GcmBlock + 1), (i - 1) % GcmBlock)
            = KeyByte(start, ctx.len + i)
<1>. DEFINE d == GcmBlock
            len == ctx.len
            p == len \div d
            q == (i - 1) \div d
            r == (i - 1) % d
<1>1. /\ d \in Nat \ {0} /\ len \in Nat /\ len % d = 0 /\ IsCounter(ctx.base)
      /\ ctx.y = Bump(ctx.base, Blocks(len))
  BY GcmAssumption DEF Context
<1>2. p \in Nat /\ len = d * p /\ Blocks(len) = p
  <2>. HIDE DEF d, len
  <2>1. p \in Nat /\ len = d * p + (len % d)
    BY <1>1, Division
  <2>. HIDE DEF p
  <2>2. d * p \in Nat
    BY <1>1, <2>1
  <2>3. len = d * p
    BY <1>1, <2>1, <2>2
  <2>4. len + d - 1 = d * p + (d - 1) /\ d - 1 \in 0..d - 1 /\ len + d - 1 \in Nat /\ p \in Int
    BY <1>1, <2>1, <2>2, <2>3
  <2>5. (len + d - 1) \div d = p
    BY <1>1, <2>4, Divided
  <2>. QED  BY <2>1, <2>3, <2>5 DEF Blocks, d
<1>. HIDE DEF len, p
<1>3. q \in Nat /\ r \in 0..d - 1 /\ i - 1 = d * q + r
  <2>. HIDE DEF d
  <2>1. i - 1 \in Nat
    OBVIOUS
  <2>. QED  BY <1>1, <2>1, Division
<1>4. ((len + i) - 1) \div d = p + q /\ ((len + i) - 1) % d = r
  <2>. HIDE DEF d, q, r
  <2>1. d * (p + q) = d * p + d * q /\ d * p \in Nat /\ d * q \in Nat
    BY <1>1, <1>2, <1>3
  <2>. DEFINE t == (len + i) - 1
  <2>2. t = d * (p + q) + r /\ t \in Nat /\ p + q \in Int
    BY <1>1, <1>2, <1>3, <2>1
  <2>. HIDE DEF t
  <2>3. t \div d = p + q /\ t % d = r
    BY <1>1, <1>3, <2>2, Divided
  <2>. QED  BY <2>3 DEF t
<1>5. Bump(ctx.y, q + 1) = Bump(ctx.base, p + (q + 1)) /\ p + (q + 1) = (p + q) + 1
  <2>. HIDE DEF q
  <2>1. q + 1 \in Nat /\ p + (q + 1) = (p + q) + 1
    BY <1>2, <1>3
  <2>2. Bump(Bump(ctx.base, p), q + 1) = Bump(ctx.base, p + (q + 1))
    BY <1>1, <1>2, <2>1, BumpFacts
  <2>. QED  BY <1>1, <1>2, <2>1, <2>2
<1>6. KeyByte(start, len + i) = Stream(Bump(First(start), (p + q) + 1), r)
  <2>. HIDE DEF q, r
  <2>. QED  BY <1>4 DEF KeyByte, d
<1>. QED  BY <1>5, <1>6 DEF q, r, d, len

\* What is joined is the row j.
JoinsTo(s, t, j) == s \o t = j

LEMMA JoinIs ==
  ASSUME NEW s, NEW t, NEW j, NEW m, NEW n, Row(s, m), Row(t, n), IsJoin(j, s, t, m, n)
  PROVE  JoinsTo(s, t, j)
<1>. DEFINE k == s \o t
<1>1. IsJoin(k, s, t, m, n)
  BY JoinedRows
<1>. HIDE DEF k
<1>2. Row(k, m + n) /\ Row(j, m + n) /\ m \in Nat /\ n \in Nat
  BY <1>1 DEF IsJoin
<1>3. ASSUME NEW i \in 1..m + n
      PROVE  k[i] = j[i]
  <2>1. CASE i \in 1..m
    BY <2>1, <1>1 DEF IsJoin
  <2>2. CASE i \notin 1..m
    <3>1. i - m \in 1..n /\ m + (i - m) = i
      BY <1>2, <2>2
    <3>2. k[m + (i - m)] = t[i - m] /\ j[m + (i - m)] = t[i - m]
      BY <1>1, <3>1 DEF IsJoin
    <3>. QED  BY <3>1, <3>2
  <2>. QED  BY <2>1, <2>2
<1>4. k = j
  BY <1>2, <1>3, EqualRows
<1>. QED  BY <1>4 DEF k, JoinsTo

LEMMA CipherGrows ==
  ASSUME NEW start \in Starts, NEW m \in Nat, NEW piece, NEW n, Row(piece, n),
         \A i \in 1..n : piece[i] = CipherByte(start, m + i)
  PROVE  JoinsTo(Cipher(start, m), piece, Cipher(start, m + n))
<1>. DEFINE s == Cipher(start, m)
            j == Cipher(start, m + n)
<1>1. n \in Nat /\ m + n \in Nat
  BY DEF Row
<1>2. Row(s, m) /\ Row(j, m + n)
  BY <1>1, CipherRow
<1>3. \A i \in 1..m : s[i] = CipherByte(start, i)
  BY CipherRow
<1>4. \A i \in 1..m + n : j[i] = CipherByte(start, i)
  BY <1>1, CipherRow
<1>. HIDE DEF s, j
<1>5. \A i \in 1..m : i \in 1..m + n
  BY <1>1
<1>6. \A i \in 1..n : m + i \in 1..m + n
  BY <1>1
<1>7. IsJoin(j, s, piece, m, n)
  BY <1>1, <1>2, <1>3, <1>4, <1>5, <1>6 DEF IsJoin
<1>8. JoinsTo(s, piece, j)
  BY <1>2, <1>7, JoinIs
<1>. QED  BY <1>8 DEF s, j

LEMMA PlainGrows ==
  ASSUME NEW m \in Nat, NEW piece, NEW n, Row(piece, n),
         \A i \in 1..n : piece[i] = PlainByte(m + i)
  PROVE  JoinsTo(Plain(0, m), piece, Plain(0, m + n))
<1>. DEFINE s == Plain(0, m)
            j == Plain(0, m + n)
<1>1. n \in Nat /\ m + n \in Nat /\ 0 \in Nat
  BY DEF Row
<1>2. Row(s, m) /\ Row(j, m + n)
  BY <1>1, PlainRow
<1>3. \A i \in 1..m : s[i] = PlainByte(i)
  BY DEF Plain, PlainByte
<1>4. \A i \in 1..m + n : j[i] = PlainByte(i)
  BY <1>1 DEF Plain, PlainByte
<1>. HIDE DEF s, j
<1>5. \A i \in 1..m : i \in 1..m + n
  BY <1>1
<1>6. \A i \in 1..n : m + i \in 1..m + n
  BY <1>1
<1>7. IsJoin(j, s, piece, m, n)
  BY <1>1, <1>2, <1>3, <1>4, <1>5, <1>6 DEF IsJoin
<1>8. JoinsTo(s, piece, j)
  BY <1>2, <1>7, JoinIs
<1>. QED  BY <1>8 DEF s, j

\* The key of a byte, twice.
LEMMA XorTwice == \A a, b : Xor(Xor(a, b), b) = a
BY DEF Xor

-----------------------------------------------------------------------------
(* The inductive invariant: the wire has the cipher text of the message, the *)
(* receiver its beginning, and both contexts took what they have of it       *)

SealedGcm(g) ==
    /\ g.start \in Starts
    /\ g.wire = Cipher(g.start, g.sender.len)
    /\ g.got = Plain(0, g.receiver.len)
    /\ HashedSo(g.sender, "ENCRYPT", g.start, g.wire)
    /\ HashedSo(g.receiver, "DECRYPT", g.start, Cipher(g.start, g.receiver.len))

SealedInv == GcmInv /\ SealedGcm(gcm)

LEMMA SealedRecord ==
  ASSUME NEW start \in Starts, NEW s, NEW r, NEW wire, NEW got, NEW sent, NEW received,
         wire = Cipher(start, s.len), got = Plain(0, r.len),
         HashedSo(s, "ENCRYPT", start, wire), HashedSo(r, "DECRYPT", start, Cipher(start, r.len))
  PROVE  SealedGcm([start |-> start, sender |-> s, receiver |-> r, wire |-> wire, got |-> got,
                    sent |-> sent, received |-> received])
BY DEF SealedGcm

LEMMA SealedInit == InitGcm => SealedInv
<1>. SUFFICES ASSUME NEW start \in Starts, gcm = StartedGcm(start)
              PROVE  SealedGcm(gcm)
  BY GcmInit DEF InitGcm, SealedInv
<1>. DEFINE s == mbedtls_gcm_starts("ENCRYPT", start)
            r == mbedtls_gcm_starts("DECRYPT", start)
<1>1. gcm = [start |-> start, sender |-> s, receiver |-> r, wire |-> <<>>, got |-> <<>>,
             sent |-> TRUE, received |-> TRUE]
  BY DEF StartedGcm
<1>2. s.len = 0 /\ r.len = 0
  BY DEF mbedtls_gcm_starts
<1>3. HashedSo(s, "ENCRYPT", start, <<>>) /\ HashedSo(r, "DECRYPT", start, <<>>)
  BY StartsHashed
<1>. HIDE DEF s, r
<1>4. Cipher(start, 0) = <<>> /\ Plain(0, 0) = <<>>
  <2>1. Row(Cipher(start, 0), 0) /\ Row(Plain(0, 0), 0)
    BY CipherRow, PlainRow
  <2>. QED  BY <2>1, RowLength, EmptySeq
<1>5. <<>> = Cipher(start, s.len) /\ <<>> = Plain(0, r.len) /\ Cipher(start, r.len) = <<>>
  BY <1>2, <1>4
<1>6. HashedSo(r, "DECRYPT", start, Cipher(start, r.len))
  BY <1>3, <1>5
<1>. QED  BY <1>1, <1>3, <1>5, <1>6, SealedRecord

LEMMA SendSealed == SealedInv /\ SendPiece => SealedInv'
<1>. SUFFICES ASSUME GcmInv, SealedGcm(gcm),
                     NEW n \in GcmPieces, gcm.sent, Fits(gcm.sender, Plain(0, n)),
                     LET piece == Plain(Len(gcm.wire), n)
                     IN  gcm' = [gcm EXCEPT !.sender = mbedtls_gcm_update(@, piece),
                                   !.wire = @ \o Crypted(gcm.sender, piece),
                                   !.sent = n % GcmBlock = 0]
              PROVE  SealedGcm(gcm')
  BY SendInv DEF SendPiece, SealedInv
<1>. DEFINE len == gcm.sender.len
            piece == Plain(len, n)
            new == mbedtls_gcm_update(gcm.sender, piece)
            cipher == Crypted(gcm.sender, piece)
            start == gcm.start
            whole == n % GcmBlock = 0
<1>1. n \in Nat
  BY GcmAssumption
<1>2. /\ Context(gcm.sender, gcm.sent) /\ Len(gcm.wire) = len /\ start \in Starts
      /\ gcm = [start |-> start, sender |-> gcm.sender, receiver |-> gcm.receiver,
                wire |-> gcm.wire, got |-> gcm.got, sent |-> gcm.sent, received |-> gcm.received]
      /\ gcm.wire = Cipher(start, len) /\ gcm.got = Plain(0, gcm.receiver.len)
      /\ HashedSo(gcm.sender, "ENCRYPT", start, gcm.wire)
      /\ HashedSo(gcm.receiver, "DECRYPT", start, Cipher(start, gcm.receiver.len))
  BY DEF GcmInv, GoodGcm, SealedGcm
<1>3. Context(gcm.sender, TRUE) /\ len \in Nat
  BY <1>2 DEF Context
<1>4. gcm' = [start |-> start, sender |-> new, receiver |-> gcm.receiver,
              wire |-> gcm.wire \o cipher, got |-> gcm.got,
              sent |-> whole, received |-> gcm.received]
  BY <1>2
<1>5. Row(piece, n) /\ Len(piece) = n /\ \A i \in 1..n : piece[i] = PlainByte(len + i)
  BY <1>1, <1>3, PlainRow, RowLength
<1>. HIDE DEF piece
<1>6. Row(cipher, n) /\ \A i \in 1..n : cipher[i] = CipherByte(start, len + i)
  <2>1. Row(cipher, n) /\ \A i \in 1..n : cipher[i] =
          Xor(piece[i], Stream(Bump(gcm.sender.y, (i - 1) \div GcmBlock + 1), (i - 1) % GcmBlock))
    BY <1>5, CryptedRow
  <2>. HIDE DEF cipher
  <2>2. ASSUME NEW i \in 1..n
        PROVE  cipher[i] = CipherByte(start, len + i)
    <3>1. gcm.sender.base = First(start) /\ i \in Nat \ {0}
      BY <1>2 DEF HashedSo
    <3>2. Stream(Bump(gcm.sender.y, (i - 1) \div GcmBlock + 1), (i - 1) % GcmBlock)
             = KeyByte(start, len + i)
      BY <1>3, <3>1, KeyOfPiece
    <3>. QED  BY <1>5, <2>1, <3>2 DEF CipherByte
  <2>. QED  BY <2>1, <2>2
<1>7. Hashed(gcm.sender, piece) = cipher
  BY <1>2 DEF Hashed, HashedSo
<1>. HIDE DEF cipher
<1>8. new.len = len + n
  BY <1>3, <1>5, <1>1, UpdateInv
<1>9. gcm.wire \o cipher = Cipher(start, new.len)
  <2>1. JoinsTo(Cipher(start, len), cipher, Cipher(start, len + n))
    BY <1>2, <1>3, <1>6, CipherGrows
  <2>. HIDE DEF new, len
  <2>. QED  BY <1>2, <1>8, <2>1 DEF JoinsTo
<1>10. HashedSo(new, "ENCRYPT", start, gcm.wire \o cipher)
  <2>1. Row(gcm.wire, len)
    BY <1>2, <1>3, CipherRow
  <2>2. HashedSo(new, "ENCRYPT", start, gcm.wire \o Hashed(gcm.sender, piece))
    BY <1>2, <1>3, <1>5, <2>1, UpdateHashed
  <2>. QED  BY <1>7, <2>2
<1>. DEFINE wire == gcm.wire \o cipher
<1>. HIDE DEF new, wire, whole, start
<1>11. SealedGcm([start |-> start, sender |-> new, receiver |-> gcm.receiver,
                 wire |-> wire, got |-> gcm.got, sent |-> whole, received |-> gcm.received])
  <2>1. wire = Cipher(start, new.len) /\ HashedSo(new, "ENCRYPT", start, wire)
    BY <1>9, <1>10 DEF wire
  <2>. QED  BY <1>2, <2>1, SealedRecord
<1>. QED  BY <1>4, <1>11 DEF wire
LEMMA ReceiveSealed == SealedInv /\ ReceivePiece => SealedInv'
<1>. SUFFICES ASSUME GcmInv, SealedGcm(gcm),
                     NEW n \in GcmPieces, gcm.received, Len(gcm.got) + n <= Len(gcm.wire),
                     LET piece == SubSeq(gcm.wire, Len(gcm.got) + 1, Len(gcm.got) + n)
                     IN  gcm' = [gcm EXCEPT !.receiver = mbedtls_gcm_update(@, piece),
                                   !.got = @ \o Crypted(gcm.receiver, piece),
                                   !.received = n % GcmBlock = 0]
              PROVE  SealedGcm(gcm')
  BY ReceiveInv DEF ReceivePiece, SealedInv
<1>. DEFINE at == gcm.receiver.len
            piece == SubSeq(gcm.wire, at + 1, at + n)
            new == mbedtls_gcm_update(gcm.receiver, piece)
            plain == Crypted(gcm.receiver, piece)
            start == gcm.start
            whole == n % GcmBlock = 0
<1>1. n \in Nat
  BY GcmAssumption
<1>2. /\ Context(gcm.receiver, gcm.received) /\ start \in Starts
      /\ Len(gcm.wire) = gcm.sender.len /\ Len(gcm.got) = at /\ gcm.sender.len \in Nat
      /\ gcm = [start |-> start, sender |-> gcm.sender, receiver |-> gcm.receiver,
                wire |-> gcm.wire, got |-> gcm.got, sent |-> gcm.sent, received |-> gcm.received]
      /\ gcm.wire = Cipher(start, gcm.sender.len) /\ gcm.got = Plain(0, at)
      /\ HashedSo(gcm.sender, "ENCRYPT", start, gcm.wire)
      /\ HashedSo(gcm.receiver, "DECRYPT", start, Cipher(start, at))
  BY DEF GcmInv, GoodGcm, SealedGcm, Context
<1>3. Context(gcm.receiver, TRUE) /\ at \in Nat /\ at + n <= gcm.sender.len
  BY <1>2 DEF Context
<1>4. gcm' = [start |-> start, sender |-> gcm.sender, receiver |-> new,
              wire |-> gcm.wire, got |-> gcm.got \o plain,
              sent |-> gcm.sent, received |-> whole]
  BY <1>2
<1>5. Row(piece, n) /\ Len(piece) = n /\ \A i \in 1..n : piece[i] = CipherByte(start, at + i)
  <2>. DEFINE k == gcm.sender.len
  <2>1. Row(gcm.wire, k) /\ \A i \in 1..k : gcm.wire[i] = CipherByte(start, i)
    BY <1>2, CipherRow
  <2>2. IsPart(piece, gcm.wire, at, n)
    BY <1>1, <1>3, <2>1, PartOfRow
  <2>. HIDE DEF piece
  <2>3. Row(piece, n) /\ Len(piece) = n
    BY <2>2, RowLength DEF IsPart
  <2>4. \A i \in 1..n : piece[i] = gcm.wire[at + i]
    BY <2>2 DEF IsPart
  <2>5. \A i \in 1..n : at + i \in 1..k
    BY <1>1, <1>2, <1>3
  <2>. QED  BY <2>1, <2>3, <2>4, <2>5
<1>. HIDE DEF piece
<1>6. Row(plain, n) /\ \A i \in 1..n : plain[i] = PlainByte(at + i)
  <2>1. Row(plain, n) /\ \A i \in 1..n : plain[i] =
          Xor(piece[i], Stream(Bump(gcm.receiver.y, (i - 1) \div GcmBlock + 1), (i - 1) % GcmBlock))
    BY <1>5, CryptedRow
  <2>. HIDE DEF plain
  <2>2. ASSUME NEW i \in 1..n
        PROVE  plain[i] = PlainByte(at + i)
    <3>1. gcm.receiver.base = First(start) /\ i \in Nat \ {0}
      BY <1>2 DEF HashedSo
    <3>2. Stream(Bump(gcm.receiver.y, (i - 1) \div GcmBlock + 1), (i - 1) % GcmBlock)
             = KeyByte(start, at + i)
      BY <1>3, <3>1, KeyOfPiece
    <3>3. plain[i] = Xor(Xor(PlainByte(at + i), KeyByte(start, at + i)), KeyByte(start, at + i))
      BY <1>5, <2>1, <3>2 DEF CipherByte
    <3>. QED  BY <3>3, XorTwice
  <2>. QED  BY <2>1, <2>2
<1>7. Hashed(gcm.receiver, piece) = piece
  BY <1>2 DEF Hashed, HashedSo
<1>. HIDE DEF plain
<1>8. new.len = at + n
  BY <1>3, <1>5, <1>1, UpdateInv
<1>9. gcm.got \o plain = Plain(0, new.len)
  <2>1. JoinsTo(Plain(0, at), plain, Plain(0, at + n))
    BY <1>3, <1>6, PlainGrows
  <2>. HIDE DEF new, at
  <2>. QED  BY <1>2, <1>8, <2>1 DEF JoinsTo
<1>10. HashedSo(new, "DECRYPT", start, Cipher(start, new.len))
  <2>1. Row(Cipher(start, at), at)
    BY <1>2, <1>3, CipherRow
  <2>2. HashedSo(new, "DECRYPT", start, Cipher(start, at) \o Hashed(gcm.receiver, piece))
    BY <1>2, <1>3, <1>5, <2>1, UpdateHashed
  <2>3. JoinsTo(Cipher(start, at), piece, Cipher(start, at + n))
    BY <1>2, <1>3, <1>5, CipherGrows
  <2>. HIDE DEF new, at, start
  <2>. QED  BY <1>7, <1>8, <2>2, <2>3 DEF JoinsTo
<1>. DEFINE got == gcm.got \o plain
<1>. HIDE DEF new, got, whole, start
<1>11. SealedGcm([start |-> start, sender |-> gcm.sender, receiver |-> new,
                 wire |-> gcm.wire, got |-> got, sent |-> gcm.sent, received |-> whole])
  <2>1. got = Plain(0, new.len)
    BY <1>9 DEF got
  <2>. QED  BY <1>2, <1>10, <2>1, SealedRecord
<1>. QED  BY <1>4, <1>11 DEF got

LEMMA SealedNext == SealedInv /\ [NextGcm]_gcm => SealedInv'
<1>1. SealedInv /\ UNCHANGED gcm => SealedInv'
  BY GcmNext DEF SealedInv, SealedGcm
<1>2. SendTooLong => UNCHANGED gcm
  BY DEF SendTooLong
<1>. QED  BY <1>1, <1>2, SendSealed, ReceiveSealed DEF NextGcm

-----------------------------------------------------------------------------
(* The message in one call                                                  *)

\* A message of n bytes that starts and is passed on at once.
LEMMA AtOnce ==
  ASSUME NEW start \in Starts, NEW mode, NEW bytes, NEW n, Row(bytes, n)
  PROVE  mbedtls_gcm_crypt_and_tag(mode, start, bytes) =
            << Crypted(mbedtls_gcm_starts(mode, start), bytes),
               TagOf(start, Hashed(mbedtls_gcm_starts(mode, start), bytes), n) >>
<1>. DEFINE ctx == mbedtls_gcm_starts(mode, start)
            new == mbedtls_gcm_update(ctx, bytes)
            h == Hashed(ctx, bytes)
<1>1. Context(ctx, TRUE) /\ ctx.len = 0 /\ HashedSo(ctx, mode, start, <<>>)
  BY StartsInv, StartsHashed
<1>2. n \in Nat /\ Len(bytes) = n
  BY RowLength DEF Row
<1>3. new.len = n
  <2>. HIDE DEF ctx
  <2>1. new.len = ctx.len + n
    BY <1>1, <1>2, UpdateInv
  <2>. QED  BY <1>1, <1>2, <2>1
<1>4. HashedSo(new, mode, start, h)
  <2>. HIDE DEF ctx
  <2>1. Row(<<>>, ctx.len)
    BY <1>1 DEF Row
  <2>2. HashedSo(new, mode, start, <<>> \o h)
    BY <1>1, <2>1, UpdateHashed
  <2>3. Row(h, n)
    BY CryptedRow
  <2>. HIDE DEF h, new
  <2>4. <<>> \o h = h
    BY <2>3, NothingJoined
  <2>. QED  BY <2>2, <2>4
<1>5. mbedtls_gcm_crypt_and_tag(mode, start, bytes) = << Crypted(ctx, bytes), mbedtls_gcm_finish(new) >>
  BY DEF mbedtls_gcm_crypt_and_tag
<1>. HIDE DEF ctx, new, h
<1>6. mbedtls_gcm_finish(new) = TagOf(start, h, n)
  BY <1>3, <1>4, FinishIs
<1>. QED  BY <1>5, <1>6 DEF ctx, h

\* What is opened is the plain text, and only what was sealed is opened.
LEMMA Opened ==
  ASSUME NEW start \in Starts, NEW n \in Nat, NEW other \in Starts, NEW bytes, Row(bytes, n)
  PROVE  LET tag == TagOf(start, Cipher(start, n), n)
         IN  /\ other = start /\ bytes = Cipher(start, n) =>
                   mbedtls_gcm_auth_decrypt(other, bytes, tag) = << TRUE, Plain(0, n) >>
             /\ ~(other = start /\ bytes = Cipher(start, n)) =>
                   mbedtls_gcm_auth_decrypt(other, bytes, tag) = << FALSE, [i \in 1..n |-> NoByte] >>
<1>. DEFINE tag == TagOf(start, Cipher(start, n), n)
            ctx == mbedtls_gcm_starts("DECRYPT", other)
            opened == mbedtls_gcm_crypt_and_tag("DECRYPT", other, bytes)
            cleared == [i \in DOMAIN bytes |-> NoByte]
<1>1. ctx.mode = "DECRYPT" /\ ctx.y = First(other)
  BY DEF mbedtls_gcm_starts, First
<1>2. opened = << Crypted(ctx, bytes), TagOf(other, Hashed(ctx, bytes), n) >>
  BY AtOnce
<1>3. Hashed(ctx, bytes) = bytes
  BY <1>1 DEF Hashed
<1>. HIDE DEF ctx
<1>4. opened[1] = Crypted(ctx, bytes) /\ opened[2] = TagOf(other, bytes, n)
  BY <1>2, <1>3
<1>. HIDE DEF opened
<1>5. mbedtls_gcm_auth_decrypt(other, bytes, tag)
         = IF opened[2] = tag THEN << TRUE, opened[1] >> ELSE << FALSE, cleared >>
  BY DEF mbedtls_gcm_auth_decrypt, opened
<1>6. cleared = [i \in 1..n |-> NoByte]
  BY RowLength
<1>7. Row(Cipher(start, n), n) /\ \A i \in 1..n : Cipher(start, n)[i] = CipherByte(start, i)
  BY CipherRow
<1>8. ASSUME other = start, bytes = Cipher(start, n)
      PROVE  opened[2] = tag /\ opened[1] = Plain(0, n)
  <2>1. opened[2] = tag
    BY <1>4, <1>8
  <2>2. Row(Crypted(ctx, bytes), n) /\ \A i \in 1..n : Crypted(ctx, bytes)[i] =
          Xor(bytes[i], Stream(Bump(ctx.y, (i - 1) \div GcmBlock + 1), (i - 1) % GcmBlock))
    BY CryptedRow
  <2>3. Row(Plain(0, n), n) /\ \A i \in 1..n : Plain(0, n)[i] = PlainByte(i)
    <3>1. \A i \in 1..n : 0 + i = i
      OBVIOUS
    <3>. QED  BY <3>1, PlainRow
  <2>4. ASSUME NEW i \in 1..n
        PROVE  Crypted(ctx, bytes)[i] = PlainByte(i)
    <3>1. Stream(Bump(ctx.y, (i - 1) \div GcmBlock + 1), (i - 1) % GcmBlock) = KeyByte(start, i)
      BY <1>1, <1>8 DEF KeyByte
    <3>2. bytes[i] = Xor(PlainByte(i), KeyByte(start, i))
      BY <1>7, <1>8 DEF CipherByte
    <3>3. Crypted(ctx, bytes)[i] = Xor(Xor(PlainByte(i), KeyByte(start, i)), KeyByte(start, i))
      BY <2>2, <3>1, <3>2
    <3>. QED  BY <3>3, XorTwice
  <2>. DEFINE p == Plain(0, n)
              o == Crypted(ctx, bytes)
  <2>. HIDE DEF p, o
  <2>5. Row(o, n) /\ Row(p, n) /\ \A i \in 1..n : o[i] = p[i]
    BY <2>2, <2>3, <2>4 DEF p, o
  <2>6. o = p
    BY <2>5, EqualRows
  <2>. QED  BY <1>4, <2>1, <2>6 DEF o, p
<1>9. ASSUME ~(other = start /\ bytes = Cipher(start, n))
      PROVE  opened[2] # tag
  <2>. DEFINE c == Cipher(start, n)
  <2>1. Row(c, n) /\ tag = TagOf(start, c, n) /\ ~(other = start /\ bytes = c)
    BY <1>7, <1>9
  <2>. HIDE DEF tag, c
  <2>. QED  BY <1>4, <2>1, EqualTags
<1>. HIDE DEF tag, cleared
<1>10. other = start /\ bytes = Cipher(start, n) =>
          mbedtls_gcm_auth_decrypt(other, bytes, tag) = << TRUE, Plain(0, n) >>
  BY <1>5, <1>8
<1>11. ~(other = start /\ bytes = Cipher(start, n)) =>
          mbedtls_gcm_auth_decrypt(other, bytes, tag) = << FALSE, [i \in 1..n |-> NoByte] >>
  BY <1>5, <1>6, <1>9
<1>. QED  BY <1>10, <1>11 DEF tag

LEMMA WholeMessage == SealedInv => PiecesAreOneMessage
<1>. SUFFICES ASSUME GcmInv, SealedGcm(gcm)
              PROVE  PiecesAreOneMessage
  BY DEF SealedInv
<1>. DEFINE n == Len(gcm.wire)
            k == gcm.receiver.len
            start == gcm.start
            c == Cipher(start, n)
            tag == TagOf(start, c, n)
<1>1. /\ start \in Starts /\ n = gcm.sender.len /\ n \in Nat /\ k \in Nat /\ Len(gcm.got) = k
      /\ gcm.wire = Cipher(start, gcm.sender.len) /\ gcm.got = Plain(0, k)
      /\ HashedSo(gcm.sender, "ENCRYPT", start, gcm.wire)
      /\ HashedSo(gcm.receiver, "DECRYPT", start, Cipher(start, k))
  BY DEF GcmInv, GoodGcm, SealedGcm, Context
<1>2. gcm.wire = c
  BY <1>1
<1>3. mbedtls_gcm_finish(gcm.sender) = tag
  <2>1. mbedtls_gcm_finish(gcm.sender) = TagOf(start, gcm.wire, gcm.sender.len)
    BY <1>1, FinishIs
  <2>. QED  BY <1>1, <1>2, <2>1
<1>4. mbedtls_gcm_finish(gcm.receiver) = TagOf(start, Cipher(start, k), k)
  BY <1>1, FinishIs
<1>5. Row(c, n)
  BY <1>1, CipherRow
<1>6. mbedtls_gcm_crypt_and_tag("ENCRYPT", start, Plain(0, n)) = << c, tag >>
  <2>. DEFINE ctx == mbedtls_gcm_starts("ENCRYPT", start)
              p == Plain(0, n)
  <2>1. Row(p, n)
    BY <1>1, PlainRow
  <2>2. mbedtls_gcm_crypt_and_tag("ENCRYPT", start, p) =
           << Crypted(ctx, p), TagOf(start, Hashed(ctx, p), n) >>
    <3>. HIDE DEF p
    <3>. QED  BY <1>1, <2>1, AtOnce
  <2>3. Hashed(ctx, p) = Crypted(ctx, p)
    <3>1. ctx.mode # "DECRYPT"
      BY DEF mbedtls_gcm_starts
    <3>. QED  BY <3>1 DEF Hashed
  <2>4. Crypted(ctx, p) = c
    BY DEF Cipher
  <2>. QED  BY <2>2, <2>3, <2>4
<1>7. \A other \in Starts : \A bytes : Row(bytes, n) =>
         /\ other = start /\ bytes = c =>
               mbedtls_gcm_auth_decrypt(other, bytes, tag) = << TRUE, Plain(0, n) >>
         /\ ~(other = start /\ bytes = c) =>
               mbedtls_gcm_auth_decrypt(other, bytes, tag) = << FALSE, [i \in 1..n |-> NoByte] >>
  BY <1>1, Opened
<1>. HIDE DEF tag, c, n, start, k
<1>8. mbedtls_gcm_auth_decrypt(start, gcm.wire, tag) = << TRUE, Plain(0, n) >>
  BY <1>1, <1>2, <1>5, <1>7
<1>9. ASSUME NEW other \in Starts \ {start}
      PROVE  mbedtls_gcm_auth_decrypt(other, gcm.wire, tag) = << FALSE, [i \in 1..n |-> NoByte] >>
  BY <1>2, <1>5, <1>7
<1>10. ASSUME NEW i \in 1..n
       PROVE  mbedtls_gcm_auth_decrypt(start, [gcm.wire EXCEPT ![i] = Xor(@, {<< "fault", i >>})], tag)
                 = << FALSE, [j \in 1..n |-> NoByte] >>
  <2>. DEFINE bad == [gcm.wire EXCEPT ![i] = Xor(@, {<< "fault", i >>})]
  <2>1. c = [j \in 1..n |-> c[j]] /\ n \in Nat
    BY <1>5 DEF Row
  <2>2. Row(bad, n) /\ bad[i] = Xor(c[i], {<< "fault", i >>})
    BY <1>2, <2>1 DEF Row
  <2>3. Xor(c[i], {<< "fault", i >>}) # c[i]
    BY DEF Xor
  <2>4. bad # c
    BY <2>2, <2>3
  <2>. HIDE DEF bad
  <2>5. mbedtls_gcm_auth_decrypt(start, bad, tag) = << FALSE, [j \in 1..n |-> NoByte] >>
    BY <1>1, <1>7, <2>2, <2>4
  <2>. QED  BY <2>5 DEF bad
<1>11. Len(gcm.got) = n => mbedtls_gcm_finish(gcm.receiver) = tag
  <2>1. k = n => TagOf(start, Cipher(start, k), k) = tag
    BY DEF tag, c
  <2>. QED  BY <1>1, <1>4, <2>1
<1>. QED  BY <1>1, <1>2, <1>3, <1>6, <1>8, <1>9, <1>10, <1>11 DEF PiecesAreOneMessage, n, start

\* The pieces of a message are sealed and opened as the whole of it would be,
\* however sender and receiver cut it, for blocks of any size and any number of
\* counters, and a changed byte or another start is not opened.
THEOREM MessagesSealed == GcmSpec => []PiecesAreOneMessage
<1>1. GcmSpec => []SealedInv
  BY SealedInit, SealedNext, PTL DEF GcmSpec
<1>. QED  BY <1>1, WholeMessage, PTL

-----------------------------------------------------------------------------
(* Bytes                                                                    *)

Octets == Seq(Nat)

\* The bytes c behind the first n of s.
Between(s, n, c) == SubSeq(s, n + 1, c)

IsBetween(t, s, n, c) ==
    t \in Octets /\ Len(t) = c - n /\ \A i \in 1..c - n : t[i] = s[n + i]

LEMMA LenIs ==
  ASSUME NEW s \in Octets
  PROVE  Len(s) \in Nat
BY DEF Octets

LEMMA BetweenIs ==
  ASSUME NEW s \in Octets, NEW c \in 0..Len(s), NEW n \in 0..c
  PROVE  IsBetween(Between(s, n, c), s, n, c)
BY DEF Octets, Between, IsBetween

LEMMA BetweenOnly ==
  ASSUME NEW s, NEW t, NEW u, NEW n, NEW c, IsBetween(t, s, n, c), IsBetween(u, s, n, c)
  PROVE  t = u
<1>1. Len(t) = Len(u) /\ \A i \in 1..Len(t) : t[i] = u[i]
  BY DEF IsBetween
<1>. QED  BY <1>1, SeqEqual DEF IsBetween, Octets

\* z is x and then y.
AreJoined(z, x, y) ==
    /\ z \in Octets /\ Len(z) = Len(x) + Len(y)
    /\ \A i \in 1..Len(x) : z[i] = x[i]
    /\ \A i \in 1..Len(y) : z[Len(x) + i] = y[i]

LEMMA JoinedAre ==
  ASSUME NEW x \in Octets, NEW y \in Octets
  PROVE  AreJoined(x \o y, x, y)
BY DEF Octets, AreJoined

LEMMA JoinedOnly ==
  ASSUME NEW x \in Octets, NEW y \in Octets, NEW z, AreJoined(z, x, y)
  PROVE  z = x \o y
<1>. DEFINE w == x \o y
<1>1. AreJoined(w, x, y)
  BY JoinedAre
<1>. HIDE DEF w
<1>2. /\ z \in Octets /\ w \in Octets /\ Len(z) = Len(w) /\ Len(x) \in Nat /\ Len(y) \in Nat
      /\ Len(z) = Len(x) + Len(y)
  BY <1>1 DEF AreJoined, Octets
<1>3. ASSUME NEW i \in 1..Len(z)
      PROVE  z[i] = w[i]
  <2>1. CASE i <= Len(x)
    BY <1>1, <1>2, <2>1 DEF AreJoined
  <2>2. CASE i > Len(x)
    <3>1. i - Len(x) \in 1..Len(y) /\ Len(x) + (i - Len(x)) = i
      BY <1>2, <2>2
    <3>. QED  BY <1>1, <3>1 DEF AreJoined
  <2>. QED  BY <2>1, <2>2, <1>2
<1>4. z = w
  BY <1>2, <1>3, SeqEqual DEF Octets
<1>. QED  BY <1>4 DEF w

-----------------------------------------------------------------------------
(* The recursive functions                                                  *)

\* The functions that the definitions of the codec choose exist: of the bytes of the items,
LEMMA WrittenExists ==
  ASSUME NEW N \in Nat, NEW bytes \in [1..N -> Octets]
  PROVE  \E f : /\ f = [n \in 0..N |-> IF n = 0 THEN <<>> ELSE f[n - 1] \o bytes[n]]
                /\ f \in [0..N -> Octets]
<1>. DEFINE Upto(f, m) ==
              /\ f \in [0..N -> Octets]
              /\ \A n \in 0..m : f[n] = IF n = 0 THEN <<>> ELSE f[n - 1] \o bytes[n]
            Bad == {m \in 0..N : ~ \E f : Upto(f, m)}
<1>1. SUFFICES Bad = {}
  <2>1. N \in 0..N
    OBVIOUS
  <2>2. PICK f : Upto(f, N)
    BY <1>1, <2>1
  <2>3. f = [n \in 0..N |-> IF n = 0 THEN <<>> ELSE f[n - 1] \o bytes[n]]
    BY <2>2
  <2>. QED  BY <2>2, <2>3
<1>2. SUFFICES ASSUME Bad # {} PROVE FALSE
  OBVIOUS
<1>3. PICK m \in Bad : \A k \in Bad : m <= k
  <2>1. Bad \in SUBSET Nat
    OBVIOUS
  <2>. HIDE DEF Bad
  <2>. QED  BY <1>2, <2>1, Least
<1>4. CASE m = 0
  <2>. DEFINE f == [n \in 0..N |-> <<>>]
  <2>1. Upto(f, 0)
    BY DEF Octets
  <2>. QED  BY <1>3, <1>4, <2>1
<1>5. CASE m # 0
  <2>1. m - 1 \in 0..N /\ m \in 1..N /\ m - 1 \notin Bad
    <3>1. m \in 0..N
      BY <1>3
    <3>. HIDE DEF Bad
    <3>. QED  BY <1>3, <1>5, <3>1
  <2>2. PICK f : Upto(f, m - 1)
    BY <2>1
  <2>. DEFINE g == [n \in 0..N |-> IF n = m THEN f[m - 1] \o bytes[m] ELSE f[n]]
  <2>3. g \in [0..N -> Octets]
    <3>1. f[m - 1] \in Octets /\ bytes[m] \in Octets
      BY <2>1, <2>2
    <3>2. f[m - 1] \o bytes[m] \in Octets
      BY <3>1 DEF Octets
    <3>. QED  BY <2>2, <3>2
  <2>4. ASSUME NEW n \in 0..m
        PROVE  g[n] = IF n = 0 THEN <<>> ELSE g[n - 1] \o bytes[n]
    <3>1. CASE n = m
      <4>1. g[m - 1] = f[m - 1] /\ g[m] = f[m - 1] \o bytes[m]
        BY <2>1
      <4>. HIDE DEF g
      <4>. QED  BY <2>1, <3>1, <4>1
    <3>2. CASE n # m
      BY <2>1, <2>2, <3>2
    <3>. QED  BY <3>1, <3>2
  <2>5. Upto(g, m)
    BY <2>3, <2>4
  <2>. QED  BY <1>3, <2>5
<1>. QED  BY <1>4, <1>5

\* of the calls of a walk, each turn of which leaves less.
MakesCalls(f, N, calls, left, T) ==
    /\ f = [n \in 0..N |-> IF n = 0 THEN <<>> ELSE calls[n] \o f[left[n]]]
    /\ f \in [0..N -> Seq(T)]

LEMMA CallsExist ==
  ASSUME NEW N \in Nat, NEW T, NEW calls \in [1..N -> Seq(T)], NEW left \in [1..N -> Nat],
         \A n \in 1..N : left[n] < n
  PROVE  \E f : MakesCalls(f, N, calls, left, T)
<1>. DEFINE Upto(f, m) ==
              /\ f \in [0..N -> Seq(T)]
              /\ \A n \in 0..m : f[n] = IF n = 0 THEN <<>> ELSE calls[n] \o f[left[n]]
            Bad == {m \in 0..N : ~ \E f : Upto(f, m)}
<1>1. SUFFICES Bad = {}
  <2>1. N \in 0..N
    OBVIOUS
  <2>2. PICK f : Upto(f, N)
    BY <1>1, <2>1
  <2>3. f = [n \in 0..N |-> IF n = 0 THEN <<>> ELSE calls[n] \o f[left[n]]]
    BY <2>2
  <2>. QED  BY <2>2, <2>3 DEF MakesCalls
<1>2. SUFFICES ASSUME Bad # {} PROVE FALSE
  OBVIOUS
<1>3. PICK m \in Bad : \A k \in Bad : m <= k
  <2>1. Bad \in SUBSET Nat
    OBVIOUS
  <2>. HIDE DEF Bad
  <2>. QED  BY <1>2, <2>1, Least
<1>4. CASE m = 0
  <2>. DEFINE f == [n \in 0..N |-> <<>>]
  <2>1. Upto(f, 0)
    OBVIOUS
  <2>. QED  BY <1>3, <1>4, <2>1
<1>5. CASE m # 0
  <2>1. m - 1 \in 0..N /\ m \in 1..N /\ m - 1 \notin Bad
    <3>1. m \in 0..N
      BY <1>3
    <3>. HIDE DEF Bad
    <3>. QED  BY <1>3, <1>5, <3>1
  <2>2. PICK f : Upto(f, m - 1)
    BY <2>1
  <2>. DEFINE g == [n \in 0..N |-> IF n = m THEN calls[m] \o f[left[m]] ELSE f[n]]
  <2>3. g \in [0..N -> Seq(T)]
    <3>1. left[m] \in 0..N
      BY <2>1
    <3>2. calls[m] \o f[left[m]] \in Seq(T)
      BY <2>1, <2>2, <3>1
    <3>. QED  BY <2>2, <3>2
  <2>4. ASSUME NEW n \in 0..m
        PROVE  g[n] = IF n = 0 THEN <<>> ELSE calls[n] \o g[left[n]]
    <3>1. CASE n = m
      <4>1. left[m] # m /\ left[m] \in 0..N /\ m # 0 /\ m \in 0..N
        BY <2>1
      <4>2. g[left[m]] = f[left[m]] /\ g[m] = calls[m] \o f[left[m]]
        BY <4>1
      <4>. HIDE DEF g
      <4>. QED  BY <3>1, <4>1, <4>2
    <3>2. CASE n # m
      <4>1. n # 0 => left[n] < n /\ left[n] \in 0..N
        BY <2>1
      <4>2. n # 0 => g[left[n]] = f[left[n]]
        BY <2>1, <4>1
      <4>3. g[n] = f[n] /\ n \in 0..m - 1
        BY <2>1, <3>2
      <4>4. f[n] = IF n = 0 THEN <<>> ELSE calls[n] \o f[left[n]]
        BY <2>2, <4>3
      <4>. HIDE DEF g
      <4>. QED  BY <4>2, <4>3, <4>4
    <3>. QED  BY <3>1, <3>2
  <2>5. Upto(g, m)
    BY <2>3, <2>4
  <2>. QED  BY <1>3, <2>5
<1>. QED  BY <1>4, <1>5

-----------------------------------------------------------------------------
(* Where the items of a message are                                         *)

AreItems(items) ==
    /\ Len(items) \in Nat /\ DOMAIN items = 1..Len(items)
    /\ \A i \in 1..Len(items) : items[i].bytes \in Octets

IsWritten(J, items) ==
    /\ J \in [0..Len(items) -> Octets] /\ J[0] = <<>>
    /\ \A n \in 1..Len(items) : J[n] = J[n - 1] \o items[n].bytes

LEMMA WrittenIs ==
  ASSUME NEW items, AreItems(items)
  PROVE  IsWritten(Written(items), items) /\ Bytes(items) = Written(items)[Len(items)]
<1>. DEFINE N == Len(items)
            bytes == [n \in 1..N |-> items[n].bytes]
            J == Written(items)
<1>1. N \in Nat /\ bytes \in [1..N -> Octets]
  BY DEF AreItems
<1>2. PICK f : /\ f = [n \in 0..N |-> IF n = 0 THEN <<>> ELSE f[n - 1] \o bytes[n]]
               /\ f \in [0..N -> Octets]
  <2>. HIDE DEF N, bytes
  <2>. QED  BY <1>1, WrittenExists
<1>3. f = [n \in 0..N |-> IF n = 0 THEN <<>> ELSE f[n - 1] \o items[n].bytes]
  <2>1. ASSUME NEW n \in 0..N
        PROVE  f[n] = IF n = 0 THEN <<>> ELSE f[n - 1] \o items[n].bytes
    <3>1. f[n] = IF n = 0 THEN <<>> ELSE f[n - 1] \o bytes[n]
      BY <1>2
    <3>2. n # 0 => bytes[n] = items[n].bytes
      BY <1>1
    <3>. QED  BY <3>1, <3>2
  <2>. QED  BY <1>2, <2>1
<1>4. J = [n \in 0..N |-> IF n = 0 THEN <<>> ELSE J[n - 1] \o items[n].bytes]
  BY <1>3 DEF Written
<1>. HIDE DEF J
<1>5. ASSUME NEW n \in 0..N
      PROVE  J[n] = IF n = 0 THEN <<>> ELSE J[n - 1] \o items[n].bytes
  BY <1>4
<1>6. J[0] = <<>> /\ \A n \in 1..N : J[n] = J[n - 1] \o items[n].bytes
  <2>1. J[0] = <<>>
    BY <1>1, <1>5
  <2>2. ASSUME NEW n \in 1..N
        PROVE  J[n] = J[n - 1] \o items[n].bytes
    <3>1. n \in 0..N /\ n # 0
      BY <1>1
    <3>. HIDE DEF N
    <3>. QED  BY <1>5, <3>1
  <2>. QED  BY <2>1, <2>2
<1>7. \A n \in 0..N : J[n] \in Octets
  <2>. DEFINE Bad == {n \in 0..N : J[n] \notin Octets}
  <2>1. SUFFICES ASSUME Bad # {} PROVE FALSE
    OBVIOUS
  <2>2. PICK m \in Bad : \A k \in Bad : m <= k
    <3>1. Bad \in SUBSET Nat
      BY <1>1
    <3>. HIDE DEF Bad
    <3>. QED  BY <2>1, <3>1, Least
  <2>3. m # 0 /\ m \in 0..N
    <3>1. J[0] \in Octets
      BY <1>6 DEF Octets
    <3>. QED  BY <2>2, <3>1
  <2>4. m - 1 \in 0..N /\ m \in 1..N /\ ~(m <= m - 1)
    BY <1>1, <2>3
  <2>5. J[m - 1] \in Octets
    BY <2>2, <2>4
  <2>6. J[m] \in Octets
    <3>1. items[m].bytes \in Octets
      BY <2>4 DEF AreItems
    <3>2. J[m - 1] \o items[m].bytes \in Octets
      BY <2>5, <3>1 DEF Octets
    <3>. QED  BY <1>6, <2>4, <3>2
  <2>. QED  BY <2>2, <2>6
<1>8. J \in [0..N -> Octets]
  BY <1>4, <1>7
<1>. QED  BY <1>6, <1>8 DEF IsWritten, Bytes, J

Begins(x, y) == Len(x) <= Len(y) /\ \A i \in 1..Len(x) : y[i] = x[i]

LEMMA BytesBegin ==
  ASSUME NEW items, NEW J, AreItems(items), IsWritten(J, items), NEW k \in 0..Len(items)
  PROVE  \A m \in k..Len(items) : Begins(J[k], J[m])
<1>. DEFINE N == Len(items)
            Bad == {m \in k..N : ~Begins(J[k], J[m])}
<1>1. SUFFICES ASSUME Bad # {} PROVE FALSE
  OBVIOUS
<1>2. N \in Nat /\ k \in Nat
  BY DEF AreItems
<1>3. PICK m \in Bad : \A n \in Bad : m <= n
  <2>1. Bad \in SUBSET Nat
    BY <1>2
  <2>. HIDE DEF Bad
  <2>. QED  BY <1>1, <2>1, Least
<1>4. m \in k..N /\ ~Begins(J[k], J[m])
  BY <1>3
<1>5. m # k
  <2>1. J[k] \in Octets
    BY DEF IsWritten
  <2>2. Begins(J[k], J[k])
    BY <2>1 DEF Begins, Octets
  <2>. QED  BY <1>4, <2>2
<1>6. m - 1 \in k..N /\ m - 1 \in 0..N /\ m \in 1..N /\ ~(m <= m - 1)
  BY <1>2, <1>4, <1>5
<1>7. Begins(J[k], J[m - 1])
  BY <1>3, <1>6
<1>8. AreJoined(J[m], J[m - 1], items[m].bytes) /\ J[m - 1] \in Octets /\ J[k] \in Octets
      /\ items[m].bytes \in Octets
  <2>1. J[m - 1] \in Octets /\ items[m].bytes \in Octets /\ J[m] = J[m - 1] \o items[m].bytes
        /\ J[k] \in Octets
    BY <1>6 DEF IsWritten, AreItems
  <2>. QED  BY <2>1, JoinedAre
<1>9. Begins(J[k], J[m])
  <2>1. Len(J[k]) \in Nat /\ Len(J[m - 1]) \in Nat /\ Len(items[m].bytes) \in Nat
        /\ Len(J[k]) <= Len(J[m - 1]) /\ Len(J[m]) = Len(J[m - 1]) + Len(items[m].bytes)
    BY <1>7, <1>8, LenIs DEF Begins, AreJoined
  <2>2. ASSUME NEW i \in 1..Len(J[k])
        PROVE  J[m][i] = J[k][i]
    <3>1. i \in 1..Len(J[m - 1])
      BY <2>1
    <3>. QED  BY <1>7, <1>8, <3>1 DEF Begins, AreJoined
  <2>3. Len(J[k]) <= Len(J[m])
    <3>. DEFINE p == Len(J[k])
                q == Len(J[m - 1])
                r == Len(items[m].bytes)
                s == Len(J[m])
    <3>1. p \in Nat /\ q \in Nat /\ r \in Nat /\ p <= q /\ s = q + r
      BY <2>1
    <3>. HIDE DEF p, q, r, s
    <3>2. p <= s
      BY <3>1
    <3>. QED  BY <3>2 DEF p, s
  <2>. QED  BY <2>2, <2>3 DEF Begins
<1>. QED  BY <1>4, <1>9

\* The place of item k in the bytes b of all: behind the n bytes of those before.
IsAt(b, n, item, m) ==
    /\ n \in Nat /\ m = n + Len(item.bytes) /\ m <= Len(b) /\ b \in Octets
    /\ item.bytes \in Octets
    /\ \A i \in 1..Len(item.bytes) : b[n + i] = item.bytes[i]

LEMMA BeginsOn ==
  ASSUME NEW x \in Octets, NEW y \in Octets, NEW z \in Octets, Begins(x, y), Begins(y, z)
  PROVE  Begins(x, z)
<1>1. Len(x) \in Nat /\ Len(y) \in Nat /\ Len(z) \in Nat
  BY LenIs
<1>2. \A i \in 1..Len(x) : i \in 1..Len(y)
  BY <1>1 DEF Begins
<1>. QED  BY <1>1, <1>2 DEF Begins

LEMMA BeginsSelf ==
  ASSUME NEW x \in Octets
  PROVE  Begins(x, x)
BY LenIs DEF Begins

\* The message may go on behind the items.
LEMMA ItemIsAt ==
  ASSUME NEW items, NEW J, AreItems(items), IsWritten(J, items), NEW k \in 1..Len(items),
         NEW b \in Octets, Begins(J[Len(items)], b)
  PROVE  IsAt(b, Len(J[k - 1]), items[k], Len(J[k]))
<1>1. Len(items) \in Nat /\ k \in 0..Len(items) /\ k - 1 \in 0..Len(items)
      /\ Len(items) \in k..Len(items) /\ Len(items) \in 0..Len(items)
  BY DEF AreItems
<1>2. J[k - 1] \in Octets /\ items[k].bytes \in Octets /\ J[k] = J[k - 1] \o items[k].bytes
      /\ J[k] \in Octets /\ J[Len(items)] \in Octets
  BY <1>1 DEF AreItems, IsWritten
<1>3. AreJoined(J[k], J[k - 1], items[k].bytes)
  BY <1>2, JoinedAre
<1>4. Begins(J[k], b)
  <2>1. Begins(J[k], J[Len(items)])
    BY <1>1, BytesBegin
  <2>. QED  BY <1>2, <2>1, BeginsOn
<1>5. Len(J[k - 1]) \in Nat /\ Len(J[k]) \in Nat /\ Len(items[k].bytes) \in Nat /\ Len(b) \in Nat
  BY <1>2, LenIs
<1>6. ASSUME NEW i \in 1..Len(items[k].bytes)
      PROVE  b[Len(J[k - 1]) + i] = items[k].bytes[i]
  <2>1. Len(J[k - 1]) + i \in 1..Len(J[k])
    <3>1. Len(J[k]) = Len(J[k - 1]) + Len(items[k].bytes)
      BY <1>3 DEF AreJoined
    <3>. DEFINE p == Len(J[k - 1])
                q == Len(items[k].bytes)
    <3>2. p \in Nat /\ q \in Nat /\ i \in 1..q /\ Len(J[k]) = p + q
      BY <1>5, <3>1
    <3>. HIDE DEF p, q
    <3>3. p + i \in 1..p + q
      BY <3>2
    <3>. QED  BY <3>2, <3>3 DEF p
  <2>2. J[k][Len(J[k - 1]) + i] = items[k].bytes[i]
    BY <1>3 DEF AreJoined
  <2>. QED  BY <1>4, <2>1, <2>2 DEF Begins
<1>. QED  BY <1>2, <1>3, <1>4, <1>5, <1>6 DEF IsAt, AreJoined, Begins

\* What is unread from an item on, in the c first bytes of a message: the item and what
\* is unread behind it, or a beginning of the item.
IsWhole(z, item, t) == z = item.bytes \o t /\ t \in Octets

LEMMA WholeItem ==
  ASSUME NEW b, NEW n, NEW m, NEW item, IsAt(b, n, item, m), NEW c \in 0..Len(b), m <= c
  PROVE  IsWhole(Between(b, n, c), item, Between(b, m, c))
<1>. DEFINE z == Between(b, n, c)
            y == Between(b, m, c)
            x == item.bytes
<1>1. Len(b) \in Nat /\ Len(x) \in Nat /\ b \in Octets /\ x \in Octets /\ n \in 0..c /\ m \in 0..c
      /\ m = n + Len(x)
  BY DEF IsAt, Octets
<1>2. IsBetween(z, b, n, c) /\ IsBetween(y, b, m, c)
  BY <1>1, BetweenIs
<1>3. \A i \in 1..Len(x) : b[n + i] = x[i]
  BY DEF IsAt
<1>. HIDE DEF z, y, x
<1>4. AreJoined(z, x, y)
  <2>1. z \in Octets /\ Len(z) = Len(x) + Len(y) /\ y \in Octets /\ Len(y) = c - m /\ Len(z) = c - n
    BY <1>1, <1>2 DEF IsBetween
  <2>2. \A i \in 1..Len(x) : z[i] = x[i]
    BY <1>1, <1>2, <1>3 DEF IsBetween
  <2>3. ASSUME NEW i \in 1..Len(y)
        PROVE  z[Len(x) + i] = y[i]
    <3>1. Len(x) + i \in 1..c - n /\ n + (Len(x) + i) = m + i /\ i \in 1..c - m
      BY <1>1, <2>1
    <3>. QED  BY <1>2, <3>1 DEF IsBetween
  <2>. QED  BY <2>1, <2>2, <2>3 DEF AreJoined
<1>5. y \in Octets
  BY <1>2 DEF IsBetween
<1>6. z = x \o y
  BY <1>1, <1>4, <1>5, JoinedOnly
<1>. QED  BY <1>5, <1>6 DEF z, y, x, IsWhole

IsCut(t, s, n) == n \in 0..Len(s) - 1 /\ t = SubSeq(s, 1, n)

LEMMA CutItem ==
  ASSUME NEW b, NEW n, NEW m, NEW item, IsAt(b, n, item, m), NEW c \in 0..Len(b), n <= c, c < m
  PROVE  IsCut(Between(b, n, c), item.bytes, c - n)
<1>. DEFINE z == Between(b, n, c)
            x == item.bytes
            y == Between(x, 0, c - n)
<1>1. Len(b) \in Nat /\ Len(x) \in Nat /\ b \in Octets /\ x \in Octets /\ n \in 0..c
      /\ m = n + Len(x) /\ c - n \in 0..Len(x) /\ 0 \in 0..(c - n)
  BY DEF IsAt, Octets
<1>2. IsBetween(z, b, n, c) /\ IsBetween(y, x, 0, c - n)
  BY <1>1, BetweenIs
<1>3. \A i \in 1..Len(x) : b[n + i] = x[i]
  BY DEF IsAt
<1>4. y = SubSeq(x, 1, c - n)
  BY DEF Between
<1>. HIDE DEF z, y, x
<1>5. IsBetween(z, x, 0, c - n)
  BY <1>1, <1>2, <1>3 DEF IsBetween
<1>6. z = y
  BY <1>2, <1>5, BetweenOnly
<1>. QED  BY <1>1, <1>4, <1>6 DEF IsCut, z, x

-----------------------------------------------------------------------------
(* Readers of one item                                                      *)

LEMMA Front ==
  ASSUME NEW x \in Nat, NEW t \in Octets
  PROVE  /\ << x >> \o t \in Octets /\ << x >> \o t # <<>> /\ Len(<< x >> \o t) = Len(t) + 1
         /\ Head(<< x >> \o t) = x /\ Tail(<< x >> \o t) = t
<1>. DEFINE a == << x >> \o t
<1>1. << x >> \in Octets /\ Len(<< x >>) = 1 /\ << x >>[1] = x /\ Len(t) \in Nat
  BY DEF Octets
<1>2. AreJoined(a, << x >>, t)
  BY <1>1, JoinedAre
<1>. HIDE DEF a
<1>3. a \in Octets /\ Len(a) = Len(t) + 1 /\ a[1] = x /\ \A i \in 1..Len(t) : a[1 + i] = t[i]
  BY <1>1, <1>2 DEF AreJoined
<1>4. a # <<>> /\ Head(a) = x /\ Tail(a) \in Octets /\ Len(Tail(a)) = Len(t)
      /\ \A i \in 1..Len(t) : Tail(a)[i] = a[i + 1]
  BY <1>1, <1>3, HeadTailProperties DEF Octets
<1>5. Tail(a) = t
  <2>1. ASSUME NEW i \in 1..Len(t)
        PROVE  Tail(a)[i] = t[i]
    <3>1. i + 1 = 1 + i
      OBVIOUS
    <3>. QED  BY <1>3, <1>4, <3>1
  <2>. QED  BY <1>4, <2>1, SeqEqual DEF Octets
<1>. QED  BY <1>3, <1>4, <1>5 DEF a

LEMMA FrontOfJoined ==
  ASSUME NEW x \in Nat, NEW s \in Octets, NEW t \in Octets
  PROVE  (<< x >> \o s) \o t = << x >> \o (s \o t) /\ s \o t \in Octets
BY ConcatAssociative DEF Octets

LEMMA FrontOfCut ==
  ASSUME NEW x \in Nat, NEW s \in Octets, NEW n \in 1..Len(s) + 1
  PROVE  SubSeq(<< x >> \o s, 1, n) = << x >> \o SubSeq(s, 1, n - 1) /\ SubSeq(s, 1, n - 1) \in Octets
         /\ Len(SubSeq(s, 1, n - 1)) = n - 1
<1>. DEFINE a == << x >> \o s
            c == SubSeq(s, 1, n - 1)
            y == SubSeq(a, 1, n)
<1>1. << x >> \in Octets /\ Len(<< x >>) = 1 /\ << x >>[1] = x /\ Len(s) \in Nat
  BY DEF Octets
<1>2. AreJoined(a, << x >>, s)
  BY <1>1, JoinedAre
<1>. HIDE DEF a
<1>3. a \in Octets /\ Len(a) = Len(s) + 1 /\ a[1] = x /\ \A i \in 1..Len(s) : a[1 + i] = s[i]
  BY <1>1, <1>2 DEF AreJoined
<1>4. /\ IsBetween(Between(s, 0, n - 1), s, 0, n - 1) /\ IsBetween(Between(a, 0, n), a, 0, n)
      /\ Between(s, 0, n - 1) = c /\ Between(a, 0, n) = y
  <2>1. n - 1 \in 0..Len(s) /\ n \in 0..Len(a) /\ 0 \in 0..n /\ 0 \in 0..n - 1
    BY <1>1, <1>3
  <2>2. Between(s, 0, n - 1) = c /\ Between(a, 0, n) = y
    BY DEF Between
  <2>. QED  BY <1>3, <2>1, <2>2, BetweenIs
<1>. HIDE DEF c, y
<1>5. c \in Octets /\ Len(c) = n - 1 /\ y \in Octets /\ Len(y) = n
      /\ (\A i \in 1..n - 1 : c[i] = s[i]) /\ (\A i \in 1..n : y[i] = a[i])
  BY <1>4 DEF IsBetween
<1>6. AreJoined(y, << x >>, c)
  <2>1. ASSUME NEW i \in 1..Len(c)
        PROVE  y[1 + i] = c[i]
    <3>1. i \in 1..n - 1 /\ 1 + i \in 1..n /\ i \in 1..Len(s)
      BY <1>1, <1>5
    <3>. QED  BY <1>3, <1>5, <3>1
  <2>2. Len(y) = Len(<< x >>) + Len(c) /\ 1 \in 1..n
    BY <1>1, <1>5
  <2>. QED  BY <1>1, <1>3, <1>5, <2>1, <2>2 DEF AreJoined
<1>7. y = << x >> \o c
  BY <1>1, <1>5, <1>6, JoinedOnly
<1>. QED  BY <1>5, <1>7 DEF a, c, y

LEMMA ByteRead ==
  /\ csm_array_read_u8(<<>>) = Failure(<<>>)
  /\ \A x \in Nat, t \in Octets : csm_array_read_u8(<< x >> \o t) = Result(x, t)
BY Front DEF csm_array_read_u8

LEMMA LengthRead ==
  /\ csm_ber_read_len(<<>>) = Failure(<<>>)
  /\ \A n \in 0..127, t \in Octets : csm_ber_read_len(<< n >> \o t) = Result(n, t)
<1>1. csm_ber_read_len(<<>>) = Failure(<<>>)
  <2>. DEFINE first == csm_array_read_u8(<<>>)
  <2>1. first = [ok |-> FALSE, val |-> 0, rest |-> <<>>]
    BY ByteRead DEF Failure
  <2>2. first.val < 128
    BY <2>1
  <2>3. csm_ber_read_len(<<>>)
          = [first EXCEPT !.ok = @ /\ first.val < 128, !.val = IF @ < 128 THEN @ ELSE 0]
    BY <2>2 DEF csm_ber_read_len
  <2>. HIDE DEF first
  <2>. QED  BY <2>1, <2>3 DEF Failure
<1>2. ASSUME NEW n \in 0..127, NEW t \in Octets
      PROVE  csm_ber_read_len(<< n >> \o t) = Result(n, t)
  <2>1. n \in Nat /\ csm_array_read_u8(<< n >> \o t) = Result(n, t)
    BY ByteRead
  <2>. DEFINE a == << n >> \o t
              first == csm_array_read_u8(a)
  <2>2. first = [ok |-> TRUE, val |-> n, rest |-> t]
    BY <2>1 DEF Result
  <2>3. first.val < 128
    BY <2>2
  <2>. HIDE DEF a
  <2>4. csm_ber_read_len(a)
          = [first EXCEPT !.ok = @ /\ first.val < 128, !.val = IF @ < 128 THEN @ ELSE 0]
    BY <2>3 DEF csm_ber_read_len
  <2>. HIDE DEF first
  <2>5. csm_ber_read_len(a) = [ok |-> TRUE, val |-> n, rest |-> t]
    <3>1. (first.ok /\ first.val < 128) = TRUE /\ (IF first.val < 128 THEN first.val ELSE 0) = n
      BY <2>2, <2>3
    <3>2. csm_ber_read_len(a) = [first EXCEPT !.ok = TRUE, !.val = n]
      BY <2>4, <3>1, Zenon
    <3>. QED  BY <2>2, <3>2
  <2>. QED  BY <2>5 DEF Result, a
<1>. QED  BY <1>1, <1>2

LEMMA PayloadType ==
  ASSUME NEW n \in Nat
  PROVE  Payload(n) \in Octets /\ Len(Payload(n)) = n
BY DEF Payload, Octets

\* A byte, a size, and as many bytes.
Framed(byte, n) == << byte >> \o (<< n >> \o Payload(n))

Readable(it) ==
    \/ \E n \in 0..127 :
          \/ it = Item("length", n, << n >>)
          \/ it = Item("octets", n, Framed(OCTETSTRING, n))
          \/ it = Item("block", n, Framed(0, n))
    \/ \E v \in {0, 255} : it = Item("u8", v, << 2, 1, v >>)
    \/ it = Item("oid", << 1, 2 >>, << 96, 133, 116, 5, 8, 1, 2 >>)
    \/ it = Item("null", 0, << 0 >>)

LEMMA FramedType ==
  ASSUME NEW byte \in {0, 9}, NEW n \in 0..127
  PROVE  /\ Framed(byte, n) \in Octets /\ Len(Framed(byte, n)) = n + 2
         /\ << n >> \o Payload(n) \in Octets /\ Len(<< n >> \o Payload(n)) = n + 1
         /\ Payload(n) \in Octets /\ Len(Payload(n)) = n /\ n \in Nat /\ byte \in Nat
<1>1. n \in Nat /\ byte \in Nat /\ Payload(n) \in Octets /\ Len(Payload(n)) = n
  BY PayloadType
<1>2. << n >> \o Payload(n) \in Octets /\ Len(<< n >> \o Payload(n)) = n + 1
  BY <1>1, Front
<1>3. Framed(byte, n) \in Octets /\ Len(Framed(byte, n)) = (n + 1) + 1
  BY <1>1, <1>2, Front DEF Framed
<1>. QED  BY <1>1, <1>2, <1>3

LEMMA ReadableType ==
  ASSUME NEW it, Readable(it)
  PROVE  it.bytes \in Octets /\ it.bytes # <<>> /\ it.size \in Nat \cup {<< 1, 2 >>}
<1>. DEFINE Typed == it.bytes \in Octets /\ it.bytes # <<>> /\ it.size \in Nat \cup {<< 1, 2 >>}
<1>1. ASSUME NEW n \in 0..127, it = Item("length", n, << n >>)
      PROVE  Typed
  BY <1>1 DEF Item, Octets
<1>2. ASSUME NEW n \in 0..127, NEW byte \in {0, 9}, it.size = n, it.bytes = Framed(byte, n)
      PROVE  Typed
  <2>. DEFINE rest == << n >> \o Payload(n)
  <2>1. rest \in Octets /\ n \in Nat /\ byte \in Nat
    BY FramedType
  <2>. HIDE DEF rest
  <2>2. << byte >> \o rest \in Octets /\ << byte >> \o rest # <<>>
    BY <2>1, Front
  <2>3. it.bytes = << byte >> \o rest
    BY <1>2 DEF Framed, rest
  <2>. QED  BY <1>2, <2>1, <2>2, <2>3
<1>3. ASSUME NEW v \in {0, 255}, it = Item("u8", v, << 2, 1, v >>)
      PROVE  Typed
  BY <1>3 DEF Item, Octets
<1>4. ASSUME it = Item("oid", << 1, 2 >>, << 96, 133, 116, 5, 8, 1, 2 >>)
      PROVE  Typed
  BY <1>4 DEF Item, Octets
<1>5. ASSUME it = Item("null", 0, << 0 >>)
      PROVE  Typed
  BY <1>5 DEF Item, Octets
<1>6. ASSUME NEW n \in 0..127,
             \/ it = Item("octets", n, Framed(OCTETSTRING, n))
             \/ it = Item("block", n, Framed(0, n))
      PROVE  it.size = n /\ \E byte \in {0, 9} : it.bytes = Framed(byte, n)
  BY <1>6 DEF Item, OCTETSTRING
<1>7. ASSUME NEW n \in 0..127,
             \/ it = Item("octets", n, Framed(OCTETSTRING, n))
             \/ it = Item("block", n, Framed(0, n))
      PROVE  Typed
  BY <1>2, <1>6, <1>7, Zenon
<1>8. Typed
  <2>. HIDE DEF Typed
  <2>1. CASE \E n \in 0..127 :
                \/ it = Item("length", n, << n >>)
                \/ it = Item("octets", n, Framed(OCTETSTRING, n))
                \/ it = Item("block", n, Framed(0, n))
    BY <1>1, <1>7, <2>1
  <2>2. CASE \E v \in {0, 255} : it = Item("u8", v, << 2, 1, v >>)
    BY <1>3, <2>2
  <2>. QED  BY <1>4, <1>5, <2>1, <2>2 DEF Readable
<1>. QED  BY <1>8

LEMMA JumpIs ==
  ASSUME NEW x \in Octets, NEW t \in Octets
  PROVE  Jump(x \o t, Len(x)) = t /\ Jump(x, Len(x)) = <<>>
<1>. DEFINE z == x \o t
<1>1. AreJoined(z, x, t) /\ Len(x) \in Nat /\ Len(t) \in Nat
  BY JoinedAre, LenIs
<1>. HIDE DEF z
<1>2. z \in Octets /\ Len(z) = Len(x) + Len(t) /\ Len(x) \in 0..Len(z) /\ Len(z) \in 0..Len(z)
  BY <1>1 DEF AreJoined
<1>3. IsBetween(Between(z, Len(x), Len(z)), z, Len(x), Len(z))
  BY <1>2, BetweenIs
<1>4. IsBetween(t, z, Len(x), Len(z))
  BY <1>1, <1>2 DEF IsBetween, AreJoined
<1>5. Jump(z, Len(x)) = t
  BY <1>3, <1>4, BetweenOnly DEF Jump, Between
<1>6. Jump(x, Len(x)) = <<>>
  BY <1>1, SubSeqEmpty DEF Jump
<1>. QED  BY <1>5, <1>6 DEF z

LEMMA JumpBeyond ==
  ASSUME NEW x \in Octets, NEW n \in Nat, n >= Len(x)
  PROVE  Jump(x, n) = <<>>
BY LenIs, SubSeqEmpty DEF Jump

LEMMA SizeRead ==
  /\ csm_axdr_size(<<>>) = [ok |-> TRUE, val |-> 0, rest |-> <<>>]
  /\ \A n \in 0..127, t \in Octets :
        csm_axdr_size(<< n >> \o t) = [ok |-> n <= Len(t), val |-> n, rest |-> t]
<1>1. csm_axdr_size(<<>>) = [ok |-> TRUE, val |-> 0, rest |-> <<>>]
  <2>. DEFINE n == csm_ber_read_len(<<>>)
  <2>1. n = [ok |-> FALSE, val |-> 0, rest |-> <<>>]
    BY LengthRead DEF Failure
  <2>2. (n.val <= Len(n.rest)) = TRUE
    BY <2>1
  <2>3. csm_axdr_size(<<>>) = [n EXCEPT !.ok = TRUE]
    BY <2>2, Zenon DEF csm_axdr_size
  <2>. HIDE DEF n
  <2>. QED  BY <2>1, <2>3
<1>2. ASSUME NEW v \in 0..127, NEW t \in Octets
      PROVE  csm_axdr_size(<< v >> \o t) = [ok |-> v <= Len(t), val |-> v, rest |-> t]
  <2>. DEFINE a == << v >> \o t
              n == csm_ber_read_len(a)
              fits == v <= Len(t)
  <2>1. n = [ok |-> TRUE, val |-> v, rest |-> t]
    BY LengthRead DEF Result
  <2>2. (n.val <= Len(n.rest)) = fits
    BY <2>1
  <2>3. csm_axdr_size(a) = [n EXCEPT !.ok = fits]
    BY <2>2, Zenon DEF csm_axdr_size
  <2>. HIDE DEF n, fits
  <2>4. csm_axdr_size(a) = [ok |-> fits, val |-> v, rest |-> t]
    BY <2>1, <2>3
  <2>. QED  BY <2>4 DEF fits
<1>. QED  BY <1>1, <1>2

\* What the reader of a byte and a size returns for what is there of them.
Fails(r) == r.ok = FALSE
Reads(r, v, t) == r = [ok |-> TRUE, val |-> v, rest |-> t]

LEMMA SizedRead ==
  ASSUME NEW byte \in {0, 9}, NEW n \in 0..127
  PROVE  /\ Fails(Sized(<<>>, byte))
         /\ Sized(<< byte >> \o <<>>, byte) = [ok |-> TRUE, val |-> 0, rest |-> <<>>]
         /\ \A t \in Octets : Sized(<< byte >> \o (<< n >> \o t), byte)
                                 = [ok |-> n <= Len(t), val |-> n, rest |-> t]
<1>1. Fails(Sized(<<>>, byte))
  BY ByteRead DEF Sized, Failure, Fails
<1>2. ASSUME NEW u \in Octets
      PROVE  Sized(<< byte >> \o u, byte) = csm_axdr_size(u)
  <2>1. byte \in Nat
    OBVIOUS
  <2>2. csm_array_read_u8(<< byte >> \o u) = [ok |-> TRUE, val |-> byte, rest |-> u]
    BY <2>1, ByteRead DEF Result
  <2>. QED  BY <2>2 DEF Sized
<1>3. <<>> \in Octets
  BY DEF Octets
<1>4. ASSUME NEW t \in Octets
      PROVE  Sized(<< byte >> \o (<< n >> \o t), byte)
                = [ok |-> n <= Len(t), val |-> n, rest |-> t]
  <2>1. n \in Nat
    OBVIOUS
  <2>2. << n >> \o t \in Octets
    BY <2>1, Front
  <2>. QED  BY <1>2, <2>2, SizeRead
<1>. QED  BY <1>1, <1>2, <1>3, <1>4, SizeRead

\* The readers that pass over what a size announces.
Passes(r) == [r EXCEPT !.val = IF @ <= Len(r.rest) THEN @ ELSE Len(r.rest),
                       !.rest = Jump(@, r.val)]

LEMMA ReadsFramed ==
  ASSUME NEW it, NEW byte \in {0, 9}, NEW a,
         \/ it.tag = "octets" /\ byte = OCTETSTRING
         \/ it.tag = "block" /\ byte = 0
  PROVE  ReadItem(it, a) = Passes(Sized(a, byte))
BY DEF ReadItem, Passes, csm_axdr_rd_octetstring, csm_axdr_decode_block, OCTETSTRING

LEMMA PassedFails ==
  ASSUME NEW r, Fails(r), r = [ok |-> r.ok, val |-> r.val, rest |-> r.rest]
  PROVE  Fails(Passes(r))
BY DEF Passes, Fails

\* What follows the size is all there, or not.
LEMMA PassedWhole ==
  ASSUME NEW n \in 0..127, NEW t \in Octets
  PROVE  LET u == Payload(n) \o t
         IN  Reads(Passes([ok |-> n <= Len(u), val |-> n, rest |-> u]), n, t)
<1>. DEFINE u == Payload(n) \o t
            r == [ok |-> n <= Len(u), val |-> n, rest |-> u]
<1>1. n \in Nat /\ Payload(n) \in Octets /\ Len(Payload(n)) = n
  BY PayloadType
<1>2. Jump(u, n) = t /\ AreJoined(u, Payload(n), t) /\ Len(t) \in Nat
  BY <1>1, JumpIs, JoinedAre, LenIs
<1>3. Len(u) = n + Len(t)
  BY <1>1, <1>2 DEF AreJoined
<1>. HIDE DEF u
<1>4. (n <= Len(u)) = TRUE
  BY <1>1, <1>2, <1>3
<1>5. r = [ok |-> TRUE, val |-> n, rest |-> u]
  BY <1>4
<1>. HIDE DEF r
<1>6. Passes(r) = [r EXCEPT !.val = n, !.rest = t]
  BY <1>2, <1>4, <1>5 DEF Passes
<1>7. Reads(Passes(r), n, t)
  BY <1>5, <1>6 DEF Reads
<1>. QED  BY <1>7 DEF r, u

LEMMA FramedRead ==
  ASSUME NEW it, NEW byte \in {0, 9}, NEW n \in 0..127, NEW t \in Octets,
         \/ it.tag = "octets" /\ byte = OCTETSTRING
         \/ it.tag = "block" /\ byte = 0
  PROVE  Reads(ReadItem(it, Framed(byte, n) \o t), n, t)
<1>. DEFINE s == << n >> \o Payload(n)
            u == Payload(n) \o t
<1>1. n \in Nat /\ byte \in Nat /\ Payload(n) \in Octets /\ s \in Octets
  BY FramedType
<1>2. Framed(byte, n) \o t = << byte >> \o (s \o t)
  BY <1>1, FrontOfJoined DEF Framed
<1>3. s \o t = << n >> \o u /\ u \in Octets
  BY <1>1, FrontOfJoined
<1>4. Sized(<< byte >> \o (<< n >> \o u), byte) = [ok |-> n <= Len(u), val |-> n, rest |-> u]
  <2>. HIDE DEF u
  <2>. QED  BY <1>3, SizedRead
<1>5. Reads(Passes([ok |-> n <= Len(u), val |-> n, rest |-> u]), n, t)
  BY PassedWhole
<1>. HIDE DEF s, u
<1>6. ReadItem(it, Framed(byte, n) \o t) = Passes(Sized(Framed(byte, n) \o t, byte))
  BY ReadsFramed
<1>. QED  BY <1>2, <1>3, <1>4, <1>5, <1>6

\* Of a beginning, nothing is read, or an empty value.
LEMMA FramedCutRead ==
  ASSUME NEW it, NEW byte \in {0, 9}, NEW n \in 0..127, NEW c \in 1..n + 1,
         \/ it.tag = "octets" /\ byte = OCTETSTRING
         \/ it.tag = "block" /\ byte = 0
  PROVE  LET r == ReadItem(it, SubSeq(Framed(byte, n), 1, c))
         IN  Fails(r) \/ Reads(r, 0, <<>>)
<1>. DEFINE s == << n >> \o Payload(n)
            a == SubSeq(Framed(byte, n), 1, c)
            r == ReadItem(it, a)
<1>1. /\ n \in Nat /\ byte \in Nat /\ Payload(n) \in Octets /\ s \in Octets
      /\ Len(s) = n + 1 /\ Len(Payload(n)) = n /\ c - 1 \in 0..n /\ c \in 1..(Len(s) + 1)
  <2>1. /\ n \in Nat /\ byte \in Nat /\ Payload(n) \in Octets /\ s \in Octets
        /\ Len(s) = n + 1 /\ Len(Payload(n)) = n
    BY FramedType
  <2>. HIDE DEF s
  <2>. QED  BY <2>1
<1>2. a = << byte >> \o SubSeq(s, 1, c - 1) /\ SubSeq(s, 1, c - 1) \in Octets
  BY <1>1, FrontOfCut DEF Framed
<1>. HIDE DEF a
<1>3. r = Passes(Sized(a, byte))
  BY ReadsFramed
<1>. HIDE DEF r
<1>4. CASE c = 1
  <2>1. SubSeq(s, 1, c - 1) = <<>>
    BY <1>4, SubSeqEmpty
  <2>2. Sized(a, byte) = [ok |-> TRUE, val |-> 0, rest |-> <<>>]
    BY <1>2, <2>1, SizedRead
  <2>3. <<>> \in Octets /\ Len(<<>>) = 0
    BY DEF Octets
  <2>4. Jump(<<>>, 0) = <<>>
    BY <2>3, JumpBeyond
  <2>5. Passes([ok |-> TRUE, val |-> 0, rest |-> <<>>]) = [ok |-> TRUE, val |-> 0, rest |-> <<>>]
    <3>. DEFINE e == [ok |-> TRUE, val |-> 0, rest |-> <<>>]
    <3>1. e.ok = TRUE /\ e.val = 0 /\ e.rest = <<>> /\ e.val <= Len(e.rest)
      BY <2>3
    <3>2. e = [ok |-> TRUE, val |-> 0, rest |-> <<>>]
      OBVIOUS
    <3>. HIDE DEF e
    <3>3. Passes(e) = [e EXCEPT !.val = 0, !.rest = <<>>]
      BY <2>4, <3>1, Zenon DEF Passes
    <3>4. Passes(e) = e
      BY <3>2, <3>3
    <3>. QED  BY <3>2, <3>4
  <2>. QED  BY <1>3, <2>2, <2>5 DEF Reads, r, a
<1>5. CASE c > 1
  <2>. DEFINE p == SubSeq(Payload(n), 1, c - 2)
  <2>1. c - 1 \in 1..(Len(Payload(n)) + 1) /\ (c - 1) - 1 = c - 2
    BY <1>1, <1>5
  <2>2. SubSeq(s, 1, c - 1) = << n >> \o p /\ p \in Octets /\ Len(p) = c - 2
    BY <1>1, <2>1, FrontOfCut
  <2>. HIDE DEF p, s
  <2>3. Sized(a, byte) = [ok |-> n <= Len(p), val |-> n, rest |-> p]
    BY <1>2, <2>2, SizedRead
  <2>4. ~(n <= Len(p))
    BY <1>1, <2>2
  <2>5. Fails(Sized(a, byte)) /\ Sized(a, byte) = [ok |-> FALSE, val |-> n, rest |-> p]
    <3>1. (n <= Len(p)) = FALSE
      BY <2>4
    <3>2. Sized(a, byte) = [ok |-> FALSE, val |-> n, rest |-> p]
      BY <2>3, <3>1, Zenon
    <3>. QED  BY <3>2 DEF Fails
  <2>6. Fails(r)
    BY <1>3, <2>5, PassedFails
  <2>. QED  BY <2>6 DEF r, a
<1>. QED  BY <1>1, <1>4, <1>5

LEMMA TagRead ==
  /\ csm_ber_read_tag(<<>>).ok = FALSE
  /\ \A t \in Octets : LET r == csm_ber_read_tag(<< 2 >> \o t)
                       IN  r.ok = TRUE /\ r.val.tag = 2 /\ r.rest = t
<1>1. csm_ber_read_tag(<<>>).ok = FALSE
  BY ByteRead DEF csm_ber_read_tag, Failure
<1>2. ASSUME NEW t \in Octets
      PROVE  LET r == csm_ber_read_tag(<< 2 >> \o t)
             IN  r.ok = TRUE /\ r.val.tag = 2 /\ r.rest = t
  <2>1. csm_array_read_u8(<< 2 >> \o t) = [ok |-> TRUE, val |-> 2, rest |-> t]
    BY ByteRead DEF Result
  <2>2. 2 % 32 # 31
    OBVIOUS
  <2>. QED  BY <2>1, <2>2 DEF csm_ber_read_tag, Result
<1>. QED  BY <1>1, <1>2

\* The number that csm_ber_write_u8 wrote, and its beginnings.
LEMMA NumberRead ==
  /\ \A v \in Nat, t \in Octets : Reads(csm_ber_read_u8(<< 2 >> \o (<< 1 >> \o (<< v >> \o t))), v, t)
  /\ Fails(csm_ber_read_u8(<<>>))
  /\ Fails(csm_ber_read_u8(<< 2 >> \o <<>>))
  /\ Fails(csm_ber_read_u8(<< 2 >> \o (<< 1 >> \o <<>>)))
<1>. DEFINE Header(t) == [tag |-> INTEGER, length |-> 1]
<1>1. <<>> \in Octets
  BY DEF Octets
<1>2. ASSUME NEW t \in Octets
      PROVE  csm_ber_read_u8(<< 2 >> \o (<< 1 >> \o t)) = csm_array_read_u8(t)
  <2>. DEFINE u == << 1 >> \o t
              a == << 2 >> \o u
              tag == csm_ber_read_tag(a)
              n == csm_ber_read_len(u)
  <2>1. u \in Octets
    BY Front
  <2>2. n = [ok |-> TRUE, val |-> 1, rest |-> t]
    <3>1. 1 \in 0..127
      OBVIOUS
    <3>. QED  BY <3>1, LengthRead, Zenon DEF Result
  <2>. HIDE DEF u
  <2>3. tag.ok = TRUE /\ tag.val.tag = 2 /\ tag.rest = u
    BY <2>1, TagRead
  <2>. HIDE DEF a
  <2>4. csm_ber_decode(a) = [ok |-> TRUE, val |-> [tag |-> 2, length |-> 1], rest |-> t]
    <3>. HIDE DEF tag, n
    <3>1. n.ok = TRUE /\ n.val = 1 /\ n.rest = t
      BY <2>2
    <3>2. csm_ber_decode(a) = IF tag.ok /\ n.ok
                              THEN Result([tag |-> tag.val.tag, length |-> n.val], n.rest)
                              ELSE Failure(<<>>)
      BY <2>3, Zenon DEF csm_ber_decode, tag, n
    <3>. QED  BY <2>3, <3>1, <3>2 DEF Result
  <2>5. csm_ber_read_u8(a) = csm_array_read_u8(t)
    BY <2>4 DEF csm_ber_read_u8, INTEGER
  <2>. QED  BY <2>5 DEF a, u
<1>3. ASSUME NEW a, csm_ber_decode(a) = Failure(<<>>)
      PROVE  Fails(csm_ber_read_u8(a))
  BY <1>3 DEF csm_ber_read_u8, Failure, Fails
<1>4. csm_ber_decode(<<>>) = Failure(<<>>)
  BY TagRead DEF csm_ber_decode
<1>5. csm_ber_decode(<< 2 >> \o <<>>) = Failure(<<>>)
  <2>1. csm_ber_read_tag(<< 2 >> \o <<>>).rest = <<>>
    BY <1>1, TagRead
  <2>2. csm_ber_read_len(<<>>).ok = FALSE
    BY LengthRead DEF Failure
  <2>. QED  BY <2>1, <2>2 DEF csm_ber_decode
<1>6. ASSUME NEW v \in Nat, NEW t \in Octets
      PROVE  Reads(csm_ber_read_u8(<< 2 >> \o (<< 1 >> \o (<< v >> \o t))), v, t)
  <2>1. << v >> \o t \in Octets
    BY Front
  <2>2. csm_array_read_u8(<< v >> \o t) = [ok |-> TRUE, val |-> v, rest |-> t]
    BY ByteRead DEF Result
  <2>. QED  BY <1>2, <2>1, <2>2 DEF Reads
<1>7. Fails(csm_ber_read_u8(<< 2 >> \o (<< 1 >> \o <<>>)))
  <2>1. csm_ber_read_u8(<< 2 >> \o (<< 1 >> \o <<>>)) = csm_array_read_u8(<<>>)
    BY <1>1, <1>2, Zenon
  <2>. QED  BY <2>1, ByteRead DEF Failure, Fails
<1>. QED  BY <1>3, <1>4, <1>5, <1>6, <1>7

LEMMA OidRead ==
  /\ \A t \in Octets : Reads(csm_ber_decode_object_identifier(<< 96, 133, 116, 5, 8, 1, 2 >> \o t),
                             << 1, 2 >>, t)
  /\ \A a \in Octets : Len(a) < 7 => Fails(csm_ber_decode_object_identifier(a))
<1>1. ASSUME NEW t \in Octets
      PROVE  Reads(csm_ber_decode_object_identifier(<< 96, 133, 116, 5, 8, 1, 2 >> \o t),
                   << 1, 2 >>, t)
  <2>. DEFINE o == << 96, 133, 116, 5, 8, 1, 2 >>
              a == o \o t
  <2>1. /\ o \in Octets /\ Len(o) = 7 /\ o[1] = 96 /\ o[2] = 133 /\ o[3] = 116 /\ o[4] = 5
        /\ o[5] = 8 /\ o[6] = 1 /\ o[7] = 2
    BY DEF Octets
  <2>. HIDE DEF o
  <2>2. AreJoined(a, o, t) /\ Jump(a, 7) = t /\ Len(t) \in Nat
    <3>1. Jump(a, Len(o)) = t
      BY <2>1, JumpIs
    <3>. QED  BY <2>1, <3>1, JoinedAre, LenIs
  <2>. HIDE DEF a
  <2>3. /\ a \in Octets /\ Len(a) >= 7 /\ Len(a) \in Nat /\ a[1] = 96 /\ a[2] = 133 /\ a[3] = 116
        /\ a[4] = 5 /\ a[5] = 8 /\ a[6] = 1 /\ a[7] = 2
    BY <2>1, <2>2 DEF AreJoined
  <2>4. SubSeq(a, 1, 5) = OidHeader
    <3>. DEFINE h == Between(a, 0, 5)
                g == << 96, 133, 116, 5, 8 >>
    <3>1. IsBetween(h, a, 0, 5)
      BY <2>3, BetweenIs
    <3>. HIDE DEF h
    <3>2. g \in Octets /\ Len(g) = 5 /\ g[1] = 96 /\ g[2] = 133 /\ g[3] = 116 /\ g[4] = 5 /\ g[5] = 8
      BY DEF Octets
    <3>. HIDE DEF g
    <3>3. IsBetween(g, a, 0, 5)
      BY <2>3, <3>2 DEF IsBetween
    <3>4. h = g
      BY <3>1, <3>3, BetweenOnly
    <3>. QED  BY <3>4 DEF h, g, Between, OidHeader
  <2>5. csm_ber_decode_object_identifier(a) = Result(<< 1, 2 >>, t)
    BY <2>2, <2>3, <2>4 DEF csm_ber_decode_object_identifier
  <2>. QED  BY <2>5 DEF a, o, Reads, Result
<1>2. ASSUME NEW a \in Octets, Len(a) < 7
      PROVE  Fails(csm_ber_decode_object_identifier(a))
  BY <1>2, LenIs DEF csm_ber_decode_object_identifier, Failure, Fails
<1>. QED  BY <1>1, <1>2

LEMMA NullRead ==
  /\ \A t \in Octets : Reads(csm_axdr_rd_null(<< 0 >> \o t), 0, t)
  /\ Fails(csm_axdr_rd_null(<<>>))
<1>1. ASSUME NEW t \in Octets
      PROVE  Reads(csm_axdr_rd_null(<< 0 >> \o t), 0, t)
  <2>. DEFINE b == csm_array_read_u8(<< 0 >> \o t)
  <2>1. b = [ok |-> TRUE, val |-> 0, rest |-> t]
    BY ByteRead DEF Result
  <2>. HIDE DEF b
  <2>2. (b.ok /\ b.val = NULL) = TRUE
    BY <2>1 DEF NULL
  <2>3. csm_axdr_rd_null(<< 0 >> \o t) = [b EXCEPT !.ok = TRUE]
    BY <2>2, Zenon DEF csm_axdr_rd_null, b
  <2>. QED  BY <2>1, <2>3 DEF Reads
<1>2. Fails(csm_axdr_rd_null(<<>>))
  <2>. DEFINE b == csm_array_read_u8(<<>>)
  <2>1. b = [ok |-> FALSE, val |-> 0, rest |-> <<>>]
    BY ByteRead DEF Failure
  <2>. HIDE DEF b
  <2>2. (b.ok /\ b.val = NULL) = FALSE
    BY <2>1
  <2>3. csm_axdr_rd_null(<<>>) = [b EXCEPT !.ok = FALSE]
    BY <2>2, Zenon DEF csm_axdr_rd_null, b
  <2>. QED  BY <2>1, <2>3 DEF Fails
<1>. QED  BY <1>1, <1>2

LEMMA OneByOne ==
  ASSUME NEW v \in Nat
  PROVE  << 2, 1, v >> = << 2 >> \o (<< 1 >> \o (<< v >> \o <<>>)) /\ << 2 >> \o <<>> = << 2 >>
         /\ << 2 >> \o (<< 1 >> \o <<>>) = << 2, 1 >>
<1>1. ASSUME NEW s \in Octets, NEW x \in Octets, NEW t \in Octets, AreJoined(s, x, t)
      PROVE  s = x \o t
  BY <1>1, JoinedOnly
<1>2. /\ << 2, 1, v >> \in Octets /\ << 2 >> \in Octets /\ << 1, v >> \in Octets
      /\ << 1 >> \in Octets /\ << v >> \in Octets /\ << 2, 1 >> \in Octets /\ <<>> \in Octets
  BY DEF Octets
<1>3. AreJoined(<< 2, 1, v >>, << 2 >>, << 1, v >>)
  BY <1>2 DEF AreJoined
<1>4. AreJoined(<< 1, v >>, << 1 >>, << v >>)
  BY <1>2 DEF AreJoined
<1>5. AreJoined(<< 2, 1 >>, << 2 >>, << 1 >>)
  BY <1>2 DEF AreJoined
<1>6. \A s \in Octets : s \o <<>> = s
  BY ConcatEmptySeq DEF Octets
<1>7. << 2, 1, v >> = << 2 >> \o << 1, v >> /\ << 1, v >> = << 1 >> \o << v >>
      /\ << 2, 1 >> = << 2 >> \o << 1 >>
  BY <1>1, <1>2, <1>3, <1>4, <1>5
<1>. QED  BY <1>2, <1>6, <1>7

\* What a reader gets of the item it expects: of all of it, of a beginning, of nothing.
ReadWhole(it) == \A t \in Octets : Reads(ReadItem(it, it.bytes \o t), it.size, t)
ReadCut(it) ==
    \A n \in 0..Len(it.bytes) - 1 :
        \/ Fails(ReadItem(it, SubSeq(it.bytes, 1, n)))
        \/ it.tag \in {"octets", "block"} /\ Reads(ReadItem(it, SubSeq(it.bytes, 1, n)), 0, <<>>)
ReadNothing(it) == Fails(ReadItem(it, <<>>))

LEMMA ReadOne ==
  ASSUME NEW it, Readable(it)
  PROVE  ReadWhole(it) /\ ReadCut(it) /\ ReadNothing(it)
<1>1. ASSUME NEW n \in 0..127, it = Item("length", n, << n >>)
      PROVE  ReadWhole(it) /\ ReadCut(it) /\ ReadNothing(it)
  <2>1. it.tag = "length" /\ it.size = n /\ it.bytes = << n >> /\ Len(it.bytes) = 1
    BY <1>1 DEF Item
  <2>2. \A a : ReadItem(it, a) = csm_ber_read_len(a)
    BY <2>1 DEF ReadItem
  <2>3. SubSeq(it.bytes, 1, 0) = <<>>
    BY SubSeqEmpty
  <2>4. ASSUME NEW t \in Octets
        PROVE  Reads(ReadItem(it, it.bytes \o t), it.size, t)
    BY <2>1, <2>2, LengthRead DEF Reads, Result
  <2>5. Fails(csm_ber_read_len(<<>>))
    BY LengthRead DEF Failure, Fails
  <2>6. \A c \in 0..Len(it.bytes) - 1 : c = 0
    BY <2>1
  <2>. QED  BY <2>2, <2>3, <2>4, <2>5, <2>6 DEF ReadWhole, ReadCut, ReadNothing
<1>2. ASSUME NEW n \in 0..127, NEW byte \in {0, 9}, it.size = n, it.bytes = Framed(byte, n),
             \/ it.tag = "octets" /\ byte = OCTETSTRING
             \/ it.tag = "block" /\ byte = 0
      PROVE  ReadWhole(it) /\ ReadCut(it) /\ ReadNothing(it)
  <2>1. Len(it.bytes) = n + 2 /\ n \in Nat
    BY <1>2, FramedType
  <2>2. ReadWhole(it)
    BY <1>2, FramedRead DEF ReadWhole
  <2>3. Fails(ReadItem(it, <<>>))
    <3>1. Fails(Sized(<<>>, byte)) /\ Sized(<<>>, byte) = [ok |-> FALSE, val |-> 0, rest |-> <<>>]
      <4>1. csm_array_read_u8(<<>>) = [ok |-> FALSE, val |-> 0, rest |-> <<>>]
        BY ByteRead DEF Failure
      <4>2. Sized(<<>>, byte) = Failure(<<>>)
        BY <4>1 DEF Sized
      <4>. QED  BY <4>2 DEF Failure, Fails
    <3>2. Fails(Passes(Sized(<<>>, byte)))
      BY <3>1, PassedFails
    <3>. QED  BY <1>2, <3>2, ReadsFramed
  <2>4. ASSUME NEW c \in 0..Len(it.bytes) - 1
        PROVE  \/ Fails(ReadItem(it, SubSeq(it.bytes, 1, c)))
               \/ Reads(ReadItem(it, SubSeq(it.bytes, 1, c)), 0, <<>>)
    <3>1. CASE c = 0
      <4>1. SubSeq(it.bytes, 1, 0) = <<>>
        BY SubSeqEmpty
      <4>. QED  BY <2>3, <3>1, <4>1
    <3>2. CASE c # 0
      <4>1. c \in 1..n + 1
        BY <2>1, <3>2
      <4>. QED  BY <1>2, <4>1, FramedCutRead
    <3>. QED  BY <3>1, <3>2
  <2>. QED  BY <1>2, <2>2, <2>3, <2>4 DEF ReadCut, ReadNothing
<1>3. ASSUME NEW v \in {0, 255}, it = Item("u8", v, << 2, 1, v >>)
      PROVE  ReadWhole(it) /\ ReadCut(it) /\ ReadNothing(it)
  <2>1. it.tag = "u8" /\ it.size = v /\ it.bytes = << 2, 1, v >> /\ Len(it.bytes) = 3 /\ v \in Nat
    BY <1>3 DEF Item
  <2>2. \A a : ReadItem(it, a) = csm_ber_read_u8(a)
    BY <2>1 DEF ReadItem
  <2>3. ASSUME NEW t \in Octets
        PROVE  Reads(ReadItem(it, it.bytes \o t), it.size, t)
    <3>. DEFINE z == << v >> \o <<>>
                y == << 1 >> \o z
    <3>1. <<>> \in Octets /\ 1 \in Nat /\ 2 \in Nat /\ z \in Octets /\ y \in Octets
          /\ <<>> \o t = t
      <4>1. <<>> \in Octets /\ <<>> \o t = t
        BY ConcatEmptySeq DEF Octets
      <4>2. z \in Octets
        BY <2>1, <4>1, Front
      <4>. HIDE DEF z
      <4>. QED  BY <4>1, <4>2, Front
    <3>2. z \o t = << v >> \o t
      BY <2>1, <3>1, FrontOfJoined
    <3>3. y \o t = << 1 >> \o (z \o t)
      <4>. HIDE DEF z
      <4>. QED  BY <3>1, FrontOfJoined
    <3>4. (<< 2 >> \o y) \o t = << 2 >> \o (y \o t)
      <4>. HIDE DEF y
      <4>. QED  BY <3>1, FrontOfJoined
    <3>5. it.bytes = << 2 >> \o y
      BY <2>1, OneByOne, Zenon
    <3>. HIDE DEF z, y
    <3>6. it.bytes \o t = << 2 >> \o (<< 1 >> \o (<< v >> \o t))
      BY <3>2, <3>3, <3>4, <3>5
    <3>. QED  BY <2>1, <2>2, <3>6, NumberRead
  <2>4. /\ SubSeq(it.bytes, 1, 0) = <<>> /\ SubSeq(it.bytes, 1, 1) = << 2 >> \o <<>>
        /\ SubSeq(it.bytes, 1, 2) = << 2 >> \o (<< 1 >> \o <<>>)
    <3>. DEFINE z == << v >> \o <<>>
                y == << 1 >> \o z
    <3>1. <<>> \in Octets /\ 1 \in Nat /\ 2 \in Nat /\ z \in Octets /\ Len(z) = 1
      <4>1. <<>> \in Octets /\ Len(<<>>) = 0
        BY DEF Octets
      <4>2. z \in Octets /\ Len(z) = Len(<<>>) + 1
        BY <2>1, <4>1, Front
      <4>. QED  BY <4>1, <4>2
    <3>2. it.bytes = << 2 >> \o y
      BY <2>1, OneByOne, Zenon
    <3>. HIDE DEF z
    <3>3. y \in Octets /\ Len(y) = 2
      <4>1. y \in Octets /\ Len(y) = Len(z) + 1
        <5>1. \A u \in Octets : << 1 >> \o u \in Octets /\ Len(<< 1 >> \o u) = Len(u) + 1
          BY Front
        <5>. QED  BY <3>1, <5>1
      <4>. QED  BY <3>1, <4>1
    <3>4. SubSeq(y, 1, 1) = << 1 >> \o SubSeq(z, 1, 0)
      <4>1. 1 \in 1..Len(z) + 1 /\ 1 - 1 = 0
        BY <3>1
      <4>. QED  BY <3>1, <4>1, FrontOfCut
    <3>. HIDE DEF y
    <3>5. SubSeq(it.bytes, 1, 1) = << 2 >> \o SubSeq(y, 1, 0)
      <4>1. 1 \in 1..Len(y) + 1 /\ 1 - 1 = 0
        BY <3>3
      <4>2. SubSeq(<< 2 >> \o y, 1, 1) = << 2 >> \o SubSeq(y, 1, 1 - 1)
        BY <3>1, <3>3, <4>1, FrontOfCut
      <4>. QED  BY <3>2, <4>1, <4>2
    <3>6. SubSeq(it.bytes, 1, 2) = << 2 >> \o SubSeq(y, 1, 1)
      <4>1. 2 \in 1..Len(y) + 1 /\ 2 - 1 = 1
        BY <3>3
      <4>2. SubSeq(<< 2 >> \o y, 1, 2) = << 2 >> \o SubSeq(y, 1, 2 - 1)
        BY <3>1, <3>3, <4>1, FrontOfCut
      <4>. QED  BY <3>2, <4>1, <4>2
    <3>7. SubSeq(y, 1, 0) = <<>> /\ SubSeq(z, 1, 0) = <<>> /\ SubSeq(it.bytes, 1, 0) = <<>>
      BY SubSeqEmpty
    <3>. QED  BY <3>4, <3>5, <3>6, <3>7, Zenon
  <2>5. ASSUME NEW c \in 0..Len(it.bytes) - 1
        PROVE  Fails(ReadItem(it, SubSeq(it.bytes, 1, c)))
    <3>1. c = 0 \/ c = 1 \/ c = 2
      BY <2>1
    <3>2. CASE c = 0
      <4>1. SubSeq(it.bytes, 1, c) = <<>>
        BY <2>4, <3>2, Zenon
      <4>. QED  BY <2>2, <4>1, NumberRead, Zenon
    <3>3. CASE c = 1
      BY <2>2, <2>4, <3>3, NumberRead
    <3>4. CASE c = 2
      BY <2>2, <2>4, <3>4, NumberRead
    <3>. QED  BY <3>1, <3>2, <3>3, <3>4
  <2>. QED  BY <2>2, <2>3, <2>5, NumberRead DEF ReadWhole, ReadCut, ReadNothing
<1>4. ASSUME it = Item("oid", << 1, 2 >>, << 96, 133, 116, 5, 8, 1, 2 >>)
      PROVE  ReadWhole(it) /\ ReadCut(it) /\ ReadNothing(it)
  <2>1. /\ it.tag = "oid" /\ it.size = << 1, 2 >> /\ it.bytes = << 96, 133, 116, 5, 8, 1, 2 >>
        /\ Len(it.bytes) = 7 /\ it.bytes \in Octets
    BY <1>4 DEF Item, Octets
  <2>2. \A a : ReadItem(it, a) = csm_ber_decode_object_identifier(a)
    BY <2>1 DEF ReadItem
  <2>3. ASSUME NEW c \in 0..6
        PROVE  Fails(ReadItem(it, SubSeq(it.bytes, 1, c)))
    <3>1. IsBetween(Between(it.bytes, 0, c), it.bytes, 0, c)
      <4>1. c \in 0..Len(it.bytes) /\ 0 \in 0..c
        BY <2>1
      <4>. QED  BY <2>1, <4>1, BetweenIs
    <3>2. SubSeq(it.bytes, 1, c) \in Octets /\ Len(SubSeq(it.bytes, 1, c)) < 7
      BY <3>1 DEF IsBetween, Between
    <3>. QED  BY <2>2, <3>2, OidRead
  <2>4. <<>> \in Octets /\ Len(<<>>) < 7
    BY DEF Octets
  <2>. QED  BY <2>1, <2>2, <2>3, <2>4, OidRead DEF ReadWhole, ReadCut, ReadNothing
<1>5. ASSUME it = Item("null", 0, << 0 >>)
      PROVE  ReadWhole(it) /\ ReadCut(it) /\ ReadNothing(it)
  <2>1. it.tag = "null" /\ it.size = 0 /\ it.bytes = << 0 >> /\ Len(it.bytes) = 1
    BY <1>5 DEF Item
  <2>2. \A a : ReadItem(it, a) = csm_axdr_rd_null(a)
    BY <2>1 DEF ReadItem
  <2>3. SubSeq(it.bytes, 1, 0) = <<>>
    BY SubSeqEmpty
  <2>4. \A c \in 0..Len(it.bytes) - 1 : c = 0
    BY <2>1
  <2>. QED  BY <2>1, <2>2, <2>3, <2>4, NullRead DEF ReadWhole, ReadCut, ReadNothing
<1>6. ASSUME NEW n \in 0..127,
             \/ it = Item("octets", n, Framed(OCTETSTRING, n))
             \/ it = Item("block", n, Framed(0, n))
      PROVE  it.size = n /\ \E byte \in {0, 9} :
                it.bytes = Framed(byte, n) /\ \/ it.tag = "octets" /\ byte = OCTETSTRING
                                              \/ it.tag = "block" /\ byte = 0
  BY <1>6 DEF Item, OCTETSTRING
<1>7. ASSUME NEW n \in 0..127,
             \/ it = Item("octets", n, Framed(OCTETSTRING, n))
             \/ it = Item("block", n, Framed(0, n))
      PROVE  ReadWhole(it) /\ ReadCut(it) /\ ReadNothing(it)
  BY <1>2, <1>6, <1>7, Zenon
<1>. QED  BY <1>1, <1>3, <1>4, <1>5, <1>7, Zenon DEF Readable

-----------------------------------------------------------------------------
(* Readers of a message                                                     *)

Tags == {"length", "octets", "block", "u8", "oid", "null"} \cup Nat
ItemValues == Nat \cup {<< 1, 2 >>}
Items == [tag: Tags, size: ItemValues, bytes: Octets]
ReadItems == {it \in Items : Readable(it)}

\* The values of the k first items.
Firsts(items, k) == [i \in 1..k |-> items[i].size]

LEMMA FirstsAre ==
  ASSUME NEW items \in Seq(ReadItems), NEW k \in 0..Len(items)
  PROVE  /\ Firsts(items, k) \in Seq(ItemValues) /\ Len(Firsts(items, k)) = k
         /\ SubSeq(Firsts(items, Len(items)), 1, k) = Firsts(items, k)
         /\ k > 0 => /\ Append(Firsts(items, k - 1), items[k].size) = Firsts(items, k)
                     /\ Append(Firsts(items, k - 1), 0) = [Firsts(items, k) EXCEPT ![k] = 0]
<1>1. Len(items) \in Nat /\ \A i \in 1..Len(items) : items[i].size \in ItemValues
  <2>1. ASSUME NEW i \in 1..Len(items)
        PROVE  items[i].size \in ItemValues
    <3>1. items[i] \in ReadItems
      OBVIOUS
    <3>. QED  BY <3>1, ReadableType DEF ReadItems, ItemValues
  <2>. QED  BY <2>1
<1>2. ASSUME NEW n \in 0..Len(items)
      PROVE  /\ Firsts(items, n) \in Seq(ItemValues) /\ Len(Firsts(items, n)) = n
             /\ \A i \in 1..n : Firsts(items, n)[i] = items[i].size
  <2>1. Firsts(items, n) \in [1..n -> ItemValues] /\ n \in Nat
    BY <1>1, <1>2 DEF Firsts
  <2>. QED  BY <2>1 DEF Firsts
<1>3. SubSeq(Firsts(items, Len(items)), 1, k) = Firsts(items, k)
  <2>. DEFINE s == Firsts(items, Len(items))
              t == Firsts(items, k)
              u == SubSeq(s, 1, k)
  <2>1. /\ s \in Seq(ItemValues) /\ Len(s) = Len(items) /\ t \in Seq(ItemValues) /\ Len(t) = k
        /\ \A i \in 1..Len(items) : s[i] = items[i].size
        /\ \A i \in 1..k : t[i] = items[i].size
    BY <1>1, <1>2
  <2>. HIDE DEF s, t
  <2>2. u \in Seq(ItemValues) /\ Len(u) = k /\ \A i \in 1..k : u[i] = s[i]
    BY <1>1, <2>1
  <2>. HIDE DEF u
  <2>3. u = t
    BY <1>1, <2>1, <2>2, SeqEqual
  <2>. QED  BY <2>3 DEF s, t, u
<1>4. ASSUME k > 0, NEW v \in ItemValues
      PROVE  Append(Firsts(items, k - 1), v) = [Firsts(items, k) EXCEPT ![k] = v]
  <2>. DEFINE s == Firsts(items, k - 1)
              t == Firsts(items, k)
              u == Append(s, v)
              w == [t EXCEPT ![k] = v]
  <2>1. k - 1 \in 0..Len(items) /\ (k - 1) + 1 = k
    BY <1>1, <1>4
  <2>2. /\ s \in Seq(ItemValues) /\ Len(s) = k - 1 /\ t \in Seq(ItemValues) /\ Len(t) = k
        /\ \A i \in 1..k - 1 : s[i] = items[i].size
        /\ \A i \in 1..k : t[i] = items[i].size
    BY <1>2, <2>1
  <2>. HIDE DEF s, t
  <2>3. u \in Seq(ItemValues) /\ Len(u) = k /\ (\A i \in 1..k - 1 : u[i] = s[i]) /\ u[k] = v
    BY <2>1, <2>2, AppendProperties
  <2>4. w \in Seq(ItemValues) /\ Len(w) = k /\ \A i \in 1..k : w[i] = IF i = k THEN v ELSE t[i]
    <3>1. k \in 1..Len(t)
      BY <1>4, <2>2
    <3>. QED  BY <2>2, <3>1, ExceptSeq
  <2>. HIDE DEF u, w
  <2>5. \A i \in 1..k : u[i] = w[i]
    <3>1. ASSUME NEW i \in 1..k
          PROVE  u[i] = w[i]
      <4>1. CASE i = k
        BY <2>3, <2>4, <4>1
      <4>2. CASE i # k
        <5>1. i \in 1..k - 1
          BY <1>1, <2>1, <4>2
        <5>2. u[i] = items[i].size /\ w[i] = items[i].size
          BY <2>2, <2>3, <2>4, <4>2, <5>1
        <5>. QED  BY <5>2
      <4>. QED  BY <4>1, <4>2
    <3>. QED  BY <3>1
  <2>6. u = w
    BY <2>3, <2>4, <2>5, SeqEqual
  <2>. QED  BY <2>6 DEF s, t, u, w
<1>5. ASSUME k > 0
      PROVE  [Firsts(items, k) EXCEPT ![k] = items[k].size] = Firsts(items, k)
  BY <1>1, <1>5 DEF Firsts
<1>6. k > 0 => items[k].size \in ItemValues /\ 0 \in ItemValues
  BY <1>1 DEF ItemValues
<1>. QED  BY <1>2, <1>3, <1>4, <1>5, <1>6

AtStart(a) == [ok |-> TRUE, vals |-> <<>>, rest |-> a]

IsReading(f, items, a) ==
    f[0] = AtStart(a) /\ \A n \in 1..Len(items) : f[n] = NextRead(items[n], f[n - 1])

LEMMA ReadingIs ==
  ASSUME NEW items, NEW a, Len(items) \in Nat
  PROVE  \E f : IsReading(f, items, a) /\ Values(items, a) = f[Len(items)].vals
<1>. DEFINE N == Len(items)
            Upto(f, m) ==
              /\ f = [n \in 0..N |-> f[n]]
              /\ \A n \in 0..m : f[n] = IF n = 0 THEN AtStart(a) ELSE NextRead(items[n], f[n - 1])
            Bad == {m \in 0..N : ~ \E f : Upto(f, m)}
<1>1. Bad = {}
  <2>1. SUFFICES ASSUME Bad # {} PROVE FALSE
    OBVIOUS
  <2>2. PICK m \in Bad : \A k \in Bad : m <= k
    <3>1. Bad \in SUBSET Nat
      OBVIOUS
    <3>. HIDE DEF Bad
    <3>. QED  BY <2>1, <3>1, Least
  <2>3. CASE m = 0
    <3>. DEFINE f == [n \in 0..N |-> AtStart(a)]
    <3>1. Upto(f, 0)
      OBVIOUS
    <3>. QED  BY <2>2, <2>3, <3>1
  <2>4. CASE m # 0
    <3>1. m - 1 \in 0..N /\ m \in 1..N /\ m - 1 \notin Bad
      <4>1. m \in 0..N
        BY <2>2
      <4>. HIDE DEF Bad
      <4>. QED  BY <2>2, <2>4, <4>1
    <3>2. PICK f : Upto(f, m - 1)
      BY <3>1
    <3>. DEFINE g == [n \in 0..N |-> IF n = m THEN NextRead(items[m], f[m - 1]) ELSE f[n]]
    <3>3. ASSUME NEW n \in 0..m
          PROVE  g[n] = IF n = 0 THEN AtStart(a) ELSE NextRead(items[n], g[n - 1])
      <4>1. CASE n = m
        <5>1. g[m - 1] = f[m - 1] /\ g[m] = NextRead(items[m], f[m - 1])
          BY <3>1
        <5>. HIDE DEF g
        <5>. QED  BY <3>1, <4>1, <5>1
      <4>2. CASE n # m
        <5>1. n \in 0..m - 1 /\ g[n] = f[n] /\ (n # 0 => g[n - 1] = f[n - 1])
          BY <3>1, <4>2
        <5>. HIDE DEF g
        <5>. QED  BY <3>2, <5>1
      <4>. QED  BY <4>1, <4>2
    <3>4. g = [n \in 0..N |-> g[n]]
      OBVIOUS
    <3>5. Upto(g, m)
      BY <3>3, <3>4
    <3>. QED  BY <2>2, <3>5
  <2>. QED  BY <2>3, <2>4
<1>2. PICK f : Upto(f, N)
  <2>1. N \in 0..N
    OBVIOUS
  <2>. QED  BY <1>1, <2>1
<1>. DEFINE h == CHOOSE h : h = [n \in 0..N |-> IF n = 0 THEN AtStart(a)
                                              ELSE NextRead(items[n], h[n - 1])]
<1>3. f = [n \in 0..N |-> IF n = 0 THEN AtStart(a) ELSE NextRead(items[n], f[n - 1])]
  BY <1>2
<1>4. h = [n \in 0..N |-> IF n = 0 THEN AtStart(a) ELSE NextRead(items[n], h[n - 1])]
  BY <1>3
<1>5. Values(items, a) = h[N].vals
  BY DEF Values, AtStart
<1>. HIDE DEF h
<1>6. ASSUME NEW n \in 0..N
      PROVE  h[n] = IF n = 0 THEN AtStart(a) ELSE NextRead(items[n], h[n - 1])
  BY <1>4
<1>7. IsReading(h, items, a)
  <2>1. h[0] = AtStart(a)
    BY <1>6
  <2>2. ASSUME NEW n \in 1..N
        PROVE  h[n] = NextRead(items[n], h[n - 1])
    <3>1. n \in 0..N /\ n # 0
      OBVIOUS
    <3>. QED  BY <1>6, <3>1
  <2>. QED  BY <2>1, <2>2 DEF IsReading
<1>. QED  BY <1>5, <1>7

LEMMA ReadItemsAre ==
  ASSUME NEW items \in Seq(ReadItems)
  PROVE  AreItems(items) /\ \A i \in 1..Len(items) : Readable(items[i])
<1>1. Len(items) \in Nat /\ DOMAIN items = 1..Len(items)
  OBVIOUS
<1>2. ASSUME NEW i \in 1..Len(items)
      PROVE  Readable(items[i]) /\ items[i].bytes \in Octets
  <2>1. items[i] \in ReadItems
    OBVIOUS
  <2>. QED  BY <2>1, ReadableType DEF ReadItems
<1>. QED  BY <1>1, <1>2 DEF AreItems

\* A reading that succeeded so far: the values of k items, and what is behind them.
Got(items, k, rest) == [ok |-> TRUE, vals |-> Firsts(items, k), rest |-> rest]

LEMMA ReadOn ==
  ASSUME NEW item, NEW v, NEW t, NEW a, NEW vals, Reads(ReadItem(item, a), v, t)
  PROVE  NextRead(item, [ok |-> TRUE, vals |-> vals, rest |-> a])
            = [ok |-> TRUE, vals |-> Append(vals, v), rest |-> t]
<1>. DEFINE read == [ok |-> TRUE, vals |-> vals, rest |-> a]
            r == ReadItem(item, a)
<1>1. read.ok = TRUE /\ read.vals = vals /\ read.rest = a
  OBVIOUS
<1>2. r.ok = TRUE /\ r.val = v /\ r.rest = t
  BY DEF Reads
<1>. HIDE DEF read, r
<1>3. NextRead(item, read) = IF read.ok /\ r.ok
                             THEN [ok |-> TRUE, vals |-> Append(read.vals, r.val), rest |-> r.rest]
                             ELSE [read EXCEPT !.ok = FALSE]
  BY <1>1, Zenon DEF NextRead, r
<1>4. NextRead(item, read) = [ok |-> TRUE, vals |-> Append(vals, v), rest |-> t]
  BY <1>1, <1>2, <1>3
<1>. QED  BY <1>4 DEF read

LEMMA ReadFails ==
  ASSUME NEW item, NEW read, read = [ok |-> read.ok, vals |-> read.vals, rest |-> read.rest],
         read.ok = FALSE \/ Fails(ReadItem(item, read.rest))
  PROVE  NextRead(item, read) = [ok |-> FALSE, vals |-> read.vals, rest |-> read.rest]
<1>1. ~(read.ok /\ ReadItem(item, read.rest).ok)
  BY DEF Fails
<1>2. NextRead(item, read) = [read EXCEPT !.ok = FALSE]
  BY <1>1 DEF NextRead
<1>. QED  BY <1>2

\* While the items are there they are read.
LEMMA ReadWhatIsThere ==
  ASSUME NEW items \in Seq(ReadItems), NEW J, IsWritten(J, items), NEW b \in Octets,
         Begins(J[Len(items)], b), NEW c \in 0..Len(b), NEW f, IsReading(f, items, SubSeq(b, 1, c))
  PROVE  \A k \in 0..Len(items) :
            Len(J[k]) <= c => f[k] = Got(items, k, Between(b, Len(J[k]), c))
<1>. DEFINE N == Len(items)
            There(k) == Len(J[k]) <= c => f[k] = Got(items, k, Between(b, Len(J[k]), c))
            Bad == {k \in 0..N : ~There(k)}
<1>1. AreItems(items) /\ N \in Nat /\ \A i \in 1..N : Readable(items[i])
  BY ReadItemsAre
<1>2. SUFFICES ASSUME Bad # {} PROVE FALSE
  OBVIOUS
<1>3. PICK k \in Bad : \A j \in Bad : k <= j
  <2>1. Bad \in SUBSET Nat
    BY <1>1
  <2>. HIDE DEF Bad
  <2>. QED  BY <1>2, <2>1, Least
<1>4. k \in 0..N /\ ~There(k)
  BY <1>3
<1>5. There(0)
  <2>1. J[0] = <<>> /\ Len(<<>>) = 0
    BY DEF IsWritten
  <2>2. Between(b, Len(J[0]), c) = SubSeq(b, 1, c)
    BY <2>1 DEF Between
  <2>3. Firsts(items, 0) = <<>>
    BY DEF Firsts
  <2>. QED  BY <2>2, <2>3 DEF IsReading, AtStart, Got
<1>6. k \in 1..N /\ k - 1 \in 0..N /\ k - 1 \notin Bad
  <2>1. k # 0
    BY <1>4, <1>5
  <2>. HIDE DEF Bad
  <2>. QED  BY <1>1, <1>3, <1>4, <2>1
<1>7. There(k - 1)
  BY <1>6
<1>8. Len(J[k]) <= c
  BY <1>4
<1>. DEFINE n == Len(J[k - 1])
            m == Len(J[k])
            item == items[k]
            t == Between(b, m, c)
<1>9. IsAt(b, n, item, m)
  BY <1>1, <1>6, ItemIsAt
<1>10. n <= c
  <2>1. Len(item.bytes) \in Nat
    BY <1>9, LenIs DEF IsAt
  <2>. HIDE DEF n, m
  <2>2. n \in Nat /\ m = n + Len(item.bytes) /\ m <= c
    BY <1>8, <1>9 DEF IsAt, m
  <2>. QED  BY <2>1, <2>2
<1>11. Between(b, n, c) = item.bytes \o t /\ t \in Octets
  <2>. HIDE DEF n, m, item
  <2>1. m <= c
    BY <1>8 DEF m
  <2>2. IsWhole(Between(b, n, c), item, Between(b, m, c))
    BY <1>9, <2>1, WholeItem
  <2>. QED  BY <2>2 DEF IsWhole, t
<1>12. Reads(ReadItem(item, item.bytes \o t), item.size, t)
  <2>1. ReadWhole(item)
    BY <1>1, <1>6, ReadOne
  <2>. QED  BY <1>11, <2>1 DEF ReadWhole
<1>13. f[k - 1] = [ok |-> TRUE, vals |-> Firsts(items, k - 1), rest |-> item.bytes \o t]
  BY <1>7, <1>10, <1>11 DEF Got
<1>14. f[k] = NextRead(item, f[k - 1])
  BY <1>6 DEF IsReading
<1>15. f[k] = [ok |-> TRUE, vals |-> Append(Firsts(items, k - 1), item.size), rest |-> t]
  <2>. DEFINE a == item.bytes \o t
  <2>. HIDE DEF t, item, a
  <2>1. Reads(ReadItem(item, a), item.size, t)
    BY <1>12 DEF a
  <2>2. NextRead(item, [ok |-> TRUE, vals |-> Firsts(items, k - 1), rest |-> a])
           = [ok |-> TRUE, vals |-> Append(Firsts(items, k - 1), item.size), rest |-> t]
    BY <2>1, ReadOn
  <2>. QED  BY <1>13, <1>14, <2>2, Zenon DEF a
<1>16. Append(Firsts(items, k - 1), item.size) = Firsts(items, k)
  BY <1>1, <1>6, FirstsAre
<1>17. There(k)
  BY <1>15, <1>16 DEF Got
<1>. QED  BY <1>4, <1>17

\* The item in which a message is cut ends the reading, after an empty value or none.
LEMMA ReadWhatIsCut ==
  ASSUME NEW items \in Seq(ReadItems), NEW J, IsWritten(J, items), NEW b \in Octets,
         Begins(J[Len(items)], b), NEW c \in 0..Len(b), NEW f, IsReading(f, items, SubSeq(b, 1, c)),
         NEW k \in 1..Len(items), Len(J[k - 1]) <= c, c < Len(J[k])
  PROVE  \A j \in k..Len(items) :
            \/ f[j].vals = Firsts(items, k - 1)
            \/ /\ items[k].tag \in {"octets", "block"}
               /\ f[j].vals = Append(Firsts(items, k - 1), 0)
<1>. DEFINE N == Len(items)
            Stuck(r) == r = [ok |-> FALSE, vals |-> r.vals, rest |-> r.rest]
            Empty(r) == r = [ok |-> TRUE, vals |-> r.vals, rest |-> <<>>]
            Given(r) == \/ r.vals = Firsts(items, k - 1)
                        \/ /\ items[k].tag \in {"octets", "block"}
                           /\ r.vals = Append(Firsts(items, k - 1), 0)
            Ends(j) == Given(f[j]) /\ (Stuck(f[j]) \/ Empty(f[j]))
            Bad == {j \in k..N : ~Ends(j)}
            n == Len(J[k - 1])
            item == items[k]
            a == SubSeq(item.bytes, 1, c - n)
<1>1. AreItems(items) /\ N \in Nat /\ \A i \in 1..N : Readable(items[i])
  BY ReadItemsAre
<1>2. IsAt(b, n, item, Len(J[k]))
  BY <1>1, ItemIsAt
<1>3. Between(b, n, c) = a /\ c - n \in 0..Len(item.bytes) - 1
  <2>1. IsCut(Between(b, n, c), item.bytes, c - n)
    <3>. HIDE DEF n, item
    <3>1. n <= c /\ c < Len(J[k])
      BY DEF n
    <3>. QED  BY <1>2, <3>1, CutItem
  <2>. QED  BY <2>1 DEF IsCut
<1>4. f[k - 1] = [ok |-> TRUE, vals |-> Firsts(items, k - 1), rest |-> a]
  <2>1. k - 1 \in 0..N
    BY <1>1
  <2>2. \A i \in 0..N : Len(J[i]) <= c => f[i] = Got(items, i, Between(b, Len(J[i]), c))
    BY ReadWhatIsThere
  <2>3. f[k - 1] = Got(items, k - 1, Between(b, n, c))
    BY <2>1, <2>2
  <2>. QED  BY <1>3, <2>3 DEF Got
<1>5. f[k] = NextRead(item, f[k - 1])
  BY DEF IsReading
<1>6. \/ Fails(ReadItem(item, a))
      \/ item.tag \in {"octets", "block"} /\ Reads(ReadItem(item, a), 0, <<>>)
  <2>1. ReadCut(item)
    BY <1>1, ReadOne
  <2>. QED  BY <1>3, <2>1 DEF ReadCut
<1>. HIDE DEF a
<1>7. Ends(k)
  <2>1. CASE Fails(ReadItem(item, a))
    <3>1. f[k] = [ok |-> FALSE, vals |-> Firsts(items, k - 1), rest |-> a]
      <4>. DEFINE read == f[k - 1]
      <4>1. /\ read = [ok |-> read.ok, vals |-> read.vals, rest |-> read.rest]
            /\ read.rest = a /\ read.vals = Firsts(items, k - 1)
        BY <1>4
      <4>. HIDE DEF read, item
      <4>2. NextRead(item, read) = [ok |-> FALSE, vals |-> read.vals, rest |-> read.rest]
        BY <2>1, <4>1, ReadFails
      <4>. QED  BY <1>5, <4>1, <4>2 DEF read
    <3>. QED  BY <3>1
  <2>2. CASE item.tag \in {"octets", "block"} /\ Reads(ReadItem(item, a), 0, <<>>)
    <3>1. f[k] = [ok |-> TRUE, vals |-> Append(Firsts(items, k - 1), 0), rest |-> <<>>]
      BY <1>4, <1>5, <2>2, ReadOn
    <3>. QED  BY <2>2, <3>1
  <2>. QED  BY <1>6, <2>1, <2>2
<1>8. SUFFICES ASSUME Bad # {} PROVE FALSE
  OBVIOUS
<1>9. PICK j \in Bad : \A i \in Bad : j <= i
  <2>1. Bad \in SUBSET Nat
    BY <1>1
  <2>. HIDE DEF Bad
  <2>. QED  BY <1>8, <2>1, Least
<1>10. j \in k..N /\ ~Ends(j)
  BY <1>9
<1>11. j - 1 \in k..N /\ j \in 1..N /\ j - 1 \notin Bad
  <2>1. j # k
    BY <1>7, <1>10
  <2>. HIDE DEF Bad
  <2>. QED  BY <1>1, <1>9, <1>10, <2>1
<1>12. Ends(j - 1)
  BY <1>11
<1>13. f[j] = NextRead(items[j], f[j - 1])
  BY <1>11 DEF IsReading
<1>14. Fails(ReadItem(items[j], <<>>))
  BY <1>1, <1>11, ReadOne DEF ReadNothing
<1>15. f[j] = [ok |-> FALSE, vals |-> f[j - 1].vals, rest |-> f[j - 1].rest]
  <2>1. CASE Stuck(f[j - 1])
    <3>1. f[j - 1].ok = FALSE
             /\ f[j - 1] = [ok |-> f[j - 1].ok, vals |-> f[j - 1].vals, rest |-> f[j - 1].rest]
      BY <2>1
    <3>. QED  BY <1>13, <3>1, ReadFails
  <2>2. CASE Empty(f[j - 1])
    <3>1. f[j - 1].rest = <<>>
             /\ f[j - 1] = [ok |-> f[j - 1].ok, vals |-> f[j - 1].vals, rest |-> f[j - 1].rest]
      BY <2>2
    <3>. QED  BY <1>13, <1>14, <3>1, ReadFails
  <2>. QED  BY <1>12, <2>1, <2>2
<1>16. Ends(j)
  BY <1>12, <1>15
<1>. QED  BY <1>10, <1>16

LEMMA ReadingOfAll ==
  ASSUME NEW items \in Seq(ReadItems), NEW J, IsWritten(J, items), NEW b \in Octets,
         Begins(J[Len(items)], b), NEW c \in 0..Len(b), Len(J[Len(items)]) <= c
  PROVE  Values(items, SubSeq(b, 1, c)) = Firsts(items, Len(items))
<1>. DEFINE N == Len(items)
            a == SubSeq(b, 1, c)
<1>1. AreItems(items) /\ N \in Nat /\ N \in 0..N
  BY ReadItemsAre
<1>2. PICK f : IsReading(f, items, a) /\ Values(items, a) = f[N].vals
  BY <1>1, ReadingIs
<1>3. \A k \in 0..N : Len(J[k]) <= c => f[k] = Got(items, k, Between(b, Len(J[k]), c))
  BY <1>2, ReadWhatIsThere
<1>4. f[N] = Got(items, N, Between(b, Len(J[N]), c))
  BY <1>1, <1>3
<1>. QED  BY <1>2, <1>4 DEF Got

LEMMA ReadingOfCut ==
  ASSUME NEW items \in Seq(ReadItems), NEW J, IsWritten(J, items), NEW b \in Octets,
         Begins(J[Len(items)], b), NEW c \in 0..Len(b), c < Len(J[Len(items)])
  PROVE  LET got == Values(items, SubSeq(b, 1, c))
         IN  \E k \in 1..Len(items) :
                \/ got = Firsts(items, k - 1)
                \/ /\ items[k].tag \in {"octets", "block"}
                   /\ got = Append(Firsts(items, k - 1), 0)
<1>. DEFINE N == Len(items)
            a == SubSeq(b, 1, c)
            Beyond == {k \in 0..N : c < Len(J[k])}
<1>1. AreItems(items) /\ N \in Nat
  BY ReadItemsAre
<1>2. PICK f : IsReading(f, items, a) /\ Values(items, a) = f[N].vals
  BY <1>1, ReadingIs
<1>3. N \in Beyond
  BY <1>1
<1>4. PICK k \in Beyond : \A j \in Beyond : k <= j
  <2>1. Beyond \in SUBSET Nat /\ Beyond # {}
    BY <1>1, <1>3
  <2>. HIDE DEF Beyond
  <2>. QED  BY <2>1, Least
<1>5. k \in 0..N /\ c < Len(J[k])
  BY <1>4
<1>6. k # 0
  <2>1. J[0] = <<>> /\ Len(<<>>) = 0
    BY DEF IsWritten
  <2>. QED  BY <1>5, <2>1
<1>7. k \in 1..N /\ k - 1 \in 0..N /\ k - 1 \notin Beyond
  <2>1. k \in 1..N /\ k - 1 \in 0..N /\ ~(k <= k - 1)
    BY <1>1, <1>5, <1>6
  <2>. HIDE DEF Beyond
  <2>. QED  BY <1>4, <2>1
<1>8. Len(J[k - 1]) <= c
  <2>1. Len(J[k - 1]) \in Nat
    BY <1>7, LenIs DEF IsWritten
  <2>. QED  BY <1>7, <2>1
<1>9. \A j \in k..N : \/ f[j].vals = Firsts(items, k - 1)
                      \/ /\ items[k].tag \in {"octets", "block"}
                         /\ f[j].vals = Append(Firsts(items, k - 1), 0)
  BY <1>2, <1>5, <1>7, <1>8, ReadWhatIsCut
<1>10. N \in k..N
  BY <1>1, <1>7
<1>11. \/ Values(items, a) = Firsts(items, k - 1)
       \/ /\ items[k].tag \in {"octets", "block"}
          /\ Values(items, a) = Append(Firsts(items, k - 1), 0)
  BY <1>2, <1>9, <1>10
<1>. QED  BY <1>7, <1>11

\* A number and what is behind it.
Fronts(z, x, s) == x \in Nat /\ s \in Octets /\ z = << x >> \o s

LEMMA FrontsJoin ==
  ASSUME NEW z, NEW x, NEW s, Fronts(z, x, s), NEW t \in Octets
  PROVE  Fronts(z \o t, x, s \o t)
<1>1. x \in Nat /\ s \in Octets /\ z = << x >> \o s
  BY DEF Fronts
<1>2. s \o t \in Octets
  BY <1>1 DEF Octets
<1>3. (<< x >> \o s) \o t = << x >> \o (s \o t)
  BY <1>1, FrontOfJoined
<1>. QED  BY <1>1, <1>2, <1>3 DEF Fronts

\* What a decoder returns.
Outcome(r, ok, v, t) ==
    r = [ok |-> r.ok, val |-> r.val, rest |-> r.rest] /\ r.ok = ok /\ r.val = v /\ r.rest = t

LEMMA NewValue ==
  ASSUME NEW r, NEW ok, NEW v, NEW t, Outcome(r, ok, v, t), NEW z
  PROVE  Outcome([r EXCEPT !.val = z], ok, z, t)
<1>. DEFINE q == [r EXCEPT !.val = z]
<1>1. r = [ok |-> r.ok, val |-> r.val, rest |-> r.rest] /\ r.ok = ok /\ r.rest = t
  BY DEF Outcome
<1>2. q = [ok |-> r.ok, val |-> z, rest |-> r.rest]
  BY <1>1
<1>. HIDE DEF q
<1>3. q.ok = r.ok /\ q.val = z /\ q.rest = r.rest
  BY <1>2
<1>4. q = [ok |-> q.ok, val |-> q.val, rest |-> q.rest]
  BY <1>2
<1>5. Outcome(q, ok, z, t)
  BY <1>1, <1>3, <1>4, Zenon DEF Outcome
<1>. QED  BY <1>5 DEF q

LEMMA NewOutcome ==
  ASSUME NEW r, NEW ok, NEW v, NEW t, Outcome(r, ok, v, t), NEW z
  PROVE  Outcome([r EXCEPT !.ok = z], z, v, t)
<1>. DEFINE q == [r EXCEPT !.ok = z]
<1>1. r = [ok |-> r.ok, val |-> r.val, rest |-> r.rest] /\ r.val = v /\ r.rest = t
  BY DEF Outcome
<1>2. q = [ok |-> z, val |-> r.val, rest |-> r.rest]
  BY <1>1
<1>. HIDE DEF q
<1>3. q.ok = z /\ q.val = r.val /\ q.rest = r.rest
  BY <1>2
<1>4. q = [ok |-> q.ok, val |-> q.val, rest |-> q.rest]
  BY <1>2
<1>5. Outcome(q, z, v, t)
  BY <1>1, <1>3, <1>4, Zenon DEF Outcome
<1>. QED  BY <1>5 DEF q

LEMMA FrontsRead ==
  ASSUME NEW z, NEW x, NEW s, Fronts(z, x, s)
  PROVE  /\ Outcome(csm_array_read_u8(z), TRUE, x, s)
         /\ Len(z) = Len(s) + 1 /\ Len(s) \in Nat /\ x \in Nat
<1>1. x \in Nat /\ s \in Octets /\ z = << x >> \o s
  BY DEF Fronts
<1>2. csm_array_read_u8(<< x >> \o s) = Result(x, s)
  BY <1>1, ByteRead
<1>3. Len(<< x >> \o s) = Len(s) + 1 /\ Len(s) \in Nat
  BY <1>1, Front, LenIs
<1>4. Outcome(Result(x, s), TRUE, x, s)
  BY DEF Outcome, Result
<1>. QED  BY <1>1, <1>2, <1>3, <1>4

\* A byte, a length of the long form, and p.
LongSized(z, byte, h, l, p) == \E s1, s2, s3 :
    Fronts(z, byte, s1) /\ Fronts(s1, 130, s2) /\ Fronts(s2, h, s3) /\ Fronts(s3, l, p)

LEMMA LongJoined ==
  ASSUME NEW z, NEW byte, NEW h, NEW l, NEW p, LongSized(z, byte, h, l, p), NEW t \in Octets
  PROVE  LongSized(z \o t, byte, h, l, p \o t)
<1>1. PICK s1, s2, s3 :
        Fronts(z, byte, s1) /\ Fronts(s1, 130, s2) /\ Fronts(s2, h, s3) /\ Fronts(s3, l, p)
  BY DEF LongSized
<1>2. /\ Fronts(z \o t, byte, s1 \o t) /\ Fronts(s1 \o t, 130, s2 \o t)
      /\ Fronts(s2 \o t, h, s3 \o t) /\ Fronts(s3 \o t, l, p \o t)
  BY <1>1, FrontsJoin
<1>. QED  BY <1>2 DEF LongSized

\* The items as the encoders write them: short, or with a length of the long form, whose
\* second byte has its high bit.
IsLong(it) ==
    \/ it.tag = "length"
    \/ \E h, l, p, byte :
          /\ byte \in {0, 9} /\ h >= 128 /\ LongSized(it.bytes, byte, h, l, p)
          /\ \/ it.tag = "octets" /\ byte = OCTETSTRING
             \/ it.tag = "block" /\ byte = 0
WrittenItems == {it \in Items : /\ Short(it) => Readable(it)
                                /\ ~Short(it) => IsLong(it)}

LEMMA SizeBeyond ==
  ASSUME NEW a, NEW v \in Nat, NEW q, Len(q) \in Nat, Len(q) < v,
         Outcome(csm_ber_read_len(a), TRUE, v, q)
  PROVE  Outcome(csm_axdr_size(a), FALSE, v, q)
<1>. DEFINE n == csm_ber_read_len(a)
<1>1. csm_axdr_size(a) = [n EXCEPT !.ok = n.val <= Len(n.rest)]
  BY DEF csm_axdr_size
<1>2. n.val = v /\ n.rest = q /\ Outcome(n, TRUE, v, q)
  BY DEF Outcome
<1>. HIDE DEF n
<1>3. (n.val <= Len(n.rest)) = FALSE
  BY <1>2
<1>4. csm_axdr_size(a) = [n EXCEPT !.ok = FALSE]
  BY <1>1, <1>3
<1>5. Outcome([n EXCEPT !.ok = FALSE], FALSE, v, q)
  BY <1>2, NewOutcome
<1>. QED  BY <1>4, <1>5

LEMMA ThirdRead ==
  ASSUME NEW a, NEW s1, NEW s2, NEW p, NEW h \in Nat, NEW l \in Nat,
         Outcome(csm_array_read_u8(a), TRUE, 130, s1),
         Outcome(csm_array_read_u8(s1), TRUE, h, s2),
         Outcome(csm_array_read_u8(s2), TRUE, l, p)
  PROVE  Outcome(csm_ber_read_len(a), TRUE, 256 * h + l, p)
<1>. DEFINE first == csm_array_read_u8(a)
            second == csm_array_read_u8(s1)
            third == csm_array_read_u8(s2)
            z == 256 * h + l
<1>1. first.val = 130 /\ first.rest = s1
  BY DEF Outcome
<1>2. second.ok = TRUE /\ second.val = h /\ second.rest = s2
  BY DEF Outcome
<1>3. third.ok = TRUE /\ third.val = l /\ Outcome(third, TRUE, l, p)
  BY DEF Outcome
<1>4. ~(first.val < 128 \/ first.val % 128 \notin {1, 2}) /\ ~(first.val % 128 = 1 \/ ~second.ok)
  BY <1>1, <1>2
<1>5. csm_ber_read_len(a)
        = [third EXCEPT !.val = IF third.ok THEN 256 * second.val + @ ELSE second.val]
  BY <1>1, <1>2, <1>4 DEF csm_ber_read_len
<1>. HIDE DEF first, second, third
<1>6. (IF third.ok THEN 256 * second.val + third.val ELSE second.val) = z
  BY <1>2, <1>3
<1>. HIDE DEF z
<1>7. csm_ber_read_len(a) = [third EXCEPT !.val = z]
  BY <1>5, <1>6
<1>8. Outcome([third EXCEPT !.val = z], TRUE, z, p)
  BY <1>3, NewValue
<1>. QED  BY <1>7, <1>8 DEF z

\* The smallest number of two bytes with the high bit.
TwoBytes == 32768

\* The reader of an octet string or a block refuses a length of the long form: it is read as
\* one of 2^15 at least.
LEMMA LongRefused ==
  ASSUME NEW it, NEW z, NEW h, NEW l, NEW p, NEW byte \in {0, 9}, h >= 128,
         \/ it.tag = "octets" /\ byte = OCTETSTRING
         \/ it.tag = "block" /\ byte = 0,
         LongSized(z, byte, h, l, p), Len(z) < TwoBytes
  PROVE  Fails(ReadItem(it, z))
<1>1. PICK u1, u2, u3 :
        Fronts(z, byte, u1) /\ Fronts(u1, 130, u2) /\ Fronts(u2, h, u3) /\ Fronts(u3, l, p)
  BY DEF LongSized
<1>2. /\ Outcome(csm_array_read_u8(z), TRUE, byte, u1)
      /\ Outcome(csm_array_read_u8(u1), TRUE, 130, u2)
      /\ Outcome(csm_array_read_u8(u2), TRUE, h, u3)
      /\ Outcome(csm_array_read_u8(u3), TRUE, l, p)
  BY <1>1, FrontsRead
<1>3. /\ Len(z) = Len(u1) + 1 /\ Len(u1) = Len(u2) + 1 /\ Len(u2) = Len(u3) + 1
      /\ Len(u3) = Len(p) + 1 /\ Len(p) \in Nat /\ h \in Nat /\ l \in Nat
  BY <1>1, FrontsRead
<1>. DEFINE v == 256 * h + l
<1>4. v \in Nat /\ Len(p) < v
  BY <1>3 DEF TwoBytes
<1>5. Outcome(csm_ber_read_len(u1), TRUE, v, p)
  <2>1. h \in Nat /\ l \in Nat
    BY <1>3
  <2>2. Outcome(csm_ber_read_len(u1), TRUE, 256 * h + l, p)
    BY <1>2, <2>1, ThirdRead, Zenon
  <2>. QED  BY <2>2
<1>. HIDE DEF v
<1>6. Outcome(csm_axdr_size(u1), FALSE, v, p)
  BY <1>3, <1>4, <1>5, SizeBeyond
<1>7. Sized(z, byte) = csm_axdr_size(u1)
  BY <1>2 DEF Sized, Outcome
<1>8. Fails(Passes(Sized(z, byte)))
  <2>. DEFINE r == Sized(z, byte)
  <2>1. r = [ok |-> r.ok, val |-> r.val, rest |-> r.rest] /\ r.ok = FALSE
    BY <1>6, <1>7 DEF Outcome
  <2>. HIDE DEF r
  <2>2. Fails(r)
    BY <2>1 DEF Fails
  <2>3. Fails(Passes(r))
    BY <2>1, <2>2, PassedFails
  <2>. QED  BY <2>3 DEF r
<1>9. ReadItem(it, z) = Passes(Sized(z, byte))
  BY ReadsFramed
<1>. QED  BY <1>8, <1>9

\* The k first items, and their bytes.
Begun(J, k) == [n \in 0..k |-> J[n]]

IsFront(front, J, items, k) ==
    /\ front \in Seq(ReadItems) /\ Len(front) = k /\ \A i \in 1..k : front[i] = items[i]
    /\ IsWritten(J, front) /\ J[k] = Written(items)[k]
    /\ Bytes(items) \in Octets /\ Begins(J[k], Bytes(items))
    /\ AreItems(items) /\ IsWritten(Written(items), items)
    /\ Bytes(items) = Written(items)[Len(items)]

LEMMA FrontItems ==
  ASSUME NEW items \in Seq(WrittenItems), NEW k \in 0..Len(items),
         \A i \in 1..k : Short(items[i])
  PROVE  IsFront(SubSeq(items, 1, k), Begun(Written(items), k), items, k)
<1>. DEFINE front == SubSeq(items, 1, k)
            W == Written(items)
            J == Begun(W, k)
            N == Len(items)
<1>1. /\ Len(front) = k /\ front \in Seq(WrittenItems) /\ N \in Nat /\ k \in Nat
      /\ \A i \in 1..k : front[i] = items[i]
  OBVIOUS
<1>2. AreItems(items)
  <2>1. DOMAIN items = 1..N
    OBVIOUS
  <2>2. \A i \in 1..N : items[i].bytes \in Octets
    <3>1. ASSUME NEW i \in 1..N
          PROVE  items[i].bytes \in Octets
      <4>1. items[i] \in WrittenItems
        OBVIOUS
      <4>. QED  BY <4>1 DEF WrittenItems, Items
    <3>. QED  BY <3>1
  <2>. QED  BY <1>1, <2>1, <2>2 DEF AreItems
<1>3. IsWritten(W, items) /\ Bytes(items) = W[N]
  BY <1>2, WrittenIs
<1>. HIDE DEF W
<1>4. front \in Seq(ReadItems)
  <2>1. ASSUME NEW i \in 1..k
        PROVE  front[i] \in ReadItems
    <3>1. items[i] \in WrittenItems /\ Short(items[i]) /\ front[i] = items[i]
      BY <1>1
    <3>. QED  BY <3>1 DEF WrittenItems, ReadItems
  <2>2. front = [i \in 1..k |-> front[i]]
    BY <1>1
  <2>3. front \in [1..k -> ReadItems]
    BY <2>1, <2>2
  <2>. HIDE DEF front
  <2>. QED  BY <1>1, <2>3
<1>5. J[k] = W[k] /\ J[0] = W[0] /\ \A n \in 0..k : J[n] = W[n] /\ W[n] \in Octets
  <2>1. \A n \in 0..k : n \in 0..N
    BY <1>1
  <2>. QED  BY <1>1, <1>3, <2>1 DEF Begun, IsWritten
<1>6. IsWritten(J, front)
  <2>1. J \in [0..Len(front) -> Octets]
    BY <1>1, <1>5 DEF Begun
  <2>2. J[0] = <<>>
    BY <1>3, <1>5 DEF IsWritten
  <2>3. ASSUME NEW n \in 1..Len(front)
        PROVE  J[n] = J[n - 1] \o front[n].bytes
    <3>1. n \in 0..k /\ n - 1 \in 0..k /\ n \in 1..N /\ front[n] = items[n]
      BY <1>1
    <3>2. W[n] = W[n - 1] \o items[n].bytes
      BY <1>3, <3>1 DEF IsWritten
    <3>. QED  BY <1>5, <3>1, <3>2
  <2>. HIDE DEF J, front
  <2>. QED  BY <2>1, <2>2, <2>3 DEF IsWritten
<1>7. Bytes(items) \in Octets /\ Begins(J[k], Bytes(items))
  <2>1. N \in k..N /\ N \in 0..N
    BY <1>1
  <2>2. Begins(W[k], W[N])
    BY <1>2, <1>3, <2>1, BytesBegin
  <2>. QED  BY <1>3, <1>5, <2>1, <2>2 DEF IsWritten
<1>. HIDE DEF front, J
<1>8. IsFront(front, J, items, k)
  BY <1>1, <1>2, <1>3, <1>4, <1>5, <1>6, <1>7 DEF IsFront, W
<1>. QED  BY <1>8 DEF front, J, W

\* What the readers of the k first items get: a beginning, but for an empty value at its end.
GivesBeginning(got, items, k) ==
    \/ IsPrefixOf(got, Firsts(items, k))
    \/ /\ items[Len(got)].tag \in {"octets", "block"}
       /\ got = [Firsts(items, Len(got)) EXCEPT ![Len(got)] = 0]

LEMMA FrontReads ==
  ASSUME NEW items \in Seq(WrittenItems), NEW k \in 0..Len(items),
         \A i \in 1..k : Short(items[i]), NEW c \in 0..Len(Bytes(items))
  PROVE  /\ GivesBeginning(Values(SubSeq(items, 1, k), SubSeq(Bytes(items), 1, c)), items, k)
         /\ c = Len(Bytes(items)) =>
               Values(SubSeq(items, 1, k), SubSeq(Bytes(items), 1, c)) = Firsts(items, k)
<1>. DEFINE front == SubSeq(items, 1, k)
            J == Begun(Written(items), k)
            b == Bytes(items)
            got == Values(front, SubSeq(b, 1, c))
<1>1. IsFront(front, J, items, k)
  BY FrontItems
<1>. HIDE DEF front, J
<1>2. /\ front \in Seq(ReadItems) /\ Len(front) = k /\ \A i \in 1..k : front[i] = items[i]
      /\ IsWritten(J, front) /\ b \in Octets /\ Begins(J[k], b) /\ k \in Nat /\ Len(items) \in Nat
      /\ c \in 0..Len(b) /\ k \in 0..k
  BY <1>1 DEF IsFront
<1>. HIDE DEF b, got
<1>3. \A j \in 0..k : Firsts(front, j) = Firsts(items, j)
  BY <1>2 DEF Firsts
<1>4. Len(J[k]) \in Nat /\ Len(J[k]) <= Len(b) /\ Len(b) \in Nat
  <2>1. J[k] \in Octets
    BY <1>2 DEF IsWritten
  <2>. QED  BY <1>2, <2>1, LenIs DEF Begins
<1>5. Len(Firsts(items, k)) = k /\ \A j \in 0..k : SubSeq(Firsts(items, k), 1, j) = Firsts(items, j)
                                                   /\ Len(Firsts(items, j)) = j
  BY <1>2, <1>3, FirstsAre
<1>6. CASE Len(J[k]) <= c
  <2>1. got = Firsts(items, k)
    BY <1>2, <1>3, <1>6, ReadingOfAll DEF got
  <2>2. Len(got) = k /\ got = SubSeq(Firsts(items, k), 1, k)
    BY <1>2, <1>5, <2>1
  <2>3. IsPrefixOf(got, Firsts(items, k))
    BY <1>2, <1>5, <2>2 DEF IsPrefixOf
  <2>. QED  BY <2>1, <2>3 DEF GivesBeginning, got, front, b
<1>7. CASE c < Len(J[k])
  <2>1. PICK j \in 1..k : \/ got = Firsts(front, j - 1)
                          \/ /\ front[j].tag \in {"octets", "block"}
                             /\ got = Append(Firsts(front, j - 1), 0)
    BY <1>2, <1>7, ReadingOfCut DEF got
  <2>2. j \in 0..k /\ j - 1 \in 0..k /\ j > 0 /\ j \in 1..j /\ j - 1 <= k
    BY <1>2
  <2>3. CASE got = Firsts(front, j - 1)
    <3>1. got = Firsts(items, j - 1)
      BY <1>3, <2>2, <2>3
    <3>2. Len(got) = j - 1 /\ got = SubSeq(Firsts(items, k), 1, j - 1)
      BY <1>5, <2>2, <3>1
    <3>3. IsPrefixOf(got, Firsts(items, k))
      BY <1>5, <2>2, <3>2 DEF IsPrefixOf
    <3>. QED  BY <1>4, <1>7, <3>3 DEF GivesBeginning, got, front, b
  <2>4. CASE front[j].tag \in {"octets", "block"} /\ got = Append(Firsts(front, j - 1), 0)
    <3>1. /\ Append(Firsts(front, j - 1), 0) = [Firsts(front, j) EXCEPT ![j] = 0]
          /\ Firsts(front, j) \in Seq(ItemValues) /\ Len(Firsts(front, j)) = j
      BY <1>2, <2>2, FirstsAre
    <3>2. got = [Firsts(items, j) EXCEPT ![j] = 0] /\ Firsts(items, j) \in Seq(ItemValues)
          /\ Len(Firsts(items, j)) = j /\ 0 \in ItemValues
      BY <1>3, <2>2, <2>4, <3>1 DEF ItemValues
    <3>3. Len(got) = j
      BY <2>2, <3>2, ExceptSeq
    <3>4. items[j].tag \in {"octets", "block"}
      BY <1>2, <2>4
    <3>5. items[Len(got)].tag \in {"octets", "block"}
          /\ got = [Firsts(items, Len(got)) EXCEPT ![Len(got)] = 0]
      BY <3>2, <3>3, <3>4
    <3>6. GivesBeginning(got, items, k)
      BY <3>5 DEF GivesBeginning
    <3>. QED  BY <1>4, <1>7, <3>6 DEF got, front, b
  <2>. QED  BY <2>1, <2>3, <2>4
<1>. QED  BY <1>2, <1>4, <1>6, <1>7

\* The reader of an item of the long form ends the reading.
LEMMA LongEnds ==
  ASSUME NEW items \in Seq(WrittenItems), NEW k \in 0..Len(items) - 1,
         \A i \in 1..k : Short(items[i]), ~Short(items[k + 1]), items[k + 1].tag # "length",
         Len(Bytes(items)) < TwoBytes
  PROVE  Values(SubSeq(items, 1, k + 1), Bytes(items)) = Firsts(items, k)
<1>. DEFINE more == SubSeq(items, 1, k + 1)
            front == SubSeq(items, 1, k)
            W == Written(items)
            J == Begun(W, k)
            b == Bytes(items)
            c == Len(b)
            item == items[k + 1]
<1>1. k \in 0..Len(items) /\ k + 1 \in 1..Len(items) /\ k \in Nat /\ Len(items) \in Nat
      /\ (k + 1) - 1 = k
  OBVIOUS
<1>2. IsFront(front, J, items, k)
  BY <1>1, FrontItems
<1>3. Len(more) = k + 1 /\ \A i \in 1..k + 1 : more[i] = items[i]
  BY <1>1
<1>. HIDE DEF more, front, J
<1>4. /\ front \in Seq(ReadItems) /\ Len(front) = k /\ \A i \in 1..k : front[i] = items[i]
      /\ IsWritten(J, front) /\ J[k] = W[k] /\ b \in Octets /\ Begins(J[k], b)
      /\ AreItems(items) /\ IsWritten(W, items) /\ b = W[Len(items)]
  BY <1>2 DEF IsFront
<1>5. item \in WrittenItems
  BY <1>1
<1>. HIDE DEF W, b, item
<1>6. c \in Nat /\ c \in 0..Len(b) /\ SubSeq(b, 1, c) = b
  BY <1>4, LenIs, SubSeqFull DEF Octets
<1>7. PICK f : IsReading(f, more, b) /\ Values(more, b) = f[k + 1].vals
  <2>1. Len(more) \in Nat
    BY <1>1, <1>3
  <2>. QED  BY <1>3, <2>1, ReadingIs
<1>8. IsReading(f, front, SubSeq(b, 1, c))
  <2>1. f[0] = AtStart(b) /\ \A n \in 1..Len(more) : f[n] = NextRead(more[n], f[n - 1])
    BY <1>7 DEF IsReading
  <2>2. \A n \in 1..k : n \in 1..Len(more) /\ more[n] = front[n]
    BY <1>1, <1>3, <1>4
  <2>3. \A n \in 1..Len(front) : f[n] = NextRead(front[n], f[n - 1])
    BY <1>4, <2>1, <2>2
  <2>4. IsReading(f, front, b)
    BY <2>1, <2>3 DEF IsReading
  <2>5. SubSeq(b, 1, c) = b
    BY <1>6
  <2>. HIDE DEF c
  <2>. QED  BY <2>4, <2>5, Zenon
<1>9. Len(J[k]) <= c /\ Len(J[k]) \in Nat
  <2>1. J[k] \in Octets
    BY <1>1, <1>4 DEF IsWritten
  <2>. QED  BY <1>4, <2>1, LenIs DEF Begins
<1>10. f[k] = Got(front, k, Between(b, Len(J[k]), c))
  <2>3. front \in Seq(ReadItems) /\ IsWritten(J, front) /\ b \in Octets
        /\ Begins(J[Len(front)], b) /\ c \in 0..Len(b)
    BY <1>4, <1>6
  <2>1. \A j \in 0..Len(front) : Len(J[j]) <= c => f[j] = Got(front, j, Between(b, Len(J[j]), c))
    <3>. HIDE DEF c
    <3>. QED  BY <1>8, <2>3, ReadWhatIsThere
  <2>2. k \in 0..Len(front)
    BY <1>1, <1>4
  <2>. QED  BY <1>9, <2>1, <2>2
<1>. DEFINE n == Len(W[k])
            m == Len(W[k + 1])
            t == Between(b, m, c)
<1>11. IsAt(b, n, item, m)
  BY <1>1, <1>4, BeginsSelf, ItemIsAt DEF item
<1>. HIDE DEF n, m
<1>12. m <= c
  BY <1>11 DEF IsAt
<1>13. Between(b, n, c) = item.bytes \o t /\ t \in Octets
  <2>1. IsWhole(Between(b, n, c), item, t)
    BY <1>6, <1>11, <1>12, WholeItem
  <2>. QED  BY <2>1 DEF IsWhole
<1>. DEFINE a == Between(b, n, c)
<1>14. Len(a) < TwoBytes
  <2>1. n \in 0..c /\ IsBetween(a, b, n, c)
    <3>1. n \in 0..c
      BY <1>4, <1>6, <1>9 DEF n
    <3>2. b \in Octets /\ c \in 0..Len(b)
      BY <1>4, <1>6
    <3>. HIDE DEF c
    <3>. QED  BY <3>1, <3>2, BetweenIs
  <2>2. Len(a) = c - n /\ c < TwoBytes
    BY <2>1 DEF IsBetween, b
  <2>. HIDE DEF a
  <2>. QED  BY <1>6, <2>1, <2>2 DEF TwoBytes
<1>15. Fails(ReadItem(item, a))
  <2>. HIDE DEF t
  <2>1. item.tag # "length" /\ ~Short(item)
    BY DEF item
  <2>2. IsLong(item)
    BY <1>5, <2>1 DEF WrittenItems
  <2>3. PICK h, l, p, byte :
          /\ byte \in {0, 9} /\ h >= 128 /\ LongSized(item.bytes, byte, h, l, p)
          /\ \/ item.tag = "octets" /\ byte = OCTETSTRING
             \/ item.tag = "block" /\ byte = 0
    BY <2>1, <2>2 DEF IsLong
  <2>4. LongSized(a, byte, h, l, p \o t)
    BY <1>13, <2>3, LongJoined
  <2>. HIDE DEF a
  <2>. QED  BY <1>14, <2>3, <2>4, LongRefused
<1>16. f[k].vals = Firsts(front, k) /\ f[k].rest = a
       /\ f[k] = [ok |-> f[k].ok, vals |-> f[k].vals, rest |-> f[k].rest]
  <2>1. f[k] = Got(front, k, a)
    BY <1>4, <1>10 DEF n
  <2>. HIDE DEF a
  <2>. QED  BY <2>1 DEF Got
<1>17. f[k + 1] = NextRead(item, f[k])
  <2>1. k + 1 \in 1..Len(more) /\ more[k + 1] = item
    BY <1>1, <1>3 DEF item
  <2>. QED  BY <1>1, <1>7, <2>1 DEF IsReading
<1>18. f[k + 1].vals = Firsts(front, k)
  <2>. HIDE DEF a
  <2>. DEFINE read == f[k]
  <2>1. Fails(ReadItem(item, read.rest)) /\ read.vals = Firsts(front, k)
        /\ read = [ok |-> read.ok, vals |-> read.vals, rest |-> read.rest]
        /\ f[k + 1] = NextRead(item, read)
    BY <1>15, <1>16, <1>17
  <2>. HIDE DEF read
  <2>2. NextRead(item, read) = [ok |-> FALSE, vals |-> read.vals, rest |-> read.rest]
    BY <2>1, ReadFails, Zenon
  <2>. QED  BY <2>1, <2>2
<1>19. Firsts(front, k) = Firsts(items, k)
  BY <1>4 DEF Firsts
<1>. QED  BY <1>7, <1>18, <1>19 DEF more, b

LEMMA ReadsBack ==
  ASSUME msg.way = "read", msg.items \in Seq(WrittenItems)
  PROVE  ReadBack
<1>. DEFINE items == msg.items
            bytes == Bytes(items)
            Of(k, a) == Values(SubSeq(items, 1, k), a)
<1>1. Len(items) \in Nat /\ bytes \in Octets /\ Len(bytes) \in Nat
      /\ SubSeq(bytes, 1, Len(bytes)) = bytes
  <2>1. 0 \in 0..Len(items) /\ \A i \in 1..0 : Short(items[i])
    OBVIOUS
  <2>2. IsFront(SubSeq(items, 1, 0), Begun(Written(items), 0), items, 0)
    BY <2>1, FrontItems
  <2>3. bytes \in Octets
    BY <2>2 DEF IsFront
  <2>. HIDE DEF bytes
  <2>. QED  BY <2>3, LenIs, SubSeqFull DEF Octets
<1>2. ASSUME NEW k \in 0..Len(items), \A i \in 1..k : Short(items[i]),
             k < Len(items) => ~Short(items[k + 1])
      PROVE  /\ Of(k, bytes) = Firsts(items, k)
             /\ k < Len(items) /\ items[k + 1].tag # "length" /\ Len(bytes) < TwoBytes
                   => Of(k + 1, bytes) = Firsts(items, k)
             /\ \A n \in 0..Len(bytes) : GivesBeginning(Of(k, SubSeq(bytes, 1, n)), items, k)
  <2>1. Of(k, bytes) = Firsts(items, k)
    <3>1. Len(bytes) \in 0..Len(bytes)
      BY <1>1
    <3>2. Of(k, SubSeq(bytes, 1, Len(bytes))) = Firsts(items, k)
      BY <1>2, <3>1, FrontReads
    <3>. QED  BY <1>1, <3>2
  <2>2. ASSUME k < Len(items), items[k + 1].tag # "length", Len(bytes) < TwoBytes
        PROVE  Of(k + 1, bytes) = Firsts(items, k)
    <3>1. k \in 0..Len(items) - 1
      BY <1>1, <2>2
    <3>. QED  BY <1>2, <2>2, <3>1, LongEnds
  <2>3. \A n \in 0..Len(bytes) : GivesBeginning(Of(k, SubSeq(bytes, 1, n)), items, k)
    BY <1>2, FrontReads
  <2>. QED  BY <2>1, <2>2, <2>3
<1>. HIDE DEF items, bytes
<1>3. ASSUME NEW k \in 0..Len(items), \A i \in 1..k : Short(items[i]),
             k < Len(items) => ~Short(items[k + 1])
      PROVE  /\ Of(k, bytes) = [i \in 1..k |-> items[i].size]
             /\ k < Len(items) /\ items[k + 1].tag # "length" /\ Len(bytes) < TwoBytes
                   => Of(k + 1, bytes) = [i \in 1..k |-> items[i].size]
             /\ \A n \in 0..Len(bytes) :
                   LET got == Of(k, SubSeq(bytes, 1, n))
                   IN  \/ IsPrefixOf(got, [i \in 1..k |-> items[i].size])
                       \/ /\ items[Len(got)].tag \in {"octets", "block"}
                          /\ got = [[i \in 1..Len(got) |-> items[i].size] EXCEPT ![Len(got)] = 0]
  <2>1. \A n \in 0..Len(bytes) : GivesBeginning(Of(k, SubSeq(bytes, 1, n)), items, k)
    BY <1>2, <1>3, Zenon
  <2>2. /\ Of(k, bytes) = Firsts(items, k)
        /\ k < Len(items) /\ items[k + 1].tag # "length" /\ Len(bytes) < TwoBytes
              => Of(k + 1, bytes) = Firsts(items, k)
    BY <1>2, <1>3
  <2>. QED  BY <2>1, <2>2 DEF GivesBeginning, Firsts
<1>4. ReadBack = (msg.way = "read" =>
        \A k \in 0..Len(items) :
          (\A i \in 1..k : Short(items[i])) /\ (k < Len(items) => ~Short(items[k + 1])) =>
            /\ Of(k, bytes) = [i \in 1..k |-> items[i].size]
            /\ k < Len(items) /\ items[k + 1].tag # "length" /\ Len(bytes) < TwoBytes
                  => Of(k + 1, bytes) = [i \in 1..k |-> items[i].size]
            /\ \A n \in 0..Len(bytes) :
                  LET got == Of(k, SubSeq(bytes, 1, n))
                  IN  \/ IsPrefixOf(got, [i \in 1..k |-> items[i].size])
                      \/ /\ items[Len(got)].tag \in {"octets", "block"}
                         /\ got = [[i \in 1..Len(got) |-> items[i].size] EXCEPT ![Len(got)] = 0])
  BY DEF ReadBack, items, bytes, TwoBytes
<1>. QED  BY <1>3, <1>4

-----------------------------------------------------------------------------
(* One turn of a walk                                                       *)

LEMMA FixedOnce ==
  ASSUME NEW f \in Fixed
  PROVE  FixedSize(f[1]) = f[2] /\ f[1] \notin Coded /\ f[1] \in Nat /\ f[2] \in Nat /\ f[1] \in FixedTags
<1>1. \A g \in Fixed : g[1] = f[1] => g[2] = f[2]
  BY DEF Fixed, NULL, BOOL, INTEGER8, UNSIGNED16
<1>2. FixedSize(f[1]) = f[2]
  BY <1>1 DEF FixedSize
<1>3. f[1] \notin Coded /\ f[1] \in Nat /\ f[2] \in Nat
  BY DEF Fixed, NULL, BOOL, INTEGER8, UNSIGNED16, Coded, ARRAY, STRUCTURE, BITSTRING, OCTETSTRING
<1>. QED  BY <1>2, <1>3 DEF FixedTags

LEMMA CodedTags ==
  ASSUME NEW tag \in Coded
  PROVE  tag \in Nat /\ tag \notin FixedTags
<1>1. tag \in Nat
  BY DEF Coded, ARRAY, STRUCTURE, BITSTRING, OCTETSTRING
<1>. QED  BY <1>1, FixedOnce DEF FixedTags

LEMMA BytesOfBounds ==
  ASSUME NEW tag, NEW n \in Nat
  PROVE  /\ BytesOf(tag, n) \in Nat /\ BytesOf(tag, n) <= n
         /\ IsStruct(tag) => BytesOf(tag, n) = 0
         /\ ~IsStruct(tag) /\ tag # BITSTRING => BytesOf(tag, n) = n
         /\ ~IsStruct(tag) /\ tag = BITSTRING => BytesOf(tag, n) = 0 <=> n = 0
BY DEF BytesOf, BITFIELD_BYTES

\* What the size of csm_axdr_size leaves is an end of what it is given.
LEMMA SizeType ==
  ASSUME NEW a \in Octets
  PROVE  LET n == csm_axdr_size(a)
         IN  n.val \in Nat /\ n.rest \in Octets /\ Len(n.rest) <= Len(a)
<1>1. ASSUME NEW s \in Octets
      PROVE  LET b == csm_array_read_u8(s)
             IN  b.val \in Nat /\ b.rest \in Octets /\ Len(b.rest) <= Len(s)
                 /\ b = [ok |-> b.ok, val |-> b.val, rest |-> b.rest]
  <2>1. CASE s = <<>>
    BY <2>1 DEF csm_array_read_u8, Failure, Octets
  <2>2. CASE s # <<>>
    BY <2>2, HeadTailProperties DEF csm_array_read_u8, Result, Octets
  <2>. QED  BY <2>1, <2>2
<1>. DEFINE first == csm_array_read_u8(a)
            second == csm_array_read_u8(first.rest)
            third == csm_array_read_u8(second.rest)
            n == csm_ber_read_len(a)
            octets == first.val % 128
<1>2. first.val \in Nat /\ first.rest \in Octets /\ Len(first.rest) <= Len(a)
      /\ first = [ok |-> first.ok, val |-> first.val, rest |-> first.rest]
  BY <1>1
<1>3. second.val \in Nat /\ second.rest \in Octets /\ Len(second.rest) <= Len(first.rest)
      /\ second = [ok |-> second.ok, val |-> second.val, rest |-> second.rest]
  <2>. HIDE DEF first
  <2>. QED  BY <1>1, <1>2
<1>4. third.val \in Nat /\ third.rest \in Octets /\ Len(third.rest) <= Len(second.rest)
      /\ third = [ok |-> third.ok, val |-> third.val, rest |-> third.rest]
  <2>. HIDE DEF second
  <2>. QED  BY <1>1, <1>3
<1>. HIDE DEF first, second, third
<1>5. n = IF first.val < 128 \/ octets \notin {1, 2}
          THEN [first EXCEPT !.ok = @ /\ first.val < 128, !.val = IF @ < 128 THEN @ ELSE 0]
          ELSE IF octets = 1 \/ ~second.ok THEN second
          ELSE [third EXCEPT !.val = IF third.ok THEN 256 * second.val + @ ELSE second.val]
  BY DEF csm_ber_read_len, first, second, third
<1>. HIDE DEF octets, n
<1>6. Len(a) \in Nat /\ Len(first.rest) \in Nat /\ Len(second.rest) \in Nat /\ Len(third.rest) \in Nat
  BY <1>2, <1>3, <1>4, LenIs
<1>7. n.val \in Nat /\ n.rest \in Octets /\ Len(n.rest) <= Len(a)
      /\ n = [ok |-> n.ok, val |-> n.val, rest |-> n.rest]
  <2>1. CASE first.val < 128 \/ octets \notin {1, 2}
    <3>. DEFINE ok == first.ok /\ first.val < 128
                val == IF first.val < 128 THEN first.val ELSE 0
    <3>1. n = [first EXCEPT !.ok = ok, !.val = val]
      BY <1>5, <2>1
    <3>2. val \in Nat
      BY <1>2
    <3>. HIDE DEF ok, val
    <3>. QED  BY <1>2, <3>1, <3>2
  <2>2. CASE ~(first.val < 128 \/ octets \notin {1, 2}) /\ (octets = 1 \/ ~second.ok)
    <3>1. n = second
      BY <1>5, <2>2
    <3>. QED  BY <1>2, <1>3, <1>6, <3>1
  <2>3. CASE ~(first.val < 128 \/ octets \notin {1, 2}) /\ ~(octets = 1 \/ ~second.ok)
    <3>. DEFINE val == IF third.ok THEN 256 * second.val + third.val ELSE second.val
    <3>1. n = [third EXCEPT !.val = val]
      BY <1>5, <2>3
    <3>2. val \in Nat
      BY <1>3, <1>4
    <3>. HIDE DEF val
    <3>. QED  BY <1>2, <1>3, <1>4, <1>6, <3>1, <3>2
  <2>. QED  BY <2>1, <2>2, <2>3
<1>8. csm_axdr_size(a) = [n EXCEPT !.ok = n.val <= Len(n.rest)]
  BY DEF csm_axdr_size, n
<1>9. csm_axdr_size(a).val = n.val /\ csm_axdr_size(a).rest = n.rest
  BY <1>7, <1>8
<1>. QED  BY <1>7, <1>9

LEMMA JumpType ==
  ASSUME NEW a \in Octets, NEW n \in Nat
  PROVE  Jump(a, n) \in Octets /\ Len(Jump(a, n)) <= Len(a)
<1>1. Len(a) \in Nat
  BY LenIs
<1>2. CASE n >= Len(a)
  <2>1. Jump(a, n) = <<>>
    BY <1>2, JumpBeyond
  <2>. QED  BY <1>1, <2>1 DEF Octets
<1>3. CASE n < Len(a)
  <2>1. IsBetween(Between(a, n, Len(a)), a, n, Len(a))
    <3>1. Len(a) \in 0..Len(a) /\ n \in 0..Len(a)
      BY <1>1, <1>3
    <3>. QED  BY <3>1, BetweenIs
  <2>. QED  BY <1>1, <1>3, <2>1 DEF IsBetween, Between, Jump
<1>. QED  BY <1>1, <1>2, <1>3

Calls == Nat \X Nat

TurnOk(r, n) == r.calls \in Seq(Calls) /\ r.rest \in Octets /\ Len(r.rest) \in Nat /\ Len(r.rest) < n

LEMMA TurnType ==
  ASSUME NEW a \in Octets, a # <<>>
  PROVE  TurnOk(Turn(a), Len(a))
<1>. DEFINE tag == Head(a)
            u == Tail(a)
            size == IF tag \in Coded THEN csm_axdr_size(u) ELSE Result(FixedSize(tag), u)
<1>1. tag \in Nat /\ u \in Octets /\ Len(u) = Len(a) - 1 /\ Len(a) \in Nat /\ Len(u) \in Nat
  <2>1. tag \in Nat /\ u \in Octets /\ Len(u) = Len(a) - 1
    BY HeadTailProperties DEF Octets
  <2>. QED  BY <2>1, LenIs
<1>. HIDE DEF tag, u
<1>2. ASSUME tag \in Coded \cup FixedTags
      PROVE  size.val \in Nat /\ size.rest \in Octets /\ Len(size.rest) <= Len(u)
  <2>1. CASE tag \in Coded
    BY <1>1, <2>1, SizeType
  <2>2. CASE tag \notin Coded
    <3>1. PICK f \in Fixed : tag = f[1]
      BY <1>2, <2>2 DEF FixedTags
    <3>2. FixedSize(tag) \in Nat
      BY <3>1, FixedOnce
    <3>. QED  BY <1>1, <2>2, <3>2 DEF Result
  <2>. QED  BY <2>1, <2>2
<1>. HIDE DEF size
<1>3. Turn(a) = IF tag \notin Coded \cup FixedTags THEN [calls |-> <<>>, rest |-> <<>>]
                ELSE IF ~size.ok THEN [calls |-> << <<tag, SIZE_CODED>> >>, rest |-> <<>>]
                ELSE [calls |-> << <<tag, size.val>> >>,
                      rest |-> Jump(size.rest, BytesOf(tag, size.val))]
  BY Zenon DEF Turn, tag, size, u
<1>4. <<>> \in Octets /\ Len(<<>>) = 0 /\ Len(a) >= 1
  <2>1. Len(a) # 0
    BY DEF Octets
  <2>. QED  BY <1>1, <2>1 DEF Octets
<1>5. CASE tag \notin Coded \cup FixedTags
  BY <1>1, <1>3, <1>4, <1>5 DEF TurnOk
<1>6. CASE tag \in Coded \cup FixedTags /\ ~size.ok
  <2>1. << <<tag, SIZE_CODED>> >> \in Seq(Calls)
    BY <1>1 DEF Calls, SIZE_CODED
  <2>. QED  BY <1>1, <1>3, <1>4, <1>6, <2>1 DEF TurnOk
<1>7. CASE tag \in Coded \cup FixedTags /\ size.ok
  <2>. DEFINE r == Jump(size.rest, BytesOf(tag, size.val))
  <2>1. << <<tag, size.val>> >> \in Seq(Calls)
    BY <1>1, <1>2, <1>7 DEF Calls
  <2>2. BytesOf(tag, size.val) \in Nat
    BY <1>2, <1>7, BytesOfBounds
  <2>3. r \in Octets /\ Len(r) <= Len(size.rest) /\ Len(size.rest) <= Len(u)
    BY <1>2, <1>7, <2>2, JumpType
  <2>4. Len(r) \in Nat /\ Len(size.rest) \in Nat
    BY <1>2, <1>7, <2>3, LenIs
  <2>. HIDE DEF r
  <2>5. Len(r) < Len(a)
    BY <1>1, <2>3, <2>4
  <2>6. Turn(a).calls = << <<tag, size.val>> >> /\ Turn(a).rest = r
    BY <1>3, <1>7 DEF r
  <2>. QED  BY <2>1, <2>3, <2>4, <2>5, <2>6 DEF TurnOk
<1>. QED  BY <1>5, <1>6, <1>7

\* An item of a walk: its tag, its size in a byte if the table says so, and what it holds.
Walkable(it) ==
    \/ \E tag \in Coded, n \in 0..127, p \in Octets :
          it = Item(tag, n, << tag >> \o (<< n >> \o p)) /\ Len(p) = BytesOf(tag, n)
    \/ \E f \in Fixed, p \in Octets : it = Item(f[1], f[2], << f[1] >> \o p) /\ Len(p) = f[2]

LEMMA WalkableType ==
  ASSUME NEW it, Walkable(it)
  PROVE  it.tag \in Nat /\ it.size \in Nat /\ it.bytes \in Octets /\ Len(it.bytes) > 0
<1>1. ASSUME NEW tag \in Coded, NEW n \in 0..127, NEW p \in Octets,
             it = Item(tag, n, << tag >> \o (<< n >> \o p))
      PROVE  it.tag \in Nat /\ it.size \in Nat /\ it.bytes \in Octets /\ Len(it.bytes) > 0
  <2>1. tag \in Nat /\ n \in Nat
    BY CodedTags
  <2>. DEFINE u == << n >> \o p
              a == << tag >> \o u
  <2>2. u \in Octets
    BY <2>1, Front
  <2>. HIDE DEF u
  <2>3. a \in Octets /\ Len(a) = Len(u) + 1 /\ Len(u) \in Nat
    BY <2>1, <2>2, Front, LenIs
  <2>4. it.tag = tag /\ it.size = n /\ it.bytes = a
    BY <1>1 DEF Item, u
  <2>. HIDE DEF a
  <2>. QED  BY <2>1, <2>3, <2>4
<1>2. ASSUME NEW f \in Fixed, NEW p \in Octets, it = Item(f[1], f[2], << f[1] >> \o p)
      PROVE  it.tag \in Nat /\ it.size \in Nat /\ it.bytes \in Octets /\ Len(it.bytes) > 0
  <2>1. f[1] \in Nat /\ f[2] \in Nat
    BY FixedOnce
  <2>. DEFINE a == << f[1] >> \o p
  <2>2. a \in Octets /\ Len(a) = Len(p) + 1 /\ Len(p) \in Nat
    BY <2>1, Front, LenIs
  <2>3. it.tag = f[1] /\ it.size = f[2] /\ it.bytes = a
    BY <1>2 DEF Item
  <2>. HIDE DEF a
  <2>. QED  BY <2>1, <2>2, <2>3
<1>. QED  BY <1>1, <1>2 DEF Walkable

\* What a turn does with a tag whose size is in the message, and with another one.
LEMMA TurnOfCoded ==
  ASSUME NEW tag \in Coded, NEW u \in Octets, NEW size, size = csm_axdr_size(u)
  PROVE  Turn(<< tag >> \o u)
            = IF ~size.ok THEN [calls |-> << <<tag, SIZE_CODED>> >>, rest |-> <<>>]
              ELSE [calls |-> << <<tag, size.val>> >>,
                    rest |-> Jump(size.rest, BytesOf(tag, size.val))]
<1>. DEFINE a == << tag >> \o u
<1>1. Head(a) = tag /\ Tail(a) = u
  BY CodedTags, Front
<1>. HIDE DEF a
<1>2. Turn(a) = IF ~size.ok THEN [calls |-> << <<tag, SIZE_CODED>> >>, rest |-> <<>>]
                ELSE [calls |-> << <<tag, size.val>> >>,
                      rest |-> Jump(size.rest, BytesOf(tag, size.val))]
  BY <1>1 DEF Turn
<1>. QED  BY <1>2 DEF a

LEMMA TurnOfFixed ==
  ASSUME NEW f \in Fixed, NEW u \in Octets
  PROVE  Turn(<< f[1] >> \o u) = [calls |-> << <<f[1], f[2]>> >>, rest |-> Jump(u, f[2])]
<1>. DEFINE tag == f[1]
            a == << tag >> \o u
<1>1. tag \notin Coded /\ tag \in FixedTags /\ FixedSize(tag) = f[2] /\ tag \in Nat /\ f[2] \in Nat
  BY FixedOnce
<1>2. Head(a) = tag /\ Tail(a) = u
  BY <1>1, Front
<1>3. BytesOf(tag, f[2]) = f[2]
  <2>1. ~IsStruct(tag) /\ tag # BITSTRING
    BY <1>1 DEF Coded, IsStruct
  <2>. QED  BY <1>1, <2>1, BytesOfBounds
<1>. HIDE DEF a, tag
<1>4. Turn(a) = [calls |-> << <<tag, f[2]>> >>, rest |-> Jump(u, f[2])]
  BY <1>1, <1>2, <1>3 DEF Turn, Result
<1>. QED  BY <1>4 DEF a, tag

\* The size in bits of a bit string, and the number of elements of a structure, are
\* compared with the n bytes from the item on.
FitsIn(it, n) == IsStruct(it.tag) \/ it.tag = BITSTRING => it.size + 2 <= n

Called(it) == << it.tag, it.size >>

\* Of a turn that reads an item: the call with its tag and its size, and what follows.
TurnsTo(r, it, t) == r = [calls |-> << Called(it) >>, rest |-> t]
\* Of one that ends the walk.
TurnsLast(r, it) == \E s \in Nat : r = [calls |-> << <<it.tag, s>> >>, rest |-> <<>>]

LEMMA TurnWhole ==
  ASSUME NEW it, Walkable(it), NEW t \in Octets
  PROVE  \/ TurnsTo(Turn(it.bytes \o t), it, t)
         \/ TurnsLast(Turn(it.bytes \o t), it) /\ ~FitsIn(it, Len(it.bytes) + Len(t))
<1>1. ASSUME NEW tag \in Coded, NEW n \in 0..127, NEW p \in Octets, Len(p) = BytesOf(tag, n),
             it = Item(tag, n, << tag >> \o (<< n >> \o p))
      PROVE  \/ TurnsTo(Turn(it.bytes \o t), it, t)
             \/ TurnsLast(Turn(it.bytes \o t), it) /\ ~FitsIn(it, Len(it.bytes) + Len(t))
  <2>. DEFINE w == << n >> \o p
              q == p \o t
              u == << n >> \o q
              size == csm_axdr_size(u)
  <2>1. tag \in Nat /\ n \in Nat /\ w \in Octets /\ q \in Octets /\ AreJoined(q, p, t)
    BY CodedTags, Front, FrontOfJoined, JoinedAre
  <2>2. Len(p) \in Nat /\ Len(t) \in Nat /\ Len(q) = Len(p) + Len(t)
    BY <2>1, LenIs DEF AreJoined
  <2>3. it.tag = tag /\ it.size = n /\ it.bytes = << tag >> \o w
    BY <1>1 DEF Item
  <2>4. Len(it.bytes) = Len(p) + 2
    <3>1. Len(w) = Len(p) + 1
      BY <2>1, Front
    <3>. HIDE DEF w
    <3>2. Len(<< tag >> \o w) = Len(w) + 1
      BY <2>1, Front
    <3>. QED  BY <2>2, <2>3, <3>1, <3>2
  <2>5. it.bytes \o t = << tag >> \o u
    <3>1. w \o t = u
      BY <2>1, FrontOfJoined
    <3>. HIDE DEF w, u
    <3>2. (<< tag >> \o w) \o t = << tag >> \o (w \o t)
      BY <2>1, FrontOfJoined
    <3>. QED  BY <2>3, <3>1, <3>2
  <2>6. Jump(q, BytesOf(tag, n)) = t
    BY <1>1, JumpIs
  <2>. HIDE DEF q
  <2>7. size = [ok |-> n <= Len(q), val |-> n, rest |-> q] /\ u \in Octets
    BY <2>1, SizeRead, Front
  <2>. HIDE DEF u
  <2>8. Turn(<< tag >> \o u)
            = IF ~size.ok THEN [calls |-> << <<tag, SIZE_CODED>> >>, rest |-> <<>>]
              ELSE [calls |-> << <<tag, size.val>> >>,
                    rest |-> Jump(size.rest, BytesOf(tag, size.val))]
    BY <2>7, TurnOfCoded
  <2>9. size.val = n /\ size.rest = q /\ (size.ok <=> n <= Len(q))
    <3>. DEFINE fits == n <= Len(q)
    <3>1. size = [ok |-> fits, val |-> n, rest |-> q]
      BY <2>7
    <3>. HIDE DEF fits, size
    <3>2. size.val = n /\ size.rest = q /\ (size.ok = fits)
      BY <3>1
    <3>. QED  BY <3>2 DEF fits
  <2>. HIDE DEF size
  <2>10. CASE n <= Len(q)
    <3>1. TurnsTo(Turn(it.bytes \o t), it, t)
      BY <2>3, <2>5, <2>6, <2>8, <2>9, <2>10 DEF TurnsTo, Called
    <3>. QED  BY <3>1
  <2>11. CASE ~(n <= Len(q))
    <3>1. Turn(it.bytes \o t) = [calls |-> << <<tag, SIZE_CODED>> >>, rest |-> <<>>]
      BY <2>5, <2>8, <2>9, <2>11
    <3>2. TurnsLast(Turn(it.bytes \o t), it)
      BY <2>3, <3>1 DEF TurnsLast, SIZE_CODED
    <3>3. IsStruct(tag) \/ tag = BITSTRING
      BY <1>1, <2>1, <2>2, <2>11, BytesOfBounds
    <3>4. ~(n + 2 <= Len(it.bytes) + Len(t))
      BY <2>1, <2>2, <2>4, <2>11
    <3>. QED  BY <2>3, <3>2, <3>3, <3>4 DEF FitsIn
  <2>. QED  BY <2>10, <2>11
<1>2. ASSUME NEW f \in Fixed, NEW p \in Octets, it = Item(f[1], f[2], << f[1] >> \o p),
             Len(p) = f[2]
      PROVE  TurnsTo(Turn(it.bytes \o t), it, t)
  <2>1. f[1] \in Nat /\ p \o t \in Octets
    BY FixedOnce, FrontOfJoined
  <2>2. it.tag = f[1] /\ it.size = f[2] /\ it.bytes = << f[1] >> \o p
    BY <1>2 DEF Item
  <2>3. it.bytes \o t = << f[1] >> \o (p \o t)
    <3>1. (<< f[1] >> \o p) \o t = << f[1] >> \o (p \o t)
      BY <2>1, FrontOfJoined
    <3>. QED  BY <2>2, <3>1
  <2>4. Jump(p \o t, f[2]) = t
    BY <1>2, JumpIs
  <2>5. Turn(<< f[1] >> \o (p \o t)) = [calls |-> << <<f[1], f[2]>> >>, rest |-> Jump(p \o t, f[2])]
    BY <2>1, TurnOfFixed
  <2>. QED  BY <2>2, <2>3, <2>4, <2>5 DEF TurnsTo, Called
<1>. QED  BY <1>1, <1>2 DEF Walkable

LEMMA TurnCut ==
  ASSUME NEW it, Walkable(it), NEW c \in 1..Len(it.bytes) - 1
  PROVE  TurnsLast(Turn(SubSeq(it.bytes, 1, c)), it)
<1>1. ASSUME NEW tag \in Coded, NEW n \in 0..127, NEW p \in Octets, Len(p) = BytesOf(tag, n),
             it = Item(tag, n, << tag >> \o (<< n >> \o p))
      PROVE  TurnsLast(Turn(SubSeq(it.bytes, 1, c)), it)
  <2>. DEFINE w == << n >> \o p
              u == SubSeq(w, 1, c - 1)
              size == csm_axdr_size(u)
  <2>1. tag \in Nat /\ n \in Nat /\ w \in Octets /\ Len(p) \in Nat /\ Len(w) = Len(p) + 1
    BY CodedTags, Front, LenIs
  <2>2. it.tag = tag /\ it.size = n /\ it.bytes = << tag >> \o w
    BY <1>1 DEF Item
  <2>. HIDE DEF w
  <2>3. Len(it.bytes) = Len(w) + 1 /\ c \in 1..Len(w) + 1 /\ c \in 1..Len(w) /\ c - 1 \in 0..Len(p)
    <3>1. Len(it.bytes) = Len(w) + 1
      BY <2>1, <2>2, Front
    <3>. QED  BY <2>1, <3>1
  <2>4. SubSeq(it.bytes, 1, c) = << tag >> \o u /\ u \in Octets
    BY <2>1, <2>2, <2>3, FrontOfCut
  <2>. HIDE DEF u
  <2>5. Turn(<< tag >> \o u)
            = IF ~size.ok THEN [calls |-> << <<tag, SIZE_CODED>> >>, rest |-> <<>>]
              ELSE [calls |-> << <<tag, size.val>> >>,
                    rest |-> Jump(size.rest, BytesOf(tag, size.val))]
    BY <2>4, TurnOfCoded
  <2>6. CASE c = 1
    <3>1. u = <<>>
      BY <2>6, SubSeqEmpty DEF u
    <3>2. size = [ok |-> TRUE, val |-> 0, rest |-> <<>>]
      BY <3>1, SizeRead
    <3>3. BytesOf(tag, 0) = 0
      BY DEF BytesOf
    <3>4. Jump(<<>>, 0) = <<>>
      <4>1. <<>> \in Octets /\ Len(<<>>) = 0
        BY DEF Octets
      <4>. QED  BY <4>1, JumpBeyond
    <3>. HIDE DEF size
    <3>5. Turn(<< tag >> \o u) = [calls |-> << <<tag, 0>> >>, rest |-> <<>>]
      BY <2>5, <3>2, <3>3, <3>4
    <3>. QED  BY <2>2, <2>4, <3>5 DEF TurnsLast
  <2>7. CASE c > 1
    <3>. DEFINE q == SubSeq(p, 1, c - 2)
    <3>1. c - 1 \in 1..Len(p) + 1 /\ (c - 1) - 1 = c - 2
      BY <2>1, <2>3, <2>7
    <3>2. u = << n >> \o q /\ q \in Octets /\ Len(q) = c - 2
      BY <2>1, <3>1, FrontOfCut DEF u, w
    <3>. HIDE DEF q
    <3>3. size = [ok |-> n <= Len(q), val |-> n, rest |-> q]
      BY <3>2, SizeRead
    <3>4. ~(n <= Len(q))
      <4>1. Len(p) <= n
        BY <1>1, <2>1, BytesOfBounds
      <4>. QED  BY <2>1, <2>3, <3>2, <4>1
    <3>5. ~size.ok
      <4>. DEFINE fits == n <= Len(q)
      <4>1. size = [ok |-> fits, val |-> n, rest |-> q]
        BY <3>3
      <4>. HIDE DEF fits, size
      <4>2. size.ok = fits
        BY <4>1
      <4>. QED  BY <3>4, <4>2 DEF fits
    <3>6. Turn(<< tag >> \o u) = [calls |-> << <<tag, SIZE_CODED>> >>, rest |-> <<>>]
      BY <2>5, <3>5
    <3>. QED  BY <2>2, <2>4, <3>6 DEF TurnsLast, SIZE_CODED
  <2>. QED  BY <2>6, <2>7
<1>2. ASSUME NEW f \in Fixed, NEW p \in Octets, it = Item(f[1], f[2], << f[1] >> \o p),
             Len(p) = f[2]
      PROVE  TurnsLast(Turn(SubSeq(it.bytes, 1, c)), it)
  <2>. DEFINE u == SubSeq(p, 1, c - 1)
  <2>1. f[1] \in Nat /\ f[2] \in Nat
    BY FixedOnce
  <2>2. it.tag = f[1] /\ it.size = f[2] /\ it.bytes = << f[1] >> \o p
    BY <1>2 DEF Item
  <2>3. Len(it.bytes) = Len(p) + 1
    BY <2>1, <2>2, Front
  <2>4. c \in 1..Len(p) + 1 /\ c - 1 < f[2] /\ c - 1 \in Nat
    BY <1>2, <2>1, <2>3
  <2>5. SubSeq(it.bytes, 1, c) = << f[1] >> \o u /\ u \in Octets /\ Len(u) = c - 1
    BY <2>1, <2>2, <2>4, FrontOfCut
  <2>. HIDE DEF u
  <2>6. Jump(u, f[2]) = <<>>
    BY <2>1, <2>4, <2>5, JumpBeyond
  <2>7. Turn(<< f[1] >> \o u) = [calls |-> << <<f[1], f[2]>> >>, rest |-> <<>>]
    BY <2>5, <2>6, TurnOfFixed
  <2>. QED  BY <2>1, <2>2, <2>5, <2>7 DEF TurnsLast
<1>. QED  BY <1>1, <1>2 DEF Walkable

-----------------------------------------------------------------------------
(* A walk                                                                   *)

WalkItems == {it \in Items : Walkable(it)}

IsWalk(g, a) ==
    /\ g \in [0..Len(a) -> Seq(Calls)] /\ g[0] = <<>>
    /\ \A n \in 1..Len(a) :
          g[n] = Turn(Between(a, Len(a) - n, Len(a))).calls
                    \o g[Len(Turn(Between(a, Len(a) - n, Len(a))).rest)]

LEMMA WalkIs ==
  ASSUME NEW a \in Octets
  PROVE  \E g : IsWalk(g, a) /\ Walk(a) = g[Len(a)]
<1>. DEFINE N == Len(a)
            T(n) == Turn(Between(a, N - n, N))
            calls == [n \in 1..N |-> T(n).calls]
            left == [n \in 1..N |-> Len(T(n).rest)]
<1>1. N \in Nat
  BY LenIs
<1>2. ASSUME NEW n \in 1..N
      PROVE  TurnOk(T(n), n)
  <2>. DEFINE s == Between(a, N - n, N)
  <2>1. N \in 0..Len(a) /\ N - n \in 0..N /\ N - (N - n) = n /\ n \in Nat /\ n > 0
    BY <1>1
  <2>2. IsBetween(s, a, N - n, N)
    BY <2>1, BetweenIs
  <2>3. s \in Octets /\ Len(s) = n
    BY <2>1, <2>2 DEF IsBetween
  <2>. HIDE DEF s
  <2>4. s # <<>>
    BY <2>1, <2>3
  <2>5. TurnOk(Turn(s), n)
    BY <2>3, <2>4, TurnType
  <2>. QED  BY <2>5 DEF s
<1>. HIDE DEF T
<1>3. /\ calls \in [1..N -> Seq(Calls)] /\ left \in [1..N -> Nat]
      /\ \A n \in 1..N : left[n] < n
  BY <1>2 DEF TurnOk
<1>4. PICK f : MakesCalls(f, N, calls, left, Calls)
  <2>. HIDE DEF N, calls, left
  <2>. QED  BY <1>1, <1>3, CallsExist
<1>5. f = [n \in 0..N |-> IF n = 0 THEN <<>> ELSE T(n).calls \o f[Len(T(n).rest)]]
  <2>1. ASSUME NEW n \in 0..N
        PROVE  f[n] = IF n = 0 THEN <<>> ELSE T(n).calls \o f[Len(T(n).rest)]
    <3>1. f[n] = IF n = 0 THEN <<>> ELSE calls[n] \o f[left[n]]
      BY <1>4 DEF MakesCalls
    <3>2. n # 0 => calls[n] = T(n).calls /\ left[n] = Len(T(n).rest)
      BY <1>1
    <3>. QED  BY <3>1, <3>2
  <2>. QED  BY <1>4, <2>1 DEF MakesCalls
<1>. DEFINE h == CHOOSE h : h = [n \in 0..N |-> IF n = 0 THEN <<>>
                                              ELSE T(n).calls \o h[Len(T(n).rest)]]
<1>6. h = [n \in 0..N |-> IF n = 0 THEN <<>> ELSE T(n).calls \o h[Len(T(n).rest)]]
  BY <1>5
<1>7. Walk(a) = h[N]
  <2>1. Walk(a) = (CHOOSE h1 : h1 = [n \in 0..N |->
                      IF n = 0 THEN <<>>
                      ELSE Turn(SubSeq(a, N - n + 1, N)).calls
                              \o h1[Len(Turn(SubSeq(a, N - n + 1, N)).rest)]])[N]
    BY DEF Walk
  <2>. QED  BY <2>1 DEF T, Between
<1>. HIDE DEF h
<1>8. ASSUME NEW n \in 0..N
      PROVE  h[n] = IF n = 0 THEN <<>> ELSE T(n).calls \o h[Len(T(n).rest)]
  BY <1>6
<1>9. h \in [0..N -> Seq(Calls)]
  <2>. DEFINE Bad == {n \in 0..N : h[n] \notin Seq(Calls)}
  <2>1. SUFFICES Bad = {}
    BY <1>6
  <2>2. SUFFICES ASSUME Bad # {} PROVE FALSE
    OBVIOUS
  <2>3. PICK n \in Bad : \A k \in Bad : n <= k
    <3>1. Bad \in SUBSET Nat
      BY <1>1
    <3>. HIDE DEF Bad
    <3>. QED  BY <2>2, <3>1, Least
  <2>4. n \in 0..N /\ h[n] \notin Seq(Calls)
    BY <2>3
  <2>5. n # 0
    <3>1. h[0] = <<>>
      BY <1>1, <1>8
    <3>2. h[0] \in Seq(Calls)
      BY <3>1
    <3>. QED  BY <2>4, <3>2
  <2>6. TurnOk(T(n), n) /\ h[n] = T(n).calls \o h[Len(T(n).rest)]
    <3>. HIDE DEF Bad
    <3>1. n \in 1..N
      BY <1>1, <2>4, <2>5
    <3>. HIDE DEF N
    <3>. QED  BY <1>2, <1>8, <2>4, <2>5, <3>1
  <2>7. T(n).calls \in Seq(Calls) /\ Len(T(n).rest) \in 0..N /\ Len(T(n).rest) < n
    BY <1>1, <2>4, <2>6 DEF TurnOk
  <2>8. h[Len(T(n).rest)] \in Seq(Calls)
    <3>1. ~(n <= Len(T(n).rest))
      BY <1>1, <2>4, <2>7
    <3>2. Len(T(n).rest) \notin Bad
      <4>. HIDE DEF Bad
      <4>. QED  BY <2>3, <3>1
    <3>. QED  BY <2>7, <3>2
  <2>9. h[n] \in Seq(Calls)
    BY <2>6, <2>7, <2>8, ConcatProperties
  <2>. QED  BY <2>4, <2>9
<1>10. IsWalk(h, a)
  <2>1. h[0] = <<>>
    BY <1>1, <1>8
  <2>2. ASSUME NEW n \in 1..N
        PROVE  h[n] = T(n).calls \o h[Len(T(n).rest)]
    <3>1. n \in 0..N /\ n # 0
      BY <1>1
    <3>. QED  BY <1>8, <3>1
  <2>. QED  BY <1>9, <2>1, <2>2 DEF IsWalk, T
<1>. QED  BY <1>7, <1>10

\* A walk of the c first bytes of b, from byte m on.
WalksFrom(g, b, c, m) ==
    /\ g[c - m] \in Seq(Calls) /\ g[0] = <<>>
    /\ m < c => g[c - m] = Turn(Between(b, m, c)).calls \o g[Len(Turn(Between(b, m, c)).rest)]

LEMMA WalkFrom ==
  ASSUME NEW b \in Octets, NEW c \in 0..Len(b), NEW g, IsWalk(g, SubSeq(b, 1, c)), NEW m \in 0..c
  PROVE  WalksFrom(g, b, c, m)
<1>. DEFINE a == Between(b, 0, c)
<1>1. Len(b) \in Nat /\ 0 \in 0..c /\ c \in Nat /\ c - 0 = c
  BY LenIs
<1>2. IsBetween(a, b, 0, c)
  BY <1>1, BetweenIs
<1>3. a = SubSeq(b, 1, c)
  BY DEF Between
<1>. HIDE DEF a
<1>4. IsWalk(g, a)
  BY <1>3
<1>5. a \in Octets /\ Len(a) = c /\ \A i \in 1..c : a[i] = b[i]
  BY <1>1, <1>2 DEF IsBetween
<1>6. g[c - m] \in Seq(Calls) /\ g[0] = <<>>
  <2>1. c - m \in 0..c
    BY <1>1
  <2>. QED  BY <1>4, <1>5, <2>1 DEF IsWalk
<1>7. ASSUME m < c
      PROVE  g[c - m] = Turn(Between(b, m, c)).calls \o g[Len(Turn(Between(b, m, c)).rest)]
  <2>1. c - m \in 1..c /\ c - (c - m) = m /\ c \in 0..Len(a)
    BY <1>1, <1>5, <1>7
  <2>2. g[c - m] = Turn(Between(a, m, c)).calls \o g[Len(Turn(Between(a, m, c)).rest)]
    <3>1. g[c - m] = Turn(Between(a, c - (c - m), c)).calls
                        \o g[Len(Turn(Between(a, c - (c - m), c)).rest)]
      BY <1>4, <1>5, <2>1 DEF IsWalk
    <3>. QED  BY <2>1, <3>1
  <2>3. IsBetween(Between(a, m, c), a, m, c) /\ IsBetween(Between(b, m, c), b, m, c)
    BY <1>5, <2>1, BetweenIs
  <2>4. IsBetween(Between(a, m, c), b, m, c)
    <3>1. \A i \in 1..c - m : a[m + i] = b[m + i]
      BY <1>1, <1>5
    <3>. QED  BY <2>3, <3>1 DEF IsBetween
  <2>5. Between(a, m, c) = Between(b, m, c)
    BY <2>3, <2>4, BetweenOnly
  <2>. QED  BY <2>2, <2>5
<1>. QED  BY <1>6, <1>7 DEF WalksFrom

\* What a walk from behind item k tells: the next items in order, of the last its tag.
Tells(s, items, k) ==
    /\ s \in Seq(Calls) /\ Len(s) <= Len(items) - k
    /\ \A i \in 1..Len(s) - 1 : s[i] = Called(items[k + i])
    /\ Len(s) > 0 => s[Len(s)][1] = items[k + Len(s)].tag
\* That it tells every item up to K.
TellsUp(s, items, k, K) ==
    s \in Seq(Calls) /\ Len(s) >= K - k /\ \A i \in 1..K - k : s[i] = Called(items[k + i])

LEMMA TellsNext ==
  ASSUME NEW items, Len(items) \in Nat, NEW k \in 1..Len(items), NEW s, Called(items[k]) \in Calls
  PROVE  /\ Tells(s, items, k) => Tells(<< Called(items[k]) >> \o s, items, k - 1)
         /\ \A K \in k..Len(items) :
               TellsUp(s, items, k, K) => TellsUp(<< Called(items[k]) >> \o s, items, k - 1, K)
<1>. DEFINE x == Called(items[k])
            z == << x >> \o s
<1>1. ASSUME s \in Seq(Calls)
      PROVE  z \in Seq(Calls) /\ Len(z) = Len(s) + 1 /\ z[1] = x /\ Len(s) \in Nat
             /\ \A i \in 1..Len(s) : z[i + 1] = s[i]
  <2>1. << x >> \in Seq(Calls) /\ Len(<< x >>) = 1 /\ << x >>[1] = x
    OBVIOUS
  <2>. HIDE DEF x
  <2>2. z \in Seq(Calls) /\ Len(z) = 1 + Len(s) /\ Len(s) \in Nat
        /\ \A i \in 1..1 + Len(s) : z[i] = IF i <= 1 THEN << x >>[i] ELSE s[i - 1]
    BY <1>1, <2>1, ConcatProperties
  <2>. HIDE DEF z
  <2>3. \A i \in 1..Len(s) : z[i + 1] = s[i]
    <3>1. ASSUME NEW i \in 1..Len(s)
          PROVE  z[i + 1] = s[i]
      <4>1. i + 1 \in 1..1 + Len(s) /\ ~(i + 1 <= 1) /\ (i + 1) - 1 = i
        BY <2>2
      <4>. QED  BY <2>2, <4>1
    <3>. QED  BY <3>1
  <2>. QED  BY <2>1, <2>2, <2>3
<1>2. ASSUME NEW i \in Int
      PROVE  i # 1 => z[i] = z[(i - 1) + 1] /\ items[(k - 1) + i] = items[k + (i - 1)]
  <2>1. (i - 1) + 1 = i /\ (k - 1) + i = k + (i - 1)
    OBVIOUS
  <2>. QED  BY <2>1
<1>3. (k - 1) + 1 = k
  OBVIOUS
<1>. HIDE DEF z
<1>4. ASSUME Tells(s, items, k)
      PROVE  Tells(z, items, k - 1)
  <2>1. s \in Seq(Calls) /\ Len(s) <= Len(items) - k
    BY <1>4 DEF Tells
  <2>2. z \in Seq(Calls) /\ Len(z) = Len(s) + 1 /\ z[1] = x /\ Len(s) \in Nat
        /\ Len(z) <= Len(items) - (k - 1)
    BY <1>1, <2>1
  <2>3. ASSUME NEW i \in 1..Len(z) - 1
        PROVE  z[i] = Called(items[(k - 1) + i])
    <3>1. CASE i = 1
      BY <1>3, <2>2, <3>1
    <3>2. CASE i # 1
      <4>1. i - 1 \in 1..Len(s) - 1 /\ i - 1 \in 1..Len(s)
        BY <2>2, <3>2
      <4>2. z[i] = s[i - 1] /\ s[i - 1] = Called(items[k + (i - 1)])
        <5>1. z[(i - 1) + 1] = s[i - 1] /\ i \in Int
          <6>1. \A j \in 1..Len(s) : z[j + 1] = s[j]
            BY <1>1, <2>1
          <6>2. i - 1 \in 1..Len(s)
            BY <4>1
          <6>3. z[(i - 1) + 1] = s[i - 1]
            BY <6>1, <6>2, Zenon
          <6>4. i \in Int
            BY <2>2
          <6>. QED  BY <6>3, <6>4
        <5>2. z[i] = z[(i - 1) + 1]
          BY <1>2, <3>2, <5>1
        <5>3. s[i - 1] = Called(items[k + (i - 1)])
          BY <1>4, <4>1 DEF Tells
        <5>. QED  BY <5>1, <5>2, <5>3
      <4>. QED  BY <1>2, <3>2, <4>2
    <3>. QED  BY <3>1, <3>2
  <2>4. z[Len(z)][1] = items[(k - 1) + Len(z)].tag
    <3>1. CASE Len(s) = 0
      BY <1>3, <2>2, <3>1 DEF Called
    <3>2. CASE Len(s) # 0
      <4>1. Len(s) \in 1..Len(s) /\ (k - 1) + Len(z) = k + Len(s)
        BY <2>2, <3>2
      <4>2. z[Len(z)] = s[Len(s)]
        BY <1>1, <2>1, <2>2, <4>1
      <4>. QED  BY <1>4, <2>2, <3>2, <4>1, <4>2 DEF Tells
    <3>. QED  BY <3>1, <3>2
  <2>. QED  BY <2>2, <2>3, <2>4 DEF Tells
<1>5. ASSUME NEW K \in k..Len(items), TellsUp(s, items, k, K)
      PROVE  TellsUp(z, items, k - 1, K)
  <2>1. s \in Seq(Calls) /\ Len(s) >= K - k
    BY <1>5 DEF TellsUp
  <2>2. z \in Seq(Calls) /\ Len(z) = Len(s) + 1 /\ z[1] = x /\ Len(s) \in Nat
        /\ Len(z) >= K - (k - 1)
    BY <1>1, <2>1
  <2>3. ASSUME NEW i \in 1..K - (k - 1)
        PROVE  z[i] = Called(items[(k - 1) + i])
    <3>1. CASE i = 1
      BY <1>3, <2>2, <3>1
    <3>2. CASE i # 1
      <4>1. i - 1 \in 1..Len(s) /\ i - 1 \in 1..K - k
        BY <2>1, <2>2, <3>2
      <4>2. z[i] = s[i - 1] /\ s[i - 1] = Called(items[k + (i - 1)])
        <5>1. z[(i - 1) + 1] = s[i - 1] /\ i \in Int
          <6>1. \A j \in 1..Len(s) : z[j + 1] = s[j]
            BY <1>1, <2>1
          <6>2. i - 1 \in 1..Len(s)
            BY <4>1
          <6>3. z[(i - 1) + 1] = s[i - 1]
            BY <6>1, <6>2, Zenon
          <6>4. i \in Int
            BY <2>2
          <6>. QED  BY <6>3, <6>4
        <5>2. z[i] = z[(i - 1) + 1]
          BY <1>2, <3>2, <5>1
        <5>3. s[i - 1] = Called(items[k + (i - 1)])
          BY <1>5, <4>1 DEF TellsUp
        <5>. QED  BY <5>1, <5>2, <5>3
      <4>. QED  BY <1>2, <3>2, <4>2
    <3>. QED  BY <3>1, <3>2
  <2>. QED  BY <2>2, <2>3 DEF TellsUp
<1>. QED  BY <1>4, <1>5 DEF z

LEMMA TellsLast ==
  ASSUME NEW items, Len(items) \in Nat, NEW k \in 1..Len(items), NEW v \in Nat,
         items[k].tag \in Nat
  PROVE  Tells(<< <<items[k].tag, v>> >> \o <<>>, items, k - 1) /\ Tells(<<>>, items, k - 1)
<1>. DEFINE x == <<items[k].tag, v>>
            z == << x >>
<1>1. x \in Calls /\ x[1] = items[k].tag
  BY DEF Calls
<1>. HIDE DEF x
<1>2. z \in Seq(Calls) /\ Len(z) = 1 /\ z[1] = x
  BY <1>1
<1>3. z \o <<>> = z
  BY <1>2, ConcatEmptySeq
<1>. HIDE DEF z
<1>4. Tells(z, items, k - 1)
  <2>1. (k - 1) + 1 = k /\ 1 <= Len(items) - (k - 1)
    OBVIOUS
  <2>. QED  BY <1>1, <1>2, <2>1 DEF Tells
<1>5. Tells(<<>>, items, k - 1)
  <2>1. <<>> \in Seq(Calls) /\ Len(<<>>) = 0 /\ 0 <= Len(items) - (k - 1)
    OBVIOUS
  <2>. QED  BY <2>1 DEF Tells
<1>. QED  BY <1>3, <1>4, <1>5 DEF z, x

LEMMA WalkItemsAre ==
  ASSUME NEW items \in Seq(WalkItems)
  PROVE  /\ AreItems(items)
         /\ \A i \in 1..Len(items) : Walkable(items[i]) /\ Called(items[i]) \in Calls
                                     /\ items[i].tag \in Nat
<1>1. Len(items) \in Nat /\ DOMAIN items = 1..Len(items)
  OBVIOUS
<1>2. ASSUME NEW i \in 1..Len(items)
      PROVE  /\ Walkable(items[i]) /\ items[i].bytes \in Octets /\ items[i].tag \in Nat
             /\ items[i].size \in Nat
  <2>1. items[i] \in WalkItems
    OBVIOUS
  <2>. QED  BY <2>1, WalkableType DEF WalkItems
<1>. QED  BY <1>1, <1>2 DEF AreItems, Called, Calls

\* One step back: what the walk tells from item k on, if it is so from behind it.
LEMMA WalkBack ==
  ASSUME NEW items \in Seq(WalkItems), NEW J, IsWritten(J, items), NEW b, b = J[Len(items)],
         b \in Octets, NEW c \in 0..Len(b), NEW g, IsWalk(g, SubSeq(b, 1, c)),
         NEW k \in 1..Len(items), Len(J[k - 1]) <= c,
         Len(J[k]) <= c => Tells(g[c - Len(J[k])], items, k)
  PROVE  Tells(g[c - Len(J[k - 1])], items, k - 1)
<1>. DEFINE N == Len(items)
            item == items[k]
            n == Len(J[k - 1])
            m == Len(J[k])
            t == Between(b, m, c)
            r == Turn(Between(b, n, c))
<1>1. /\ AreItems(items) /\ N \in Nat /\ Walkable(item) /\ Called(item) \in Calls
      /\ item.tag \in Nat
  BY WalkItemsAre
<1>2. IsAt(b, n, item, m)
  BY <1>1, BeginsSelf, ItemIsAt
<1>. HIDE DEF n, m, item
<1>3. /\ n \in Nat /\ Len(item.bytes) \in Nat /\ m = n + Len(item.bytes) /\ m \in Nat /\ n <= c
      /\ Len(item.bytes) > 0 /\ n \in 0..c /\ c \in Nat
  <2>1. n \in Nat /\ Len(item.bytes) \in Nat /\ m = n + Len(item.bytes) /\ n <= c
    BY <1>2, LenIs DEF IsAt, n
  <2>2. Len(item.bytes) > 0
    BY <1>1, WalkableType
  <2>. QED  BY <2>1, <2>2, LenIs
<1>4. g[0] = <<>> /\ (n < c => g[c - n] = r.calls \o g[Len(r.rest)])
  <2>1. WalksFrom(g, b, c, n)
    BY <1>3, WalkFrom
  <2>. QED  BY <2>1 DEF WalksFrom, r
<1>5. ASSUME TurnsLast(r, item), n < c
      PROVE  Tells(g[c - n], items, k - 1)
  <2>1. PICK s \in Nat : r = [calls |-> << <<item.tag, s>> >>, rest |-> <<>>]
    BY <1>5 DEF TurnsLast
  <2>2. Len(<<>>) = 0 /\ r.calls = << <<item.tag, s>> >> /\ r.rest = <<>>
    BY <2>1
  <2>3. g[c - n] = << <<item.tag, s>> >> \o <<>>
    BY <1>4, <1>5, <2>2
  <2>. QED  BY <1>1, <2>3, TellsLast DEF item
<1>6. CASE m <= c
  <2>1. Between(b, n, c) = item.bytes \o t /\ t \in Octets
    <3>1. IsWhole(Between(b, n, c), item, t)
      BY <1>2, <1>6, WholeItem
    <3>. QED  BY <3>1 DEF IsWhole
  <2>2. n < c
    BY <1>3, <1>6
  <2>3. Len(t) = c - m
    <3>1. m \in 0..c
      BY <1>3, <1>6
    <3>. QED  BY <3>1, BetweenIs DEF IsBetween
  <2>. HIDE DEF t
  <2>4. \/ TurnsTo(r, item, t)
        \/ TurnsLast(r, item) /\ ~FitsIn(item, Len(item.bytes) + Len(t))
    BY <1>1, <2>1, TurnWhole
  <2>5. Len(item.bytes) + Len(t) = c - n
    BY <1>3, <2>3
  <2>6. CASE TurnsTo(r, item, t)
    <3>1. r.calls = << Called(item) >> /\ Len(r.rest) = c - m
      BY <2>3, <2>6 DEF TurnsTo
    <3>2. g[c - n] = << Called(item) >> \o g[c - m]
      BY <1>4, <2>2, <3>1
    <3>3. Tells(g[c - m], items, k)
      BY <1>6 DEF m
    <3>4. Tells(<< Called(item) >> \o g[c - m], items, k - 1)
      BY <1>1, <3>3, TellsNext DEF item
    <3>. QED  BY <3>2, <3>4 DEF n, m
  <2>7. CASE TurnsLast(r, item) /\ ~FitsIn(item, Len(item.bytes) + Len(t))
    BY <1>5, <2>2, <2>5, <2>7 DEF n, item
  <2>. QED  BY <2>4, <2>6, <2>7
<1>7. CASE ~(m <= c)
  <2>1. Tells(g[c - n], items, k - 1)
    <3>1. CASE n = c
      <4>1. c - n = 0
        BY <1>3, <3>1
      <4>. QED  BY <1>1, <1>4, <4>1, TellsLast DEF item
    <3>2. CASE n # c
      <4>1. n < c /\ c < m
        BY <1>3, <1>7, <3>2
      <4>2. IsCut(Between(b, n, c), item.bytes, c - n)
        BY <1>2, <1>3, <4>1, CutItem
      <4>3. c - n \in 1..Len(item.bytes) - 1
        BY <1>3, <4>1
      <4>4. TurnsLast(r, item)
        BY <1>1, <4>2, <4>3, TurnCut DEF IsCut
      <4>. QED  BY <1>5, <4>1, <4>4
    <3>. QED  BY <3>1, <3>2
  <2>. QED  BY <1>7, <2>1 DEF n, m
<1>. QED  BY <1>6, <1>7

\* So from the first byte on.
LEMMA WalkOfBytes ==
  ASSUME NEW items \in Seq(WalkItems), NEW c \in 0..Len(Bytes(items))
  PROVE  Tells(Walk(SubSeq(Bytes(items), 1, c)), items, 0)
<1>. DEFINE N == Len(items)
            J == Written(items)
            b == Bytes(items)
            a == SubSeq(b, 1, c)
<1>1. AreItems(items) /\ N \in Nat
  BY WalkItemsAre
<1>2. IsWritten(J, items) /\ b = J[N]
  BY <1>1, WrittenIs
<1>3. b \in Octets /\ Len(b) \in Nat /\ J[N] \in Octets
  <2>1. J[N] \in Octets
    BY <1>1, <1>2 DEF IsWritten
  <2>. QED  BY <1>2, <2>1, LenIs
<1>. HIDE DEF J
<1>5. a \in Octets /\ Len(a) = c
  <2>1. IsBetween(Between(b, 0, c), b, 0, c) /\ c - 0 = c
    BY <1>3, BetweenIs
  <2>2. Between(b, 0, c) = a
    BY DEF Between
  <2>. HIDE DEF a
  <2>. QED  BY <2>1, <2>2 DEF IsBetween
<1>. HIDE DEF b
<1>6. PICK g : IsWalk(g, a) /\ Walk(a) = g[Len(a)]
  BY <1>5, WalkIs
<1>7. c \in 0..Len(b)
  BY DEF b
<1>. DEFINE There(k) == Len(J[k]) <= c => Tells(g[c - Len(J[k])], items, k)
            Bad == {j \in 0..N : ~There(N - j)}
<1>9. There(N)
  <2>1. ASSUME Len(J[N]) <= c
        PROVE  Tells(g[c - Len(J[N])], items, N)
    <3>1. c - Len(J[N]) = 0
      BY <1>2, <1>3, <1>7, <2>1
    <3>2. g[0] = <<>>
      BY <1>6 DEF IsWalk
    <3>3. <<>> \in Seq(Calls) /\ Len(<<>>) = 0 /\ 0 <= N - N
      BY <1>1
    <3>4. Tells(<<>>, items, N)
      BY <3>3 DEF Tells
    <3>. QED  BY <3>1, <3>2, <3>4
  <2>. QED  BY <2>1
<1>10. ASSUME NEW k \in 1..N, There(k)
       PROVE  There(k - 1)
  <2>1. SUFFICES ASSUME Len(J[k - 1]) <= c
                 PROVE  Tells(g[c - Len(J[k - 1])], items, k - 1)
    OBVIOUS
  <2>2. Len(J[k]) <= c => Tells(g[c - Len(J[k])], items, k)
    BY <1>10
  <2>. QED  BY <1>2, <1>3, <1>6, <1>7, <2>1, <2>2, WalkBack
<1>11. Bad = {}
  <2>1. SUFFICES ASSUME Bad # {} PROVE FALSE
    OBVIOUS
  <2>2. PICK j \in Bad : \A i \in Bad : j <= i
    <3>1. Bad \in SUBSET Nat
      BY <1>1
    <3>. HIDE DEF Bad
    <3>. QED  BY <2>1, <3>1, Least
  <2>3. j \in 0..N /\ ~There(N - j)
    BY <2>2
  <2>4. j # 0
    <3>1. N - 0 = N
      BY <1>1
    <3>. HIDE DEF There
    <3>. QED  BY <1>9, <2>3, <3>1
  <2>5. j - 1 \in 0..N /\ ~(j <= j - 1) /\ N - (j - 1) \in 1..N /\ (N - (j - 1)) - 1 = N - j
    BY <1>1, <2>3, <2>4
  <2>6. There(N - (j - 1))
    <3>1. j - 1 \notin Bad
      <4>. HIDE DEF Bad
      <4>. QED  BY <2>2, <2>5
    <3>. HIDE DEF There
    <3>. QED  BY <2>5, <3>1
  <2>7. There((N - (j - 1)) - 1)
    <3>. HIDE DEF There
    <3>. QED  BY <1>10, <2>5, <2>6
  <2>. HIDE DEF There
  <2>. QED  BY <2>3, <2>5, <2>7
<1>12. There(0)
  <2>1. N \in 0..N /\ N - N = 0
    BY <1>1
  <2>. HIDE DEF There
  <2>. QED  BY <1>11, <2>1
<1>13. Len(J[0]) = 0 /\ c - 0 = c /\ 0 <= c
  <2>1. J[0] = <<>> /\ Len(<<>>) = 0
    BY <1>2 DEF IsWritten
  <2>. QED  BY <1>3, <1>7, <2>1
<1>14. Tells(Walk(a), items, 0)
  BY <1>5, <1>6, <1>12, <1>13
<1>. QED  BY <1>14 DEF b

\* What is called back for the first K items, whatever is behind them.
LEMMA WalkUp ==
  ASSUME NEW items, AreItems(items), NEW J, IsWritten(J, items), NEW b, b = J[Len(items)],
         b \in Octets, NEW K \in 0..Len(items),
         \A i \in 1..K : /\ Walkable(items[i]) /\ Called(items[i]) \in Calls
                         /\ FitsIn(items[i], Len(b) - Len(J[i - 1]))
  PROVE  TellsUp(Walk(b), items, 0, K)
<1>. DEFINE N == Len(items)
            c == Len(b)
<1>1. N \in Nat /\ K \in Nat /\ c \in Nat /\ SubSeq(b, 1, c) = b /\ K - 0 = K
  BY LenIs, SubSeqFull DEF AreItems, Octets
<1>2. PICK g : IsWalk(g, SubSeq(b, 1, c)) /\ Walk(b) = g[c]
  BY <1>1, WalkIs
<1>3. \A k \in 0..N : Len(J[k]) \in Nat /\ Len(J[k]) <= c
  <2>1. ASSUME NEW k \in 0..N
        PROVE  Len(J[k]) \in Nat /\ Len(J[k]) <= c
    <3>1. N \in k..N
      BY <1>1
    <3>2. Begins(J[k], J[N])
      BY <3>1, BytesBegin
    <3>3. J[k] \in Octets
      BY DEF IsWritten
    <3>. QED  BY <3>2, <3>3, LenIs DEF Begins
  <2>. QED  BY <2>1
<1>. DEFINE There(k) == TellsUp(g[c - Len(J[k])], items, k, K)
            Bad == {j \in 0..K : ~There(K - j)}
<1>4. There(K)
  <2>1. Len(J[K]) \in 0..c /\ c \in 0..Len(b) /\ K - K = 0
    BY <1>1, <1>3
  <2>. DEFINE u == g[c - Len(J[K])]
  <2>2. u \in Seq(Calls)
    <3>1. WalksFrom(g, b, c, Len(J[K]))
      BY <1>2, <2>1, WalkFrom
    <3>. QED  BY <3>1 DEF WalksFrom
  <2>. HIDE DEF u
  <2>3. Len(u) \in Nat
    BY <2>2
  <2>4. Len(u) >= K - K /\ 1..K - K = {}
    BY <2>1, <2>3
  <2>. QED  BY <2>2, <2>4 DEF TellsUp, u
<1>5. ASSUME NEW k \in 1..K, There(k)
      PROVE  There(k - 1)
  <2>. DEFINE item == items[k]
              n == Len(J[k - 1])
              m == Len(J[k])
              t == Between(b, m, c)
              r == Turn(Between(b, n, c))
  <2>1. k \in 1..N /\ k \in 0..N /\ k - 1 \in 0..N /\ K \in k..N /\ c \in 0..Len(b)
    BY <1>1
  <2>2. IsAt(b, n, item, m)
    BY <2>1, BeginsSelf, ItemIsAt
  <2>3. n \in Nat /\ m \in Nat /\ n <= c /\ m <= c /\ n \in 0..c /\ m \in 0..c
    BY <1>1, <1>3, <2>1
  <2>4. Walkable(item) /\ Called(item) \in Calls /\ FitsIn(item, c - n)
    OBVIOUS
  <2>. HIDE DEF n, m, item
  <2>5. Len(item.bytes) \in Nat /\ m = n + Len(item.bytes) /\ Len(item.bytes) > 0
    BY <2>2, <2>4, LenIs, WalkableType DEF IsAt
  <2>6. n < c
    BY <1>1, <2>3, <2>5
  <2>7. g[c - n] = r.calls \o g[Len(r.rest)]
    <3>1. WalksFrom(g, b, c, n)
      BY <1>2, <2>1, <2>3, WalkFrom
    <3>. QED  BY <2>6, <3>1 DEF WalksFrom
  <2>8. Between(b, n, c) = item.bytes \o t /\ t \in Octets /\ Len(t) = c - m
    <3>1. IsWhole(Between(b, n, c), item, t)
      BY <2>1, <2>2, <2>3, WholeItem
    <3>2. IsBetween(t, b, m, c)
      BY <2>1, <2>3, BetweenIs
    <3>. QED  BY <3>1, <3>2 DEF IsWhole, IsBetween
  <2>. HIDE DEF t
  <2>9. Len(item.bytes) + Len(t) = c - n
    BY <1>1, <2>3, <2>5, <2>8
  <2>10. TurnsTo(r, item, t)
    BY <2>4, <2>8, <2>9, TurnWhole
  <2>11. r.calls = << Called(item) >> /\ Len(r.rest) = c - m
    BY <2>8, <2>10 DEF TurnsTo
  <2>12. g[c - n] = << Called(item) >> \o g[c - m]
    BY <2>7, <2>11
  <2>13. TellsUp(g[c - m], items, k, K)
    BY <1>5 DEF m
  <2>14. TellsUp(<< Called(item) >> \o g[c - m], items, k - 1, K)
    BY <1>1, <2>1, <2>4, <2>13, TellsNext DEF item
  <2>. QED  BY <2>12, <2>14 DEF n
<1>6. Bad = {}
  <2>1. SUFFICES ASSUME Bad # {} PROVE FALSE
    OBVIOUS
  <2>2. PICK j \in Bad : \A i \in Bad : j <= i
    <3>. HIDE DEF There
    <3>1. Bad \in SUBSET Nat
      BY <1>1
    <3>. HIDE DEF Bad
    <3>. QED  BY <2>1, <3>1, Least
  <2>3. j \in 0..K /\ ~There(K - j)
    BY <2>2
  <2>4. j # 0
    <3>. HIDE DEF There
    <3>. QED  BY <1>1, <1>4, <2>3
  <2>5. j - 1 \in 0..K /\ ~(j <= j - 1) /\ K - (j - 1) \in 1..K /\ (K - (j - 1)) - 1 = K - j
    BY <1>1, <2>3, <2>4
  <2>6. There(K - (j - 1))
    <3>1. j - 1 \notin Bad
      <4>. HIDE DEF Bad
      <4>. QED  BY <2>2, <2>5
    <3>. HIDE DEF There
    <3>. QED  BY <2>5, <3>1
  <2>7. There((K - (j - 1)) - 1)
    <3>. HIDE DEF There
    <3>. QED  BY <1>5, <2>5, <2>6
  <2>. HIDE DEF There
  <2>. QED  BY <2>3, <2>5, <2>7
<1>7. There(0)
  <2>1. K \in 0..K /\ K - K = 0
    BY <1>1
  <2>. HIDE DEF There
  <2>. QED  BY <1>6, <2>1
<1>8. c - Len(J[0]) = c
  <2>1. J[0] = <<>> /\ Len(<<>>) = 0
    BY DEF IsWritten
  <2>. QED  BY <1>1, <2>1
<1>. QED  BY <1>2, <1>7, <1>8

\* A value as its encoder writes it: tagged, as the walk knows it, or not.
AnyItems == {it \in Items : it.tag \in Nat /\ it.size \in Nat /\ (Tagged(it) => Walkable(it))}

LEMMA WalksAsWritten ==
  ASSUME msg.way = "walk", msg.items \in Seq(AnyItems)
  PROVE  WalkedAsWritten
<1>. DEFINE items == msg.items
            N == Len(items)
            calls == [i \in DOMAIN items |-> << items[i].tag, items[i].size >>]
            bytes == Bytes(items)
            J == Written(items)
<1>1. /\ AreItems(items) /\ N \in Nat /\ DOMAIN items = 1..N
      /\ items = [i \in 1..N |-> items[i]]
      /\ \A i \in 1..N : /\ items[i] \in AnyItems /\ Called(items[i]) \in Calls
                         /\ Tagged(items[i]) => Walkable(items[i])
  <2>1. DOMAIN items = 1..N /\ N \in Nat /\ items = [i \in 1..N |-> items[i]]
    OBVIOUS
  <2>2. ASSUME NEW i \in 1..N
        PROVE  /\ items[i] \in AnyItems /\ Called(items[i]) \in Calls /\ items[i].bytes \in Octets
               /\ Tagged(items[i]) => Walkable(items[i])
    <3>1. items[i] \in AnyItems
      OBVIOUS
    <3>. QED  BY <3>1 DEF AnyItems, Items, Called, Calls
  <2>. QED  BY <2>1, <2>2 DEF AreItems
<1>. HIDE DEF items
<1>2. IsWritten(J, items) /\ bytes = J[N] /\ bytes \in Octets
  <2>1. IsWritten(J, items) /\ bytes = J[N] /\ N \in 0..N
    BY <1>1, WrittenIs
  <2>. QED  BY <2>1 DEF IsWritten
<1>3. calls \in Seq(Calls) /\ Len(calls) = N /\ \A i \in 1..N : calls[i] = Called(items[i])
  <2>1. calls = [i \in 1..N |-> Called(items[i])]
    BY <1>1 DEF Called
  <2>2. calls \in [1..N -> Calls]
    BY <1>1, <2>1
  <2>3. \A i \in 1..N : calls[i] = Called(items[i])
    BY <2>1
  <2>. HIDE DEF calls
  <2>. QED  BY <1>1, <2>2, <2>3
<1>4. ASSUME NEW k \in 0..N, \A i \in 1..k : Tagged(items[i]) /\ SizeFits(items, i)
      PROVE  IsPrefixOf(SubSeq(calls, 1, k), Walk(bytes))
  <2>. DEFINE u == SubSeq(calls, 1, k)
              w == Walk(bytes)
  <2>1. \A i \in 1..k : /\ Walkable(items[i]) /\ Called(items[i]) \in Calls
                        /\ FitsIn(items[i], Len(bytes) - Len(J[i - 1]))
    <3>1. \A i \in 1..k : i \in 1..N
      BY <1>1
    <3>2. \A i \in 1..k : FitsIn(items[i], Len(bytes) - Len(J[i - 1]))
      BY <1>4 DEF SizeFits, FitsIn
    <3>. QED  BY <1>1, <1>4, <3>1, <3>2
  <2>. HIDE DEF J, bytes
  <2>2. TellsUp(w, items, 0, k)
    BY <1>1, <1>2, <2>1, WalkUp
  <2>. HIDE DEF w, calls
  <2>3. w \in Seq(Calls) /\ Len(w) >= k /\ k \in Nat /\ \A i \in 1..k : w[i] = Called(items[i])
    <3>1. k - 0 = k /\ k \in Nat /\ \A i \in 1..k : 0 + i = i
      BY <1>1
    <3>. QED  BY <2>2, <3>1 DEF TellsUp
  <2>4. u \in Seq(Calls) /\ Len(u) = k /\ \A i \in 1..k : u[i] = Called(items[i])
    BY <1>1, <1>3
  <2>. DEFINE x == SubSeq(w, 1, k)
  <2>5. x \in Seq(Calls) /\ Len(x) = k /\ \A i \in 1..k : x[i] = w[i]
    BY <2>3
  <2>. HIDE DEF u, x
  <2>6. u = x
    BY <2>3, <2>4, <2>5, SeqEqual
  <2>7. Len(w) \in Nat
    BY <2>3
  <2>. QED  BY <2>3, <2>4, <2>6, <2>7 DEF IsPrefixOf, u, w, x
<1>5. ASSUME \A i \in DOMAIN items : Tagged(items[i]), NEW n \in 0..Len(bytes)
      PROVE  LET got == Walk(SubSeq(bytes, 1, n))
                 k == Len(got)
             IN  /\ k <= Len(calls)
                 /\ \A i \in 1..k - 1 : got[i] = calls[i]
                 /\ k > 0 => got[k][1] = calls[k][1]
  <2>. DEFINE got == Walk(SubSeq(bytes, 1, n))
              k == Len(got)
  <2>1. Tells(got, items, 0)
    <3>1. \A i \in 1..N : items[i] \in WalkItems
      BY <1>1, <1>5 DEF AnyItems, WalkItems
    <3>2. items \in [1..N -> WalkItems]
      BY <1>1, <3>1
    <3>3. items \in Seq(WalkItems)
      BY <1>1, <3>2
    <3>. QED  BY <3>3, WalkOfBytes
  <2>. HIDE DEF got, calls
  <2>2. k \in Nat /\ k <= N /\ got \in Seq(Calls) /\ (\A i \in 1..k - 1 : got[i] = Called(items[0 + i]))
        /\ (k > 0 => got[k][1] = items[0 + k].tag)
    BY <1>1, <2>1 DEF Tells
  <2>3. \A i \in 1..k - 1 : 0 + i = i /\ i \in 1..N
    BY <1>1, <2>2
  <2>4. k > 0 => 0 + k = k /\ k \in 1..N
    BY <1>1, <2>2
  <2>5. k <= Len(calls) /\ \A i \in 1..k - 1 : got[i] = calls[i]
    BY <1>3, <2>2, <2>3
  <2>6. k > 0 => got[k][1] = calls[k][1]
    BY <1>3, <2>2, <2>4 DEF Called
  <2>. QED  BY <2>5, <2>6 DEF got
<1>6. \A k \in 0..N : (\A i \in 1..k : Tagged(items[i]) /\ SizeFits(items, i))
                         => IsPrefixOf(SubSeq(calls, 1, k), Walk(bytes))
  BY <1>4
<1>. HIDE DEF calls, bytes, N
<1>. QED  BY <1>5, <1>6, Zenon DEF WalkedAsWritten, items, calls, bytes, N

-----------------------------------------------------------------------------
(* The inductive invariant: a message holds what the encoders write         *)

CodecInv ==
    /\ msg.way \in {"read", "walk"}
    /\ msg = [way |-> msg.way, items |-> msg.items, left |-> msg.left]
    /\ msg.way = "read" => msg.items \in Seq(WrittenItems)
    /\ msg.way = "walk" => msg.items \in Seq(AnyItems)

LEMMA AddedItems ==
  ASSUME CodecInv, NEW way \in {"read", "walk"}, NEW items, AddItems(way, items),
         way = "read" => items \in Seq(WrittenItems),
         way = "walk" => items \in Seq(AnyItems)
  PROVE  CodecInv'
<1>1. msg'.way = way /\ msg.way = way /\ msg'.items = msg.items \o items
      /\ msg' = [way |-> msg'.way, items |-> msg'.items, left |-> msg'.left]
  BY DEF CodecInv, AddItems
<1>2. CASE way = "read"
  <2>1. msg.items \o items \in Seq(WrittenItems)
    BY <1>1, <1>2, ConcatProperties DEF CodecInv
  <2>. QED  BY <1>1, <1>2, <2>1 DEF CodecInv
<1>3. CASE way = "walk"
  <2>1. msg.items \o items \in Seq(AnyItems)
    BY <1>1, <1>3, ConcatProperties DEF CodecInv
  <2>. QED  BY <1>1, <1>3, <2>1 DEF CodecInv
<1>. QED  BY <1>2, <1>3

LEMMA ItemType ==
  ASSUME NEW tag \in Tags, NEW size \in ItemValues, NEW bytes \in Octets
  PROVE  Item(tag, size, bytes) \in Items
BY DEF Item, Items

LEMMA OneItem ==
  ASSUME NEW it, NEW S, it \in S
  PROVE  << it >> \in Seq(S)
OBVIOUS

LEMMA LengthWritten ==
  ASSUME NEW n \in ItemSizes
  PROVE  /\ n \in Nat
         /\ n <= 127 => n \in 0..127 /\ csm_ber_write_len(n) = << n >>
BY CodecAssumption DEF csm_ber_write_len

LEMMA FrontOfOne ==
  ASSUME NEW x \in Nat
  PROVE  Fronts(<< x >>, x, <<>>)
<1>1. <<>> \in Octets /\ << x >> \o <<>> = << x >>
  BY DEF Octets
<1>. QED  BY <1>1 DEF Fronts

LEMMA FrontOfTwo ==
  ASSUME NEW x \in Nat, NEW y \in Nat
  PROVE  Fronts(<< x, y >>, x, << y >>)
<1>1. << x >> \in Octets /\ << y >> \in Octets /\ << x, y >> \in Octets
  BY DEF Octets
<1>2. AreJoined(<< x, y >>, << x >>, << y >>)
  <2>. DEFINE z == << x, y >>
              a == << x >>
              b == << y >>
  <2>1. /\ z \in Octets /\ Len(z) = 2 /\ z[1] = x /\ z[2] = y
        /\ Len(a) = 1 /\ a[1] = x /\ Len(b) = 1 /\ b[1] = y
    BY <1>1
  <2>. HIDE DEF z, a, b
  <2>2. AreJoined(z, a, b)
    BY <2>1 DEF AreJoined
  <2>. QED  BY <2>2 DEF z, a, b
<1>. QED  BY <1>1, <1>2, JoinedOnly DEF Fronts

LEMMA FrontOfThree ==
  ASSUME NEW x \in Nat, NEW y \in Nat, NEW z \in Nat
  PROVE  Fronts(<< x, y, z >>, x, << y, z >>) /\ << x, y, z >> \in Octets
<1>1. << x >> \in Octets /\ << y, z >> \in Octets /\ << x, y, z >> \in Octets
  BY DEF Octets
<1>2. AreJoined(<< x, y, z >>, << x >>, << y, z >>)
  BY <1>1 DEF AreJoined
<1>. QED  BY <1>1, <1>2, JoinedOnly DEF Fronts

\* A length of the long form, between a byte and p.
LEMMA LongWritten ==
  ASSUME NEW n \in ItemSizes, n > 127
  PROVE  /\ csm_ber_write_len(n) \in Octets
         /\ \A byte \in Nat, p \in Octets : \E h, l :
               h >= 128 /\ LongSized(<< byte >> \o csm_ber_write_len(n) \o p, byte, h, l, p)
<1>1. n \in Nat
  BY LengthWritten
<1>. DEFINE h == ((n \div 256) % 128) + 128
            l == n % 128
            w == csm_ber_write_len(n)
<1>2. h \in Nat /\ l \in Nat /\ h >= 128 /\ 130 \in Nat
  BY <1>1
<1>3. w = << 130, h, l >>
  BY <1>1 DEF csm_ber_write_len
<1>. HIDE DEF h, l, w
<1>4. w \in Octets /\ Fronts(w, 130, << h, l >>)
  BY <1>2, <1>3, FrontOfThree
<1>5. Fronts(<< h, l >>, h, << l >>) /\ Fronts(<< l >>, l, <<>>)
  BY <1>2, FrontOfOne, FrontOfTwo
<1>6. ASSUME NEW byte \in Nat, NEW p \in Octets
      PROVE  LongSized(<< byte >> \o w \o p, byte, h, l, p)
  <2>1. Fronts(<< byte >> \o w, byte, w)
    BY <1>4 DEF Fronts
  <2>2. LongSized(<< byte >> \o w, byte, h, l, <<>>)
    BY <1>4, <1>5, <2>1, Zenon DEF LongSized
  <2>3. LongSized((<< byte >> \o w) \o p, byte, h, l, <<>> \o p)
    BY <2>2, LongJoined, Zenon
  <2>4. <<>> \o p = p
    BY DEF Octets
  <2>. QED  BY <2>3, <2>4, Zenon
<1>. QED  BY <1>2, <1>4, <1>6 DEF w

LEMMA FramedWritten ==
  ASSUME NEW byte \in Nat, NEW s \in Octets, NEW p \in Octets
  PROVE  << byte >> \o s \o p = << byte >> \o (s \o p)
BY FrontOfJoined, Zenon

LEMMA ShortWritten ==
  ASSUME NEW it, Readable(it), Short(it),
         it.tag \in {"length", "octets", "block", "u8", "oid", "null"},
         it = Item(it.tag, it.size, it.bytes)
  PROVE  it \in WrittenItems
<1>1. it.tag \in Tags /\ it.size \in ItemValues /\ it.bytes \in Octets
  BY ReadableType DEF Tags, ItemValues
<1>2. Item(it.tag, it.size, it.bytes) \in Items
  BY <1>1, ItemType
<1>. QED  BY <1>2 DEF WrittenItems

\* What the encoders write of a size: short ...
LEMMA ShortForReader ==
  ASSUME NEW n \in ItemSizes, n <= 127
  PROVE  /\ Item("length", n, csm_ber_write_len(n)) \in WrittenItems
         /\ Item("octets", n, csm_axdr_wr_octetstring(n)) \in WrittenItems
         /\ Item("block", n, <<0>> \o csm_ber_write_len(n) \o Payload(n)) \in WrittenItems
<1>1. n \in 0..127 /\ csm_ber_write_len(n) = << n >> /\ n \in Nat /\ Payload(n) \in Octets
      /\ << n >> \in Octets
  BY LengthWritten, PayloadType DEF Octets
<1>2. /\ csm_axdr_wr_octetstring(n) = Framed(OCTETSTRING, n)
      /\ <<0>> \o csm_ber_write_len(n) \o Payload(n) = Framed(0, n)
  BY <1>1, FramedWritten DEF csm_axdr_wr_octetstring, Framed, OCTETSTRING
<1>3. /\ Readable(Item("length", n, << n >>)) /\ Readable(Item("octets", n, Framed(OCTETSTRING, n)))
      /\ Readable(Item("block", n, Framed(0, n)))
  BY <1>1 DEF Readable
<1>4. ASSUME NEW tag, NEW bytes
      PROVE  LET it == Item(tag, n, bytes)
             IN  it.tag = tag /\ it = Item(it.tag, it.size, it.bytes) /\ Short(it)
  BY <1>1 DEF Item, Short
<1>5. /\ Item("length", n, << n >>) \in WrittenItems
      /\ Item("octets", n, Framed(OCTETSTRING, n)) \in WrittenItems
      /\ Item("block", n, Framed(0, n)) \in WrittenItems
  BY <1>3, <1>4, ShortWritten
<1>. QED  BY <1>1, <1>2, <1>5

\* ... and long.
LEMMA LongForReader ==
  ASSUME NEW n \in ItemSizes, n > 127
  PROVE  /\ Item("length", n, csm_ber_write_len(n)) \in WrittenItems
         /\ Item("octets", n, csm_axdr_wr_octetstring(n)) \in WrittenItems
         /\ Item("block", n, <<0>> \o csm_ber_write_len(n) \o Payload(n)) \in WrittenItems
<1>1. n \in Nat /\ Payload(n) \in Octets /\ csm_ber_write_len(n) \in Octets
  <2>1. n \in Nat
    BY LengthWritten
  <2>. QED  BY <2>1, PayloadType, LongWritten
<1>2. \A byte \in {0, 9} : byte \in Nat
  OBVIOUS
<1>3. ASSUME NEW byte \in {0, 9}
      PROVE  << byte >> \o csm_ber_write_len(n) \o Payload(n) \in Octets
  <2>. DEFINE w == csm_ber_write_len(n)
              p == Payload(n)
  <2>1. w \in Octets /\ p \in Octets /\ byte \in Nat
    BY <1>1
  <2>. HIDE DEF w, p
  <2>2. << byte >> \o w \in Octets
    BY <2>1, Front
  <2>3. << byte >> \o w \o p \in Octets
    BY <2>1, <2>2 DEF Octets
  <2>. QED  BY <2>3 DEF w, p
<1>4. ASSUME NEW tag \in {"length", "octets", "block"}, NEW bytes \in Octets,
             IsLong(Item(tag, n, bytes))
      PROVE  Item(tag, n, bytes) \in WrittenItems
  <2>1. Item(tag, n, bytes) \in Items
    BY <1>1, ItemType DEF Tags, ItemValues
  <2>2. ~Short(Item(tag, n, bytes))
    BY <1>1 DEF Short, Item
  <2>. QED  BY <1>4, <2>1, <2>2 DEF WrittenItems
<1>5. IsLong(Item("length", n, csm_ber_write_len(n)))
  BY DEF IsLong, Item
<1>6. ASSUME NEW tag, NEW byte \in {0, 9},
             \/ tag = "octets" /\ byte = OCTETSTRING
             \/ tag = "block" /\ byte = 0
      PROVE  IsLong(Item(tag, n, << byte >> \o csm_ber_write_len(n) \o Payload(n)))
  <2>. DEFINE z == << byte >> \o csm_ber_write_len(n) \o Payload(n)
              it == Item(tag, n, z)
  <2>1. PICK h, l : h >= 128 /\ LongSized(z, byte, h, l, Payload(n))
    BY <1>1, <1>2, LongWritten
  <2>. HIDE DEF z
  <2>2. it.tag = tag /\ it.bytes = z
    BY DEF Item
  <2>. HIDE DEF it
  <2>3. /\ h >= 128 /\ LongSized(it.bytes, byte, h, l, Payload(n))
        /\ \/ it.tag = "octets" /\ byte = OCTETSTRING
           \/ it.tag = "block" /\ byte = 0
    BY <1>6, <2>1, <2>2
  <2>4. IsLong(it)
    BY <2>3, Zenon DEF IsLong
  <2>. QED  BY <2>4 DEF it, z
<1>7. /\ Item("octets", n, << 9 >> \o csm_ber_write_len(n) \o Payload(n)) \in WrittenItems
      /\ Item("block", n, << 0 >> \o csm_ber_write_len(n) \o Payload(n)) \in WrittenItems
  <2>1. 9 = OCTETSTRING /\ 9 \in {0, 9} /\ 0 \in {0, 9} /\ 0 = 0
    BY DEF OCTETSTRING
  <2>2. /\ IsLong(Item("octets", n, << 9 >> \o csm_ber_write_len(n) \o Payload(n)))
        /\ IsLong(Item("block", n, << 0 >> \o csm_ber_write_len(n) \o Payload(n)))
    BY <1>6, <2>1, Zenon
  <2>. QED  BY <1>3, <1>4, <2>2
<1>8. csm_axdr_wr_octetstring(n) = << 9 >> \o csm_ber_write_len(n) \o Payload(n)
  BY DEF csm_axdr_wr_octetstring, OCTETSTRING
<1>. QED  BY <1>1, <1>4, <1>5, <1>7, <1>8

LEMMA WrittenForReader ==
  /\ \A n \in ItemSizes :
        /\ Item("length", n, csm_ber_write_len(n)) \in WrittenItems
        /\ Item("octets", n, csm_axdr_wr_octetstring(n)) \in WrittenItems
        /\ Item("block", n, <<0>> \o csm_ber_write_len(n) \o Payload(n)) \in WrittenItems
  /\ \A v \in {0, 255} : Item("u8", v, csm_ber_write_u8(v)) \in WrittenItems
  /\ Item("oid", << 1, 2 >>, OidHeader \o << 1, 2 >>) \in WrittenItems
  /\ Item("null", NULL, << NULL >>) \in WrittenItems
<1>2. ASSUME NEW n \in ItemSizes
      PROVE  /\ Item("length", n, csm_ber_write_len(n)) \in WrittenItems
             /\ Item("octets", n, csm_axdr_wr_octetstring(n)) \in WrittenItems
             /\ Item("block", n, <<0>> \o csm_ber_write_len(n) \o Payload(n)) \in WrittenItems
  <2>1. CASE n <= 127
    BY <2>1, ShortForReader
  <2>2. CASE n > 127
    BY <2>2, LongForReader
  <2>. QED  BY <2>1, <2>2, LengthWritten
<1>3. ASSUME NEW v \in {0, 255}
      PROVE  Item("u8", v, csm_ber_write_u8(v)) \in WrittenItems
  <2>. DEFINE it == Item("u8", v, csm_ber_write_u8(v))
  <2>1. Readable(it)
    BY DEF Readable, csm_ber_write_u8, INTEGER
  <2>2. it.tag = "u8" /\ it = Item(it.tag, it.size, it.bytes)
    BY DEF Item
  <2>. HIDE DEF it
  <2>3. Short(it)
    BY <2>2 DEF Short
  <2>4. it \in WrittenItems
    BY <2>1, <2>2, <2>3, ShortWritten
  <2>. QED  BY <2>4 DEF it
<1>4. Item("oid", << 1, 2 >>, OidHeader \o << 1, 2 >>) \in WrittenItems
  <2>. DEFINE it == Item("oid", << 1, 2 >>, << 96, 133, 116, 5, 8, 1, 2 >>)
  <2>1. OidHeader \o << 1, 2 >> = << 96, 133, 116, 5, 8, 1, 2 >>
    <3>1. OidHeader \in Octets /\ << 1, 2 >> \in Octets /\ << 96, 133, 116, 5, 8, 1, 2 >> \in Octets
      BY DEF OidHeader, Octets
    <3>2. AreJoined(<< 96, 133, 116, 5, 8, 1, 2 >>, OidHeader, << 1, 2 >>)
      BY <3>1 DEF AreJoined, OidHeader
    <3>. QED  BY <3>1, <3>2, JoinedOnly
  <2>2. Readable(it)
    BY DEF Readable
  <2>3. it.tag = "oid" /\ it = Item(it.tag, it.size, it.bytes)
    BY DEF Item
  <2>. HIDE DEF it
  <2>4. Short(it)
    BY <2>3 DEF Short
  <2>5. it \in WrittenItems
    BY <2>2, <2>3, <2>4, ShortWritten
  <2>. QED  BY <2>1, <2>5 DEF it
<1>5. Item("null", NULL, << NULL >>) \in WrittenItems
  <2>. DEFINE it == Item("null", NULL, << NULL >>)
  <2>1. Readable(it)
    BY DEF Readable, NULL
  <2>2. it.tag = "null" /\ it = Item(it.tag, it.size, it.bytes)
    BY DEF Item
  <2>. HIDE DEF it
  <2>3. Short(it)
    BY <2>2 DEF Short
  <2>4. it \in WrittenItems
    BY <2>1, <2>2, <2>3, ShortWritten
  <2>. QED  BY <2>4 DEF it
<1>. QED  BY <1>2, <1>3, <1>4, <1>5

LEMMA CodedItem ==
  ASSUME NEW tag \in Coded, NEW n \in 0..127, NEW p \in Octets, Len(p) = BytesOf(tag, n)
  PROVE  Item(tag, n, << tag >> \o (<< n >> \o p)) \in AnyItems
<1>. DEFINE it == Item(tag, n, << tag >> \o (<< n >> \o p))
<1>1. Walkable(it)
  BY DEF Walkable
<1>2. it.tag \in Nat /\ it.size \in Nat /\ it.bytes \in Octets
  BY <1>1, WalkableType
<1>3. it = Item(it.tag, it.size, it.bytes)
  BY DEF Item
<1>. HIDE DEF it
<1>4. Item(it.tag, it.size, it.bytes) \in Items
  BY <1>2, ItemType DEF Tags, ItemValues
<1>5. it \in AnyItems
  BY <1>1, <1>2, <1>3, <1>4 DEF AnyItems
<1>. QED  BY <1>5 DEF it

LEMMA FixedItem ==
  ASSUME NEW f \in Fixed, NEW p \in Octets, Len(p) = f[2]
  PROVE  Item(f[1], f[2], << f[1] >> \o p) \in AnyItems
<1>. DEFINE it == Item(f[1], f[2], << f[1] >> \o p)
<1>1. Walkable(it)
  BY DEF Walkable
<1>2. it.tag \in Nat /\ it.size \in Nat /\ it.bytes \in Octets
  BY <1>1, WalkableType
<1>3. it = Item(it.tag, it.size, it.bytes)
  BY DEF Item
<1>. HIDE DEF it
<1>4. Item(it.tag, it.size, it.bytes) \in Items
  BY <1>2, ItemType DEF Tags, ItemValues
<1>5. it \in AnyItems
  BY <1>1, <1>2, <1>3, <1>4 DEF AnyItems
<1>. QED  BY <1>5 DEF it

LEMMA WrittenForWalk ==
  /\ \A tag \in Coded, n \in ItemSizes : Item(tag, n, AnyValue(tag, n)) \in AnyItems
  /\ \A f \in Fixed : Item(f[1], f[2], AnyValue(f[1], f[2])) \in AnyItems
  /\ \A v \in {0, 1} : Item(BOOL, 1, csm_axdr_wr_boolean(v)) \in AnyItems
<1>1. ASSUME NEW tag \in Coded, NEW n \in ItemSizes
      PROVE  Item(tag, n, AnyValue(tag, n)) \in AnyItems
  <2>. DEFINE p == Payload(BytesOf(tag, n))
              s == csm_ber_write_len(n)
  <2>1. n \in Nat /\ tag \in Nat
    BY LengthWritten, CodedTags
  <2>2. p \in Octets /\ Len(p) = BytesOf(tag, n)
    BY <2>1, BytesOfBounds, PayloadType
  <2>3. AnyValue(tag, n) = << tag >> \o s \o p
    BY DEF AnyValue
  <2>. HIDE DEF p
  <2>4. s \in Octets
    <3>1. n <= 127 => s = << n >> /\ << n >> \in Octets
      BY <2>1, LengthWritten DEF Octets
    <3>2. n > 127 => s \in Octets
      BY <2>2, LongWritten
    <3>. QED  BY <2>1, <3>1, <3>2
  <2>5. AnyValue(tag, n) = << tag >> \o (s \o p)
    <3>. HIDE DEF s
    <3>. QED  BY <2>1, <2>2, <2>3, <2>4, FramedWritten
  <2>6. CASE n <= 127
    <3>1. n \in 0..127 /\ s = << n >>
      BY <2>6, LengthWritten
    <3>. QED  BY <2>2, <2>5, <3>1, CodedItem
  <2>7. CASE n > 127
    <3>. DEFINE it == Item(tag, n, AnyValue(tag, n))
    <3>1. AnyValue(tag, n) \in Octets
      <4>1. s \o p \in Octets
        <5>. HIDE DEF s
        <5>. QED  BY <2>2, <2>4 DEF Octets
      <4>. QED  BY <2>1, <2>5, <4>1, Front
    <3>2. it \in Items
      BY <2>1, <3>1, ItemType DEF Tags, ItemValues
    <3>3. it.tag = tag /\ it.size = n
      BY DEF Item
    <3>. HIDE DEF it
    <3>4. ~Tagged(it)
      BY <2>1, <2>7, <3>3 DEF Tagged
    <3>5. it \in AnyItems
      BY <2>1, <3>2, <3>3, <3>4 DEF AnyItems
    <3>. QED  BY <3>5 DEF it
  <2>. QED  BY <2>1, <2>6, <2>7
<1>2. ASSUME NEW f \in Fixed
      PROVE  Item(f[1], f[2], AnyValue(f[1], f[2])) \in AnyItems
  <2>1. f[1] \notin Coded /\ f[1] \in Nat /\ f[2] \in Nat
    BY FixedOnce
  <2>2. BytesOf(f[1], f[2]) = f[2]
    BY <2>1, BytesOfBounds DEF Coded, IsStruct
  <2>. DEFINE p == Payload(f[2])
  <2>3. p \in Octets /\ Len(p) = f[2]
    BY <2>1, PayloadType
  <2>4. AnyValue(f[1], f[2]) = << f[1] >> \o <<>> \o p
    BY <2>1, <2>2 DEF AnyValue
  <2>. HIDE DEF p
  <2>5. << f[1] >> \o <<>> = << f[1] >>
    OBVIOUS
  <2>. QED  BY <2>3, <2>4, <2>5, FixedItem
<1>3. ASSUME NEW v \in {0, 1}
      PROVE  Item(BOOL, 1, csm_axdr_wr_boolean(v)) \in AnyItems
  <2>1. << 9, v >> \in Octets /\ << 9, v >> \in {<<9, 0>>, <<9, 1>>} /\ BOOL \in Nat
    BY DEF Octets, BOOL
  <2>2. csm_axdr_wr_boolean(v) = << 9, v >>
    BY DEF csm_axdr_wr_boolean, OCTETSTRING
  <2>3. Item(BOOL, 1, << 9, v >>) \in Items
    BY <2>1, ItemType DEF Tags, ItemValues
  <2>4. ~Tagged(Item(BOOL, 1, << 9, v >>))
    BY DEF Tagged, Item, BOOL
  <2>5. Item(BOOL, 1, << 9, v >>).tag = BOOL /\ Item(BOOL, 1, << 9, v >>).size = 1
    BY DEF Item
  <2>. QED  BY <2>1, <2>2, <2>3, <2>4, <2>5 DEF AnyItems
<1>. QED  BY <1>1, <1>2, <1>3

LEMMA WrittenCaptureObject == csm_axdr_wr_capture_object(7, 2, 258) \in Seq(AnyItems)
<1>1. Item(STRUCTURE, 4, << STRUCTURE, 4 >>) \in AnyItems
  <2>1. STRUCTURE \in Coded /\ BytesOf(STRUCTURE, 4) = 0 /\ STRUCTURE \in Nat
    BY DEF Coded, STRUCTURE, BytesOf, IsStruct
  <2>2. <<>> \in Octets /\ Len(<<>>) = 0 /\ << STRUCTURE >> \in Octets /\ << 4 >> \in Octets
        /\ << STRUCTURE, 4 >> \in Octets
    BY <2>1 DEF Octets
  <2>3. << STRUCTURE, 4 >> = << STRUCTURE >> \o (<< 4 >> \o <<>>)
    <3>1. AreJoined(<< STRUCTURE, 4 >>, << STRUCTURE >>, << 4 >>)
      BY <2>2 DEF AreJoined
    <3>2. << 4 >> \o <<>> = << 4 >>
      OBVIOUS
    <3>. QED  BY <2>2, <3>1, <3>2, JoinedOnly
  <2>4. 4 \in 0..127
    OBVIOUS
  <2>5. Item(STRUCTURE, 4, << STRUCTURE >> \o (<< 4 >> \o <<>>)) \in AnyItems
    BY <2>1, <2>2, <2>4, CodedItem
  <2>. QED  BY <2>3, <2>5
<1>2. ASSUME NEW n \in Nat
      PROVE  Item(UNSIGNED16, 2, csm_axdr_wr_u16(n)) \in AnyItems
  <2>. DEFINE p == << n \div 256, n % 256 >>
              f == << UNSIGNED16, 2 >>
  <2>1. n \div 256 \in Nat /\ n % 256 \in Nat
    OBVIOUS
  <2>2. f \in Fixed /\ f[1] = UNSIGNED16 /\ f[2] = 2 /\ UNSIGNED16 \in Nat
    BY DEF Fixed, UNSIGNED16
  <2>3. p \in Octets /\ Len(p) = 2 /\ << UNSIGNED16 >> \in Octets
        /\ << UNSIGNED16, n \div 256, n % 256 >> \in Octets
    BY <2>1, <2>2 DEF Octets
  <2>4. AreJoined(<< UNSIGNED16, n \div 256, n % 256 >>, << UNSIGNED16 >>, p)
    BY <2>3 DEF AreJoined
  <2>. HIDE DEF p
  <2>5. csm_axdr_wr_u16(n) = << UNSIGNED16 >> \o p
    BY <2>3, <2>4, JoinedOnly DEF csm_axdr_wr_u16
  <2>. HIDE DEF f
  <2>6. Item(f[1], f[2], << f[1] >> \o p) \in AnyItems
    BY <2>2, <2>3, FixedItem
  <2>. QED  BY <2>2, <2>5, <2>6
<1>3. Item(OCTETSTRING, 6, csm_axdr_wr_octetstring(6)) \in AnyItems
  <2>1. OCTETSTRING \in Coded /\ OCTETSTRING \in Nat /\ BytesOf(OCTETSTRING, 6) = 6
    BY DEF Coded, OCTETSTRING, BytesOf, IsStruct, ARRAY, STRUCTURE, BITSTRING
  <2>2. Payload(6) \in Octets /\ Len(Payload(6)) = 6 /\ 6 \in 0..127 /\ 6 \in Nat
    <3>1. 6 \in 0..127 /\ 6 \in Nat
      OBVIOUS
    <3>2. \A n \in Nat : Payload(n) \in Octets /\ Len(Payload(n)) = n
      BY PayloadType
    <3>. QED  BY <3>1, <3>2
  <2>3. csm_ber_write_len(6) = << 6 >>
    BY DEF csm_ber_write_len
  <2>4. csm_axdr_wr_octetstring(6) = << OCTETSTRING >> \o (<< 6 >> \o Payload(6))
    <3>1. << 6 >> \in Octets
      BY DEF Octets
    <3>2. << OCTETSTRING >> \o << 6 >> \o Payload(6) = << OCTETSTRING >> \o (<< 6 >> \o Payload(6))
      BY <2>1, <2>2, <3>1, FramedWritten, Zenon
    <3>. QED  BY <2>3, <3>2 DEF csm_axdr_wr_octetstring
  <2>. QED  BY <2>1, <2>2, <2>4, CodedItem
<1>4. Item(INTEGER8, 1, csm_axdr_wr_i8(2)) \in AnyItems
  <2>. DEFINE f == << INTEGER8, 1 >>
  <2>1. f \in Fixed /\ f[1] = INTEGER8 /\ f[2] = 1 /\ INTEGER8 \in Nat
    BY DEF Fixed, INTEGER8
  <2>2. << 2 >> \in Octets /\ Len(<< 2 >>) = 1 /\ << INTEGER8 >> \in Octets /\ << INTEGER8, 2 >> \in Octets
    BY <2>1 DEF Octets
  <2>3. AreJoined(<< INTEGER8, 2 >>, << INTEGER8 >>, << 2 >>)
    BY <2>2 DEF AreJoined
  <2>4. csm_axdr_wr_i8(2) = << INTEGER8 >> \o << 2 >>
    BY <2>2, <2>3, JoinedOnly DEF csm_axdr_wr_i8
  <2>. HIDE DEF f
  <2>5. Item(f[1], f[2], << f[1] >> \o << 2 >>) \in AnyItems
    BY <2>1, <2>2, FixedItem
  <2>. QED  BY <2>1, <2>4, <2>5
<1>. DEFINE a == Item(STRUCTURE, 4, << STRUCTURE, 4 >>)
            b == Item(UNSIGNED16, 2, csm_axdr_wr_u16(7))
            c == Item(OCTETSTRING, 6, csm_axdr_wr_octetstring(6))
            d == Item(INTEGER8, 1, csm_axdr_wr_i8(2))
            e == Item(UNSIGNED16, 2, csm_axdr_wr_u16(258))
<1>5. a \in AnyItems /\ b \in AnyItems /\ c \in AnyItems /\ d \in AnyItems /\ e \in AnyItems
  BY <1>1, <1>2, <1>3, <1>4
<1>6. csm_axdr_wr_capture_object(7, 2, 258) = << a, b, c, d, e >>
  BY DEF csm_axdr_wr_capture_object
<1>. HIDE DEF a, b, c, d, e
<1>7. << a, b, c, d, e >> \in Seq(AnyItems)
  BY <1>5
<1>. QED  BY <1>6, <1>7

LEMMA CodecInvInit ==
  ASSUME InitCodec
  PROVE  CodecInv
BY DEF InitCodec, CodecInv

LEMMA CodecInvNext ==
  ASSUME CodecInv, [WriteItem]_msg
  PROVE  CodecInv'
<1>. DEFINE Read(it) == it \in WrittenItems /\ AddItems("read", << it >>)
            Walks(it) == it \in AnyItems /\ AddItems("walk", << it >>)
<1>1. ASSUME NEW it, Read(it)
      PROVE  CodecInv'
  BY <1>1, OneItem, AddedItems
<1>2. ASSUME NEW it, Walks(it)
      PROVE  CodecInv'
  BY <1>2, OneItem, AddedItems
<1>3. CASE AddItems("walk", csm_axdr_wr_capture_object(7, 2, 258))
  BY <1>3, WrittenCaptureObject, AddedItems
<1>4. CASE UNCHANGED msg
  BY <1>4 DEF CodecInv
<1>5. CASE WriteForReader
  <2>1. \E it : Read(it)
    BY <1>5, WrittenForReader DEF WriteForReader
  <2>. QED  BY <1>1, <2>1
<1>6. CASE WriteForWalk
  <2>1. (\E it : Walks(it)) \/ AddItems("walk", csm_axdr_wr_capture_object(7, 2, 258))
    BY <1>6, WrittenForWalk DEF WriteForWalk
  <2>. QED  BY <1>2, <1>3, <2>1
<1>. QED  BY <1>4, <1>5, <1>6 DEF WriteItem

\* Every call of an encoder adds items that one of the readers, or the walk, knows.
LEMMA CodecInvariant == CodecSpec => []CodecInv
<1>1. InitCodec => CodecInv
  BY CodecInvInit
<1>2. CodecInv /\ [WriteItem]_msg => CodecInv'
  BY CodecInvNext
<1>. QED  BY <1>1, <1>2, PTL DEF CodecSpec

\* What was encoded, in any order and number, the readers get back in order up to the first
\* length above 127, whatever follows; the octet string or block of that length is refused if
\* the message is shorter than 2^15 bytes.  Of a message that is cut at any byte they get a
\* beginning, but for an empty value of a size that was cut off (csm_ber_read_len, whose
\* outcome csm_axdr_size does not look at).
THEOREM MessagesReadBack == CodecSpec => []ReadBack
<1>1. CodecInv => ReadBack
  <2>1. CASE msg.way = "read"
    BY <2>1, ReadsBack DEF CodecInv
  <2>2. CASE msg.way # "read"
    BY <2>2 DEF ReadBack
  <2>. QED  BY <2>1, <2>2
<1>. QED  BY <1>1, CodecInvariant, PTL

\* The walk of csm_axdr_decode_tags calls back for every value, those of the elements of a
\* structure too, in order and with its tag and size, up to the first that has the tag of
\* another type (a boolean of csm_axdr_wr_boolean), a length above 127, or a number of bits or
\* elements beyond the bytes that follow.  Of a message without the former two, cut at any
\* byte or whole, it calls back for a beginning, the last call with the tag at least.
THEOREM WalksFollow == CodecSpec => []WalkedAsWritten
<1>1. CodecInv => WalkedAsWritten
  <2>1. CASE msg.way = "walk"
    BY <2>1, WalksAsWritten DEF CodecInv
  <2>2. CASE msg.way # "walk"
    BY <2>2 DEF WalkedAsWritten
  <2>. QED  BY <2>1, <2>2
<1>. QED  BY <1>1, CodecInvariant, PTL

-----------------------------------------------------------------------------
(* Unsigned arithmetic                                                      *)

LEMMA WrapType == Wrap \in Nat \ {0}
BY ArrayAssumption

USE WrapType

LEMMA AddType ==
  ASSUME NEW x \in Uint, NEW y \in Uint
  PROVE  /\ Add(x, y) \in Uint
         /\ x + y < Wrap => Add(x, y) = x + y
BY ArrayAssumption DEF Add, Uint

LEMMA SubType ==
  ASSUME NEW x \in Uint, NEW y \in Uint
  PROVE  /\ Sub(x, y) \in Uint
         /\ x >= y => Sub(x, y) = x - y
BY ArrayAssumption DEF Sub, Uint

LEMMA LengthTypes ==
  ASSUME NEW size \in Sizes
  PROVE  /\ size \in Uint
         /\ \A n \in Lengths \cup Words \cup {1} : n \in Uint /\ size + n < Wrap
BY ArrayAssumption DEF Uint, Words

-----------------------------------------------------------------------------
(* The inductive invariant: the writer never wraps, the reader may          *)

GoodArray(a) ==
    /\ a \in [rd: Uint, wr: Uint, offset: Uint, size: Uint]
    /\ a.size \in Sizes
    /\ a.offset + a.wr <= a.size
    /\ RdIndex(a) <= a.size

\* The records of acc.
Accs == [op: {"none", "typed", "get", "copy", "buff"}, ret: BOOLEAN, at: Uint, n: Nat]

IInv == GoodArray(arr) /\ TypeOK /\ AccessInBuffer

\* In a good array the macros and the free size are what they look like, and
\* what is between the indices is in the buffer.
LEMMA GoodFacts ==
  ASSUME NEW a, GoodArray(a)
  PROVE  /\ a.size \in Nat /\ a.offset \in Nat /\ a.wr \in Nat /\ a.rd \in Nat
         /\ a.size \in Uint /\ a.offset \in Uint /\ a.wr \in Uint /\ a.rd \in Uint
         /\ a.offset <= a.size
         /\ WrIndex(a) = a.offset + a.wr
         /\ FreeSize(a) = a.size - (a.offset + a.wr)
         /\ Sub(a.size, a.offset) = a.size - a.offset
         /\ RdIndex(a) \in Uint
         /\ a.rd < a.wr => RdIndex(a) = a.offset + a.rd
<1>1. a.size \in Uint /\ a.offset \in Uint /\ a.wr \in Uint /\ a.rd \in Uint
  BY DEF GoodArray
<1>2. a.offset + a.wr < Wrap /\ a.offset <= a.size
  BY <1>1 DEF GoodArray, Uint
<1>3. WrIndex(a) = a.offset + a.wr
  BY <1>1, <1>2 DEF WrIndex, Index, Add, Uint
<1>4. FreeSize(a) = a.size - (a.offset + a.wr) /\ Sub(a.size, a.offset) = a.size - a.offset
  BY <1>1, <1>2, <1>3 DEF GoodArray, FreeSize, Sub, Uint
<1>5. RdIndex(a) \in Uint /\ (a.rd < a.wr => RdIndex(a) = a.offset + a.rd)
  BY <1>1, <1>2, ArrayAssumption DEF RdIndex, Index, Add, Uint
<1>. QED  BY <1>1, <1>2, <1>3, <1>4, <1>5 DEF Uint

\* The writer advances to where it fits, or to the end.
LEMMA WriterFacts ==
  ASSUME NEW a, GoodArray(a), NEW n \in Lengths \cup Words
  PROVE  GoodArray(WriterAt(a, n))
<1>1. /\ n \in Nat /\ n \in Uint /\ a.offset + a.wr + n < Wrap
  BY GoodFacts, LengthTypes DEF GoodArray, Uint
<1>2. Add(a.wr, n) = a.wr + n /\ a.wr + n \in Uint
  BY <1>1, GoodFacts DEF Add, Uint
<1>3. Index(a, Add(a.wr, n)) = a.offset + a.wr + n
  BY <1>1, <1>2, GoodFacts DEF Index, Add, Uint
<1>4. CASE WriterFits(a, n)
  <2>1. WriterAt(a, n) = [a EXCEPT !.wr = a.wr + n]
    BY <1>2, <1>4 DEF WriterAt
  <2>2. a.offset + (a.wr + n) <= a.size
    BY <1>1, <1>3, <1>4, GoodFacts DEF WriterFits
  <2>. QED  BY <1>2, <2>1, <2>2 DEF GoodArray, RdIndex, Index
<1>5. CASE ~WriterFits(a, n)
  <2>1. WriterAt(a, n) = [a EXCEPT !.wr = a.size - a.offset]
    BY <1>5, GoodFacts DEF WriterAt
  <2>2. a.size - a.offset \in Uint /\ a.offset + (a.size - a.offset) <= a.size
    BY GoodFacts DEF Uint
  <2>. QED  BY <2>1, <2>2 DEF GoodArray, RdIndex, Index
<1>. QED  BY <1>4, <1>5

\* The reader advances, by any length, to a byte of the buffer or to the end.
LEMMA ReaderFacts ==
  ASSUME NEW a, GoodArray(a), NEW n \in Uint
  PROVE  GoodArray(ReaderAt(a, n))
<1>1. Add(a.rd, n) \in Uint
  BY GoodFacts, AddType
<1>2. CASE ReaderFits(a, n)
  <2>1. ReaderAt(a, n) = [a EXCEPT !.rd = Add(a.rd, n)]
    BY <1>2 DEF ReaderAt
  <2>2. Index(a, Add(a.rd, n)) \in Uint
    BY <1>1, GoodFacts, AddType DEF Index
  <2>3. Index(a, Add(a.rd, n)) <= a.size
    BY <1>2, <2>2, GoodFacts DEF ReaderFits, Uint
  <2>. QED  BY <1>1, <2>1, <2>3 DEF GoodArray, RdIndex, Index
<1>3. CASE ~ReaderFits(a, n)
  <2>1. ReaderAt(a, n) = [a EXCEPT !.rd = a.size - a.offset]
    BY <1>3, GoodFacts DEF ReaderAt
  <2>2. a.size - a.offset \in Uint /\ Add(a.size - a.offset, a.offset) = a.size
    BY GoodFacts DEF Add, Uint
  <2>. QED  BY <2>1, <2>2, GoodFacts DEF GoodArray, RdIndex, Index
<1>. QED  BY <1>2, <1>3

\* A copy that succeeds ends in the buffer.
LEMMA CopyFacts ==
  ASSUME NEW a, GoodArray(a), NEW n \in Lengths \cup Words, ReaderFits(a, n)
  PROVE  RdIndex(a) + n <= a.size
<1>1. n \in Nat /\ n \in Uint /\ a.size + n < Wrap
  BY LengthTypes DEF GoodArray, Uint
<1>2. RdIndex(a) + n < Wrap
  BY <1>1, GoodFacts DEF GoodArray, Uint
<1>3. Index(a, Add(a.rd, n)) = RdIndex(a) + n
  BY <1>1, <1>2, GoodFacts, ArrayAssumption DEF RdIndex, Index, Add, Uint
<1>. QED  BY <1>1, <1>3, GoodFacts DEF ReaderFits, Uint

-----------------------------------------------------------------------------
(* The invariant holds                                                      *)

LEMMA InitInv == Init => IInv
<1>. SUFFICES ASSUME Init PROVE IInv
  OBVIOUS
<1>0. PICK size \in Sizes : \E used, offset \in 0..size : arr = NewArray(size, used, offset)
  BY DEF Init, InitArray
<1>1. PICK used \in 0..size, offset \in 0..size : arr = NewArray(size, used, offset)
  BY <1>0
<1>2. size \in Uint /\ used \in Uint /\ offset \in Uint /\ 0 \in Uint
  BY LengthTypes, ArrayAssumption DEF Uint
<1>11. size \in Nat /\ used \in Nat /\ offset \in Nat /\ used <= size /\ offset <= size
  BY <1>2 DEF Uint
<1>12. size + size < Wrap
  BY ArrayAssumption
<1>3. Sub(size, offset) = size - offset
  BY <1>11 DEF Sub
<1>4. Add(used, offset) = used + offset
  BY <1>11, <1>12 DEF Add
<1>5. /\ arr = [rd |-> 0, offset |-> offset, size |-> size, wr |-> arr.wr]
      /\ \/ arr.wr = size - offset
         \/ arr.wr = used /\ used + offset < size
  <2>1. CASE used + offset >= size
    BY <1>1, <1>3, <1>4, <2>1 DEF NewArray
  <2>2. CASE used + offset < size
    BY <1>11, <1>1, <1>4, <2>2 DEF NewArray
  <2>. QED  BY <1>11, <2>1, <2>2
<1>6. arr.wr \in Uint /\ offset + arr.wr <= size
  BY <1>2, <1>3, <1>5 DEF Uint
<1>7. RdIndex(arr) <= size
  BY <1>2, <1>5 DEF RdIndex, Index, Add, Uint
<1>8. arr \in [rd: Uint, wr: Uint, offset: Uint, size: Uint] /\ arr.size = size
      /\ arr.offset = offset
  BY <1>2, <1>5, <1>6
<1>9. GoodArray(arr)
  BY <1>6, <1>7, <1>8 DEF GoodArray
<1>10. acc = Moved(TRUE)
  BY DEF Init
<1>. QED  BY <1>2, <1>8, <1>9, <1>10 DEF IInv, TypeOK, AccessInBuffer, Moved, Call

\* The calls leave records of their type.
LEMMA CallTypes ==
  ASSUME NEW ret \in BOOLEAN, NEW at \in Uint, NEW n \in Nat,
         NEW op \in {"typed", "get", "copy", "buff"}
  PROVE  Call(op, ret, at, n) \in Accs
BY DEF Accs, Call

LEMMA FailedType ==
  ASSUME NEW op \in {"typed", "get", "copy", "buff"}
  PROVE  Failed(op) \in Accs /\ Failed(op).n = 0
BY DEF Accs, Failed, Call, Uint

LEMMA MovedType ==
  ASSUME NEW ret \in BOOLEAN
  PROVE  Moved(ret) \in Accs /\ Moved(ret).n = 0
BY DEF Accs, Moved, Call, Uint

\* A step that leaves a good array, and a well-typed acc that touched nothing,
\* or bytes of the buffer, or is a copy that failed.
LEMMA StepInv ==
  ASSUME GoodArray(arr'),
         acc' \in Accs,
         \/ acc'.n = 0
         \/ acc'.op = "copy" /\ ~acc'.ret
         \/ acc'.at + acc'.n <= arr'.size
  PROVE  IInv'
BY DEF IInv, TypeOK, GoodArray, AccessInBuffer, Accs

LEMMA JumpInv ==
  IInv /\ (Rewind \/ (\E n \in Lengths : WriterJump(n)) \/ (\E n \in Jumps : ReaderJump(n)))
    => IInv'
<1>. SUFFICES ASSUME IInv,
                     Rewind \/ (\E n \in Lengths : WriterJump(n))
                            \/ (\E n \in Jumps : ReaderJump(n))
              PROVE  IInv'
  OBVIOUS
<1>0. GoodArray(arr)
  BY DEF IInv
<1>1. GoodArray(arr')
  <2>1. CASE \E n \in Lengths : WriterJump(n)
    BY <2>1, <1>0, WriterFacts DEF WriterJump
  <2>2. CASE \E n \in Jumps : ReaderJump(n)
    BY <2>2, <1>0, ReaderFacts, ArrayAssumption DEF ReaderJump, Uint
  <2>3. CASE Rewind
    <3>1. arr.offset \in Uint /\ arr.offset <= arr.size /\ 0 \in Uint
      BY <1>0, GoodFacts, ArrayAssumption DEF Uint
    <3>2. Add(0, arr.offset) = arr.offset /\ arr.offset + 0 = arr.offset
      BY <3>1 DEF Add, Uint
    <3>. QED  BY <2>3, <1>0, <3>1, <3>2 DEF Rewind, GoodArray, RdIndex, Index
  <2>. QED  BY <2>1, <2>2, <2>3
<1>2. PICK ret \in BOOLEAN : acc' = Moved(ret)
  <2>1. CASE \E n \in Lengths : WriterJump(n)
    <3>1. PICK n \in Lengths : acc' = Moved(WriterFits(arr, n))
      BY <2>1 DEF WriterJump
    <3>2. WriterFits(arr, n) \in BOOLEAN
      BY DEF WriterFits
    <3>. QED  BY <3>1, <3>2, Zenon
  <2>2. CASE \E n \in Jumps : ReaderJump(n)
    <3>1. PICK n \in Jumps : acc' = Moved(ReaderFits(arr, n))
      BY <2>2 DEF ReaderJump
    <3>2. ReaderFits(arr, n) \in BOOLEAN
      BY DEF ReaderFits
    <3>. QED  BY <3>1, <3>2, Zenon
  <2>3. CASE Rewind
    BY <2>3 DEF Rewind
  <2>. QED  BY <2>1, <2>2, <2>3
<1>3. acc' \in Accs /\ acc'.n = 0
  BY <1>2, MovedType
<1>. QED  BY <1>1, <1>3, StepInv

LEMMA WriteInv ==
  IInv /\ (WriteU8 \/ (\E n \in Words : WriteWord(n)) \/ (\E n \in Lengths : WriteBuff(n)))
    => IInv'
<1>. SUFFICES ASSUME IInv,
                     WriteU8 \/ (\E n \in Words : WriteWord(n))
                             \/ (\E n \in Lengths : WriteBuff(n))
              PROVE  IInv'
  OBVIOUS
<1>. USE DEF Refuse
<1>0. GoodArray(arr)
  BY DEF IInv
<1>1. /\ arr.offset \in Nat /\ arr.wr \in Nat /\ arr.size \in Nat
      /\ WrIndex(arr) = arr.offset + arr.wr /\ WrIndex(arr) \in Uint
      /\ FreeSize(arr) = arr.size - WrIndex(arr)
      /\ WrIndex(arr) <= arr.size
      /\ \A n \in Lengths \cup Words \cup {1} :
            n \in Nat /\ n \in Uint /\ WrIndex(arr) + n < Wrap
  BY <1>0, GoodFacts, LengthTypes DEF GoodArray, Uint
<1>2. CASE \E op \in {"typed", "buff"} : acc' = Failed(op) /\ UNCHANGED arr
  <2>1. acc' \in Accs /\ acc'.n = 0
    BY <1>2, FailedType
  <2>2. GoodArray(arr')
    BY <1>0, <1>2
  <2>. QED  BY <2>1, <2>2, StepInv
<1>3. ASSUME NEW n \in Lengths \cup {1}, WrIndex(arr) + n <= arr.size,
             arr' = [arr EXCEPT !.wr = Add(@, n)],
             \E op \in {"typed", "buff"} : acc' = Call(op, TRUE, WrIndex(arr), n)
      PROVE  IInv'
  <2>1. n \in Nat /\ n \in Uint
    BY <1>1
  <2>2. Add(arr.wr, n) = arr.wr + n /\ Add(arr.wr, n) \in Uint
    BY <1>1, <2>1 DEF Add, Uint
  <2>3. arr.offset + Add(arr.wr, n) <= arr.size
    BY <1>1, <1>3, <2>1, <2>2
  <2>4. GoodArray(arr') /\ arr'.size = arr.size
    BY <1>0, <1>3, <2>2, <2>3 DEF GoodArray, RdIndex, Index
  <2>5. PICK op \in {"typed", "buff"} : acc' = Call(op, TRUE, WrIndex(arr), n)
    BY <1>3
  <2>6. acc' \in Accs
    BY <1>1, <2>1, <2>5, CallTypes
  <2>7. acc'.at + acc'.n <= arr'.size
    BY <1>3, <2>4, <2>5 DEF Call
  <2>. QED  BY <2>4, <2>6, <2>7, StepInv
<1>4. ASSUME NEW n \in Words, WriteWord(n), FreeSize(arr) >= n
      PROVE  IInv'
  <2>1. arr' = WriterAt(arr, n) /\ acc' = Call("typed", WriterFits(arr, n), WrIndex(arr), n)
    BY <1>1, <1>4 DEF WriteWord
  <2>2. GoodArray(arr') /\ arr'.size = arr.size
    BY <1>0, <2>1, WriterFacts DEF WriterAt, GoodArray
  <2>3. WriterFits(arr, n) \in BOOLEAN
    BY DEF WriterFits
  <2>4. acc' \in Accs
    BY <1>1, <2>1, <2>3, CallTypes
  <2>5. acc'.at + acc'.n <= arr'.size
    BY <1>1, <1>4, <2>1, <2>2 DEF Call
  <2>. QED  BY <2>2, <2>4, <2>5, StepInv
<1>5. CASE WriteU8
  <2>1. CASE FreeSize(arr) >= 1
    <3>1. WrIndex(arr) \in Nat /\ WrIndex(arr) + 1 <= arr.size
      BY <1>1, <2>1
    <3>2. /\ arr' = [arr EXCEPT !.wr = Add(@, 1)]
          /\ acc' = Call("typed", TRUE, WrIndex(arr), 1)
      <4>1. ~(FreeSize(arr) < 1)
        BY <1>1, <2>1
      <4>. QED  BY <1>5, <4>1, Zenon DEF WriteU8
    <3>. QED  BY <1>3, <3>1, <3>2
  <2>2. CASE ~(FreeSize(arr) >= 1)
    BY <1>2, <1>5, <2>2 DEF WriteU8
  <2>. QED  BY <2>1, <2>2
<1>6. CASE \E n \in Lengths : WriteBuff(n)
  <2>1. PICK n \in Lengths : WriteBuff(n)
    BY <1>6
  <2>2. n \in Nat /\ Add(WrIndex(arr), n) = WrIndex(arr) + n
    BY <1>1 DEF Add
  <2>. QED  BY <1>2, <1>3, <2>1, <2>2 DEF WriteBuff
<1>7. CASE \E n \in Words : WriteWord(n)
  BY <1>2, <1>4, <1>7 DEF WriteWord
<1>. QED  BY <1>5, <1>6, <1>7

LEMMA ReadInv ==
  IInv /\ (ReadU8 \/ (\E n \in Words : ReadWord(n)) \/ (\E n \in Lengths : ReadBuff(n))
             \/ (\E n \in Jumps : GetOrSet(n)))
    => IInv'
<1>. SUFFICES ASSUME IInv,
                     ReadU8 \/ (\E n \in Words : ReadWord(n))
                            \/ (\E n \in Lengths : ReadBuff(n))
                            \/ (\E n \in Jumps : GetOrSet(n))
              PROVE  IInv'
  OBVIOUS
<1>. USE DEF Refuse
<1>0. GoodArray(arr)
  BY DEF IInv
<1>1. /\ arr.offset \in Nat /\ arr.wr \in Nat /\ arr.rd \in Nat /\ arr.size \in Nat
      /\ arr.offset + arr.wr <= arr.size
      /\ RdIndex(arr) \in Uint
      /\ arr.rd < arr.wr => RdIndex(arr) = arr.offset + arr.rd
      /\ \A n \in Lengths \cup Words \cup {1} : n \in Nat /\ n \in Uint /\ arr.size + n < Wrap
  <2>1. arr.size \in Sizes /\ arr.offset + arr.wr <= arr.size
    BY <1>0 DEF GoodArray
  <2>2. \A n \in Lengths \cup Words \cup {1} :
            n \in Nat /\ n \in Uint /\ arr.size + n < Wrap
    BY <2>1, LengthTypes DEF Uint
  <2>. QED  BY <1>0, <2>1, <2>2, GoodFacts
<1>2. \A n \in Nat : n > 0 /\ Unread(arr) >= n =>
          arr.rd < arr.wr /\ RdIndex(arr) + n <= arr.offset + arr.wr
  BY <1>1 DEF Unread
<1>3. CASE \E op \in {"typed", "get"} : acc' = Failed(op) /\ UNCHANGED arr
  <2>1. acc' \in Accs /\ acc'.n = 0
    BY <1>3, FailedType
  <2>2. GoodArray(arr')
    BY <1>0, <1>3
  <2>. QED  BY <2>1, <2>2, StepInv
<1>4. ASSUME ReadU8, Unread(arr) >= 1
      PROVE  IInv'
  <2>0. Unread(arr) \in Nat
    BY <1>1 DEF Unread
  <2>1. arr' = [arr EXCEPT !.rd = Add(@, 1)] /\ acc' = Call("typed", TRUE, RdIndex(arr), 1)
    <3>1. ~(Unread(arr) < 1)
      BY <1>4, <2>0
    <3>. QED  BY <1>4, <3>1, Zenon DEF ReadU8
  <2>2. arr.rd < arr.wr /\ RdIndex(arr) + 1 <= arr.size /\ RdIndex(arr) = arr.offset + arr.rd
    BY <1>1, <1>2, <1>4
  <2>3. Add(arr.rd, 1) = arr.rd + 1 /\ Add(arr.rd, 1) \in Uint
        /\ Index(arr, Add(arr.rd, 1)) = RdIndex(arr) + 1
    BY <1>1, <2>2 DEF Add, Index, Uint
  <2>4. GoodArray(arr') /\ arr'.size = arr.size
    BY <1>0, <2>1, <2>2, <2>3 DEF GoodArray, RdIndex, Index
  <2>5. acc' \in Accs
    BY <1>1, <2>1, CallTypes
  <2>6. acc'.at + acc'.n <= arr'.size
    BY <2>1, <2>2, <2>4 DEF Call
  <2>. QED  BY <2>4, <2>5, <2>6, StepInv
<1>5. ASSUME NEW n \in Lengths \cup Words, NEW op \in {"typed", "copy"},
             arr' = ReaderAt(arr, n),
             acc' = Call(op, ReaderFits(arr, n), RdIndex(arr), n),
             op = "copy" \/ RdIndex(arr) + n <= arr.size
      PROVE  IInv'
  <2>1. GoodArray(arr') /\ arr'.size = arr.size
    BY <1>0, <1>1, <1>5, ReaderFacts DEF ReaderAt, GoodArray
  <2>2. ReaderFits(arr, n) \in BOOLEAN
    BY DEF ReaderFits
  <2>3. acc' \in Accs
    BY <1>1, <1>5, <2>2, CallTypes
  <2>4. (acc'.op = "copy" /\ ~acc'.ret) \/ acc'.at + acc'.n <= arr'.size
    BY <1>0, <1>5, <2>1, CopyFacts DEF Call
  <2>. QED  BY <2>1, <2>3, <2>4, StepInv
<1>6. CASE ReadU8
  BY <1>3, <1>4, <1>6 DEF ReadU8
<1>7. CASE \E n \in Words : ReadWord(n)
  <2>1. PICK n \in Words : ReadWord(n)
    BY <1>7
  <2>2. CASE acc' = Failed("typed") /\ UNCHANGED arr
    BY <1>3, <2>2
  <2>3. CASE ~(acc' = Failed("typed") /\ UNCHANGED arr)
    <3>1. n \in Nat /\ n > 0
      BY DEF Words
    <3>2. /\ Unread(arr) >= n /\ arr' = ReaderAt(arr, n)
          /\ acc' = Call("typed", ReaderFits(arr, n), RdIndex(arr), n)
      BY <2>1, <2>3 DEF ReadWord
    <3>3. RdIndex(arr) + n <= arr.size
      BY <1>1, <1>2, <3>1, <3>2 DEF Uint
    <3>. QED  BY <1>5, <3>2, <3>3
  <2>. QED  BY <2>2, <2>3
<1>8. CASE \E n \in Lengths : ReadBuff(n)
  BY <1>5, <1>8 DEF ReadBuff
<1>9. CASE \E n \in Jumps : GetOrSet(n)
  <2>1. PICK n \in Jumps : GetOrSet(n)
    BY <1>9
  <2>2. Index(arr, n) \in Uint
    BY <1>0, GoodFacts, AddType, ArrayAssumption DEF Index, Uint
  <2>3. CASE Index(arr, n) < arr.size
    <3>1. acc' = Call("get", TRUE, Index(arr, n), 1) /\ arr' = arr
      BY <2>1, <2>3 DEF GetOrSet
    <3>2. acc' \in Accs
      BY <2>2, <3>1, CallTypes
    <3>3. acc'.at + acc'.n <= arr'.size
      BY <1>1, <2>2, <2>3, <3>1 DEF Call, Uint
    <3>. QED  BY <1>0, <3>1, <3>2, <3>3, StepInv
  <2>4. CASE ~(Index(arr, n) < arr.size)
    BY <1>3, <2>1, <2>4 DEF GetOrSet
  <2>. QED  BY <2>3, <2>4
<1>. QED  BY <1>6, <1>7, <1>8, <1>9

LEMMA NextInv == IInv /\ [Next]_vars => IInv'
<1>. SUFFICES ASSUME IInv, [Next]_vars PROVE IInv'
  OBVIOUS
<1>1. CASE UNCHANGED vars
  BY <1>1 DEF vars, IInv, TypeOK, AccessInBuffer
<1>2. CASE Next
  BY <1>2, JumpInv, WriteInv, ReadInv DEF Next
<1>. QED  BY <1>1, <1>2

LEMMA Invariance == Spec => []IInv
BY InitInv, NextInv, PTL DEF Spec

\* The indices are values of their type, and acc is well formed.
THEOREM TypeCorrect == Spec => []TypeOK
<1>1. IInv => TypeOK
  BY DEF IInv
<1>. QED  BY <1>1, Invariance, PTL

\* Both indices stay in the buffer whatever the reader jumps over, so that the
\* free size never wraps.
THEOREM CursorsStay == Spec => []CursorsInBuffer
<1>1. IInv => CursorsInBuffer
  BY GoodFacts DEF IInv, CursorsInBuffer, GoodArray
<1>. QED  BY <1>1, Invariance, PTL

\* Every call but a copy that fails touches bytes of the buffer only.
THEOREM AccessStays == Spec => []AccessInBuffer
<1>1. IInv => AccessInBuffer
  BY DEF IInv
<1>. QED  BY <1>1, Invariance, PTL

\* A word is made of bytes between the offset and the write index.
THEOREM WordsWritten == Spec => WordsWereWritten
<1>1. IInv /\ [Next]_vars =>
        [\A n \in Words : ReadWord(n) /\ acc'.n = n
           => acc'.at >= arr.offset /\ acc'.at + n <= WrIndex(arr)]_vars
  <2>. SUFFICES ASSUME IInv, NEW n \in Words, ReadWord(n), acc'.n = n
                PROVE  acc'.at >= arr.offset /\ acc'.at + n <= WrIndex(arr)
    OBVIOUS
  <2>1. n \in Nat /\ n > 0
    BY DEF Words
  <2>2. Unread(arr) >= n /\ acc'.at = RdIndex(arr)
    BY <2>1 DEF ReadWord, Refuse, Failed, Call
  <2>3. /\ arr.offset \in Nat /\ arr.wr \in Nat /\ arr.rd \in Nat
        /\ WrIndex(arr) = arr.offset + arr.wr
        /\ arr.rd < arr.wr => RdIndex(arr) = arr.offset + arr.rd
    BY GoodFacts DEF IInv
  <2>4. arr.rd < arr.wr /\ arr.wr - arr.rd >= n
    BY <2>1, <2>2, <2>3 DEF Unread
  <2>. QED  BY <2>1, <2>2, <2>3, <2>4
<1>. QED  BY <1>1, Invariance, PTL DEF Spec, WordsWereWritten
==============================================================================
