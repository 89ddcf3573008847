--------------------------- MODULE HdlcLink_proofs ---------------------------
(***************************************************************************)
(* A link without a fault, and the negotiation of any link.                *)
(***************************************************************************)
EXTENDS HdlcLink, Integers, Sequences, SequenceTheorems, FiniteSetTheorems,
        WellFoundedInduction, TLAPS

-----------------------------------------------------------------------------
(* The least element of a set of numbers                                    *)

\* Of the intervals from 0 to the elements of a set, one is least.
LEMMA Least ==
  ASSUME NEW S \in SUBSET Nat, S # {}
  PROVE  \E m \in S : \A k \in S : m <= k
<1>. DEFINE Below == {0..x : x \in S}
<1>1. Below \subseteq FiniteSubsetsOf(Nat)
  <2>1. ASSUME NEW x \in S
        PROVE  0..x \in SUBSET Nat /\ IsFiniteSet(0..x)
    <3>1. x \in Int /\ 0 \in Int
      OBVIOUS
    <3>. QED  BY <3>1, FS_Interval
  <2>. QED  BY <2>1 DEF FiniteSubsetsOf
<1>2. Below # {}
  OBVIOUS
<1>3. PICK B \in Below : \A C \in Below : << C, B >> \notin StrictSubsetOrdering(Nat)
  BY <1>1, <1>2, FS_StrictSubsetOrderingWellFounded, WFMin
<1>4. PICK m \in S : B = 0..m
  OBVIOUS
<1>5. ASSUME NEW k \in S, k < m
      PROVE  FALSE
  <2>1. 0..k \in Below /\ 0..k \subseteq 0..m /\ 0..k # 0..m
    BY <1>5
  <2>2. << 0..k, B >> \in StrictSubsetOrdering(Nat)
    BY <2>1, <1>4 DEF StrictSubsetOrdering
  <2>. QED  BY <1>3, <2>1, <2>2
<1>. QED  BY <1>5

-----------------------------------------------------------------------------
(* Check sequences                                                          *)

\* A function that is defined by the value before exists, and has its type.
Recursion(f, N, S, c, G) ==
    f \in [0..N -> S] /\ f = [n \in 0..N |-> IF n = 0 THEN c ELSE G[n][f[n - 1]]]

LEMMA RecursionExists ==
  ASSUME NEW S, NEW c \in S, NEW N \in Nat, NEW G \in [1..N -> [S -> S]]
  PROVE  \E f : Recursion(f, N, S, c, G)
<1>. DEFINE Upto(f, m) ==
              /\ f \in [0..N -> S]
              /\ \A n \in 0..m : f[n] = IF n = 0 THEN c ELSE G[n][f[n - 1]]
            Bad == {m \in 0..N : ~ \E f : Upto(f, m)}
<1>1. SUFFICES Bad = {}
  <2>1. N \in 0..N
    OBVIOUS
  <2>2. PICK f : Upto(f, N)
    BY <1>1, <2>1
  <2>3. f = [n \in 0..N |-> IF n = 0 THEN c ELSE G[n][f[n - 1]]]
    BY <2>2
  <2>. QED  BY <2>2, <2>3 DEF Recursion
<1>2. SUFFICES ASSUME Bad # {} PROVE FALSE
  OBVIOUS
<1>3. PICK m \in Bad : \A k \in Bad : m <= k
  <2>1. Bad \in SUBSET Nat
    OBVIOUS
  <2>. HIDE DEF Bad
  <2>. QED  BY <1>2, <2>1, Least
<1>4. CASE m = 0
  <2>. DEFINE f == [n \in 0..N |-> c]
  <2>1. Upto(f, 0)
    OBVIOUS
  <2>. QED  BY <1>3, <1>4, <2>1
<1>5. CASE m # 0
  <2>1. m - 1 \in 0..N /\ m \in 1..N /\ m - 1 \notin Bad
    <3>1. m \in 0..N
      BY <1>3
    <3>. HIDE DEF Bad
    <3>. QED  BY <1>3, <1>5, <3>1
  <2>2. PICK f : Upto(f, m - 1)
    BY <2>1
  <2>. DEFINE g == [n \in 0..N |-> IF n = m THEN G[m][f[m - 1]] ELSE f[n]]
  <2>3. g \in [0..N -> S]
    <3>1. f[m - 1] \in S
      BY <2>1, <2>2
    <3>2. G[m][f[m - 1]] \in S
      BY <2>1, <3>1
    <3>. QED  BY <2>2, <3>2
  <2>4. ASSUME NEW n \in 0..m
        PROVE  g[n] = IF n = 0 THEN c ELSE G[n][g[n - 1]]
    <3>1. CASE n = m
      <4>1. g[m - 1] = f[m - 1] /\ g[m] = G[m][f[m - 1]]
        BY <2>1
      <4>. HIDE DEF g
      <4>. QED  BY <2>1, <3>1, <4>1
    <3>2. CASE n # m
      BY <2>1, <2>2, <3>2
    <3>. QED  BY <3>1, <3>2
  <2>5. Upto(g, m)
    BY <2>3, <2>4
  <2>. QED  BY <1>3, <2>5
<1>. QED  BY <1>4, <1>5

LEMMA XorType ==
  ASSUME NEW x \in Byte, NEW y \in Byte
  PROVE  Xor[x][y] \in Byte
<1>. DEFINE Bit(p) == p * ((x \div p + y \div p) % 2)
<1>1. /\ Bit(1) \in {0, 1} /\ Bit(2) \in {0, 2} /\ Bit(4) \in {0, 4} /\ Bit(8) \in {0, 8}
      /\ Bit(16) \in {0, 16} /\ Bit(32) \in {0, 32} /\ Bit(64) \in {0, 64} /\ Bit(128) \in {0, 128}
  BY DEF Byte
<1>2. Xor[x][y] = Bit(1) + Bit(2) + Bit(4) + Bit(8) + Bit(16) + Bit(32) + Bit(64) + Bit(128)
  BY DEF Xor
<1>. HIDE DEF Bit
<1>. QED  BY <1>1, <1>2 DEF Byte

Word == {x \in Int : 0 <= x /\ x <= 65535}

LEMMA HalvesType ==
  ASSUME NEW x \in Word
  PROVE  x \div 256 \in Byte /\ x % 256 \in Byte
BY DEF Word, Byte

LEMMA Xor16Type ==
  ASSUME NEW x \in Word, NEW y \in Word
  PROVE  Xor16(x, y) \in Word
<1>. DEFINE h == Xor[x \div 256][y \div 256]
            l == Xor[x % 256][y % 256]
<1>1. h \in Byte /\ l \in Byte
  BY HalvesType, XorType
<1>2. Xor16(x, y) = 256 * h + l
  BY DEF Xor16
<1>. HIDE DEF h, l
<1>. QED  BY <1>1, <1>2 DEF Word, Byte

LEMMA DivideType ==
  ASSUME NEW v \in Word
  PROVE  Divide(v) \in Word
<1>1. v \div 2 \in Word /\ 33800 \in Word
  BY DEF Word
<1>2. Xor16(v \div 2, 33800) \in Word
  BY <1>1, Xor16Type
<1>. QED  BY <1>1, <1>2 DEF Divide

LEMMA FcsTabType ==
  ASSUME NEW b \in Byte
  PROVE  FcsTab[b] \in Word
<1>1. b \in Word
  BY DEF Byte, Word
<1>2. FcsTab[b] = Divide(Divide(Divide(Divide(Divide(Divide(Divide(Divide(b))))))))
  BY DEF FcsTab
<1>. QED  BY <1>1, <1>2, DivideType

LEMMA NextFcsType ==
  ASSUME NEW fcs \in Word, NEW b \in Byte
  PROVE  NextFcs(fcs, b) \in Word
<1>1. Xor[fcs % 256][b] \in Byte
  BY HalvesType, XorType
<1>2. FcsTab[Xor[fcs % 256][b]] \in Word
  BY <1>1, FcsTabType
<1>3. fcs \div 256 \in Word
  BY DEF Word
<1>. QED  BY <1>2, <1>3, Xor16Type DEF NextFcs

Bytes == Seq(Byte)

LEMMA Pppfcs16Type ==
  ASSUME NEW bytes \in Bytes
  PROVE  Pppfcs16(bytes) \in Word
<1>. DEFINE c == 65535
            N == Len(bytes)
            G == [n \in 1..N |-> [x \in Word |-> NextFcs(x, bytes[n])]]
            h == CHOOSE h : h = [i \in 0..N |-> IF i = 0 THEN c ELSE NextFcs(h[i - 1], bytes[i])]
<1>1. N \in Nat /\ \A n \in 1..N : bytes[n] \in Byte
  BY DEF Bytes
<1>2. c \in Word
  BY DEF Word
<1>. HIDE DEF N, c
<1>3. G \in [1..N -> [Word -> Word]]
  BY <1>1, NextFcsType
<1>4. PICK f : f \in [0..N -> Word] /\ f = [n \in 0..N |-> IF n = 0 THEN c ELSE G[n][f[n - 1]]]
  <2>. HIDE DEF G
  <2>1. \E f : Recursion(f, N, Word, c, G)
    BY <1>1, <1>2, <1>3, RecursionExists
  <2>. QED  BY <2>1 DEF Recursion
<1>5. f = [n \in 0..N |-> IF n = 0 THEN c ELSE NextFcs(f[n - 1], bytes[n])]
  <2>1. ASSUME NEW n \in 0..N
        PROVE  f[n] = IF n = 0 THEN c ELSE NextFcs(f[n - 1], bytes[n])
    <3>1. f[n] = IF n = 0 THEN c ELSE G[n][f[n - 1]]
      BY <1>4
    <3>2. n # 0 => n \in 1..N /\ n - 1 \in 0..N
      BY <1>1
    <3>3. n # 0 => G[n][f[n - 1]] = NextFcs(f[n - 1], bytes[n])
      BY <1>4, <3>2
    <3>. QED  BY <3>1, <3>3
  <2>. QED  BY <1>4, <2>1
<1>6. h = [i \in 0..N |-> IF i = 0 THEN c ELSE NextFcs(h[i - 1], bytes[i])]
  BY <1>5
<1>7. Pppfcs16(bytes) = h[N]
  BY DEF Pppfcs16, N, c
<1>. HIDE DEF h
<1>. DEFINE Bad == {n \in 0..N : h[n] \notin Word}
<1>8. Bad = {}
  <2>1. SUFFICES ASSUME Bad # {} PROVE FALSE
    OBVIOUS
  <2>2. PICK m \in Bad : \A k \in Bad : m <= k
    <3>1. Bad \in SUBSET Nat
      BY <1>1
    <3>. HIDE DEF Bad
    <3>. QED  BY <2>1, <3>1, Least
  <2>3. m # 0 /\ m \in 0..N /\ h[m] \notin Word
    <3>1. h[0] = c /\ c \in Word
      BY <1>1, <1>2, <1>6
    <3>. QED  BY <2>2, <3>1
  <2>4. m - 1 \in 0..N /\ m \in 1..N /\ ~(m <= m - 1)
    BY <1>1, <2>3
  <2>5. h[m - 1] \in Word
    BY <2>2, <2>4
  <2>6. h[m] = NextFcs(h[m - 1], bytes[m])
    BY <1>6, <2>3
  <2>. QED  BY <1>1, <2>3, <2>4, <2>5, <2>6, NextFcsType
<1>. QED  BY <1>1, <1>7, <1>8

\* The two bytes of a check sequence.
IsCheck(c) == c \in Bytes /\ Len(c) = 2 /\ c = << c[1], c[2] >>

LEMMA CheckSequenceType ==
  ASSUME NEW bytes \in Bytes
  PROVE  IsCheck(CheckSequence(bytes))
<1>. DEFINE p == Pppfcs16(bytes)
            fcs == 65535 - p
<1>1. p \in Word
  BY Pppfcs16Type
<1>2. CheckSequence(bytes) = << fcs % 256, fcs \div 256 >>
  BY DEF CheckSequence
<1>. HIDE DEF p
<1>3. fcs \in Word
  BY <1>1 DEF Word
<1>. HIDE DEF fcs
<1>4. fcs % 256 \in Byte /\ fcs \div 256 \in Byte
  BY <1>3, HalvesType
<1>. QED  BY <1>2, <1>4 DEF IsCheck, Bytes

-----------------------------------------------------------------------------
(* Sequences of bytes                                                       *)

LEMMA LenIs ==
  ASSUME NEW s \in Bytes
  PROVE  Len(s) \in Nat
BY DEF Bytes

\* z is x and then y.
AreJoined(z, x, y) ==
    /\ z \in Bytes /\ Len(z) = Len(x) + Len(y)
    /\ \A i \in 1..Len(x) : z[i] = x[i]
    /\ \A i \in 1..Len(y) : z[Len(x) + i] = y[i]

LEMMA JoinedAre ==
  ASSUME NEW x \in Bytes, NEW y \in Bytes
  PROVE  AreJoined(x \o y, x, y)
<1>1. /\ x \o y \in Seq(Byte) /\ Len(x \o y) = Len(x) + Len(y) /\ Len(x) \in Nat /\ Len(y) \in Nat
      /\ \A i \in 1..Len(x) + Len(y) : (x \o y)[i] = IF i <= Len(x) THEN x[i] ELSE y[i - Len(x)]
  BY ConcatProperties DEF Bytes
<1>. DEFINE z == x \o y
            p == Len(x)
            q == Len(y)
<1>2. /\ p \in Nat /\ q \in Nat /\ Len(z) = p + q
      /\ \A i \in 1..p + q : z[i] = IF i <= p THEN x[i] ELSE y[i - p]
  BY <1>1
<1>. HIDE DEF z, p, q
<1>3. ASSUME NEW i \in 1..p
      PROVE  z[i] = x[i]
  BY <1>2
<1>4. ASSUME NEW i \in 1..q
      PROVE  z[p + i] = y[i]
  <2>1. p + i \in 1..p + q /\ ~(p + i <= p) /\ (p + i) - p = i
    BY <1>2
  <2>. QED  BY <1>2, <2>1
<1>. QED  BY <1>1, <1>3, <1>4 DEF AreJoined, Bytes, z, p, q

\* J[n] is the first n of N parts, one after the other.
Upto(J, N, parts) ==
    /\ J \in [0..N -> Bytes] /\ J[0] = <<>>
    /\ \A n \in 1..N : J[n] = J[n - 1] \o parts[n]

Begins(x, y) == Len(x) <= Len(y) /\ \A i \in 1..Len(x) : y[i] = x[i]

LEMMA PartsBegin ==
  ASSUME NEW N \in Nat, NEW parts \in [1..N -> Bytes], NEW J, Upto(J, N, parts), NEW k \in 0..N
  PROVE  Begins(J[k], J[N])
<1>. DEFINE Bad == {m \in k..N : ~Begins(J[k], J[m])}
<1>1. SUFFICES ASSUME Bad # {} PROVE FALSE
  <2>1. N \in k..N
    OBVIOUS
  <2>. QED  BY <1>1, <2>1
<1>2. PICK m \in Bad : \A n \in Bad : m <= n
  <2>1. Bad \in SUBSET Nat
    OBVIOUS
  <2>. HIDE DEF Bad
  <2>. QED  BY <1>1, <2>1, Least
<1>3. m \in k..N /\ ~Begins(J[k], J[m])
  BY <1>2
<1>4. m # k
  <2>1. J[k] \in Bytes
    BY DEF Upto
  <2>2. Begins(J[k], J[k])
    BY <2>1, LenIs DEF Begins
  <2>. QED  BY <1>3, <2>2
<1>5. m - 1 \in k..N /\ m - 1 \in 0..N /\ m \in 1..N /\ ~(m <= m - 1)
  BY <1>3, <1>4
<1>6. Begins(J[k], J[m - 1])
  BY <1>2, <1>5
<1>7. AreJoined(J[m], J[m - 1], parts[m])
  <2>1. J[m - 1] \in Bytes /\ parts[m] \in Bytes /\ J[m] = J[m - 1] \o parts[m]
    BY <1>5 DEF Upto
  <2>. QED  BY <2>1, JoinedAre
<1>8. Len(J[k]) \in Nat /\ Len(J[m - 1]) \in Nat /\ Len(parts[m]) \in Nat
  <2>1. J[k] \in Bytes /\ J[m - 1] \in Bytes /\ parts[m] \in Bytes
    BY <1>5 DEF Upto
  <2>. QED  BY <2>1, LenIs
<1>9. Begins(J[k], J[m])
  <2>1. Len(J[k]) <= Len(J[m])
    <3>. DEFINE p == Len(J[k])
                q == Len(J[m - 1])
                t == Len(parts[m])
    <3>1. p <= q /\ Len(J[m]) = q + t
      BY <1>6, <1>7 DEF Begins, AreJoined
    <3>2. p \in Nat /\ q \in Nat /\ t \in Nat
      BY <1>8
    <3>. HIDE DEF p, q, t
    <3>3. p <= q + t
      BY <3>1, <3>2
    <3>. QED  BY <3>1, <3>3 DEF p
  <2>2. ASSUME NEW i \in 1..Len(J[k])
        PROVE  J[m][i] = J[k][i]
    <3>1. i \in 1..Len(J[m - 1])
      BY <1>6, <1>8 DEF Begins
    <3>. QED  BY <1>6, <1>7, <3>1 DEF Begins, AreJoined
  <2>. QED  BY <2>1, <2>2 DEF Begins
<1>. QED  BY <1>3, <1>9

\* The place of part k in z, between n and m.
IsAt(z, n, part, m) ==
    /\ n \in Nat /\ m = n + Len(part) /\ m <= Len(z)
    /\ \A i \in 1..Len(part) : z[n + i] = part[i]

LEMMA PartIsAt ==
  ASSUME NEW N \in Nat, NEW parts \in [1..N -> Bytes], NEW J, Upto(J, N, parts), NEW k \in 1..N
  PROVE  IsAt(J[N], Len(J[k - 1]), parts[k], Len(J[k]))
<1>1. /\ k - 1 \in 0..N /\ k \in 0..N
      /\ J[k - 1] \in Bytes /\ parts[k] \in Bytes /\ J[k] = J[k - 1] \o parts[k]
  BY DEF Upto
<1>2. AreJoined(J[k], J[k - 1], parts[k]) /\ Begins(J[k], J[N])
  BY <1>1, JoinedAre, PartsBegin
<1>. DEFINE p == Len(J[k - 1])
            q == Len(parts[k])
<1>3. p \in Nat /\ q \in Nat /\ Len(J[k]) = p + q /\ Len(J[k]) <= Len(J[N])
  BY <1>1, <1>2, LenIs DEF AreJoined, Begins
<1>4. /\ \A i \in 1..q : J[k][p + i] = parts[k][i]
      /\ \A i \in 1..Len(J[k]) : J[N][i] = J[k][i]
  BY <1>2 DEF AreJoined, Begins
<1>. HIDE DEF p, q
<1>5. ASSUME NEW i \in 1..q
      PROVE  J[N][p + i] = parts[k][i]
  <2>1. p + i \in 1..Len(J[k])
    BY <1>3
  <2>. QED  BY <1>4, <2>1
<1>. QED  BY <1>3, <1>5 DEF IsAt, p, q

-----------------------------------------------------------------------------
(* Options                                                                  *)

IsOption(o) ==
    /\ o.tag \in Byte /\ o.width \in {1, 2, 4} /\ o.value \in Word
    /\ OptionFits(o)

AreOptions(opts) ==
    /\ Len(opts) \in Nat /\ DOMAIN opts = 1..Len(opts)
    /\ \A i \in 1..Len(opts) : IsOption(opts[i])

\* The value of an option as the receiver reads it, at the byte after n of z.
ValueIs(z, n, o) ==
    CASE o.width = 1 -> z[n + 1] = o.value
      [] o.width = 2 -> 256 * z[n + 1] + z[n + 2] = o.value
      [] o.width = 4 -> z[n + 2] = 0 /\ 256 * z[n + 3] + z[n + 4] = o.value

LEMMA OptionIs ==
  ASSUME NEW o, IsOption(o)
  PROVE  /\ OptionBytes(o) \in Bytes /\ Len(OptionBytes(o)) = 2 + o.width
         /\ OptionBytes(o)[1] = o.tag /\ OptionBytes(o)[2] = o.width
         /\ ValueIs(OptionBytes(o), 2, o)
<1>. DEFINE h == o.value \div 256
            l == o.value % 256
<1>1. h \in Byte /\ l \in Byte /\ 256 * h + l = o.value /\ o.tag \in Byte /\ o.width \in Byte
      /\ (o.width = 1 => o.value \in Byte) /\ 0 \in Byte /\ o.width \in {1, 2, 4}
  <2>1. o.value \in Word /\ o.tag \in Byte /\ o.width \in {1, 2, 4}
        /\ (o.width = 1 => o.value <= 255)
    BY DEF IsOption, OptionFits
  <2>2. h \in Byte /\ l \in Byte
    BY <2>1, HalvesType
  <2>3. 256 * h + l = o.value
    BY <2>1 DEF Word
  <2>4. o.width = 1 => o.value \in Byte
    BY <2>1 DEF Word, Byte
  <2>5. o.width \in Byte /\ 0 \in Byte
    BY <2>1 DEF Byte
  <2>. QED  BY <2>1, <2>2, <2>3, <2>4, <2>5
<1>. HIDE DEF h, l
<1>. DEFINE head == << o.tag, o.width >>
            value == CASE o.width = 1 -> << o.value >>
                       [] o.width = 2 -> << h, l >>
                       [] o.width = 4 -> << 0, 0, h, l >>
<1>2. OptionBytes(o) = head \o value
  BY DEF OptionBytes, h, l
<1>3. head \in Bytes /\ Len(head) = 2 /\ head[1] = o.tag /\ head[2] = o.width
  BY <1>1 DEF Bytes
<1>4. /\ o.width = 1 => value = << o.value >>
      /\ o.width = 2 => value = << h, l >>
      /\ o.width = 4 => value = << 0, 0, h, l >>
  OBVIOUS
<1>. HIDE DEF head, value
<1>5. CASE o.width = 1
  <2>. DEFINE v == o.value
  <2>1. value \in Bytes /\ Len(value) = 1 /\ value[1] = v
    <3>1. value = << v >> /\ v \in Byte
      BY <1>1, <1>4, <1>5
    <3>. HIDE DEF v
    <3>. QED  BY <3>1 DEF Bytes
  <2>2. AreJoined(head \o value, head, value)
    BY <1>3, <2>1, JoinedAre
  <2>3. (head \o value)[2 + 1] = o.value
    BY <1>3, <2>1, <2>2 DEF AreJoined
  <2>. QED  BY <1>2, <1>3, <1>5, <2>1, <2>2, <2>3 DEF AreJoined, ValueIs
<1>6. CASE o.width = 2
  <2>1. value \in Bytes /\ Len(value) = 2 /\ value[1] = h /\ value[2] = l
    <3>1. value = << h, l >>
      BY <1>4, <1>6
    <3>. QED  BY <1>1, <3>1 DEF Bytes
  <2>2. AreJoined(head \o value, head, value)
    BY <1>3, <2>1, JoinedAre
  <2>3. (head \o value)[2 + 1] = h /\ (head \o value)[2 + 2] = l
    BY <1>3, <2>1, <2>2 DEF AreJoined
  <2>. QED  BY <1>1, <1>2, <1>3, <1>6, <2>1, <2>2, <2>3 DEF AreJoined, ValueIs
<1>7. CASE o.width = 4
  <2>1. /\ value \in Bytes /\ Len(value) = 4
        /\ value[1] = 0 /\ value[2] = 0 /\ value[3] = h /\ value[4] = l
    BY <1>1, <1>4, <1>7 DEF Bytes
  <2>2. AreJoined(head \o value, head, value)
    BY <1>3, <2>1, JoinedAre
  <2>3. (head \o value)[2 + 2] = 0 /\ (head \o value)[2 + 3] = h /\ (head \o value)[2 + 4] = l
    BY <1>3, <2>1, <2>2 DEF AreJoined
  <2>. QED  BY <1>1, <1>2, <1>3, <1>7, <2>1, <2>2, <2>3 DEF AreJoined, ValueIs
<1>. QED  BY <1>1, <1>5, <1>6, <1>7

Parts(opts) == [i \in 1..Len(opts) |-> OptionBytes(opts[i])]

IsParts(J, opts) ==
    /\ Upto(J, Len(opts), Parts(opts))
    /\ OptionField(opts) = << 129, 128, Len(J[Len(opts)]) >> \o J[Len(opts)]

LEMMA FieldParts ==
  ASSUME NEW opts, AreOptions(opts), opts # <<>>
  PROVE  Parts(opts) \in [1..Len(opts) -> Bytes] /\ \E J : IsParts(J, opts)
<1>. DEFINE N == Len(opts)
            parts == Parts(opts)
            G == [n \in 1..N |-> [x \in Bytes |-> x \o parts[n]]]
            h == CHOOSE h : h = [n \in 0..N |-> IF n = 0 THEN <<>> ELSE h[n - 1] \o OptionBytes(opts[n])]
<1>1. N \in Nat /\ \A n \in 1..N : parts[n] = OptionBytes(opts[n]) /\ parts[n] \in Bytes
  BY OptionIs DEF AreOptions, Parts
<1>2. parts \in [1..N -> Bytes]
  BY <1>1 DEF Parts
<1>3. OptionField(opts) = << 129, 128, Len(h[N]) >> \o h[N]
  BY DEF OptionField
<1>. HIDE DEF N, parts
<1>4. G \in [1..N -> [Bytes -> Bytes]]
  BY <1>1 DEF Bytes
<1>5. PICK f : f \in [0..N -> Bytes] /\ f = [n \in 0..N |-> IF n = 0 THEN <<>> ELSE G[n][f[n - 1]]]
  <2>. DEFINE c == <<>>
  <2>1. c \in Bytes
    BY DEF Bytes
  <2>. HIDE DEF G, c
  <2>2. \E f : Recursion(f, N, Bytes, c, G)
    BY <1>1, <1>4, <2>1, RecursionExists
  <2>. QED  BY <2>2 DEF Recursion, c
<1>6. f = [n \in 0..N |-> IF n = 0 THEN <<>> ELSE f[n - 1] \o OptionBytes(opts[n])]
  <2>1. ASSUME NEW n \in 0..N
        PROVE  f[n] = IF n = 0 THEN <<>> ELSE f[n - 1] \o OptionBytes(opts[n])
    <3>1. f[n] = IF n = 0 THEN <<>> ELSE G[n][f[n - 1]]
      BY <1>5
    <3>2. n # 0 => n \in 1..N /\ n - 1 \in 0..N
      BY <1>1
    <3>3. n # 0 => G[n][f[n - 1]] = f[n - 1] \o OptionBytes(opts[n])
      BY <1>1, <1>5, <3>2
    <3>. QED  BY <3>1, <3>3
  <2>. QED  BY <1>5, <2>1
<1>7. h = [n \in 0..N |-> IF n = 0 THEN <<>> ELSE h[n - 1] \o OptionBytes(opts[n])]
  BY <1>6
<1>. HIDE DEF h
<1>8. h[0] = <<>>
  BY <1>1, <1>7
<1>9. ASSUME NEW n \in 1..N
      PROVE  h[n] = h[n - 1] \o parts[n]
  <2>1. n \in 0..N /\ n # 0
    BY <1>1
  <2>. QED  BY <1>1, <1>7, <2>1
<1>. DEFINE Bad == {n \in 0..N : h[n] \notin Bytes}
<1>10. Bad = {}
  <2>1. SUFFICES ASSUME Bad # {} PROVE FALSE
    OBVIOUS
  <2>2. PICK m \in Bad : \A k \in Bad : m <= k
    <3>1. Bad \in SUBSET Nat
      BY <1>1
    <3>. HIDE DEF Bad
    <3>. QED  BY <2>1, <3>1, Least
  <2>3. m # 0 /\ m \in 0..N /\ h[m] \notin Bytes
    <3>1. h[0] \in Bytes
      BY <1>8 DEF Bytes
    <3>. QED  BY <2>2, <3>1
  <2>4. m - 1 \in 0..N /\ m \in 1..N /\ ~(m <= m - 1)
    BY <1>1, <2>3
  <2>5. h[m - 1] \in Bytes /\ parts[m] \in Bytes
    BY <1>1, <2>2, <2>4
  <2>6. h[m - 1] \o parts[m] \in Bytes
    BY <2>5 DEF Bytes
  <2>. QED  BY <1>9, <2>3, <2>4, <2>6
<1>11. h \in [0..N -> Bytes]
  BY <1>7, <1>10
<1>12. Upto(h, N, parts)
  BY <1>8, <1>9, <1>11 DEF Upto
<1>. QED  BY <1>2, <1>3, <1>12 DEF IsParts, N, parts

\* The options of a field z, and the place behind each.
IsField(z, opts, at) ==
    /\ z \in Bytes /\ Len(z) \in Nat
    /\ z[1] = 129 /\ z[2] = 128 /\ z[3] + 3 = Len(z)
    /\ at[0] = 3 /\ at[Len(opts)] = Len(z)
    /\ \A k \in 1..Len(opts) :
          /\ at[k - 1] \in Nat /\ at[k] = at[k - 1] + 2 + opts[k].width /\ at[k] <= Len(z)
          /\ z[at[k - 1] + 1] = opts[k].tag /\ z[at[k - 1] + 2] = opts[k].width
          /\ ValueIs(z, at[k - 1] + 2, opts[k])

LEMMA FieldIs ==
  ASSUME NEW opts, AreOptions(opts), opts # <<>>, Len(OptionField(opts)) <= MaxInfo
  PROVE  \E at : IsField(OptionField(opts), opts, at)
<1>. DEFINE N == Len(opts)
            parts == Parts(opts)
            z == OptionField(opts)
<1>1. PICK J : IsParts(J, opts)
  BY FieldParts
<1>. DEFINE all == J[N]
            n == Len(all)
            head == << 129, 128, n >>
            at == [k \in 0..N |-> 3 + Len(J[k])]
<1>2. N \in Nat /\ parts \in [1..N -> Bytes] /\ Upto(J, N, parts) /\ z = head \o all
  BY <1>1, FieldParts DEF IsParts, AreOptions
<1>3. \A k \in 0..N : J[k] \in Bytes /\ Len(J[k]) \in Nat
  BY <1>2, LenIs DEF Upto
<1>4. all \in Bytes /\ n \in Nat
  <2>1. N \in 0..N
    BY <1>2
  <2>. QED  BY <1>3, <2>1
<1>5. Len(z) = 3 + n
  <2>1. all \in Seq(Nat)
    <3>1. Byte \subseteq Nat
      BY DEF Byte
    <3>. HIDE DEF all
    <3>. QED  BY <1>4, <3>1, SeqMonotonic DEF Bytes
  <2>. HIDE DEF all, n
  <2>2. head \in Seq(Nat) /\ Len(head) = 3
    BY <1>4
  <2>. HIDE DEF head, z
  <2>3. Len(head \o all) = Len(head) + Len(all)
    BY <2>1, <2>2, ConcatProperties
  <2>. QED  BY <1>2, <2>2, <2>3 DEF n
<1>6. n \in Byte
  <2>. HIDE DEF n, z
  <2>1. Len(z) <= 128
    BY DEF MaxInfo, z
  <2>. QED  BY <1>4, <1>5, <2>1 DEF Byte
<1>7. head \in Bytes /\ Len(head) = 3 /\ head[1] = 129 /\ head[2] = 128 /\ head[3] = n
  <2>. HIDE DEF n
  <2>. QED  BY <1>6 DEF Bytes, Byte
<1>8. AreJoined(z, head, all)
  <2>. HIDE DEF head, all, z
  <2>. QED  BY <1>2, <1>4, <1>7, JoinedAre
<1>. HIDE DEF head
<1>9. z \in Bytes /\ Len(z) = 3 + n /\ z[1] = 129 /\ z[2] = 128 /\ z[3] = n
      /\ \A i \in 1..n : z[3 + i] = all[i]
  BY <1>5, <1>7, <1>8 DEF AreJoined
<1>10. at[0] = 3 /\ at[N] = Len(z)
  <2>1. at[0] = 3 + Len(J[0]) /\ at[N] = 3 + Len(J[N]) /\ J[0] = <<>> /\ Len(<<>>) = 0
    BY <1>2 DEF Upto
  <2>. QED  BY <1>5, <2>1
<1>11. ASSUME NEW k \in 1..N
       PROVE  /\ at[k - 1] \in Nat /\ at[k] = at[k - 1] + 2 + opts[k].width /\ at[k] <= Len(z)
              /\ z[at[k - 1] + 1] = opts[k].tag /\ z[at[k - 1] + 2] = opts[k].width
              /\ ValueIs(z, at[k - 1] + 2, opts[k])
  <2>. DEFINE part == OptionBytes(opts[k])
              p == Len(J[k - 1])
              w == opts[k].width
  <2>1. k - 1 \in 0..N /\ k \in 0..N /\ parts[k] = part
    BY <1>2 DEF Parts
  <2>2. IsAt(all, p, part, Len(J[k]))
    BY <1>2, <2>1, PartIsAt
  <2>3. /\ Len(part) = 2 + w /\ part[1] = opts[k].tag /\ part[2] = w
        /\ ValueIs(part, 2, opts[k]) /\ w \in {1, 2, 4}
    BY OptionIs DEF AreOptions, IsOption
  <2>4. p \in Nat /\ at[k - 1] = 3 + p /\ at[k] = 3 + Len(J[k])
    BY <1>3, <2>1
  <2>. HIDE DEF part, p, w, at, all, n, z
  <2>5. /\ Len(J[k]) = p + (2 + w) /\ p + (2 + w) <= n
        /\ \A i \in 1..2 + w : all[p + i] = part[i]
    BY <2>2, <2>3 DEF IsAt, n
  <2>6. ASSUME NEW i \in 1..2 + w
        PROVE  z[(3 + p) + i] = part[i]
    <3>1. w \in Nat /\ n \in Nat /\ p \in Nat /\ p + (2 + w) <= n
      BY <1>4, <2>3, <2>4, <2>5
    <3>2. p + i \in 1..n /\ 3 + (p + i) = (3 + p) + i
      BY <3>1
    <3>. QED  BY <1>9, <2>5, <3>2
  <2>7. z[(3 + p) + 1] = part[1] /\ z[(3 + p) + 2] = part[2]
    BY <2>3, <2>6
  <2>8. ValueIs(z, (3 + p) + 2, opts[k])
    <3>1. ((3 + p) + 2) + 1 = (3 + p) + 3 /\ ((3 + p) + 2) + 2 = (3 + p) + 4
          /\ ((3 + p) + 2) + 3 = (3 + p) + 5 /\ ((3 + p) + 2) + 4 = (3 + p) + 6
      BY <2>4
    <3>2. CASE w = 1
      <4>1. z[(3 + p) + 3] = part[3]
        <5>1. 3 \in 1..2 + w
          BY <3>2
        <5>. QED  BY <2>6, <5>1
      <4>. QED  BY <2>3, <3>1, <3>2, <4>1 DEF ValueIs, w
    <3>3. CASE w = 2
      <4>1. z[(3 + p) + 3] = part[3] /\ z[(3 + p) + 4] = part[4]
        <5>1. 3 \in 1..2 + w /\ 4 \in 1..2 + w
          BY <3>3
        <5>. QED  BY <2>6, <5>1
      <4>. QED  BY <2>3, <3>1, <3>3, <4>1 DEF ValueIs, w
    <3>4. CASE w = 4
      <4>1. z[(3 + p) + 4] = part[4] /\ z[(3 + p) + 5] = part[5] /\ z[(3 + p) + 6] = part[6]
        <5>1. 4 \in 1..2 + w /\ 5 \in 1..2 + w /\ 6 \in 1..2 + w
          BY <3>4
        <5>. QED  BY <2>6, <5>1
      <4>. QED  BY <2>3, <3>1, <3>4, <4>1 DEF ValueIs, w
    <3>. QED  BY <2>3, <3>2, <3>3, <3>4
  <2>9. at[k - 1] \in Nat /\ at[k] = at[k - 1] + 2 + w /\ at[k] <= Len(z)
    BY <1>4, <1>9, <2>3, <2>4, <2>5
  <2>. QED  BY <2>3, <2>4, <2>7, <2>8, <2>9 DEF w
<1>12. z[3] + 3 = Len(z) /\ Len(z) \in Nat
  <2>. HIDE DEF n, z
  <2>. QED  BY <1>4, <1>9
<1>. HIDE DEF at, z
<1>13. IsField(z, opts, at)
  BY <1>9, <1>10, <1>11, <1>12 DEF IsField
<1>. QED  BY <1>13 DEF z

-----------------------------------------------------------------------------
(* The bytes of a frame                                                     *)

\* The bytes after the first of a beginning x of z are those of z.
LEMMA TailOf ==
  ASSUME NEW x \in Bytes, NEW z \in Bytes, Begins(x, z), Len(x) > 0
  PROVE  Tail(x) \in Bytes /\ Tail(x) = SubSeq(z, 2, Len(x))
<1>. DEFINE t == Tail(x)
            u == SubSeq(z, 2, Len(x))
            n == Len(x)
            m == Len(z)
<1>1. n \in Nat /\ n > 0 /\ m \in Nat /\ n <= m
  BY LenIs DEF Begins
<1>2. t \in Bytes /\ Len(t) = n - 1 /\ \A i \in 1..n - 1 : t[i] = x[i + 1]
  <2>1. x # <<>>
    <3>1. Len(<<>>) = 0
      OBVIOUS
    <3>. QED  BY <1>1, <3>1
  <2>2. t \in Seq(Byte) /\ Len(t) = n - 1 /\ \A i \in 1..Len(t) : t[i] = x[i + 1]
    BY <2>1, HeadTailProperties DEF Bytes
  <2>. HIDE DEF t, n
  <2>. QED  BY <2>2 DEF Bytes
<1>3. u \in Bytes /\ Len(u) = n - 1 /\ \A i \in 1..n - 1 : u[i] = z[i + 1]
  <2>1. z \in Seq(Byte) /\ n <= Len(z)
    BY <1>1 DEF Bytes
  <2>2. n \in 2 - 1..Len(z) /\ 2 \in 1..Len(z) + 1
    BY <1>1
  <2>. HIDE DEF n
  <2>3. SubSeq(z, 2, n) \in Seq(Byte) /\ Len(SubSeq(z, 2, n)) = n - 1
        /\ \A i \in 1..n - 1 : SubSeq(z, 2, n)[i] = z[i + 1]
    BY <1>1, <2>1
  <2>. QED  BY <2>3 DEF Bytes, n
<1>4. ASSUME NEW i \in 1..n - 1
      PROVE  t[i] = u[i]
  <2>1. i + 1 \in 1..n
    BY <1>1
  <2>2. z[i + 1] = x[i + 1]
    BY <2>1 DEF Begins
  <2>. QED  BY <1>2, <1>3, <2>2
<1>5. t = u
  <2>. HIDE DEF t, u, n
  <2>. QED  BY <1>2, <1>3, <1>4, SeqEqual DEF Bytes
<1>. QED  BY <1>2, <1>5

LEMMA BeginsOn ==
  ASSUME NEW x \in Bytes, NEW y \in Bytes, NEW z, NEW v, AreJoined(y, x, v), Begins(y, z), v \in Bytes
  PROVE  Begins(x, z)
<1>. DEFINE n == Len(x)
            m == Len(y)
            k == Len(v)
<1>1. n \in Nat /\ k \in Nat /\ m = n + k /\ m <= Len(z)
  BY LenIs DEF AreJoined, Begins
<1>2. /\ \A i \in 1..n : y[i] = x[i]
      /\ \A i \in 1..m : z[i] = y[i]
  BY DEF AreJoined, Begins
<1>3. m \in Nat /\ Len(z) >= m /\ n <= m
  BY <1>1
<1>. HIDE DEF m, k
<1>4. ASSUME NEW i \in 1..n
      PROVE  z[i] = x[i]
  BY <1>1, <1>2, <1>3
<1>5. n <= Len(z)
  BY <1>1, <1>3
<1>. QED  BY <1>4, <1>5 DEF Begins

\* What hdlc_encode writes, with the bytes a of the addresses: the length counts what is between
\* the flags, and both check sequences are those of the bytes before them.
Overhead(d) == IF d = <<>> THEN 0 ELSE 2 + Len(d)

IsWire(z, a, cf, d) ==
    /\ z \in Bytes /\ Len(z) = Len(a) + 7 + Overhead(d)
    /\ z[1] = FLAG /\ z[2] = FORMAT /\ z[3] = Len(z) - 2 /\ z[Len(z)] = FLAG
    /\ \A i \in 1..Len(a) : z[3 + i] = a[i]
    /\ z[4 + Len(a)] = cf
    /\ d # <<>> =>
          /\ CheckSequence(SubSeq(z, 2, 4 + Len(a))) = << z[5 + Len(a)], z[6 + Len(a)] >>
          /\ \A i \in 1..Len(d) : z[6 + Len(a) + i] = d[i]
    /\ CheckSequence(SubSeq(z, 2, Len(z) - 3)) = << z[Len(z) - 2], z[Len(z) - 1] >>

\* The head of a frame, its body and its end, joined one after the other.
IsHead(head, a, cf, n) ==
    /\ head \in Bytes /\ Len(head) = Len(a) + 4
    /\ head[1] = FLAG /\ head[2] = FORMAT /\ head[3] = n /\ head[4 + Len(a)] = cf
    /\ \A i \in 1..Len(a) : head[3 + i] = a[i]

IsBody(body, head, d) ==
    /\ body \in Bytes /\ Len(body) = Len(head) + (2 + Len(d)) /\ Begins(head, body)
    /\ CheckSequence(SubSeq(body, 2, Len(head))) = << body[Len(head) + 1], body[Len(head) + 2] >>
    /\ \A i \in 1..Len(d) : body[Len(head) + 2 + i] = d[i]

LEMMA HeadIs ==
  ASSUME NEW a \in Bytes, Len(a) \in 2..5, NEW cf \in Byte, NEW n \in 0..255,
         NEW f, f = << FLAG, FORMAT, n >>, NEW head, head = f \o a \o << cf >>
  PROVE  IsHead(head, a, cf, n)
<1>. DEFINE x == f \o a
            c == << cf >>
            p == Len(a)
<1>1. f \in Bytes /\ Len(f) = 3 /\ f[1] = FLAG /\ f[2] = FORMAT /\ f[3] = n
  BY DEF Bytes, Byte, FLAG, FORMAT
<1>2. c \in Bytes /\ Len(c) = 1 /\ c[1] = cf
  BY DEF Bytes
<1>3. AreJoined(x, f, a)
  BY <1>1, JoinedAre
<1>4. x \in Bytes /\ Len(x) = 3 + p /\ p \in 2..5
  BY <1>1, <1>3 DEF AreJoined
<1>5. AreJoined(head, x, c)
  <2>1. head = x \o c
    OBVIOUS
  <2>. HIDE DEF x, c
  <2>. QED  BY <1>2, <1>4, <2>1, JoinedAre
<1>6. /\ \A i \in 1..3 : x[i] = f[i]
      /\ \A i \in 1..p : x[3 + i] = a[i]
  BY <1>1, <1>3 DEF AreJoined
<1>7. /\ head \in Bytes /\ Len(head) = (3 + p) + 1
      /\ \A i \in 1..3 + p : head[i] = x[i]
      /\ head[(3 + p) + 1] = cf
  BY <1>2, <1>4, <1>5 DEF AreJoined
<1>. HIDE DEF x, c, p
<1>8. head[1] = f[1] /\ head[2] = f[2] /\ head[3] = f[3]
  BY <1>4, <1>6, <1>7
<1>9. ASSUME NEW i \in 1..p
      PROVE  head[3 + i] = a[i]
  <2>1. 3 + i \in 1..3 + p
    BY <1>4
  <2>. QED  BY <1>6, <1>7, <2>1
<1>10. Len(head) = p + 4 /\ head[4 + p] = cf
  <2>1. (3 + p) + 1 = p + 4 /\ 4 + p = p + 4
    BY <1>4
  <2>. QED  BY <1>7, <2>1
<1>. QED  BY <1>1, <1>7, <1>8, <1>9, <1>10 DEF p, IsHead

LEMMA BodyIs ==
  ASSUME NEW head \in Bytes, Len(head) > 0, NEW d \in Bytes, d # <<>>, NEW body,
         body = head \o CheckSequence(Tail(head)) \o d
  PROVE  IsBody(body, head, d)
<1>. DEFINE c == CheckSequence(Tail(head))
            x == head \o c
            p == Len(head)
            q == Len(d)
<1>1. p \in Nat /\ p > 0 /\ q \in Nat
  BY LenIs
<1>2. Begins(head, head)
  BY <1>1 DEF Begins
<1>3. Tail(head) \in Bytes
  BY <1>2, TailOf
<1>4. c \in Bytes /\ Len(c) = 2 /\ c = << c[1], c[2] >>
  <2>1. IsCheck(c)
    BY <1>3, CheckSequenceType
  <2>. QED  BY <2>1 DEF IsCheck
<1>5. body = x \o d
  OBVIOUS
<1>. HIDE DEF c
<1>6. AreJoined(x, head, c)
  BY <1>4, JoinedAre
<1>7. x \in Bytes /\ Len(x) = p + 2
  BY <1>4, <1>6 DEF AreJoined
<1>. HIDE DEF x
<1>8. AreJoined(body, x, d)
  BY <1>5, <1>7, JoinedAre
<1>. HIDE DEF p, q
<1>9. /\ \A i \in 1..p : x[i] = head[i]
      /\ x[p + 1] = c[1] /\ x[p + 2] = c[2]
  BY <1>4, <1>6 DEF AreJoined, p
<1>10. /\ body \in Bytes /\ Len(body) = (p + 2) + q
       /\ \A i \in 1..p + 2 : body[i] = x[i]
       /\ \A i \in 1..q : body[(p + 2) + i] = d[i]
  BY <1>7, <1>8 DEF AreJoined, q
<1>11. body[p + 1] = c[1] /\ body[p + 2] = c[2]
  <2>1. p + 1 \in 1..p + 2 /\ p + 2 \in 1..p + 2
    BY <1>1
  <2>. QED  BY <1>9, <1>10, <2>1
<1>12. \A i \in 1..p : body[i] = head[i]
  BY <1>1, <1>9, <1>10
<1>13. p <= Len(body) /\ Len(body) = p + (2 + q)
  BY <1>1, <1>10
<1>14. Begins(head, body)
  BY <1>12, <1>13 DEF Begins, p
<1>15. Tail(head) = SubSeq(body, 2, p)
  BY <1>1, <1>10, <1>14, TailOf DEF p
<1>16. CheckSequence(SubSeq(body, 2, p)) = << body[p + 1], body[p + 2] >>
  BY <1>4, <1>11, <1>15 DEF c
<1>. QED  BY <1>10, <1>13, <1>14, <1>16 DEF p, q, IsBody

LEMMA EndIs ==
  ASSUME NEW body \in Bytes, Len(body) > 0, NEW z,
         z = body \o CheckSequence(Tail(body)) \o << FLAG >>
  PROVE  /\ z \in Bytes /\ Len(z) = Len(body) + 3 /\ Begins(body, z) /\ z[Len(z)] = FLAG
         /\ CheckSequence(SubSeq(z, 2, Len(z) - 3)) = << z[Len(z) - 2], z[Len(z) - 1] >>
<1>. DEFINE d == << FLAG >>
            p == Len(body)
<1>1. d \in Bytes /\ Len(d) = 1 /\ d[1] = FLAG /\ d # <<>>
  BY DEF Bytes, Byte, FLAG
<1>2. z = body \o CheckSequence(Tail(body)) \o d
  OBVIOUS
<1>. HIDE DEF d
<1>3. /\ z \in Bytes /\ Len(z) = p + (2 + Len(d)) /\ Begins(body, z)
      /\ CheckSequence(SubSeq(z, 2, p)) = << z[p + 1], z[p + 2] >>
      /\ \A i \in 1..Len(d) : z[p + 2 + i] = d[i]
  <2>1. IsBody(z, body, d)
    BY <1>1, <1>2, BodyIs
  <2>. QED  BY <2>1 DEF IsBody
<1>4. p \in Nat
  BY LenIs
<1>. HIDE DEF p
<1>5. Len(z) = p + 3 /\ z[p + 3] = FLAG /\ Len(z) - 3 = p /\ Len(z) - 2 = p + 1 /\ Len(z) - 1 = p + 2
  <2>1. Len(z) = p + 3 /\ p + 2 + 1 = p + 3
    BY <1>1, <1>3, <1>4
  <2>2. z[p + 2 + 1] = d[1]
    <3>1. 1 \in 1..Len(d)
      BY <1>1
    <3>2. \A i \in 1..Len(d) : z[p + 2 + i] = d[i]
      BY <1>3
    <3>. QED  BY <3>1, <3>2, Zenon
  <2>. QED  BY <1>1, <1>4, <2>1, <2>2
<1>. QED  BY <1>3, <1>5 DEF p

\* The bytes that Encode makes of a head.
WireOf(head, d) ==
    LET body == IF d = <<>> THEN head ELSE head \o CheckSequence(Tail(head)) \o d
    IN  body \o CheckSequence(Tail(body)) \o << FLAG >>

LEMMA WireIs ==
  ASSUME NEW a \in Bytes, Len(a) \in 2..5, NEW cf \in Byte, NEW d \in Bytes, Len(d) <= MaxInfo,
         NEW head, head = << FLAG, FORMAT, Len(a) + 5 + Overhead(d) >> \o a \o << cf >>,
         NEW z, z = WireOf(head, d)
  PROVE  IsWire(z, a, cf, d)
<1>. DEFINE n == Len(a) + 5 + Overhead(d)
            p == Len(a)
            q == Len(d)
            body == IF d = <<>> THEN head ELSE head \o CheckSequence(Tail(head)) \o d
<1>1. p \in 2..5 /\ q \in Nat /\ q <= 128 /\ n = p + 5 + Overhead(d)
      /\ (d # <<>> => Overhead(d) = 2 + q) /\ (d = <<>> => Overhead(d) = 0)
      /\ Overhead(d) \in 0..130
  <2>1. p \in 2..5 /\ q \in Nat /\ q <= 128
    BY LenIs DEF MaxInfo
  <2>2. (d # <<>> => Overhead(d) = 2 + q) /\ (d = <<>> => Overhead(d) = 0)
    BY DEF Overhead
  <2>. HIDE DEF p, q
  <2>3. Overhead(d) \in 0..130
    <3>1. CASE d = <<>>
      BY <2>2, <3>1
    <3>2. CASE d # <<>>
      BY <2>1, <2>2, <3>2
    <3>. QED  BY <3>1, <3>2
  <2>. QED  BY <2>1, <2>2, <2>3 DEF p
<1>2. n \in 0..255
  <2>. DEFINE o == Overhead(d)
  <2>1. p \in 2..5 /\ o \in 0..130 /\ n = p + 5 + o
    BY <1>1
  <2>. HIDE DEF n, p, o
  <2>. QED  BY <2>1
<1>3. /\ head \in Bytes /\ Len(head) = p + 4
      /\ head[1] = FLAG /\ head[2] = FORMAT /\ head[3] = n /\ head[4 + p] = cf
      /\ \A i \in 1..p : head[3 + i] = a[i]
  <2>. DEFINE f == << FLAG, FORMAT, n >>
  <2>1. head = f \o a \o << cf >>
    OBVIOUS
  <2>. HIDE DEF n
  <2>2. IsHead(head, a, cf, n)
    BY <1>2, <2>1, HeadIs
  <2>. QED  BY <2>2 DEF IsHead
<1>4. z = body \o CheckSequence(Tail(body)) \o << FLAG >>
  BY DEF WireOf
<1>. HIDE DEF n
<1>5. /\ body \in Bytes /\ Begins(head, body) /\ Len(body) = (p + 4) + Overhead(d)
      /\ d # <<>> => /\ CheckSequence(SubSeq(body, 2, p + 4)) = << body[p + 5], body[p + 6] >>
                     /\ \A i \in 1..q : body[p + 6 + i] = d[i]
  <2>1. CASE d = <<>>
    <3>1. Len(head) \in Nat /\ Begins(head, head)
      BY <1>3, LenIs DEF Begins
    <3>. HIDE DEF p
    <3>. QED  BY <1>1, <1>3, <2>1, <3>1
  <2>2. CASE d # <<>>
    <3>1. body = head \o CheckSequence(Tail(head)) \o d /\ Len(head) > 0
      BY <1>1, <1>3, <2>2
    <3>. HIDE DEF body
    <3>2. /\ body \in Bytes /\ Len(body) = Len(head) + (2 + q) /\ Begins(head, body)
          /\ CheckSequence(SubSeq(body, 2, Len(head))) = << body[Len(head) + 1], body[Len(head) + 2] >>
          /\ \A i \in 1..q : body[Len(head) + 2 + i] = d[i]
      <4>1. IsBody(body, head, d)
        BY <1>3, <2>2, <3>1, BodyIs
      <4>. QED  BY <4>1 DEF IsBody
    <3>. HIDE DEF p, q
    <3>3. Len(head) = p + 4 /\ (p + 4) + 1 = p + 5 /\ (p + 4) + 2 = p + 6
      BY <1>1, <1>3
    <3>. QED  BY <1>1, <2>2, <3>2, <3>3
  <2>. QED  BY <2>1, <2>2
<1>. HIDE DEF body
<1>6. Len(body) > 0
  <2>. HIDE DEF p, q
  <2>. QED  BY <1>1, <1>5
<1>7. /\ z \in Bytes /\ Len(z) = Len(body) + 3 /\ Begins(body, z) /\ z[Len(z)] = FLAG
      /\ CheckSequence(SubSeq(z, 2, Len(z) - 3)) = << z[Len(z) - 2], z[Len(z) - 1] >>
  BY <1>4, <1>5, <1>6, EndIs
<1>. HIDE DEF p, q
<1>8. Len(z) = p + 7 + Overhead(d) /\ Len(z) - 2 = n /\ Len(body) = (p + 4) + Overhead(d)
      /\ Overhead(d) \in Nat
  <2>. DEFINE o == Overhead(d)
              b == Len(body)
  <2>1. p \in 2..5 /\ o \in 0..130 /\ n = p + 5 + o /\ b = (p + 4) + o /\ Len(z) = b + 3
    BY <1>1, <1>5, <1>7
  <2>. HIDE DEF o, b
  <2>2. Len(z) = p + 7 + o /\ Len(z) - 2 = n /\ b = (p + 4) + o /\ o \in Nat
    BY <2>1
  <2>. QED  BY <2>2 DEF o, b
<1>9. \A i \in 1..p + 4 : z[i] = head[i]
  <2>1. /\ \A i \in 1..p + 4 : body[i] = head[i]
        /\ \A i \in 1..Len(body) : z[i] = body[i]
    BY <1>3, <1>5, <1>7 DEF Begins
  <2>2. ASSUME NEW i \in 1..p + 4
        PROVE  z[i] = head[i]
    <3>1. i \in 1..Len(body)
      BY <1>1, <1>8
    <3>. QED  BY <2>1, <3>1
  <2>. QED  BY <2>2
<1>10. z[1] = FLAG /\ z[2] = FORMAT /\ z[3] = Len(z) - 2 /\ z[4 + p] = cf
  <2>1. 1 \in 1..p + 4 /\ 2 \in 1..p + 4 /\ 3 \in 1..p + 4 /\ 4 + p \in 1..p + 4
    BY <1>1
  <2>. QED  BY <1>3, <1>8, <1>9, <2>1
<1>11. ASSUME NEW i \in 1..p
       PROVE  z[3 + i] = a[i]
  <2>1. 3 + i \in 1..p + 4
    BY <1>1
  <2>. QED  BY <1>3, <1>9, <2>1
<1>12. ASSUME d # <<>>
       PROVE  /\ CheckSequence(SubSeq(z, 2, 4 + p)) = << z[5 + p], z[6 + p] >>
              /\ \A i \in 1..q : z[6 + p + i] = d[i]
  <2>1. Len(body) = p + 6 + q
    BY <1>1, <1>8, <1>12
  <2>2. \A i \in 1..Len(body) : z[i] = body[i]
    BY <1>7 DEF Begins
  <2>3. z[p + 5] = body[p + 5] /\ z[p + 6] = body[p + 6]
    <3>1. p + 5 \in 1..Len(body) /\ p + 6 \in 1..Len(body)
      BY <1>1, <2>1
    <3>. QED  BY <2>2, <3>1
  <2>4. Begins(head, z)
    <3>1. p + 4 <= Len(z)
      <4>. DEFINE o == Overhead(d)
                  m == Len(z)
      <4>1. m = p + 7 + o /\ o \in Nat /\ p \in 2..5
        BY <1>1, <1>8
      <4>. HIDE DEF o, m
      <4>2. p + 4 <= m
        BY <4>1
      <4>. QED  BY <4>2 DEF m
    <3>. QED  BY <1>3, <1>9, <3>1 DEF Begins
  <2>5. SubSeq(z, 2, p + 4) = Tail(head) /\ SubSeq(body, 2, p + 4) = Tail(head)
    <3>1. Len(head) > 0
      BY <1>1, <1>3
    <3>. QED  BY <1>3, <1>5, <1>7, <2>4, <3>1, TailOf
  <2>6. CheckSequence(SubSeq(z, 2, p + 4)) = << z[p + 5], z[p + 6] >>
    BY <1>5, <1>12, <2>3, <2>5
  <2>7. ASSUME NEW i \in 1..q
        PROVE  z[p + 6 + i] = d[i]
    <3>1. p + 6 + i \in 1..Len(body)
      BY <1>1, <2>1
    <3>. QED  BY <1>5, <1>12, <2>2, <3>1
  <2>8. 4 + p = p + 4 /\ 5 + p = p + 5 /\ 6 + p = p + 6
    BY <1>1
  <2>. QED  BY <2>6, <2>7, <2>8
<1>13. Len(z) = Len(a) + 7 + Overhead(d)
  BY <1>8 DEF p
<1>. QED  BY <1>7, <1>10, <1>11, <1>12, <1>13 DEF IsWire, p, q

-----------------------------------------------------------------------------
(* Addresses                                                                *)

\* The bytes c of a client's address and those b of a server's; only the last one is odd.
IsClientAddr(c, s) == c \in Bytes /\ Len(c) = 1 /\ c[1] % 2 = 1 /\ c[1] \div 2 = s.client_addr

IsServerAddr(b, s) ==
    /\ b \in Bytes /\ Len(b) = s.addr_len /\ s.addr_len \in {1, 2, 4}
    /\ b[s.addr_len] % 2 = 1 /\ \A i \in 1..s.addr_len - 1 : b[i] % 2 = 0
    /\ s.addr_len = 1 => b[1] \div 2 = s.logical_device
    /\ s.addr_len = 2 => b[1] \div 2 = s.logical_device /\ b[2] \div 2 = s.phy_address
    /\ s.addr_len = 4 => Addr16(b, 1) = s.logical_device /\ Addr16(b, 3) = s.phy_address

LEMMA OddByte ==
  ASSUME NEW n \in 0..127
  PROVE  2 * (n % 128) + 1 \in Byte /\ (2 * (n % 128) + 1) % 2 = 1 /\ (2 * (n % 128) + 1) \div 2 = n
BY DEF Byte

LEMMA EvenByte ==
  ASSUME NEW n \in 0..63
  PROVE  2 * (n % 64) \in Byte /\ (2 * (n % 64)) % 2 = 0 /\ (2 * (n % 64)) \div 2 = n
BY DEF Byte

\* The halves of a part of an address of four bytes.
LEMMA PartHalves ==
  ASSUME NEW h \in 0..63, NEW l \in 0..127
  PROVE  ((256 * h + l) \div 256) % 64 = h /\ (256 * h + l) % 128 = l
         /\ (l < 64 => (256 * h + l) % 64 = l)
<1>1. (256 * h + l) \div 256 = h
  OBVIOUS
<1>2. h % 64 = h
  OBVIOUS
<1>3. (256 * h + l) % 128 = l
  OBVIOUS
<1>4. l < 64 => (256 * h + l) % 64 = l
  OBVIOUS
<1>. QED  BY <1>1, <1>2, <1>3, <1>4

LEMMA ClientIs ==
  ASSUME NEW s, StationFits(s)
  PROVE  IsClientAddr(SetAddr(1, s.client_addr, 0), s)
<1>. DEFINE c == s.client_addr
            x == 2 * (c % 128) + 1
            z == SetAddr(1, c, 0)
<1>1. c \in 0..127
  BY DEF StationFits
<1>2. z = << x >>
  BY DEF SetAddr
<1>. HIDE DEF c
<1>3. x \in Byte /\ x % 2 = 1 /\ x \div 2 = c
  BY <1>1, OddByte
<1>. HIDE DEF x, z
<1>4. z \in Bytes /\ Len(z) = 1 /\ z[1] = x
  BY <1>2, <1>3 DEF Bytes
<1>5. IsClientAddr(z, s)
  BY <1>3, <1>4 DEF IsClientAddr, c
<1>. QED  BY <1>5 DEF z, c

LEMMA ServerIs ==
  ASSUME NEW s, StationFits(s)
  PROVE  IsServerAddr(SetAddr(s.addr_len, s.logical_device, s.phy_address), s)
<1>. DEFINE u == s.logical_device
            l == s.phy_address
            b == SetAddr(s.addr_len, u, l)
<1>1. CASE s.addr_len = 1 /\ u \in 0..127
  <2>. DEFINE x == 2 * (u % 128) + 1
  <2>1. b = << x >>
    BY <1>1 DEF SetAddr
  <2>2. x \in Byte /\ x % 2 = 1 /\ x \div 2 = u
    BY <1>1, OddByte
  <2>. HIDE DEF x, b
  <2>3. b \in Bytes /\ Len(b) = 1 /\ b[1] = x
    BY <2>1, <2>2 DEF Bytes
  <2>4. IsServerAddr(b, s)
    BY <1>1, <2>2, <2>3 DEF IsServerAddr
  <2>. QED  BY <2>4 DEF b
<1>2. CASE s.addr_len = 2 /\ u \in 0..63 /\ l \in 0..127
  <2>. DEFINE x == 2 * (u % 64)
              y == 2 * (l % 128) + 1
  <2>1. b = << x, y >>
    BY <1>2 DEF SetAddr
  <2>2. x \in Byte /\ x % 2 = 0 /\ x \div 2 = u /\ y \in Byte /\ y % 2 = 1 /\ y \div 2 = l
    BY <1>2, OddByte, EvenByte
  <2>. HIDE DEF x, y, b
  <2>3. b \in Bytes /\ Len(b) = 2 /\ b[1] = x /\ b[2] = y
    BY <2>1, <2>2 DEF Bytes
  <2>4. \A i \in 1..s.addr_len - 1 : i = 1
    BY <1>2
  <2>5. IsServerAddr(b, s)
    BY <1>2, <2>2, <2>3, <2>4 DEF IsServerAddr
  <2>. QED  BY <2>5 DEF b
<1>3. CASE /\ s.addr_len = 4
           /\ \E h, k \in 0..63 : u = 256 * h + k
           /\ \E h \in 0..63, k \in 0..127 : l = 256 * h + k
  <2>1. PICK h \in 0..63, k \in 0..63 : u = 256 * h + k
    BY <1>3
  <2>2. PICK i \in 0..63, j \in 0..127 : l = 256 * i + j
    BY <1>3
  <2>. DEFINE w == 2 * (h % 64)
              x == 2 * (k % 64)
              y == 2 * (i % 64)
              z == 2 * (j % 128) + 1
  <2>3. k \in 0..127 /\ k < 64 /\ h % 64 = h /\ k % 64 = k /\ i % 64 = i /\ j % 128 = j
    OBVIOUS
  <2>4. (u \div 256) % 64 = h /\ u % 64 = k /\ (l \div 256) % 64 = i /\ l % 128 = j
    BY <2>1, <2>2, <2>3, PartHalves
  <2>5. b = << w, x, y, z >>
    BY <1>3, <2>3, <2>4 DEF SetAddr
  <2>6. /\ w \in Byte /\ w % 2 = 0 /\ w \div 2 = h /\ x \in Byte /\ x % 2 = 0 /\ x \div 2 = k
        /\ y \in Byte /\ y % 2 = 0 /\ y \div 2 = i /\ z \in Byte /\ z % 2 = 1 /\ z \div 2 = j
    BY OddByte, EvenByte
  <2>. HIDE DEF w, x, y, z, b
  <2>7. b \in Bytes /\ Len(b) = 4 /\ b[1] = w /\ b[2] = x /\ b[3] = y /\ b[4] = z
    BY <2>5, <2>6 DEF Bytes
  <2>8. Addr16(b, 1) = u /\ Addr16(b, 3) = l
    BY <2>1, <2>2, <2>6, <2>7 DEF Addr16
  <2>9. \A n \in 1..s.addr_len - 1 : b[n] % 2 = 0
    <3>1. \A n \in 1..s.addr_len - 1 : n = 1 \/ n = 2 \/ n = 3
      BY <1>3
    <3>. QED  BY <2>6, <2>7, <3>1
  <2>10. IsServerAddr(b, s)
    BY <1>3, <2>6, <2>7, <2>8, <2>9 DEF IsServerAddr
  <2>. QED  BY <2>10 DEF b
<1>. QED  BY <1>1, <1>2, <1>3 DEF StationFits

\* The description h is that of station s.
IsOf(h, s) ==
    /\ h.sender = s.sender /\ h.addr_len = s.addr_len /\ h.logical_device = s.logical_device
    /\ h.phy_address = s.phy_address /\ h.client_addr = s.client_addr

Dest(h) == IF h.sender = SERVER THEN SetAddr(1, h.client_addr, 0)
                                ELSE SetAddr(h.addr_len, h.logical_device, h.phy_address)
Source(h) == IF h.sender = SERVER THEN SetAddr(h.addr_len, h.logical_device, h.phy_address)
                                  ELSE SetAddr(1, h.client_addr, 0)

AreAddresses(x, y, s) ==
    \/ s.sender = SERVER /\ IsClientAddr(x, s) /\ IsServerAddr(y, s)
    \/ s.sender = CLIENT /\ IsServerAddr(x, s) /\ IsClientAddr(y, s)

LEMMA AddressesAre ==
  ASSUME NEW s, StationFits(s), NEW h, IsOf(h, s)
  PROVE  AreAddresses(Dest(h), Source(h), s) /\ Addresses(h) = Dest(h) \o Source(h)
<1>. DEFINE c == SetAddr(1, h.client_addr, 0)
            b == SetAddr(h.addr_len, h.logical_device, h.phy_address)
<1>1. IsClientAddr(c, s) /\ IsServerAddr(b, s)
  <2>1. IsClientAddr(SetAddr(1, s.client_addr, 0), s)
    BY ClientIs
  <2>2. IsServerAddr(SetAddr(s.addr_len, s.logical_device, s.phy_address), s)
    BY ServerIs
  <2>3. /\ h.client_addr = s.client_addr /\ h.addr_len = s.addr_len
        /\ h.logical_device = s.logical_device /\ h.phy_address = s.phy_address
    BY DEF IsOf
  <2>. QED  BY <2>1, <2>2, <2>3
<1>2. s.sender \in {CLIENT, SERVER} /\ h.sender = s.sender /\ CLIENT # SERVER
  <2>1. s.sender \in {CLIENT, SERVER}
    BY Zenon DEF StationFits
  <2>2. h.sender = s.sender
    BY Zenon DEF IsOf
  <2>3. CLIENT # SERVER
    BY DEF CLIENT, SERVER
  <2>. QED  BY <2>1, <2>2, <2>3
<1>3. Addresses(h) = Dest(h) \o Source(h)
  BY DEF Addresses, Dest, Source
<1>4. CASE s.sender = SERVER
  <2>1. Dest(h) = c /\ Source(h) = b
    BY <1>2, <1>4 DEF Dest, Source
  <2>. QED  BY <1>1, <1>3, <1>4, <2>1 DEF AreAddresses
<1>5. CASE s.sender = CLIENT
  <2>1. Dest(h) = b /\ Source(h) = c
    BY <1>2, <1>5 DEF Dest, Source
  <2>. QED  BY <1>1, <1>3, <1>5, <2>1 DEF AreAddresses
<1>. QED  BY <1>2, <1>4, <1>5

LEMMA AddressTypes ==
  ASSUME NEW x, NEW y, NEW s, AreAddresses(x, y, s)
  PROVE  /\ x \in Bytes /\ y \in Bytes /\ Len(x) \in {1, 2, 4} /\ Len(y) \in {1, 2, 4}
         /\ x \o y \in Bytes /\ Len(x \o y) = Len(x) + Len(y) /\ Len(x \o y) \in 2..5
         /\ \A i \in 1..Len(x) : (x \o y)[i] = x[i]
         /\ \A i \in 1..Len(y) : (x \o y)[Len(x) + i] = y[i]
<1>. DEFINE p == Len(x)
            q == Len(y)
<1>1. x \in Bytes /\ y \in Bytes /\ p \in {1, 2, 4} /\ q \in {1, 2, 4} /\ (p = 1 \/ q = 1)
  BY DEF AreAddresses, IsClientAddr, IsServerAddr
<1>2. AreJoined(x \o y, x, y)
  BY <1>1, JoinedAre
<1>. HIDE DEF p, q
<1>3. p + q \in 2..5
  BY <1>1
<1>. QED  BY <1>1, <1>2, <1>3 DEF AreJoined, p, q

LEMMA EncodeIs ==
  ASSUME NEW s, StationFits(s), NEW h, IsOf(h, s), NEW cf \in Byte, NEW d \in Bytes,
         Len(d) <= MaxInfo
  PROVE  IsWire(Encode(h, cf, d), Dest(h) \o Source(h), cf, d)
<1>. DEFINE a == Dest(h) \o Source(h)
            n == Len(a) + 5 + Overhead(d)
            m == Len(a) + 5 + (IF d = << >> THEN 0 ELSE 2 + Len(d))
            first == << FLAG, FORMAT + ((m \div 256) % 8), m % 256 >>
            head == << FLAG, FORMAT, n >> \o a \o << cf >>
<1>1. Addresses(h) = a /\ AreAddresses(Dest(h), Source(h), s)
  BY AddressesAre
<1>2. a \in Bytes /\ Len(a) \in 2..5
  BY <1>1, AddressTypes
<1>3. n = m
  BY DEF Overhead
<1>4. n \in 0..255
  <2>. DEFINE p == Len(a)
              o == Overhead(d)
              q == Len(d)
  <2>1. p \in 2..5
    BY <1>2
  <2>2. o = 0 \/ o = 2 + q
    BY DEF Overhead
  <2>3. q \in Nat /\ q <= 128
    BY LenIs DEF MaxInfo
  <2>. HIDE DEF p, o, q
  <2>4. o \in Nat /\ o <= 130
    BY <2>2, <2>3
  <2>5. p + 5 + o \in 0..255
    BY <2>1, <2>4
  <2>. QED  BY <2>5 DEF p, o
<1>5. first = << FLAG, FORMAT, n >>
  <2>1. FORMAT + ((m \div 256) % 8) = FORMAT /\ m % 256 = n
    <3>. HIDE DEF n, m
    <3>1. m \in 0..255
      BY <1>3, <1>4
    <3>2. (m \div 256) % 8 = 0 /\ m % 256 = m
      BY <3>1
    <3>. QED  BY <1>3, <3>2 DEF FORMAT
  <2>. QED  BY <2>1
<1>6. Encode(h, cf, d) = WireOf(first \o a \o << cf >>, d)
  BY <1>1 DEF Encode, WireOf
<1>7. Encode(h, cf, d) = WireOf(head, d)
  <2>. HIDE DEF first, n, a
  <2>. QED  BY <1>5, <1>6
<1>. HIDE DEF a
<1>. QED  BY <1>2, <1>7, WireIs DEF a

-----------------------------------------------------------------------------
(* The decoder keeps the shape of a description                             *)

LEMMA LowestIs ==
  ASSUME NEW S \in SUBSET Nat, NEW m \in S, \A k \in S : m <= k
  PROVE  Lowest(S) = m
<1>1. \E n \in S : \A k \in S : n <= k
  OBVIOUS
<1>2. Lowest(S) \in S /\ \A k \in S : Lowest(S) <= k
  BY <1>1 DEF Lowest
<1>3. Lowest(S) \in Nat /\ m \in Nat /\ m <= Lowest(S) /\ Lowest(S) <= m
  BY <1>2
<1>. QED  BY <1>3

LEMMA LowestIn ==
  ASSUME NEW S \in SUBSET Nat, S # {}
  PROVE  Lowest(S) \in S /\ \A k \in S : Lowest(S) <= k
<1>1. \E n \in S : \A k \in S : n <= k
  BY Least
<1>. QED  BY <1>1 DEF Lowest

\* A description has the fields of hdlc_t.
IsHdlc(h) ==
    h = [data_index |-> h.data_index, data_size |-> h.data_size, frame_size |-> h.frame_size,
         logical_device |-> h.logical_device, phy_address |-> h.phy_address,
         client_addr |-> h.client_addr, addr_len |-> h.addr_len,
         max_info_field_tx |-> h.max_info_field_tx, max_info_field_rx |-> h.max_info_field_rx,
         window_tx |-> h.window_tx, window_rx |-> h.window_rx, segmentation |-> h.segmentation,
         poll_final |-> h.poll_final, rrr |-> h.rrr, sss |-> h.sss, type |-> h.type,
         sender |-> h.sender]

\* What the decoder of an address or of the control field leaves as it was.
Keeps(g, h) ==
    /\ IsHdlc(g) /\ g.sender = h.sender /\ g.frame_size = h.frame_size
    /\ g.data_index = h.data_index /\ g.data_size = h.data_size

\* The description with a logical and a physical device.
Placed(h, u, l) == [h EXCEPT !.logical_device = u, !.phy_address = l]

LEMMA PlacedKeeps ==
  ASSUME NEW h, IsHdlc(h), NEW u, NEW l
  PROVE  /\ Keeps(Placed(h, u, l), h)
         /\ Placed(h, u, l).logical_device = u /\ Placed(h, u, l).phy_address = l
         /\ Placed(h, u, l).addr_len = h.addr_len /\ Placed(h, u, l).client_addr = h.client_addr
<1>. DEFINE k == [h EXCEPT !.logical_device = u]
            m == [k EXCEPT !.phy_address = l]
            Same(g) == /\ Keeps(g, h) /\ g.logical_device = u
                       /\ g.addr_len = h.addr_len /\ g.client_addr = h.client_addr
<1>1. m = Placed(h, u, l)
  BY DEF Placed
<1>2. Same(k)
  BY DEF IsHdlc, Keeps
<1>. HIDE DEF k
<1>3. Same(m) /\ m.phy_address = l
  BY <1>2 DEF IsHdlc, Keeps
<1>. HIDE DEF m
<1>. QED  BY <1>1, <1>3

\* hdlc_get_addr, one case for each size.
IsServerAddrOf(r, g, b, at, n) ==
    /\ n = 1 => r = Result("OK", [g EXCEPT !.logical_device = b[at] \div 2])
    /\ n = 2 => r = Result("OK", Placed(g, b[at] \div 2, b[at + 1] \div 2))
    /\ n = 4 => r = Result("OK", Placed(g, Addr16(b, at), Addr16(b, at + 2)))
    /\ n \notin {1, 2, 4} => r = Result("ERR_ADDR", g)

LEMMA ServerAddrIs ==
  ASSUME NEW h, NEW b, NEW at, NEW n
  PROVE  IsServerAddrOf(ServerAddr(h, b, at, n), [h EXCEPT !.addr_len = n], b, at, n)
BY DEF ServerAddr, Placed, IsServerAddrOf

LEMMA ResultIs ==
  ASSUME NEW code, NEW g, NEW r, r = Result(code, g)
  PROVE  r.ret = code /\ r.h = g
BY DEF Result

LEMMA ServerAddrKeeps ==
  ASSUME NEW h, IsHdlc(h), NEW b, NEW at, NEW n
  PROVE  Keeps(ServerAddr(h, b, at, n).h, h)
<1>. DEFINE g == [h EXCEPT !.addr_len = n]
<1>1. Keeps(g, h)
  BY DEF IsHdlc, Keeps
<1>2. IsServerAddrOf(ServerAddr(h, b, at, n), g, b, at, n)
  BY ServerAddrIs
<1>. DEFINE r == ServerAddr(h, b, at, n)
<1>. HIDE DEF g, r
<1>3. ASSUME NEW u
      PROVE  Keeps([g EXCEPT !.logical_device = u], h)
  BY <1>1 DEF IsHdlc, Keeps
<1>4. ASSUME NEW u, NEW l
      PROVE  Keeps(Placed(g, u, l), h)
  <2>1. Keeps(Placed(g, u, l), g)
    BY <1>1, PlacedKeeps DEF Keeps
  <2>. QED  BY <1>1, <2>1 DEF Keeps
<1>5. r.h \in {[g EXCEPT !.logical_device = b[at] \div 2], Placed(g, b[at] \div 2, b[at + 1] \div 2),
               Placed(g, Addr16(b, at), Addr16(b, at + 2)), g}
  BY <1>2, ResultIs DEF IsServerAddrOf, r
<1>6. Keeps(r.h, h)
  BY <1>1, <1>3, <1>4, <1>5
<1>. QED  BY <1>6 DEF r

LEMMA ClientAddrKeeps ==
  ASSUME NEW h, IsHdlc(h), NEW b, NEW at, NEW n
  PROVE  Keeps(ClientAddr(h, b, at, n).h, h)
<1>1. Keeps(h, h)
  BY DEF Keeps
<1>2. ASSUME NEW u
      PROVE  Keeps([h EXCEPT !.client_addr = u], h)
  BY DEF IsHdlc, Keeps
<1>3. ClientAddr(h, b, at, n).h = IF n = 1 THEN [h EXCEPT !.client_addr = b[at] \div 2] ELSE h
  BY DEF ClientAddr, Result
<1>. QED  BY <1>1, <1>2, <1>3

\* The description with the numbers and the final bit of a control field.
Numbers(h, cf) == [h EXCEPT !.poll_final = (cf \div 16) % 2,
                            !.rrr = cf \div 32, !.sss = (cf \div 2) % 8]

LEMMA NumbersKeep ==
  ASSUME NEW h, IsHdlc(h), NEW cf
  PROVE  /\ Keeps(Numbers(h, cf), h)
         /\ Numbers(h, cf).rrr = cf \div 32 /\ Numbers(h, cf).sss = (cf \div 2) % 8
         /\ Numbers(h, cf).logical_device = h.logical_device
         /\ Numbers(h, cf).phy_address = h.phy_address
         /\ Numbers(h, cf).client_addr = h.client_addr /\ Numbers(h, cf).addr_len = h.addr_len
<1>. DEFINE x == (cf \div 16) % 2
            y == cf \div 32
            z == (cf \div 2) % 8
            k == [h EXCEPT !.poll_final = x]
            m == [k EXCEPT !.rrr = y]
            n == [m EXCEPT !.sss = z]
            Same(g) == /\ Keeps(g, h) /\ g.logical_device = h.logical_device
                       /\ g.phy_address = h.phy_address
                       /\ g.client_addr = h.client_addr /\ g.addr_len = h.addr_len
<1>1. n = Numbers(h, cf)
  BY DEF Numbers
<1>. HIDE DEF x, y, z
<1>2. Same(k)
  BY DEF IsHdlc, Keeps
<1>. HIDE DEF k
<1>3. Same(m) /\ m.rrr = y
  BY <1>2 DEF IsHdlc, Keeps
<1>. HIDE DEF m
<1>4. Same(n) /\ n.rrr = y /\ n.sss = z
  BY <1>3 DEF IsHdlc, Keeps
<1>. HIDE DEF n
<1>. QED  BY <1>1, <1>4 DEF y, z

LEMMA ControlFieldKeeps ==
  ASSUME NEW h, IsHdlc(h), NEW cf
  PROVE  Keeps(ControlField(h, cf).h, h)
<1>. DEFINE kinds == {p \in PacketTypes : Masked(cf, p.mask) = p.value}
            g == Numbers(h, cf)
            t == (CHOOSE p \in kinds : TRUE).type
<1>1. Keeps(g, h)
  BY NumbersKeep
<1>2. ControlField(h, cf).h = IF kinds = {} THEN g ELSE [g EXCEPT !.type = t]
  BY DEF ControlField, Result, Numbers
<1>. HIDE DEF g, t, kinds
<1>3. Keeps([g EXCEPT !.type = t], h)
  BY <1>1 DEF IsHdlc, Keeps
<1>. QED  BY <1>1, <1>2, <1>3

\* The information field is within n bytes, or its size is one that no field has.
Window(h, n) ==
    /\ h.frame_size \in Nat /\ h.data_index \in Nat /\ h.data_size \in Nat
    /\ h.data_index + h.data_size <= n \/ h.data_size > 255

LEMMA AddrSizeType ==
  ASSUME NEW b, NEW at, NEW n \in Nat
  PROVE  AddrSize(b, at, n) \in 0..4
<1>. DEFINE max == IF n < 4 THEN n ELSE 4
            odd == {k \in 1..max : b[at + k - 1] % 2 = 1}
<1>1. AddrSize(b, at, n) = IF odd = {} THEN max ELSE Lowest(odd)
  BY DEF AddrSize
<1>2. max \in 0..4 /\ odd \in SUBSET Nat /\ \A k \in odd : k \in 1..max
  OBVIOUS
<1>. HIDE DEF odd
<1>3. odd # {} => Lowest(odd) \in odd
  BY <1>2, LowestIn
<1>. HIDE DEF max
<1>4. odd # {} => Lowest(odd) \in 1..max
  BY <1>2, <1>3
<1>. QED  BY <1>1, <1>2, <1>4

\* What two bits and a byte of length can say.
Sizes == {x \in Int : 2 <= x /\ x <= 6401}

LEMMA SizesType ==
  ASSUME NEW x \in Sizes
  PROVE  x \in Nat /\ x >= 2 /\ x <= 6401
BY DEF Sizes

Within(g, h, n) ==
    IsHdlc(g) /\ Window(g, n) /\ g.sender = h.sender /\ g.frame_size = h.frame_size

LEMMA InformationType ==
  ASSUME NEW h, IsHdlc(h), NEW n \in Nat, NEW b, NEW cf \in 4..12,
         Window(h, n), h.frame_size <= n, h.frame_size \in Sizes
  PROVE  Within(Information(h, b, cf).h, h, n)
<1>. DEFINE f == h.frame_size
            c == 65536
            r == (f - 3 + c - cf) % c
            g == Information(h, b, cf).h
            new == [h EXCEPT !.data_index = cf + 2, !.data_size = r - 2]
<1>1. g = IF r < 2 \/ ~Checks(b, cf) THEN h ELSE new
  BY DEF Information, Result
<1>2. f \in Nat /\ f >= 2 /\ f <= 6401 /\ f <= n
  BY SizesType
<1>3. IsHdlc(new) /\ new.sender = h.sender /\ new.frame_size = f
      /\ new.data_index = cf + 2 /\ new.data_size = r - 2
  <2>. DEFINE i == cf + 2
              l == r - 2
              k == [h EXCEPT !.data_index = i]
              m == [k EXCEPT !.data_size = l]
  <2>1. m = new
    OBVIOUS
  <2>. HIDE DEF i, l, new
  <2>2. IsHdlc(k) /\ k.sender = h.sender /\ k.frame_size = f /\ k.data_index = i
    BY DEF IsHdlc
  <2>. HIDE DEF k
  <2>3. IsHdlc(m) /\ m.sender = h.sender /\ m.frame_size = f /\ m.data_index = i /\ m.data_size = l
    BY <2>2 DEF IsHdlc
  <2>. HIDE DEF m
  <2>. QED  BY <2>1, <2>3 DEF i, l
<1>4. r \in Nat /\ (f - 3 >= cf => r = f - 3 - cf) /\ (f - 3 < cf => r > 60000)
  <2>. HIDE DEF f
  <2>1. CASE f - 3 >= cf
    <3>. DEFINE x == f - 3 - cf
    <3>1. x \in 0..6400 /\ f - 3 + c - cf = x + c
      BY <1>2, <2>1
    <3>. HIDE DEF x
    <3>2. (x + c) % c = x
      BY <3>1
    <3>3. r = x
      BY <3>1, <3>2
    <3>. HIDE DEF r
    <3>. QED  BY <1>2, <2>1, <3>1, <3>3 DEF x
  <2>2. CASE f - 3 < cf
    BY <1>2, <2>2
  <2>. QED  BY <1>2, <2>1, <2>2
<1>. HIDE DEF r, f, g, new
<1>5. r >= 2 => Window(new, n)
  <2>1. CASE f - 3 >= cf /\ r >= 2
    <3>. DEFINE i == cf + 2
                s == r - 2
    <3>1. i \in Nat /\ s \in Nat /\ i + s <= n /\ f \in Nat
      BY <1>2, <1>4, <2>1
    <3>2. new.frame_size \in Nat /\ new.data_index = i /\ new.data_size = s
      BY <1>3, <3>1
    <3>. HIDE DEF i, s
    <3>. QED  BY <3>1, <3>2 DEF Window
  <2>2. CASE f - 3 < cf
    <3>. DEFINE i == cf + 2
                s == r - 2
    <3>1. i \in Nat /\ s \in Nat /\ s > 255 /\ f \in Nat
      BY <1>2, <1>4, <2>2
    <3>2. new.frame_size \in Nat /\ new.data_index = i /\ new.data_size = s
      BY <1>3, <3>1
    <3>. HIDE DEF i, s
    <3>. QED  BY <3>1, <3>2 DEF Window
  <2>. QED  BY <1>2, <1>4, <2>1, <2>2
<1>6. IsHdlc(g) /\ Window(g, n) /\ g.sender = h.sender /\ g.frame_size = f
  <2>1. CASE r < 2 \/ ~Checks(b, cf)
    BY <1>1, <2>1 DEF f
  <2>2. CASE ~(r < 2 \/ ~Checks(b, cf))
    BY <1>1, <1>3, <1>4, <1>5, <2>2
  <2>. QED  BY <2>1, <2>2
<1>. QED  BY <1>6 DEF f, g, Within

LEMMA ContentsType ==
  ASSUME NEW h, IsHdlc(h), NEW n \in Nat, NEW b,
         Window(h, n), h.frame_size <= n, h.frame_size \in Sizes
  PROVE  Within(Contents(h, b).h, h, n)
<1>. DEFINE dest == AddrSize(b, 4, h.frame_size)
            src  == AddrSize(b, 4 + dest, h.frame_size)
            cf   == 4 + dest + src
            d    == IF h.sender = CLIENT THEN ServerAddr(h, b, 4, dest)
                                         ELSE ClientAddr(h, b, 4, dest)
            s    == IF h.sender = CLIENT THEN ClientAddr(d.h, b, 4 + dest, src)
                                         ELSE ServerAddr(d.h, b, 4 + dest, src)
            c    == ControlField(s.h, b[cf])
            i    == Information(c.h, b, cf)
<1>1. Contents(h, b).h \in {d.h, s.h, c.h, i.h}
  BY DEF Contents
<1>2. Keeps(d.h, h)
  BY ServerAddrKeeps, ClientAddrKeeps
<1>3. dest \in 0..4 /\ src \in 0..4
  <2>1. h.frame_size \in Nat
    BY SizesType
  <2>. QED  BY <2>1, AddrSizeType
<1>. HIDE DEF d, dest, src
<1>4. Keeps(s.h, d.h)
  BY <1>2, ServerAddrKeeps, ClientAddrKeeps DEF Keeps
<1>. HIDE DEF s
<1>5. Keeps(c.h, s.h)
  BY <1>4, ControlFieldKeeps DEF Keeps
<1>. HIDE DEF c
<1>6. ASSUME NEW g, Keeps(g, h)
      PROVE  Within(g, h, n)
  BY <1>6 DEF Keeps, Within, Window
<1>7. Keeps(s.h, h) /\ Keeps(c.h, h)
  BY <1>2, <1>4, <1>5 DEF Keeps
<1>8. Within(i.h, h, n)
  <2>1. cf \in 4..12
    BY <1>3
  <2>. HIDE DEF cf, c
  <2>2. Within(c.h, h, n)
    BY <1>6, <1>7
  <2>3. IsHdlc(c.h) /\ Window(c.h, n) /\ c.h.frame_size <= n /\ c.h.frame_size \in Sizes
    BY <2>2 DEF Within
  <2>4. Within(i.h, c.h, n)
    BY <2>1, <2>3, InformationType
  <2>. QED  BY <2>2, <2>4 DEF Within
<1>. HIDE DEF i
<1>. QED  BY <1>1, <1>2, <1>6, <1>7, <1>8

\* The description with what hdlc_decode reads first.
Sized(h, b) == [h EXCEPT !.segmentation = (b[2] \div 8) % 2, !.frame_size = FrameSize(b)]

LEMMA SizedIs ==
  ASSUME NEW h, IsHdlc(h), NEW b, NEW g, g = Sized(h, b)
  PROVE  /\ IsHdlc(g) /\ g.sender = h.sender /\ g.frame_size = FrameSize(b)
         /\ Peer(g) = Peer(h) /\ g.data_index = h.data_index /\ g.data_size = h.data_size
<1>. DEFINE x == (b[2] \div 8) % 2
            y == FrameSize(b)
            k == [h EXCEPT !.segmentation = x]
            m == [k EXCEPT !.frame_size = y]
            Same(f) == /\ IsHdlc(f) /\ f.sender = h.sender /\ f.data_index = h.data_index
                       /\ f.data_size = h.data_size /\ f.logical_device = h.logical_device
                       /\ f.phy_address = h.phy_address /\ f.client_addr = h.client_addr
                       /\ f.addr_len = h.addr_len /\ f.type = h.type /\ f.rrr = h.rrr
                       /\ f.sss = h.sss
<1>1. m = g
  BY DEF Sized
<1>. HIDE DEF x, y
<1>2. Same(k)
  BY DEF IsHdlc
<1>. HIDE DEF k
<1>3. Same(m) /\ m.frame_size = y
  BY <1>2 DEF IsHdlc
<1>. HIDE DEF m
<1>. QED  BY <1>1, <1>3 DEF Peer, y

LEMMA FrameSizeType ==
  ASSUME NEW b, b[2] \in Byte, b[3] \in Byte
  PROVE  FrameSize(b) \in Sizes
<1>. DEFINE x == b[2]
            y == b[3]
<1>1. x \in 0..255 /\ y \in 0..255 /\ FrameSize(b) = 2048 * (x % 4) + y + 2
  BY DEF FrameSize, Byte
<1>. HIDE DEF x, y
<1>2. x % 4 \in 0..3
  BY <1>1
<1>. QED  BY <1>1, <1>2 DEF Sizes

\* hdlc_decode after its reading of the length.
LEMMA DecodeSteps ==
  ASSUME NEW h, NEW b, NEW n, NEW f, f = Sized(h, b), NEW r, r = Decode(h, b, n)
  PROVE  \/ r = Result("ERR_7E", h) \/ r = Result("ERR_FORMAT", h)
         \/ r = Result("ERR_SIZE", f) \/ r = Result("ERR_FCS", f)
         \/ r = Contents(f, b) /\ ~(f.frame_size > n)
BY DEF Decode, Sized

\* What a call of hdlc_decode leaves, with n bytes received.
IsDecoded(r, h, n) ==
    /\ IsHdlc(r.h) /\ Window(r.h, Capacity) /\ r.h.sender = h.sender
    /\ r.ret \in {"OK"} \cup Refusals => r.h.frame_size <= n

LEMMA DecodeType ==
  ASSUME NEW h, IsHdlc(h), Window(h, Capacity), NEW b \in [1..Capacity -> Byte], NEW n \in Nat,
         n >= 3, n <= Capacity
  PROVE  IsDecoded(Decode(h, b, n), h, n)
<1>. DEFINE f == Sized(h, b)
            r == Decode(h, b, n)
<1>1. IsHdlc(f) /\ f.sender = h.sender /\ f.frame_size = FrameSize(b)
      /\ f.data_index = h.data_index /\ f.data_size = h.data_size
  BY SizedIs
<1>2. f.frame_size \in Sizes
  <2>1. b[2] \in Byte /\ b[3] \in Byte
    BY LinkAssumption
  <2>2. FrameSize(b) \in Sizes
    BY <2>1, FrameSizeType
  <2>. HIDE DEF f
  <2>. QED  BY <1>1, <2>2
<1>3. \/ r = Result("ERR_7E", h) \/ r = Result("ERR_FORMAT", h)
      \/ r = Result("ERR_SIZE", f) \/ r = Result("ERR_FCS", f)
      \/ r = Contents(f, b) /\ ~(f.frame_size > n)
  BY DecodeSteps
<1>. HIDE DEF f, r
<1>4. Window(f, Capacity)
  BY <1>1, <1>2, SizesType DEF Window
<1>5. CASE r = Result("ERR_7E", h) \/ r = Result("ERR_FORMAT", h)
  <2>1. r.h = h /\ r.ret \notin {"OK"} \cup Refusals
    BY <1>5 DEF Result, Refusals
  <2>2. IsDecoded(r, h, n)
    BY <2>1 DEF IsDecoded
  <2>. QED  BY <2>2 DEF r
<1>6. CASE r = Result("ERR_SIZE", f) \/ r = Result("ERR_FCS", f)
  <2>1. r.h = f /\ r.ret \notin {"OK"} \cup Refusals
    BY <1>6 DEF Result, Refusals
  <2>2. IsDecoded(r, h, n)
    BY <1>1, <1>4, <2>1 DEF IsDecoded
  <2>. QED  BY <2>2 DEF r
<1>7. CASE r = Contents(f, b) /\ ~(f.frame_size > n)
  <2>1. f.frame_size <= n /\ f.frame_size <= Capacity /\ Capacity \in Nat
    BY <1>2, <1>7, SizesType, LinkAssumption
  <2>2. Within(Contents(f, b).h, f, Capacity)
    BY <1>1, <1>2, <1>4, <2>1, ContentsType
  <2>3. Within(r.h, f, Capacity)
    BY <1>7, <2>2
  <2>4. IsDecoded(r, h, n)
    BY <1>1, <2>1, <2>3 DEF IsDecoded, Within
  <2>. QED  BY <2>4 DEF r
<1>. QED  BY <1>3, <1>5, <1>6, <1>7

-----------------------------------------------------------------------------
(* The state of a link                                                      *)

IsSequence(s) == \E T : s \in Seq(T)

LEMMA SequenceIs ==
  ASSUME NEW s, IsSequence(s)
  PROVE  Len(s) \in Nat /\ DOMAIN s = 1..Len(s)
BY DEF IsSequence

\* The elements of s and x, or those of s after the first n.
AreAppended(t, s, x) ==
    /\ IsSequence(t) /\ Len(t) = Len(s) + 1
    /\ \A i \in 1..Len(s) : t[i] = s[i]
    /\ t[Len(s) + 1] = x

AreRest(t, s, n) ==
    /\ IsSequence(t) /\ Len(t) = Len(s) - n
    /\ \A i \in 1..Len(s) - n : t[i] = s[n + i]

LEMMA AppendIs ==
  ASSUME NEW s, IsSequence(s), NEW x
  PROVE  AreAppended(Append(s, x), s, x)
<1>1. PICK T : s \in Seq(T)
  BY DEF IsSequence
<1>. DEFINE U == T \cup {x}
            t == Append(s, x)
<1>2. s \in Seq(U) /\ x \in U
  BY <1>1, SeqMonotonic
<1>. HIDE DEF U
<1>3. t \in Seq(U) /\ Len(t) = Len(s) + 1 /\ (\A i \in 1..Len(s) : t[i] = s[i]) /\ t[Len(s) + 1] = x
  BY <1>2, AppendProperties
<1>. QED  BY <1>3 DEF AreAppended, IsSequence

\* The n elements of s after the first m.
ArePiece(t, s, m, n) == IsSequence(t) /\ Len(t) = n /\ \A i \in 1..n : t[i] = s[m + i]

LEMMA PieceIs ==
  ASSUME NEW s, IsSequence(s), NEW m \in Nat, NEW n \in Nat, m + n <= Len(s)
  PROVE  ArePiece(SubSeq(s, m + 1, m + n), s, m, n)
<1>1. PICK T : s \in Seq(T)
  BY DEF IsSequence
<1>. DEFINE a == m + 1
            b == m + n
            t == SubSeq(s, a, b)
<1>2. a \in 1..Len(s) + 1 /\ b \in a - 1..Len(s)
  <2>1. Len(s) \in Nat
    BY SequenceIs
  <2>. DEFINE l == Len(s)
  <2>. HIDE DEF l
  <2>2. m + 1 \in 1..l + 1 /\ m + n \in (m + 1) - 1..l
    BY <2>1 DEF l
  <2>. QED  BY <2>2 DEF l
<1>3. b - a + 1 = n /\ (~(a <= b) => n = 0) /\ \A i \in Nat : a + i - 1 = m + i
  OBVIOUS
<1>. HIDE DEF a, b
<1>4. /\ t \in Seq(T)
      /\ Len(t) = IF a <= b THEN b - a + 1 ELSE 0
      /\ \A i \in 1..b - a + 1 : t[i] = s[a + i - 1]
  BY <1>1, <1>2, SubSeqProperties
<1>. HIDE DEF t
<1>5. Len(t) = n
  BY <1>3, <1>4
<1>6. ASSUME NEW i \in 1..n
      PROVE  t[i] = s[m + i]
  BY <1>3, <1>4
<1>7. ArePiece(t, s, m, n)
  BY <1>4, <1>5, <1>6 DEF ArePiece, IsSequence
<1>. QED  BY <1>7 DEF a, b, t

LEMMA RestIs ==
  ASSUME NEW s, IsSequence(s), NEW n \in 0..Len(s)
  PROVE  AreRest(SubSeq(s, n + 1, Len(s)), s, n)
<1>. DEFINE l == Len(s)
            k == l - n
<1>1. l \in Nat /\ n \in Nat /\ k \in Nat /\ n + k = l
  BY SequenceIs
<1>. HIDE DEF k
<1>2. ArePiece(SubSeq(s, n + 1, n + k), s, n, k)
  BY <1>1, PieceIs DEF l
<1>. QED  BY <1>1, <1>2 DEF ArePiece, AreRest, k

\* The control field of a frame with its description.
Control(h) == CASE h.type = "I"    -> InfoField(h.rrr, h.sss)
                [] h.type = "RR"   -> ReadyField(h.rrr)
                [] h.type = "SNRM" -> SnrmField
                [] h.type = "UA"   -> 115

Wire(f) == IF f.own THEN Encode(f.h, Control(f.h), f.info) ELSE f.info

\* f was written by station s, or is a frame of others.
IsOwn(f, s) ==
    /\ f.own = TRUE
    /\ IsOf(f.h, s) /\ f.h.type \in {"I", "RR", "SNRM", "UA"}
    /\ f.h.type \in {"I", "RR"} => f.h.rrr \in 0..7 /\ f.h.sss \in 0..7
    /\ f.h.type = "RR" => f.h.sss = 0
    /\ f.info \in Bytes /\ Len(f.info) <= MaxInfo
    /\ f.opts # <<>> => AreOptions(f.opts) /\ f.info = OptionField(f.opts)
    /\ f.len = Len(Wire(f))

IsOther(f) == f.own = FALSE /\ OtherFits(f.info) /\ f.opts = <<>> /\ f.len = Len(f.info)

IsSent(f, s) == IsOwn(f, s) \/ IsOther(f)

\* What holds of a link from station s: the description that the receiver fills keeps within
\* the buffer.
Decoded == phase \in {"accepted", "negotiating", "negotiated"}

LinkOf(s) ==
    /\ IsHdlc(tx) /\ IsOf(tx, s) /\ budget \in 0..MaxFrames
    /\ IsSequence(sent) /\ \A i \in 1..Len(sent) : IsSent(sent[i], s)
    /\ line \in Bytes /\ buf \in [1..Capacity -> Byte] /\ size \in 0..Capacity /\ fill \in Byte
    /\ IsHdlc(rx) /\ rx.sender = s.sender /\ Window(rx, Capacity)
    /\ Decoded => rx.frame_size <= size

LinkInv == \E s \in Stations : LinkOf(s)

LEMMA InitIsLink ==
  ASSUME Init
  PROVE  LinkInv
<1>1. PICK s \in Stations :
          /\ tx = [HdlcInit EXCEPT !.sender = s.sender, !.addr_len = s.addr_len,
                     !.logical_device = s.logical_device,
                     !.phy_address = s.phy_address, !.client_addr = s.client_addr]
          /\ rx = [HdlcInit EXCEPT !.sender = s.sender]
  BY DEF Init
<1>2. IsHdlc(HdlcInit)
  BY DEF HdlcInit, IsHdlc
<1>3. IsHdlc(rx) /\ rx.sender = s.sender /\ rx.frame_size = 0 /\ rx.data_index = 0 /\ rx.data_size = 0
  BY <1>1 DEF HdlcInit, IsHdlc
<1>4. Window(rx, Capacity)
  BY <1>3, LinkAssumption DEF Window
<1>5. IsHdlc(tx) /\ IsOf(tx, s)
  BY <1>1 DEF HdlcInit, IsHdlc, IsOf
<1>6. line \in Bytes /\ sent = <<>> /\ IsSequence(sent) /\ Len(sent) = 0
  <2>1. <<>> \in Seq(Byte) /\ Len(<<>>) = 0
    OBVIOUS
  <2>. QED  BY <2>1 DEF Init, Bytes, IsSequence
<1>7. budget \in 0..MaxFrames /\ size \in 0..Capacity /\ fill \in Byte
      /\ buf \in [1..Capacity -> Byte] /\ ~Decoded
  BY LinkAssumption DEF Init, Decoded
<1>8. LinkOf(s)
  BY <1>3, <1>4, <1>5, <1>6, <1>7 DEF LinkOf
<1>. QED  BY <1>8 DEF LinkInv

-----------------------------------------------------------------------------
(* What the sender writes                                                   *)

LEMMA ControlType ==
  ASSUME NEW s, NEW f, IsOwn(f, s)
  PROVE  Control(f.h) \in Byte
<1>. DEFINE t == f.h.type
            r == f.h.rrr
            q == f.h.sss
<1>1. t \in {"I", "RR", "SNRM", "UA"} /\ (t \in {"I", "RR"} => r \in 0..7 /\ q \in 0..7)
  BY DEF IsOwn
<1>2. /\ t = "I" => Control(f.h) = 32 * r + 2 * q + 16
      /\ t = "RR" => Control(f.h) = 32 * r + 17
      /\ t = "SNRM" => Control(f.h) = 147
      /\ t = "UA" => Control(f.h) = 115
  BY DEF Control, InfoField, ReadyField, SnrmField
<1>. HIDE DEF t, r, q
<1>3. CASE t = "I"
  BY <1>1, <1>2, <1>3 DEF Byte
<1>4. CASE t = "RR"
  BY <1>1, <1>2, <1>4 DEF Byte
<1>5. CASE t \in {"SNRM", "UA"}
  BY <1>2, <1>5 DEF Byte
<1>. QED  BY <1>1, <1>3, <1>4, <1>5

LEMMA WireOfSent ==
  ASSUME NEW s, StationFits(s), NEW f, IsOwn(f, s)
  PROVE  IsWire(Wire(f), Dest(f.h) \o Source(f.h), Control(f.h), f.info)
<1>1. Control(f.h) \in Byte
  BY ControlType
<1>2. IsOf(f.h, s) /\ f.info \in Bytes /\ Len(f.info) <= MaxInfo
  BY DEF IsOwn
<1>. QED  BY <1>1, <1>2, EncodeIs DEF Wire, IsOwn

\* A step of the sender: the bytes of one more frame are on the line.
Sends(s) ==
    /\ phase = "waiting" /\ UNCHANGED <<receiver, hurt>>
    /\ IsHdlc(tx') /\ IsOf(tx', s) /\ budget' \in 0..MaxFrames
    /\ \E f : IsSent(f, s) /\ sent' = Append(sent, f) /\ line' = line \o Wire(f)

\* A frame that station s may send.
IsSendable(type, cf, info, opts, h, s) ==
    /\ IsHdlc(h) /\ IsOf(h, s) /\ type \in {"I", "RR", "SNRM", "UA"}
    /\ type = "I" => cf = InfoField(h.rrr, h.sss)
    /\ type = "RR" => cf = ReadyField(h.rrr) /\ h.sss = 0
    /\ type = "SNRM" => cf = SnrmField
    /\ type = "UA" => cf = 115
    /\ type \in {"I", "RR"} => h.rrr \in 0..7 /\ h.sss \in 0..7
    /\ info \in Bytes /\ Len(info) <= MaxInfo
    /\ opts # <<>> => AreOptions(opts) /\ info = OptionField(opts)

LEMMA SendIs ==
  ASSUME NEW s, LinkOf(s), NEW type, NEW cf, NEW info, NEW opts, NEW h,
         Send(type, cf, info, opts, h), IsSendable(type, cf, info, opts, h, s)
  PROVE  Sends(s)
<1>. DEFINE t == [h EXCEPT !.type = type]
            l == Len(Encode(h, cf, info))
            f == [own |-> TRUE, h |-> t, info |-> info, opts |-> opts, len |-> l]
<1>1. IsHdlc(t) /\ IsOf(t, s) /\ t.type = type /\ t.rrr = h.rrr /\ t.sss = h.sss
  BY DEF IsSendable, IsHdlc, IsOf
<1>2. tx' = t /\ sent' = Append(sent, f) /\ line' = line \o Encode(h, cf, info)
      /\ phase = "waiting" /\ budget > 0 /\ budget' = budget - 1 /\ UNCHANGED <<receiver, hurt>>
  BY DEF Send
<1>3. f.own = TRUE /\ f.h = t /\ f.info = info /\ f.opts = opts /\ f.len = l
  OBVIOUS
<1>4. Encode(t, cf, info) = Encode(h, cf, info)
  <2>1. Addresses(t) = Addresses(h)
    BY <1>1 DEF IsSendable, IsOf, Addresses
  <2>. HIDE DEF t
  <2>. QED  BY <2>1 DEF Encode
<1>. HIDE DEF t, f, l
<1>5. Control(t) = cf
  BY <1>1 DEF Control, IsSendable
<1>6. Wire(f) = Encode(h, cf, info)
  BY <1>3, <1>4, <1>5 DEF Wire
<1>7. IsSent(f, s)
  BY <1>1, <1>3, <1>6 DEF IsOwn, IsSent, IsSendable, l
<1>8. budget' \in 0..MaxFrames
  BY <1>2, LinkAssumption DEF LinkOf
<1>. QED  BY <1>1, <1>2, <1>6, <1>7, <1>8 DEF Sends

LEMMA NumberedIs ==
  ASSUME NEW s, LinkOf(s), budget > 0
  PROVE  IsHdlc(Numbered) /\ IsOf(Numbered, s) /\ Numbered.rrr \in 0..7 /\ Numbered.sss \in 0..7
<1>. DEFINE x == (MaxFrames - budget) % 8
            y == 7 - ((budget - 1) % 8)
            k == [tx EXCEPT !.sss = x]
            m == [k EXCEPT !.rrr = y]
<1>1. x \in 0..7 /\ y \in 0..7
  <2>1. budget \in Nat /\ MaxFrames - budget \in Nat /\ budget - 1 \in Nat
    BY LinkAssumption DEF LinkOf
  <2>. QED  BY <2>1
<1>2. m = Numbered
  BY DEF Numbered
<1>. HIDE DEF x, y
<1>3. IsHdlc(k) /\ IsOf(k, s) /\ k.sss = x
  BY DEF LinkOf, IsHdlc, IsOf
<1>. HIDE DEF k
<1>4. IsHdlc(m) /\ IsOf(m, s) /\ m.sss = x /\ m.rrr = y
  BY <1>3 DEF IsHdlc, IsOf
<1>. HIDE DEF m
<1>. QED  BY <1>1, <1>2, <1>4

LEMMA SendDataSends ==
  ASSUME NEW s, LinkOf(s), SendData
  PROVE  Sends(s)
<1>. DEFINE h == Numbered
            cf == InfoField(h.rrr, h.sss)
<1>1. PICK info \in Payloads : Send("I", cf, info, <<>>, h)
  BY DEF SendData
<1>2. budget > 0
  BY <1>1 DEF Send
<1>3. info \in Bytes /\ Len(info) <= MaxInfo
  BY LinkAssumption DEF Bytes
<1>4. IsHdlc(h) /\ IsOf(h, s) /\ h.rrr \in 0..7 /\ h.sss \in 0..7
  BY <1>2, NumberedIs
<1>. HIDE DEF h
<1>5. IsSendable("I", cf, info, <<>>, h, s)
  BY <1>3, <1>4 DEF IsSendable
<1>. QED  BY <1>1, <1>5, SendIs

LEMMA SendReadySends ==
  ASSUME NEW s, LinkOf(s), SendReady
  PROVE  Sends(s)
<1>. DEFINE g == Numbered
            h == [g EXCEPT !.sss = 0]
            cf == ReadyField(g.rrr)
            none == <<>>
<1>1. Send("RR", cf, none, none, h)
  BY DEF SendReady
<1>2. budget > 0
  BY <1>1 DEF Send
<1>3. none \in Bytes /\ Len(none) <= MaxInfo /\ ~(none # <<>>)
  BY DEF Bytes, MaxInfo
<1>4. IsHdlc(g) /\ IsOf(g, s) /\ g.rrr \in 0..7
  BY <1>2, NumberedIs
<1>. HIDE DEF g, none
<1>5. IsHdlc(h) /\ IsOf(h, s) /\ h.rrr = g.rrr /\ h.sss = 0
  BY <1>4 DEF IsHdlc, IsOf
<1>. HIDE DEF h
<1>6. IsSendable("RR", cf, none, none, h, s)
  BY <1>3, <1>4, <1>5 DEF IsSendable
<1>. QED  BY <1>1, <1>6, SendIs

LEMMA SnrmOptionsAre ==
  AreOptions(SnrmOptions) /\ SnrmOptions # <<>> /\ SnrmNego = OptionField(SnrmOptions)
  /\ SnrmNego \in Bytes /\ Len(SnrmNego) <= MaxInfo
<1>1. /\ IsOption(Option(5, 1, 128)) /\ IsOption(Option(6, 1, 128))
      /\ IsOption(Option(7, 4, 1)) /\ IsOption(Option(8, 4, 7))
  BY DEF Option, IsOption, OptionFits, Byte, Word
<1>. DEFINE a == Option(5, 1, 128)
            b == Option(6, 1, 128)
            c == Option(7, 4, 1)
            d == Option(8, 4, 7)
<1>2. SnrmOptions = << a, b, c, d >>
  BY DEF SnrmOptions
<1>. HIDE DEF a, b, c, d
<1>3. AreOptions(SnrmOptions) /\ SnrmOptions # <<>>
  <2>1. Len(SnrmOptions) = 4 /\ DOMAIN SnrmOptions = 1..4
        /\ SnrmOptions[1] = a /\ SnrmOptions[2] = b /\ SnrmOptions[3] = c /\ SnrmOptions[4] = d
    BY <1>2
  <2>2. SnrmOptions # <<>>
    BY <2>1
  <2>. QED  BY <1>1, <2>1, <2>2 DEF AreOptions, a, b, c, d
<1>4. SnrmNego \in Bytes /\ Len(SnrmNego) = 21
  BY DEF SnrmNego, Bytes, Byte
<1>. QED  BY <1>3, <1>4, SnrmAssumption DEF MaxInfo

LEMMA SendSnrmSends ==
  ASSUME NEW s, LinkOf(s), SendSnrm
  PROVE  Sends(s)
<1>1. Send("SNRM", SnrmField, SnrmNego, SnrmOptions, tx)
  BY DEF SendSnrm
<1>2. IsSendable("SNRM", SnrmField, SnrmNego, SnrmOptions, tx, s)
  BY SnrmOptionsAre DEF IsSendable, LinkOf
<1>. QED  BY <1>1, <1>2, SendIs

LEMMA OptionListsAre ==
  ASSUME NEW opts \in OptionLists
  PROVE  /\ opts # <<>> => AreOptions(opts)
         /\ OptionField(opts) \in Bytes /\ Len(OptionField(opts)) <= MaxInfo
<1>1. opts \in Seq(Options) /\ (\A i \in DOMAIN opts : OptionFits(opts[i]))
      /\ Len(OptionField(opts)) <= MaxInfo
  BY LinkAssumption
<1>2. AreOptions(opts)
  <2>1. Len(opts) \in Nat /\ DOMAIN opts = 1..Len(opts) /\ \A i \in 1..Len(opts) : opts[i] \in Options
    BY <1>1
  <2>2. ASSUME NEW o \in Options, OptionFits(o)
        PROVE  IsOption(o)
    <3>1. o.tag \in Byte /\ o.width \in {1, 2, 4} /\ o.value \in Nat
      BY DEF Options
    <3>2. o.value \in Word
      BY <2>2, <3>1 DEF OptionFits, Word
    <3>. QED  BY <2>2, <3>1, <3>2 DEF IsOption
  <2>. QED  BY <1>1, <2>1, <2>2 DEF AreOptions
<1>3. OptionField(opts) \in Bytes
  <2>1. CASE opts = <<>>
    <3>1. OptionField(opts) = <<>>
      BY <2>1 DEF OptionField
    <3>2. <<>> \in Seq(Byte)
      OBVIOUS
    <3>. QED  BY <3>1, <3>2 DEF Bytes
  <2>2. CASE opts # <<>>
    <3>1. PICK at : IsField(OptionField(opts), opts, at)
      BY <1>1, <1>2, <2>2, FieldIs
    <3>. QED  BY <3>1 DEF IsField
  <2>. QED  BY <2>1, <2>2
<1>. QED  BY <1>1, <1>2, <1>3

LEMMA SendUaSends ==
  ASSUME NEW s, LinkOf(s), SendUa
  PROVE  Sends(s)
<1>1. PICK opts \in OptionLists : Send("UA", 115, OptionField(opts), opts, tx)
  BY DEF SendUa
<1>2. IsSendable("UA", 115, OptionField(opts), opts, tx, s)
  BY OptionListsAre DEF IsSendable, LinkOf
<1>. QED  BY <1>1, <1>2, SendIs

LEMMA SendOtherSends ==
  ASSUME NEW s, LinkOf(s), SendOther
  PROVE  Sends(s)
<1>1. PICK frame \in Others :
          /\ sent' = Append(sent, [own |-> FALSE, h |-> tx, info |-> frame, opts |-> <<>>,
                                  len |-> Len(frame)])
          /\ line' = line \o frame
  BY DEF SendOther
<1>. DEFINE l == Len(frame)
            f == [own |-> FALSE, h |-> tx, info |-> frame, opts |-> <<>>, len |-> l]
<1>2. OtherFits(frame)
  BY LinkAssumption
<1>3. f.own = FALSE /\ f.info = frame /\ f.opts = <<>> /\ f.len = l
  OBVIOUS
<1>4. sent' = Append(sent, f) /\ line' = line \o frame
  BY <1>1
<1>. HIDE DEF f, l
<1>5. IsSent(f, s)
  BY <1>2, <1>3 DEF IsSent, IsOther, l
<1>6. Wire(f) = frame
  BY <1>3 DEF Wire
<1>7. /\ phase = "waiting" /\ UNCHANGED <<receiver, hurt>> /\ tx' = tx
      /\ budget > 0 /\ budget' = budget - 1
  BY DEF SendOther
<1>8. IsHdlc(tx') /\ IsOf(tx', s) /\ budget' \in 0..MaxFrames
  BY <1>7, LinkAssumption DEF LinkOf
<1>. QED  BY <1>4, <1>5, <1>6, <1>7, <1>8 DEF Sends

\* The bytes of a frame of others.
LEMMA OtherIs ==
  ASSUME NEW f, IsOther(f)
  PROVE  /\ Wire(f) = f.info /\ Wire(f) \in Bytes /\ f.len = Len(Wire(f)) /\ f.len \in 9..142
         /\ Wire(f)[1] = FLAG /\ HasFormat(Wire(f)[2]) /\ FrameSize(Wire(f)) = Len(Wire(f))
         /\ Checks(Wire(f), Len(Wire(f)) - 3) /\ Wire(f)[Len(Wire(f))] = FLAG
<1>1. Wire(f) = f.info /\ OtherFits(f.info) /\ f.len = Len(f.info)
  BY DEF IsOther, Wire
<1>2. MaxInfo + 14 = 142
  BY DEF MaxInfo
<1>. QED  BY <1>1, <1>2 DEF OtherFits, Bytes

\* The frames after some of those sent.
LEMMA AfterIs ==
  ASSUME NEW s, LinkOf(s), NEW F, F \subseteq DOMAIN sent
  PROVE  IsSequence(After(F)) /\ \A i \in 1..Len(After(F)) : IsSent(After(F)[i], s)
<1>. DEFINE t == After(F)
            n == Lowest(F)
<1>1. IsSequence(sent) /\ \A i \in 1..Len(sent) : IsSent(sent[i], s)
  BY DEF LinkOf
<1>2. Len(sent) \in Nat /\ DOMAIN sent = 1..Len(sent)
  BY <1>1, SequenceIs
<1>3. CASE F = {}
  BY <1>1, <1>3 DEF After
<1>4. CASE F # {}
  <2>1. F \in SUBSET Nat
    BY <1>2
  <2>2. n \in 1..Len(sent)
    BY <1>2, <1>4, <2>1, LowestIn
  <2>3. t = SubSeq(sent, n + 1, Len(sent))
    BY <1>4 DEF After
  <2>. HIDE DEF t, n
  <2>4. AreRest(t, sent, n)
    BY <1>1, <1>2, <2>2, <2>3, RestIs
  <2>5. ASSUME NEW i \in 1..Len(t)
        PROVE  IsSent(t[i], s)
    <3>1. i \in 1..Len(sent) - n /\ n + i \in 1..Len(sent)
      BY <1>2, <2>2, <2>4 DEF AreRest
    <3>. QED  BY <1>1, <2>4, <3>1 DEF AreRest
  <2>6. IsSequence(t)
    BY <2>4 DEF AreRest
  <2>. QED  BY <2>5, <2>6 DEF t
<1>. QED  BY <1>3, <1>4

-----------------------------------------------------------------------------
(* The state of a link is kept                                              *)

LEMMA ShiftedType ==
  ASSUME buf \in [1..Capacity -> Byte], size \in 0..Capacity, NEW n \in Nat
  PROVE  Shifted(n) \in [1..Capacity -> Byte]
<1>1. ASSUME NEW i \in 1..Capacity, i + n <= size
      PROVE  i + n \in 1..Capacity
  BY <1>1, LinkAssumption
<1>. QED  BY <1>1 DEF Shifted

LEMMA NextFlagType ==
  ASSUME size \in 0..Capacity
  PROVE  NextFlag \in 0..size
<1>. DEFINE flags == {i \in 2..size : buf[i] = FLAG}
<1>1. NextFlag = IF flags = {} THEN size ELSE Lowest(flags) - 1
  BY DEF NextFlag
<1>2. size \in Nat /\ flags \in SUBSET Nat /\ flags \subseteq 2..size
  BY LinkAssumption
<1>. HIDE DEF flags
<1>3. flags # {} => Lowest(flags) \in 2..size
  BY <1>2, LowestIn
<1>. QED  BY <1>1, <1>2, <1>3

LEMMA DamageIs ==
  ASSUME Damage, line \in Bytes
  PROVE  line' \in Bytes /\ hurt' = TRUE /\ UNCHANGED <<sender, receiver>> /\ phase = "waiting"
<1>1. ASSUME NEW i \in DOMAIN line, NEW p \in Faults, line' = [line EXCEPT ![i] = (@ + p) % 256]
      PROVE  line' \in Bytes
  <2>1. line \in Seq(Byte) /\ i \in 1..Len(line) /\ p \in Nat /\ line[i] \in Byte
    BY LinkAssumption DEF Bytes
  <2>. DEFINE x == (line[i] + p) % 256
  <2>2. x \in Byte
    <3>. DEFINE v == line[i]
    <3>1. v \in Nat
      <4>1. v \in Byte
        BY <2>1
      <4>. HIDE DEF v
      <4>. QED  BY <4>1 DEF Byte
    <3>2. p \in Nat
      BY <2>1
    <3>. HIDE DEF v
    <3>3. (v + p) % 256 \in Byte
      BY <3>1, <3>2 DEF Byte
    <3>. QED  BY <3>3 DEF v
  <2>3. line' = [line EXCEPT ![i] = x]
    BY <1>1
  <2>. HIDE DEF x
  <2>4. [line EXCEPT ![i] = x] \in Seq(Byte)
    BY <2>1, <2>2
  <2>. QED  BY <2>3, <2>4 DEF Bytes
<1>2. ASSUME NEW i \in DOMAIN line, line' = SubSeq(line, 1, i - 1) \o SubSeq(line, i + 1, Len(line))
      PROVE  line' \in Bytes
  <2>1. line \in Seq(Byte) /\ i \in 1..Len(line) /\ Len(line) \in Nat
    BY DEF Bytes
  <2>2. SubSeq(line, 1, i - 1) \in Seq(Byte) /\ SubSeq(line, i + 1, Len(line)) \in Seq(Byte)
    BY <2>1
  <2>3. SubSeq(line, 1, i - 1) \o SubSeq(line, i + 1, Len(line)) \in Seq(Byte)
    BY <2>2, ConcatProperties
  <2>. QED  BY <1>2, <2>3 DEF Bytes
<1>3. line' \in Bytes
  BY <1>1, <1>2 DEF Damage
<1>. QED  BY <1>3 DEF Damage

\* n bytes move from the line into the buffer.
Delivers(n) ==
    /\ phase = "waiting" /\ n \in 1..Len(line) /\ size + n <= Capacity
    /\ size' = size + n /\ phase' = "decoding"
    /\ buf' = [i \in 1..Capacity |-> IF i \in size + 1..size + n THEN line[i - size] ELSE buf[i]]
    /\ buf' \in [1..Capacity -> Byte]
    /\ line' \in Bytes /\ Len(line') = Len(line) - n
    /\ \A i \in 1..Len(line) - n : line'[i] = line[n + i]
    /\ UNCHANGED <<sender, hurt, rx, fill, last, loop>>

LEMMA DeliverIs ==
  ASSUME NEW most \in Chunks, Deliver(most), line \in Bytes, buf \in [1..Capacity -> Byte],
         size \in 0..Capacity
  PROVE  \E n : Delivers(n)
<1>. DEFINE l == Len(line)
            n == IF l < most THEN l ELSE most
<1>1. l \in Nat /\ most \in Nat /\ size \in Nat /\ Capacity \in Nat
  BY LinkAssumption, LenIs
<1>2. /\ phase = "waiting" /\ n > 0 /\ size + n <= Capacity
      /\ buf' = [i \in 1..Capacity |-> IF i \in size + 1..size + n THEN line[i - size] ELSE buf[i]]
      /\ size' = size + n /\ line' = SubSeq(line, n + 1, Len(line)) /\ phase' = "decoding"
      /\ UNCHANGED <<sender, hurt, rx, fill, last, loop>>
  BY DEF Deliver
<1>. HIDE DEF l
<1>3. n \in 1..l
  BY <1>1, <1>2
<1>. HIDE DEF n
<1>4. buf' \in [1..Capacity -> Byte]
  <2>1. ASSUME NEW i \in size + 1..size + n
        PROVE  line[i - size] \in Byte
    <3>1. i - size \in 1..l
      BY <1>1, <1>3
    <3>. QED  BY <3>1 DEF Bytes, l
  <2>. QED  BY <1>2, <2>1
<1>5. /\ line' \in Bytes /\ Len(line') = l - n
      /\ \A i \in 1..l - n : line'[i] = line[n + i]
  <2>1. line \in Seq(Byte) /\ IsSequence(line)
    BY DEF Bytes, IsSequence
  <2>2. AreRest(line', line, n)
    BY <1>2, <1>3, <2>1, RestIs DEF l
  <2>3. line' \in Seq(Byte)
    <3>1. n + 1 \in 1..Len(line) + 1 /\ Len(line) \in (n + 1) - 1..Len(line)
      BY <1>1, <1>3 DEF l
    <3>2. SubSeq(line, n + 1, Len(line)) \in Seq(Byte)
      BY <2>1, <3>1, SubSeqProperties
    <3>. QED  BY <1>2, <3>2
  <2>. QED  BY <2>2, <2>3 DEF AreRest, Bytes, l
<1>6. Delivers(n)
  BY <1>2, <1>3, <1>4, <1>5 DEF Delivers, l
<1>. QED  BY <1>6

\* An option that is applied changes none of what the decoder wrote.
SameFrame(g, h) ==
    /\ IsHdlc(g) /\ g.sender = h.sender /\ g.frame_size = h.frame_size /\ g.type = h.type
    /\ g.data_index = h.data_index /\ g.data_size = h.data_size
    /\ g.logical_device = h.logical_device /\ g.phy_address = h.phy_address
    /\ g.client_addr = h.client_addr /\ g.addr_len = h.addr_len
    /\ g.rrr = h.rrr /\ g.sss = h.sss

LEMMA AppliedIs ==
  ASSUME NEW h, IsHdlc(h), NEW tag \in Known, NEW opt
  PROVE  SameFrame(Applied(h, tag, opt), h)
<1>. DEFINE v == opt % 65536
            w == opt % 256
<1>1. Applied(h, tag, opt) \in {[h EXCEPT !.max_info_field_tx = v], [h EXCEPT !.max_info_field_rx = v],
                                [h EXCEPT !.window_tx = w], [h EXCEPT !.window_rx = w]}
  BY DEF Applied, Known
<1>. HIDE DEF v, w
<1>2. /\ SameFrame([h EXCEPT !.max_info_field_tx = v], h)
      /\ SameFrame([h EXCEPT !.max_info_field_rx = v], h)
      /\ SameFrame([h EXCEPT !.window_tx = w], h) /\ SameFrame([h EXCEPT !.window_rx = w], h)
  BY DEF IsHdlc, SameFrame
<1>. QED  BY <1>1, <1>2

LEMMA LinkStep ==
  ASSUME LinkInv, [Next]_vars
  PROVE  LinkInv'
<1>1. PICK s \in Stations : LinkOf(s)
  BY DEF LinkInv
<1>2. SUFFICES LinkOf(s)'
  BY DEF LinkInv
<1>3. size \in Nat /\ Capacity \in Nat
  BY <1>1, LinkAssumption DEF LinkOf
<1>4. CASE Sends(s)
  <2>1. PICK f : IsSent(f, s) /\ sent' = Append(sent, f) /\ line' = line \o Wire(f)
    BY <1>4 DEF Sends
  <2>2. Wire(f) \in Bytes
    <3>1. StationFits(s)
      BY LinkAssumption
    <3>2. IsOwn(f, s) => Wire(f) \in Bytes
      BY <3>1, WireOfSent DEF IsWire
    <3>. QED  BY <2>1, <3>2, OtherIs DEF IsSent
  <2>3. line' \in Bytes
    <3>1. AreJoined(line \o Wire(f), line, Wire(f))
      BY <1>1, <2>2, JoinedAre DEF LinkOf
    <3>. QED  BY <2>1, <3>1 DEF AreJoined
  <2>4. IsSequence(sent') /\ \A i \in 1..Len(sent') : IsSent(sent'[i], s)
    <3>1. AreAppended(sent', sent, f) /\ Len(sent) \in Nat
      BY <1>1, <2>1, AppendIs, SequenceIs DEF LinkOf
    <3>2. ASSUME NEW i \in 1..Len(sent')
          PROVE  IsSent(sent'[i], s)
      <4>1. i \in 1..Len(sent) \/ i = Len(sent) + 1
        BY <3>1 DEF AreAppended
      <4>. QED  BY <1>1, <2>1, <3>1, <4>1 DEF AreAppended, LinkOf
    <3>. QED  BY <3>1, <3>2 DEF AreAppended
  <2>. QED  BY <1>1, <1>4, <2>3, <2>4 DEF Sends, LinkOf, receiver, Decoded
<1>5. CASE Damage
  <2>1. line' \in Bytes /\ UNCHANGED <<sender, receiver>>
    BY <1>1, <1>5, DamageIs DEF LinkOf
  <2>. QED  BY <1>1, <2>1 DEF LinkOf, sender, receiver, Decoded
<1>6. ASSUME NEW most \in Chunks, Deliver(most)
      PROVE  LinkOf(s)'
  <2>1. PICK n : Delivers(n)
    BY <1>1, <1>6, DeliverIs DEF LinkOf
  <2>2. size' \in 0..Capacity /\ ~Decoded'
    BY <1>1, <1>3, <2>1, LenIs DEF Delivers, Decoded, LinkOf
  <2>. QED  BY <1>1, <2>1, <2>2 DEF Delivers, LinkOf, sender
<1>7. CASE Wait
  BY <1>1, <1>7 DEF Wait, LinkOf, sender, Decoded
<1>8. CASE Receive
  <2>. DEFINE r == Decode(rx, buf, size)
              n == r.h.frame_size
  <2>1. /\ size >= 3 /\ rx' = r.h
        /\ \/ r.ret = "OK" /\ UNCHANGED <<sent, buf, size>>
           \/ r.ret = "ERR_SIZE" /\ phase' = "waiting" /\ UNCHANGED <<sent, buf, size>>
           \/ /\ r.ret \in Refusals /\ phase = "decoding" /\ phase' = phase
              /\ buf' = Shifted(n) /\ size' = size - n /\ sent' = After(AtFront(n))
           \/ /\ phase = "decoding" /\ phase' = phase
              /\ buf' = Shifted(NextFlag) /\ size' = size - NextFlag /\ UNCHANGED sent
        /\ UNCHANGED <<tx, budget, line, hurt, fill, loop>>
    BY <1>8 DEF Receive
  <2>2. IsDecoded(r, rx, size)
    BY <1>1, <1>3, <2>1, DecodeType DEF LinkOf
  <2>. HIDE DEF r
  <2>3. IsHdlc(rx') /\ Window(rx', Capacity) /\ rx'.sender = s.sender
    BY <1>1, <2>1, <2>2 DEF IsDecoded, LinkOf
  <2>4. r.ret \in Refusals => n \in 0..size
    BY <1>3, <2>2 DEF IsDecoded, Window
  <2>5. buf' \in [1..Capacity -> Byte] /\ size' \in 0..Capacity
    <3>1. buf \in [1..Capacity -> Byte] /\ size \in 0..Capacity
      BY <1>1 DEF LinkOf
    <3>. HIDE DEF n
    <3>2. ASSUME NEW k \in 0..size
          PROVE  Shifted(k) \in [1..Capacity -> Byte] /\ size - k \in 0..Capacity
      BY <1>3, <3>1, ShiftedType
    <3>3. NextFlag \in 0..size
      BY <3>1, NextFlagType
    <3>. QED  BY <2>1, <2>4, <3>1, <3>2, <3>3
  <2>6. IsSequence(sent') /\ \A i \in 1..Len(sent') : IsSent(sent'[i], s)
    <3>1. AtFront(n) \subseteq DOMAIN sent
      BY DEF AtFront
    <3>. HIDE DEF n
    <3>2. CASE sent' = sent
      BY <1>1, <3>2 DEF LinkOf
    <3>3. CASE sent' = After(AtFront(n))
      BY <1>1, <3>1, <3>3, AfterIs
    <3>. QED  BY <2>1, <3>2, <3>3
  <2>7. Decoded' => rx'.frame_size <= size'
    BY <2>1, <2>2 DEF IsDecoded, Decoded
  <2>8. IsHdlc(tx) /\ IsOf(tx, s) /\ budget \in 0..MaxFrames /\ line \in Bytes /\ fill \in Byte
        /\ UNCHANGED <<tx, budget, line, fill>>
    BY <1>1, <2>1 DEF LinkOf
  <2>. HIDE DEF n
  <2>. QED  BY <2>3, <2>5, <2>6, <2>7, <2>8 DEF LinkOf
<1>9. CASE GiveUp
  <2>1. buf' \in [1..Capacity -> Byte] /\ size' \in 0..Capacity
    BY <1>1, <1>3, <1>9, NextFlagType, ShiftedType DEF GiveUp, LinkOf
  <2>. QED  BY <1>1, <1>9, <2>1 DEF GiveUp, LinkOf, sender, Decoded
<1>10. CASE Negotiate
  BY <1>1, <1>10 DEF Negotiate, LinkOf, sender, Decoded
<1>11. CASE NextOption
  <2>1. rx' = rx \/ \E tag \in Known : \E opt : rx' = Applied(rx, tag, opt)
    BY <1>11 DEF NextOption
  <2>2. SameFrame(rx', rx)
    BY <1>1, <2>1, AppliedIs DEF LinkOf, SameFrame
  <2>3. IsHdlc(rx') /\ rx'.sender = s.sender /\ Window(rx', Capacity) /\ rx'.frame_size = rx.frame_size
    BY <1>1, <2>2 DEF LinkOf, SameFrame, Window
  <2>. QED  BY <1>1, <1>11, <2>3 DEF NextOption, LinkOf, sender, Decoded
<1>12. CASE Consume
  <2>1. rx.frame_size \in 0..size
    BY <1>1, <1>3, <1>12 DEF Consume, Decoded, LinkOf, Window
  <2>2. buf' \in [1..Capacity -> Byte] /\ size' \in 0..Capacity
    <3>1. buf' = Shifted(rx.frame_size) /\ size' = size - rx.frame_size
      BY <1>12 DEF Consume
    <3>2. size - rx.frame_size \in 0..Capacity
      BY <1>1, <1>3, <2>1 DEF LinkOf
    <3>. QED  BY <1>1, <2>1, <3>1, <3>2, ShiftedType DEF LinkOf
  <2>3. IsSequence(sent') /\ \A i \in 1..Len(sent') : IsSent(sent'[i], s)
    <3>1. Found \subseteq DOMAIN sent /\ sent' = After(Found)
      BY <1>12 DEF Consume, Found, AtFront
    <3>. QED  BY <1>1, <3>1, AfterIs
  <2>. QED  BY <1>1, <1>12, <2>2, <2>3 DEF Consume, LinkOf, Decoded
<1>13. CASE UNCHANGED vars
  BY <1>1, <1>13 DEF vars, LinkOf, Decoded
<1>14. SendData \/ SendReady \/ SendSnrm \/ SendUa \/ SendOther => Sends(s)
  BY <1>1, SendDataSends, SendReadySends, SendSnrmSends, SendUaSends, SendOtherSends
<1>. QED  BY <1>4, <1>5, <1>6, <1>7, <1>8, <1>9, <1>10, <1>11, <1>12, <1>13, <1>14 DEF Next

-----------------------------------------------------------------------------
(* The negotiation                                                          *)

LEMMA BufferIs ==
  ASSUME buf \in [1..Capacity -> Byte]
  PROVE  IsSequence(buf) /\ Len(buf) = Capacity
<1>1. Capacity \in Nat
  BY LinkAssumption
<1>2. buf \in Seq(Byte)
  BY <1>1, SeqDef
<1>3. DOMAIN buf = 1..Len(buf) /\ Len(buf) \in Nat
  BY <1>2
<1>4. 1..Len(buf) = 1..Capacity
  BY <1>3
<1>. DEFINE l == Len(buf)
<1>5. l \in Nat /\ 1..l = 1..Capacity
  BY <1>3, <1>4
<1>. HIDE DEF l
<1>6. l = Capacity
  <2>1. \A i \in Nat : (1 <= i /\ i <= l) <=> (1 <= i /\ i <= Capacity)
    BY <1>1, <1>5
  <2>2. ~(l < Capacity) /\ ~(Capacity < l)
    BY <1>1, <1>5, <2>1
  <2>. QED  BY <1>1, <1>5, <2>2
<1>. QED  BY <1>2, <1>6 DEF IsSequence, l

\* The memory from the information field on is that field.
LEMMA MemIs ==
  ASSUME NEW s, LinkOf(s), NEW f, IsOwn(f, s), Describes(rx, f), f.info # <<>>,
         NEW i \in 1..Len(f.info)
  PROVE  Mem[i - 1] = f.info[i] /\ rx.data_size = Len(f.info)
<1>. DEFINE m == rx.data_index
            n == rx.data_size
<1>1. n = Len(f.info) /\ SubSeq(buf, m + 1, m + n) = f.info
  BY DEF Describes
<1>2. n \in Nat /\ n <= 128 /\ m \in Nat
  BY <1>1 DEF LinkOf, Window, IsOwn, MaxInfo
<1>3. m + n <= Capacity
  BY <1>2 DEF LinkOf, Window
<1>4. IsSequence(buf) /\ Len(buf) = Capacity
  BY BufferIs DEF LinkOf
<1>. HIDE DEF m, n
<1>5. ArePiece(f.info, buf, m, n)
  BY <1>1, <1>2, <1>3, <1>4, PieceIs
<1>6. i \in 1..n /\ i - 1 \in 0..258 /\ m + (i - 1) < Capacity /\ m + (i - 1) + 1 = m + i
  <2>1. Capacity \in Nat
    BY LinkAssumption
  <2>2. i \in 1..n
    BY <1>1
  <2>. QED  BY <1>2, <1>3, <2>1, <2>2
<1>7. Mem[i - 1] = buf[m + i]
  <2>. DEFINE k == i - 1
  <2>1. k \in 0..258 /\ m + k < Capacity /\ m + k + 1 = m + i
    BY <1>6
  <2>. HIDE DEF k
  <2>2. Mem[k] = IF m + k < Capacity THEN buf[m + k + 1] ELSE fill
    BY <2>1 DEF Mem, m
  <2>. QED  BY <2>1, <2>2 DEF k
<1>. QED  BY <1>1, <1>5, <1>6, <1>7 DEF ArePiece, n

LEMMA TagsDiffer ==
  ASSUME NEW opts, Complete(opts)
  PROVE  /\ \A i \in 1..4 : opts[i].tag \in Known
         /\ \A i, j \in 1..4 : i # j => opts[i].tag # opts[j].tag
<1>. DEFINE a == opts[1].tag
            b == opts[2].tag
            c == opts[3].tag
            d == opts[4].tag
<1>1. {a, b, c, d} = {opts[i].tag : i \in 1..4}
  OBVIOUS
<1>2. {a, b, c, d} = Known
  BY <1>1 DEF Complete
<1>. HIDE DEF a, b, c, d
<1>3. \A x : x \in {a, b, c, d} <=> x \in {5, 6, 7, 8}
  BY <1>2 DEF Known
<1>4. a # b /\ a # c /\ a # d /\ b # c /\ b # d /\ c # d
  <2>1. 5 \in {a, b, c, d} /\ 6 \in {a, b, c, d} /\ 7 \in {a, b, c, d} /\ 8 \in {a, b, c, d}
    BY <1>3
  <2>. QED  BY <2>1
<1>5. a \in Known /\ b \in Known /\ c \in Known /\ d \in Known
  BY <1>2
<1>. QED  BY <1>4, <1>5 DEF a, b, c, d

\* The option is stored where the receiver keeps it.
Holds(h, o) ==
    /\ o.tag = 5 => h.max_info_field_tx = o.value
    /\ o.tag = 6 => h.max_info_field_rx = o.value
    /\ o.tag = 7 => h.window_tx = o.value
    /\ o.tag = 8 => h.window_rx = o.value

LEMMA AppliedHolds ==
  ASSUME NEW h, IsHdlc(h), NEW o, IsOption(o), o.tag \in Known
  PROVE  /\ Holds(Applied(h, o.tag, o.value), o)
         /\ \A p : p.tag \in Known /\ p.tag # o.tag /\ Holds(h, p)
                     => Holds(Applied(h, o.tag, o.value), p)
<1>. DEFINE v == o.value
            x == v % 65536
            y == v % 256
            g == Applied(h, o.tag, v)
<1>1. x = v /\ (o.tag \in {7, 8} => y = v)
  <2>1. v \in Word /\ (o.tag \in {7, 8} => v <= 255)
    BY DEF IsOption, OptionFits
  <2>. HIDE DEF v
  <2>2. x = v
    BY <2>1 DEF Word
  <2>3. o.tag \in {7, 8} => y = v
    BY <2>1 DEF Word
  <2>. QED  BY <2>2, <2>3
<1>2. o.tag \in {5, 6, 7, 8}
  BY DEF Known
<1>3. CASE o.tag = 5
  <2>1. g = [h EXCEPT !.max_info_field_tx = x]
    BY <1>3 DEF Applied
  <2>. HIDE DEF x, g
  <2>2. g.max_info_field_tx = x /\ g.max_info_field_rx = h.max_info_field_rx
        /\ g.window_tx = h.window_tx /\ g.window_rx = h.window_rx
    BY <2>1 DEF IsHdlc
  <2>3. Holds(g, o)
    BY <1>1, <1>3, <2>2 DEF Holds
  <2>4. ASSUME NEW p, p.tag \in Known, p.tag # o.tag, Holds(h, p)
        PROVE  Holds(g, p)
    BY <1>3, <2>2, <2>4 DEF Holds, Known
  <2>. QED  BY <2>3, <2>4 DEF g
<1>4. CASE o.tag = 6
  <2>1. g = [h EXCEPT !.max_info_field_rx = x]
    BY <1>4 DEF Applied
  <2>. HIDE DEF x, g
  <2>2. g.max_info_field_tx = h.max_info_field_tx /\ g.max_info_field_rx = x
        /\ g.window_tx = h.window_tx /\ g.window_rx = h.window_rx
    BY <2>1 DEF IsHdlc
  <2>3. Holds(g, o)
    BY <1>1, <1>4, <2>2 DEF Holds
  <2>4. ASSUME NEW p, p.tag \in Known, p.tag # o.tag, Holds(h, p)
        PROVE  Holds(g, p)
    BY <1>4, <2>2, <2>4 DEF Holds, Known
  <2>. QED  BY <2>3, <2>4 DEF g
<1>5. CASE o.tag = 7
  <2>1. g = [h EXCEPT !.window_tx = y]
    BY <1>5 DEF Applied
  <2>. HIDE DEF y, g
  <2>2. g.max_info_field_tx = h.max_info_field_tx /\ g.max_info_field_rx = h.max_info_field_rx
        /\ g.window_tx = y /\ g.window_rx = h.window_rx
    BY <2>1 DEF IsHdlc
  <2>3. Holds(g, o)
    BY <1>1, <1>5, <2>2 DEF Holds
  <2>4. ASSUME NEW p, p.tag \in Known, p.tag # o.tag, Holds(h, p)
        PROVE  Holds(g, p)
    BY <1>5, <2>2, <2>4 DEF Holds, Known
  <2>. QED  BY <2>3, <2>4 DEF g
<1>6. CASE o.tag = 8
  <2>1. g = [h EXCEPT !.window_rx = y]
    BY <1>6 DEF Applied
  <2>. HIDE DEF y, g
  <2>2. g.max_info_field_tx = h.max_info_field_tx /\ g.max_info_field_rx = h.max_info_field_rx
        /\ g.window_tx = h.window_tx /\ g.window_rx = y
    BY <2>1 DEF IsHdlc
  <2>3. Holds(g, o)
    BY <1>1, <1>6, <2>2 DEF Holds
  <2>4. ASSUME NEW p, p.tag \in Known, p.tag # o.tag, Holds(h, p)
        PROVE  Holds(g, p)
    BY <1>6, <2>2, <2>4 DEF Holds, Known
  <2>. QED  BY <2>3, <2>4 DEF g
<1>. QED  BY <1>2, <1>3, <1>4, <1>5, <1>6

LEMMA OldestIs ==
  ASSUME NEW s, LinkOf(s), Found # {}, Complete(sent[Oldest].opts)
  PROVE  Describes(rx, sent[Oldest]) /\ IsOwn(sent[Oldest], s)
<1>1. Found \subseteq 1..Len(sent) /\ Len(sent) \in Nat
  BY SequenceIs DEF Found, AtFront, LinkOf
<1>2. Found \in SUBSET Nat
  BY <1>1
<1>3. Oldest \in Found
  BY <1>2, LowestIn DEF Oldest
<1>4. IsSent(sent[Oldest], s)
  BY <1>1, <1>3 DEF LinkOf
<1>5. sent[Oldest].opts # <<>>
  <2>. DEFINE o == sent[Oldest].opts
  <2>1. Len(o) = 4
    BY DEF Complete
  <2>. HIDE DEF o
  <2>2. Len(<<>>) = 0
    OBVIOUS
  <2>3. o # <<>>
    BY <2>1, <2>2
  <2>. QED  BY <2>3 DEF o
<1>6. IsOwn(sent[Oldest], s)
  BY <1>4, <1>5 DEF IsSent, IsOther
<1>7. sent[Oldest].own
  BY <1>6 DEF IsOwn
<1>. QED  BY <1>3, <1>6, <1>7 DEF Found, AtFront

LEMMA FieldOf ==
  ASSUME NEW s, NEW f, IsOwn(f, s), Complete(f.opts)
  PROVE  /\ f.info = OptionField(f.opts) /\ f.info # <<>> /\ Len(f.info) <= 128
         /\ AreOptions(f.opts) /\ Len(f.opts) = 4
         /\ \E at : IsField(f.info, f.opts, at)
<1>1. f.opts # <<>> /\ Len(f.opts) = 4
  <2>1. Len(f.opts) = 4 /\ Len(<<>>) = 0
    BY DEF Complete
  <2>. QED  BY <2>1
<1>2. AreOptions(f.opts) /\ f.info = OptionField(f.opts) /\ Len(f.info) <= MaxInfo
  BY <1>1 DEF IsOwn
<1>3. PICK at : IsField(f.info, f.opts, at)
  BY <1>1, <1>2, FieldIs
<1>4. f.info # <<>>
  <2>1. 1 \in 1..Len(f.opts)
    BY <1>1
  <2>2. at[1 - 1] \in Nat /\ at[1] = at[1 - 1] + 2 + f.opts[1].width /\ at[1] <= Len(f.info)
    BY <1>3, <2>1 DEF IsField
  <2>3. f.opts[1].width \in {1, 2, 4}
    BY <1>2, <2>1 DEF AreOptions, IsOption
  <2>4. Len(f.info) # 0
    <3>. DEFINE l == Len(f.info)
                w == f.opts[1].width
                p == at[0]
                q == at[1]
    <3>1. p \in Nat /\ q = p + 2 + w /\ q <= l /\ w \in {1, 2, 4}
      BY <2>2, <2>3
    <3>. HIDE DEF l, w, p, q
    <3>2. l # 0
      BY <3>1
    <3>. QED  BY <3>2 DEF l
  <2>5. Len(<<>>) = 0
    OBVIOUS
  <2>. QED  BY <2>4, <2>5
<1>. QED  BY <1>1, <1>2, <1>3, <1>4 DEF MaxInfo

LEMMA SmallIs ==
  ASSUME NEW x \in 0..255
  PROVE  x % 256 = x
OBVIOUS

\* One turn of the loop at the option k of a field that the memory holds.
IsRead(z, o, p, q) ==
    /\ Mem[p] = o.tag /\ Mem[(p + 1) % 256] = o.width
    /\ ReadOption(Mem, (p + 2) % 256, o.width) = o.value
    /\ (((p + 2) % 256) + o.width) % 256 = q

LEMMA OptionRead ==
  ASSUME NEW z, \A i \in 1..Len(z) : Mem[i - 1] = z[i], Len(z) \in Nat, Len(z) <= 128,
         NEW opts, AreOptions(opts), NEW at, IsField(z, opts, at), NEW k \in 1..Len(opts)
  PROVE  IsRead(z, opts[k], at[k - 1], at[k])
<1>. DEFINE o == opts[k]
            p == at[k - 1]
            q == at[k]
            w == o.width
            v == o.value
            l == Len(z)
<1>1. /\ p \in Nat /\ q = p + 2 + w /\ q <= l
      /\ z[p + 1] = o.tag /\ z[p + 2] = w /\ ValueIs(z, p + 2, o)
  BY DEF IsField
<1>2. w \in {1, 2, 4} /\ v \in Word
  BY DEF AreOptions, IsOption
<1>3. l \in Nat /\ l <= 128 /\ \A i \in 1..l : Mem[i - 1] = z[i]
  OBVIOUS
<1>. HIDE DEF o, p, q, l, w, v
<1>4. p + 1 <= l /\ p + 2 <= l /\ p + 2 + w <= 128
  BY <1>1, <1>2, <1>3
<1>5. Mem[p] = o.tag /\ Mem[p + 1] = w
  <2>1. p + 1 \in 1..l /\ p + 2 \in 1..l /\ (p + 1) - 1 = p /\ (p + 2) - 1 = p + 1
    BY <1>1, <1>3, <1>4
  <2>. QED  BY <1>1, <1>3, <2>1
<1>6. (p + 1) % 256 = p + 1 /\ (p + 2) % 256 = p + 2 /\ (p + 2 + w) % 256 = q
  <2>1. p + 1 \in 0..255 /\ p + 2 \in 0..255 /\ p + 2 + w \in 0..255
    BY <1>1, <1>2, <1>4
  <2>2. q = p + 2 + w
    BY <1>1
  <2>. QED  BY <2>1, <2>2, SmallIs
<1>7. ASSUME NEW j \in 0..w - 1
      PROVE  Mem[p + 2 + j] = z[(p + 2) + (j + 1)]
  <2>1. (p + 2) + (j + 1) \in 1..l /\ ((p + 2) + (j + 1)) - 1 = p + 2 + j
    BY <1>1, <1>2, <1>3
  <2>. QED  BY <1>3, <2>1
<1>8. ReadOption(Mem, p + 2, w) = v
  <2>1. CASE w = 1
    <3>1. Mem[p + 2 + 0] = z[(p + 2) + (0 + 1)]
      BY <1>7, <2>1
    <3>2. Mem[p + 2] = z[(p + 2) + 1]
      BY <1>1, <3>1
    <3>. QED  BY <1>1, <2>1, <3>2 DEF ReadOption, ValueIs, w, v
  <2>2. CASE w = 2
    <3>1. Mem[p + 2 + 0] = z[(p + 2) + (0 + 1)] /\ Mem[p + 2 + 1] = z[(p + 2) + (1 + 1)]
      BY <1>7, <2>2
    <3>2. Mem[p + 2] = z[(p + 2) + 1] /\ Mem[(p + 2) + 1] = z[(p + 2) + 2]
      BY <1>1, <3>1
    <3>. QED  BY <1>1, <2>2, <3>2 DEF ReadOption, ValueIs, w, v
  <2>3. CASE w = 4
    <3>1. Mem[p + 2 + 1] = z[(p + 2) + (1 + 1)] /\ Mem[p + 2 + 2] = z[(p + 2) + (2 + 1)]
          /\ Mem[p + 2 + 3] = z[(p + 2) + (3 + 1)]
      BY <1>7, <2>3
    <3>2. Mem[(p + 2) + 1] = z[(p + 2) + 2] /\ Mem[(p + 2) + 2] = z[(p + 2) + 3]
          /\ Mem[(p + 2) + 3] = z[(p + 2) + 4]
      BY <1>1, <3>1
    <3>. DEFINE n == p + 2
                a == z[n + 2]
                b == z[n + 3]
                c == z[n + 4]
    <3>3. a = 0 /\ 256 * b + c = v
      BY <1>1, <2>3 DEF ValueIs, w, v
    <3>4. ReadOption(Mem, n, w) = 65536 * a + 256 * b + c
      BY <2>3, <3>2 DEF ReadOption
    <3>. HIDE DEF a, b, c
    <3>5. 65536 * 0 = 0
      OBVIOUS
    <3>6. ReadOption(Mem, n, w) = 0 + 256 * b + c
      BY <3>3, <3>4, <3>5
    <3>7. b \in Int /\ c \in Int
      <4>1. z \in Bytes /\ p + 2 + 3 \in 1..l /\ p + 2 + 4 \in 1..l
        BY <1>1, <1>3, <2>3 DEF IsField
      <4>2. \A i \in 1..l : z[i] \in Byte
        BY <4>1 DEF Bytes, l
      <4>3. z[p + 2 + 3] \in Byte /\ z[p + 2 + 4] \in Byte
        BY <4>1, <4>2
      <4>4. b \in Byte /\ c \in Byte
        BY <4>3 DEF b, c
      <4>. QED  BY <4>4 DEF Byte
    <3>. QED  BY <3>3, <3>6, <3>7
  <2>. QED  BY <1>2, <2>1, <2>2, <2>3
<1>. QED  BY <1>5, <1>6, <1>8 DEF IsRead, o, p, q, w, v

\* What holds while the loop runs over a complete list of options: those behind it are stored,
\* and it is at the next one.
Follows(opts) ==
    /\ last = "OK" /\ loop.tags \in 0..4
    /\ phase = "negotiated" <=> loop.tags = 4
    /\ \E at : IsField(OptionField(opts), opts, at) /\ loop.index = at[loop.tags]
    /\ \A i \in 1..loop.tags : Holds(rx, opts[i])

NegoInv ==
    phase \in {"negotiating", "negotiated"} /\ Found # {} /\ Complete(sent[Oldest].opts)
      => Follows(sent[Oldest].opts)

\* The frame found is the same as long as the description, the buffer and the frames are.
LEMMA FoundKept ==
  ASSUME SameFrame(rx', rx), UNCHANGED <<buf, sent>>
  PROVE  Found' = Found /\ Oldest' = Oldest
<1>1. ASSUME NEW k \in DOMAIN sent
      PROVE  Describes(rx, sent[k])' <=> Describes(rx, sent[k])
  BY DEF Describes, SameFrame
<1>2. AtFront(rx.frame_size)' = AtFront(rx.frame_size)
  BY DEF AtFront, SameFrame
<1>. DEFINE D == {k \in DOMAIN sent : sent[k].own /\ Describes(rx, sent[k])}
<1>3. D' = D
  BY <1>1
<1>. HIDE DEF D
<1>4. Found = D \cup AtFront(rx.frame_size) /\ Found' = D' \cup AtFront(rx.frame_size)'
  BY DEF Found, D
<1>5. Found' = Found
  BY <1>2, <1>3, <1>4
<1>. QED  BY <1>5 DEF Oldest

LEMMA NegotiateFollows ==
  ASSUME NEW s, LinkOf(s), Negotiate, Found # {}, Complete(sent[Oldest].opts)
  PROVE  Follows(sent[Oldest].opts)'
<1>. DEFINE f == sent[Oldest]
            z == f.info
            opts == f.opts
<1>1. Describes(rx, f) /\ IsOwn(f, s)
  BY OldestIs
<1>2. SameFrame(rx', rx) /\ UNCHANGED <<buf, sent>>
  BY DEF Negotiate, LinkOf, SameFrame, sender
<1>3. Oldest' = Oldest /\ f' = f
  BY <1>2, FoundKept
<1>4. /\ z = OptionField(opts) /\ z # <<>> /\ AreOptions(opts) /\ Len(opts) = 4
      /\ \E at : IsField(z, opts, at)
  BY <1>1, FieldOf
<1>5. PICK at : IsField(z, opts, at)
  BY <1>4
<1>. HIDE DEF f
<1>6. Len(z) \in Nat /\ \A i \in 1..Len(z) : Mem[i - 1] = z[i] /\ rx.data_size = Len(z)
  <2>1. Len(z) \in Nat
    BY <1>5 DEF IsField
  <2>2. ASSUME NEW i \in 1..Len(z)
        PROVE  Mem[i - 1] = z[i] /\ rx.data_size = Len(z)
    BY <1>1, <1>4, MemIs
  <2>. QED  BY <2>1, <2>2
<1>. DEFINE l == Len(z)
<1>7. z[1] = 129 /\ z[2] = 128 /\ z[3] + 3 = l /\ at[0] = 3 /\ 3 <= l
  <2>1. z[1] = 129 /\ z[2] = 128 /\ z[3] + 3 = l /\ at[0] = 3 /\ 1 \in 1..Len(opts)
    BY <1>4, <1>5 DEF IsField
  <2>2. at[1 - 1] \in Nat /\ at[1] = at[1 - 1] + 2 + opts[1].width /\ at[1] <= l
    BY <1>5, <2>1 DEF IsField
  <2>3. opts[1].width \in {1, 2, 4}
    BY <1>4, <2>1 DEF AreOptions, IsOption
  <2>. DEFINE w == opts[1].width
              p == at[1]
  <2>4. p = 3 + 2 + w /\ p <= l /\ w \in {1, 2, 4} /\ l \in Nat
    BY <1>6, <2>1, <2>2, <2>3
  <2>. HIDE DEF w, p, l
  <2>5. 3 <= l
    BY <2>4
  <2>. QED  BY <2>1, <2>5
<1>8. OptionsHeld(Mem, rx.data_size)
  <2>1. 1 \in 1..l /\ 2 \in 1..l /\ 3 \in 1..l
    BY <1>6, <1>7
  <2>2. Mem[1 - 1] = z[1] /\ Mem[2 - 1] = z[2] /\ Mem[3 - 1] = z[3] /\ rx.data_size = l
    BY <1>6, <2>1
  <2>. QED  BY <1>7, <2>2 DEF OptionsHeld
<1>9. phase' = "negotiating" /\ last' = "OK" /\ loop' = [index |-> 3, tags |-> 0]
  BY <1>8 DEF Negotiate
<1>10. loop'.index = at[loop'.tags] /\ loop'.tags = 0
  BY <1>7, <1>9
<1>11. Follows(opts)'
  <2>. DEFINE o == opts
  <2>1. o' = o
    BY <1>3
  <2>2. IsField(OptionField(o), o, at)
    BY <1>4, <1>5
  <2>. HIDE DEF o
  <2>3. \E a : IsField(OptionField(o'), o', a) /\ loop'.index = a[loop'.tags]
    BY <1>10, <2>1, <2>2
  <2>4. \A i \in 1..loop'.tags : Holds(rx', o'[i])
    BY <1>10
  <2>5. loop'.tags \in 0..4 /\ (phase' = "negotiated" <=> loop'.tags = 4)
    BY <1>9, <1>10
  <2>. QED  BY <1>9, <2>3, <2>4, <2>5 DEF Follows, o
<1>. QED  BY <1>11 DEF f

LEMMA OptionFollows ==
  ASSUME NEW s, LinkOf(s), NextOption, Found # {}, Complete(sent[Oldest].opts),
         Follows(sent[Oldest].opts)
  PROVE  Follows(sent[Oldest].opts)' /\ SameFrame(rx', rx)
<1>. DEFINE f == sent[Oldest]
            z == f.info
            opts == f.opts
            k == loop.tags
<1>1. Describes(rx, f) /\ IsOwn(f, s)
  BY OldestIs
<1>2. z = OptionField(opts) /\ z # <<>> /\ AreOptions(opts) /\ Len(opts) = 4 /\ Len(z) <= 128
  BY <1>1, FieldOf
<1>3. PICK at : IsField(z, opts, at) /\ loop.index = at[k]
  BY <1>2 DEF Follows
<1>4. Len(z) \in Nat /\ \A i \in 1..Len(z) : Mem[i - 1] = z[i]
  <2>1. Len(z) \in Nat
    BY <1>3 DEF IsField
  <2>. HIDE DEF f
  <2>2. ASSUME NEW i \in 1..Len(z)
        PROVE  Mem[i - 1] = z[i]
    BY <1>1, <1>2, MemIs
  <2>. QED  BY <2>1, <2>2
<1>5. phase = "negotiating" /\ last = "OK" /\ k \in 0..3
  BY DEF NextOption, Follows
<1>. DEFINE i == k + 1
            o == opts[i]
            p == loop.index
            opt == ReadOption(Mem, (p + 2) % 256, Mem[(p + 1) % 256])
<1>6. IsHdlc(rx) /\ Complete(opts) /\ (\A j \in 1..k : Holds(rx, opts[j]))
      /\ UNCHANGED <<buf, sent>>
  BY DEF LinkOf, Follows, NextOption, sender
<1>7. \/ Mem[p] \notin Known
      \/ Mem[p] \in Known /\ opt = 0
      \/ /\ Mem[p] \in Known /\ opt # 0 /\ rx' = Applied(rx, Mem[p], opt)
         /\ loop' = [index |-> (((p + 2) % 256) + Mem[(p + 1) % 256]) % 256, tags |-> k + 1]
         /\ phase' = IF Enough(loop'.tags) THEN "negotiated" ELSE phase
         /\ last' = last
  BY DEF NextOption
<1>. HIDE DEF f, k, p, opt
<1>8. i \in 1..4 /\ i - 1 = k /\ i \in 1..Len(opts)
  BY <1>2, <1>5
<1>9. IsRead(z, o, p, at[i])
  BY <1>2, <1>3, <1>4, <1>8, OptionRead DEF p
<1>10. IsOption(o) /\ o.tag \in Known /\ o.value # 0
  BY <1>2, <1>6, <1>8, TagsDiffer DEF AreOptions, Complete
<1>11. Mem[p] = o.tag /\ opt = o.value
       /\ (((p + 2) % 256) + Mem[(p + 1) % 256]) % 256 = at[i]
  BY <1>9 DEF IsRead, opt
<1>. HIDE DEF o
<1>12. /\ rx' = Applied(rx, o.tag, o.value) /\ loop' = [index |-> at[i], tags |-> i]
       /\ phase' = IF i >= 4 THEN "negotiated" ELSE "negotiating"
       /\ last' = "OK"
  BY <1>5, <1>7, <1>10, <1>11 DEF Enough
<1>13. SameFrame(rx', rx)
  BY <1>6, <1>10, <1>12, AppliedIs
<1>14. Oldest' = Oldest /\ f' = f
  BY <1>6, <1>13, FoundKept DEF f
<1>15. ASSUME NEW j \in 1..i
       PROVE  Holds(rx', opts[j])
  <2>1. CASE j = i
    BY <1>6, <1>10, <1>12, <2>1, AppliedHolds DEF o
  <2>2. CASE j # i
    <3>1. j \in 1..k /\ j \in 1..4
      BY <1>8, <2>2
    <3>2. opts[j].tag \in Known /\ opts[j].tag # o.tag /\ Holds(rx, opts[j])
      BY <1>6, <1>8, <2>2, <3>1, TagsDiffer DEF o
    <3>. QED  BY <1>6, <1>10, <1>12, <3>2, AppliedHolds
  <2>. QED  BY <2>1, <2>2
<1>16. Follows(opts)'
  <2>. DEFINE q == opts
  <2>1. q' = q
    BY <1>14
  <2>2. IsField(OptionField(q), q, at)
    BY <1>2, <1>3
  <2>3. \A j \in 1..i : Holds(rx', q[j])
    BY <1>15
  <2>. HIDE DEF q, i
  <2>4. loop'.index = at[loop'.tags] /\ loop'.tags = i
    BY <1>12
  <2>5. \E a : IsField(OptionField(q'), q', a) /\ loop'.index = a[loop'.tags]
    BY <2>1, <2>2, <2>4
  <2>6. \A j \in 1..loop'.tags : Holds(rx', q'[j])
    BY <2>1, <2>3, <2>4
  <2>7. loop'.tags \in 0..4 /\ (phase' = "negotiated" <=> loop'.tags = 4)
    BY <1>8, <1>12, <2>4
  <2>. QED  BY <1>12, <2>5, <2>6, <2>7 DEF Follows, q
<1>. QED  BY <1>13, <1>16 DEF f

LEMMA OptionKeeps ==
  ASSUME NEW s, LinkOf(s), NextOption
  PROVE  SameFrame(rx', rx) /\ UNCHANGED <<buf, sent>> /\ phase = "negotiating"
<1>1. rx' = rx \/ \E tag \in Known : \E opt : rx' = Applied(rx, tag, opt)
  BY DEF NextOption
<1>2. SameFrame(rx', rx)
  BY <1>1, AppliedIs DEF LinkOf, SameFrame
<1>. QED  BY <1>2 DEF NextOption, sender

LEMMA NegoStep ==
  ASSUME LinkInv, NegoInv, [Next]_vars
  PROVE  NegoInv'
<1>1. PICK s \in Stations : LinkOf(s)
  BY DEF LinkInv
<1>2. SUFFICES ASSUME phase' \in {"negotiating", "negotiated"}, Found' # {},
                      Complete(sent[Oldest].opts)'
               PROVE  Follows(sent[Oldest].opts)'
  BY DEF NegoInv
<1>3. Negotiate \/ NextOption \/ UNCHANGED vars
  BY <1>2 DEF Next, SendData, SendReady, SendSnrm, SendUa, SendOther, Send, Damage, Deliver, Wait, Receive,
              GiveUp, Consume, receiver
<1>4. CASE Negotiate
  <2>1. SameFrame(rx', rx) /\ UNCHANGED <<buf, sent>>
    BY <1>1, <1>4 DEF Negotiate, LinkOf, SameFrame, sender
  <2>2. Found' = Found /\ Oldest' = Oldest /\ sent' = sent
    BY <2>1, FoundKept
  <2>3. Found # {} /\ Complete(sent[Oldest].opts)
    BY <1>2, <2>2
  <2>. QED  BY <1>1, <1>4, <2>3, NegotiateFollows
<1>5. CASE NextOption
  <2>1. SameFrame(rx', rx) /\ UNCHANGED <<buf, sent>> /\ phase = "negotiating"
    BY <1>1, <1>5, OptionKeeps
  <2>2. Found' = Found /\ Oldest' = Oldest /\ sent' = sent
    BY <2>1, FoundKept
  <2>3. Found # {} /\ Complete(sent[Oldest].opts)
    BY <1>2, <2>2
  <2>4. Follows(sent[Oldest].opts)
    BY <2>1, <2>3 DEF NegoInv
  <2>. QED  BY <1>1, <1>5, <2>3, <2>4, OptionFollows
<1>6. CASE UNCHANGED vars
  <2>1. /\ tx' = tx /\ sent' = sent /\ rx' = rx /\ buf' = buf /\ phase' = phase
        /\ last' = last /\ loop' = loop
    BY <1>6 DEF vars
  <2>2. SameFrame(rx', rx) /\ UNCHANGED <<buf, sent>>
    BY <1>1, <2>1 DEF LinkOf, SameFrame
  <2>3. Found' = Found /\ Oldest' = Oldest
    BY <2>2, FoundKept
  <2>4. Follows(sent[Oldest].opts)
    BY <1>2, <2>1, <2>3 DEF NegoInv
  <2>. QED  BY <2>1, <2>3, <2>4 DEF Follows
<1>. QED  BY <1>3, <1>4, <1>5, <1>6

LEMMA FollowedAgrees ==
  ASSUME LinkInv, NegoInv
  PROVE  NegotiationAgrees
<1>1. PICK s \in Stations : LinkOf(s)
  BY DEF LinkInv
<1>2. SUFFICES ASSUME phase = "negotiated", Found # {}, Complete(sent[Oldest].opts)
               PROVE  LET opts == sent[Oldest].opts IN
                      /\ last = "OK"
                      /\ rx.max_info_field_tx = ValueOf(opts, 5)
                      /\ rx.max_info_field_rx = ValueOf(opts, 6)
                      /\ rx.window_tx = ValueOf(opts, 7) /\ rx.window_rx = ValueOf(opts, 8)
                      /\ loop.index = rx.data_size
  BY DEF NegotiationAgrees
<1>. DEFINE f == sent[Oldest]
            opts == f.opts
<1>3. Describes(rx, f) /\ IsOwn(f, s)
  BY <1>1, <1>2, OldestIs
<1>4. f.info = OptionField(opts) /\ f.info # <<>> /\ AreOptions(opts) /\ Len(opts) = 4
  BY <1>2, <1>3, FieldOf
<1>5. Follows(opts) /\ Complete(opts)
  BY <1>2 DEF NegoInv
<1>. HIDE DEF f
<1>6. last = "OK" /\ loop.tags = 4 /\ \A i \in 1..4 : Holds(rx, opts[i])
  BY <1>2, <1>5 DEF Follows
<1>7. loop.index = rx.data_size
  <2>1. PICK at : IsField(OptionField(opts), opts, at) /\ loop.index = at[loop.tags]
    BY <1>5 DEF Follows
  <2>2. at[Len(opts)] = Len(f.info)
    BY <1>4, <2>1 DEF IsField
  <2>3. rx.data_size = Len(f.info)
    BY <1>3, <1>4 DEF Describes
  <2>. QED  BY <1>4, <1>6, <2>1, <2>2, <2>3
<1>8. ASSUME NEW tag \in Known
      PROVE  \E o : o.tag = tag /\ ValueOf(opts, tag) = o.value /\ Holds(rx, o)
  <2>. DEFINE S == {opts[i] : i \in DOMAIN opts}
              o == CHOOSE p \in S : p.tag = tag
  <2>1. DOMAIN opts = 1..4
    BY <1>4 DEF AreOptions
  <2>2. \E i \in 1..4 : opts[i].tag = tag
    BY <1>5 DEF Complete
  <2>3. \E p \in S : p.tag = tag
    BY <2>1, <2>2
  <2>4. ValueOf(opts, tag) = o.value
    BY DEF ValueOf
  <2>5. o \in S /\ o.tag = tag
    BY <2>3
  <2>6. Holds(rx, o)
    BY <1>6, <2>1, <2>5
  <2>. QED  BY <2>4, <2>5, <2>6
<1>9. rx.max_info_field_tx = ValueOf(opts, 5) /\ rx.max_info_field_rx = ValueOf(opts, 6)
      /\ rx.window_tx = ValueOf(opts, 7) /\ rx.window_rx = ValueOf(opts, 8)
  <2>1. 5 \in Known /\ 6 \in Known /\ 7 \in Known /\ 8 \in Known
    BY DEF Known
  <2>. QED  BY <1>8, <2>1 DEF Holds
<1>. QED  BY <1>6, <1>7, <1>9 DEF f

\* Whatever the line does to the bytes, and whatever the frame and its options: when the loop of
\* hdlc_decode_info_field has read the four options of an SNRM or UA that was sent, in any order
\* and width, the receiver has the values of the sender, and the loop is where the field ends.
THEOREM NegotiatedAsSent == Spec => []NegotiationAgrees
<1>1. Init => LinkInv /\ NegoInv
  <2>1. Init => phase = "waiting"
    BY DEF Init
  <2>. QED  BY <2>1, InitIsLink DEF NegoInv
<1>2. LinkInv /\ NegoInv /\ [Next]_vars => (LinkInv /\ NegoInv)'
  BY LinkStep, NegoStep
<1>3. LinkInv /\ NegoInv => NegotiationAgrees
  BY FollowedAgrees
<1>. QED  BY <1>1, <1>2, <1>3, PTL DEF Spec

-----------------------------------------------------------------------------
(* What the decoder makes of the bytes of a frame                           *)

\* An address ends with its first odd byte.
IsAddress(x) ==
    /\ x \in Bytes /\ Len(x) \in {1, 2, 4}
    /\ x[Len(x)] % 2 = 1 /\ \A i \in 1..Len(x) - 1 : x[i] % 2 = 0

LEMMA AddressIs ==
  ASSUME NEW x, NEW s, IsClientAddr(x, s) \/ IsServerAddr(x, s)
  PROVE  IsAddress(x)
<1>1. CASE IsClientAddr(x, s)
  BY <1>1 DEF IsClientAddr, IsAddress
<1>2. CASE IsServerAddr(x, s)
  BY <1>2 DEF IsServerAddr, IsAddress
<1>. QED  BY <1>1, <1>2

\* The bytes of x are those of b after the first m.
Holding(b, m, x) == \A i \in 1..Len(x) : b[m + i] = x[i]

LEMMA AddrSizeIs ==
  ASSUME NEW b, NEW m \in Nat, NEW n \in Nat, n >= 4, NEW x, IsAddress(x), Holding(b, m, x)
  PROVE  AddrSize(b, m + 1, n) = Len(x)
<1>. DEFINE p == Len(x)
            max == IF n < 4 THEN n ELSE 4
            odd == {k \in 1..max : b[(m + 1) + k - 1] % 2 = 1}
<1>1. max = 4 /\ p \in 1..4
  BY DEF IsAddress
<1>2. ASSUME NEW k \in 1..4
      PROVE  b[(m + 1) + k - 1] = b[m + k]
  <2>1. (m + 1) + k - 1 = m + k
    OBVIOUS
  <2>. QED  BY <2>1
<1>3. /\ \A i \in 1..p : b[m + i] = x[i]
      /\ x[p] % 2 = 1 /\ \A i \in 1..p - 1 : x[i] % 2 = 0
  BY DEF IsAddress, Holding
<1>4. AddrSize(b, m + 1, n) = IF odd = {} THEN max ELSE Lowest(odd)
  BY DEF AddrSize
<1>5. odd \in SUBSET Nat /\ \A k : k \in odd <=> k \in 1..4 /\ b[m + k] % 2 = 1
  BY <1>1, <1>2
<1>. HIDE DEF odd, p, max
<1>6. p \in odd
  <2>1. p \in 1..p /\ p \in 1..4
    BY <1>1
  <2>. QED  BY <1>3, <1>5, <2>1
<1>7. ASSUME NEW k \in odd
      PROVE  p <= k
  <2>1. k \in 1..4 /\ b[m + k] % 2 = 1
    BY <1>5
  <2>2. SUFFICES ASSUME k < p PROVE FALSE
    BY <1>1, <2>1
  <2>3. k \in 1..p - 1 /\ k \in 1..p
    BY <1>1, <2>1, <2>2
  <2>4. b[m + k] = x[k] /\ x[k] % 2 = 0
    BY <1>3, <2>3
  <2>. QED  BY <2>1, <2>4
<1>8. Lowest(odd) = p
  BY <1>5, <1>6, <1>7, LowestIs
<1>. QED  BY <1>4, <1>6, <1>8 DEF p

\* Two sequences with the same elements in a piece have that piece in common.
\* The n elements behind place m are the same in both.
AreSame(s, t, m, n) ==
    /\ IsSequence(s) /\ IsSequence(t) /\ m \in Nat /\ n \in Nat
    /\ m + n <= Len(s) /\ m + n <= Len(t) /\ \A i \in 1..n : s[m + i] = t[m + i]

HaveSamePiece(s, t, m, n) == SubSeq(s, m + 1, m + n) = SubSeq(t, m + 1, m + n)

LEMMA SamePiece ==
  ASSUME NEW s, NEW t, NEW m, NEW n, AreSame(s, t, m, n)
  PROVE  HaveSamePiece(s, t, m, n)
<1>. DEFINE x == SubSeq(s, m + 1, m + n)
            y == SubSeq(t, m + 1, m + n)
<1>. HIDE DEF x, y
<1>0. /\ IsSequence(s) /\ IsSequence(t) /\ m \in Nat /\ n \in Nat
      /\ m + n <= Len(s) /\ m + n <= Len(t)
  BY DEF AreSame
<1>1. ArePiece(x, s, m, n) /\ ArePiece(y, t, m, n)
  BY <1>0, PieceIs DEF x, y
<1>2. \E T : x \in Seq(T)
  BY <1>1 DEF ArePiece, IsSequence
<1>3. \E T : y \in Seq(T)
  BY <1>1 DEF ArePiece, IsSequence
<1>4. Len(x) = Len(y) /\ \A i \in 1..Len(x) : x[i] = y[i]
  BY <1>0, <1>1 DEF ArePiece, AreSame
<1>5. x = y
  BY <1>2, <1>3, <1>4, SeqEqual
<1>. QED  BY <1>5 DEF HaveSamePiece, x, y

\* The check sequence after byte last of z is right in b too.
LEMMA ChecksHeld ==
  ASSUME NEW z \in Bytes, NEW b, IsSequence(b), Len(z) <= Len(b), Holding(b, 0, z),
         NEW l \in Nat, l >= 2, l + 2 <= Len(z),
         CheckSequence(SubSeq(z, 2, l)) = << z[l + 1], z[l + 2] >>
  PROVE  Checks(b, l)
<1>1. IsSequence(z) /\ Len(z) \in Nat /\ Len(b) \in Nat
  BY LenIs, SequenceIs DEF Bytes, IsSequence
<1>. DEFINE c == Len(z)
            d == Len(b)
            n == l - 1
<1>2. c \in Nat /\ d \in Nat /\ c <= d /\ l + 2 <= c /\ l >= 2
  BY <1>1
<1>3. \A i \in 1..c : b[i] = z[i]
  BY <1>1 DEF Holding
<1>. HIDE DEF c, d
<1>4. n \in Nat /\ 1 + n <= c /\ 1 + n <= d /\ 1 + n = l /\ l + 1 \in 1..c /\ l + 2 \in 1..c
  BY <1>2
<1>5. ASSUME NEW i \in 1..n
      PROVE  b[1 + i] = z[1 + i]
  BY <1>2, <1>3
<1>. HIDE DEF n
<1>6. SubSeq(b, 1 + 1, 1 + n) = SubSeq(z, 1 + 1, 1 + n)
  <2>. DEFINE m == 1
  <2>1. AreSame(b, z, m, n)
    BY <1>1, <1>4, <1>5 DEF c, d, AreSame
  <2>. HIDE DEF m
  <2>2. HaveSamePiece(b, z, m, n)
    BY <2>1, SamePiece
  <2>. QED  BY <2>2 DEF m, HaveSamePiece
<1>7. SubSeq(b, 2, l) = SubSeq(z, 2, l)
  BY <1>4, <1>6
<1>8. b[l + 1] = z[l + 1] /\ b[l + 2] = z[l + 2]
  BY <1>3, <1>4
<1>. QED  BY <1>7, <1>8 DEF Checks

\* The addresses of station s, as far as its frames carry them.
KnowsServer(g, s) ==
    /\ g.addr_len = s.addr_len /\ g.logical_device = s.logical_device
    /\ g.addr_len > 1 => g.phy_address = s.phy_address

IsServerRead(r, h, s) ==
    /\ r.ret = "OK" /\ Keeps(r.h, h) /\ KnowsServer(r.h, s)
    /\ r.h.client_addr = h.client_addr

LEMMA ServerRead ==
  ASSUME NEW h, IsHdlc(h), NEW s, NEW x, IsServerAddr(x, s), NEW m \in Nat, NEW b, Holding(b, m, x)
  PROVE  IsServerRead(ServerAddr(h, b, m + 1, Len(x)), h, s)
<1>. DEFINE n == Len(x)
            at == m + 1
            g == [h EXCEPT !.addr_len = n]
            r == ServerAddr(h, b, at, n)
<1>1. IsHdlc(g) /\ Keeps(g, h) /\ g.addr_len = n /\ g.client_addr = h.client_addr
  BY DEF IsHdlc, Keeps
<1>2. IsServerAddrOf(r, g, b, at, n) /\ Keeps(r.h, h)
  BY ServerAddrIs, ServerAddrKeeps
<1>3. n = s.addr_len /\ n \in {1, 2, 4} /\ \A i \in 1..n : b[m + i] = x[i]
  BY DEF IsServerAddr, Holding
<1>4. at = m + 1 /\ at + 1 = m + 2 /\ at + 2 = m + 3 /\ at + 2 + 1 = m + 4
  OBVIOUS
<1>. HIDE DEF g, r, at
<1>5. r.ret = "OK" /\ KnowsServer(r.h, s) /\ r.h.client_addr = h.client_addr
  <2>1. CASE n = 1
    <3>. DEFINE u == b[at] \div 2
                k == [g EXCEPT !.logical_device = u]
    <3>1. r.ret = "OK" /\ r.h = k
      BY <1>2, <2>1, ResultIs DEF IsServerAddrOf
    <3>2. u = s.logical_device
      BY <1>3, <1>4, <2>1 DEF IsServerAddr
    <3>. HIDE DEF u
    <3>3. k.logical_device = u /\ k.addr_len = 1 /\ k.client_addr = h.client_addr
      BY <1>1, <2>1 DEF IsHdlc
    <3>. HIDE DEF k
    <3>. QED  BY <1>3, <2>1, <3>1, <3>2, <3>3 DEF KnowsServer
  <2>2. CASE n = 2
    <3>. DEFINE u == b[at] \div 2
                l == b[at + 1] \div 2
    <3>1. r.ret = "OK" /\ r.h = Placed(g, u, l)
      BY <1>2, <2>2, ResultIs DEF IsServerAddrOf
    <3>2. u = s.logical_device /\ l = s.phy_address
      BY <1>3, <1>4, <2>2 DEF IsServerAddr
    <3>. HIDE DEF u, l
    <3>. QED  BY <1>1, <1>3, <3>1, <3>2, PlacedKeeps DEF KnowsServer
  <2>3. CASE n = 4
    <3>. DEFINE u == Addr16(b, at)
                l == Addr16(b, at + 2)
    <3>1. r.ret = "OK" /\ r.h = Placed(g, u, l)
      BY <1>2, <2>3, ResultIs DEF IsServerAddrOf
    <3>2. u = s.logical_device /\ l = s.phy_address
      <4>1. b[at] = x[1] /\ b[at + 1] = x[2] /\ b[at + 2] = x[3] /\ b[at + 2 + 1] = x[4]
        BY <1>3, <1>4, <2>3
      <4>2. Addr16(x, 1) = s.logical_device /\ Addr16(x, 3) = s.phy_address
        BY <1>3, <2>3 DEF IsServerAddr
      <4>. QED  BY <4>1, <4>2 DEF Addr16
    <3>. HIDE DEF u, l
    <3>. QED  BY <1>1, <1>3, <3>1, <3>2, PlacedKeeps DEF KnowsServer
  <2>. QED  BY <1>3, <2>1, <2>2, <2>3
<1>. QED  BY <1>2, <1>5 DEF r, at, IsServerRead

IsClientRead(r, h, s) ==
    /\ r.ret = "OK" /\ Keeps(r.h, h) /\ r.h.client_addr = s.client_addr
    /\ r.h.addr_len = h.addr_len /\ r.h.logical_device = h.logical_device
    /\ r.h.phy_address = h.phy_address

LEMMA ClientRead ==
  ASSUME NEW h, IsHdlc(h), NEW s, NEW x, IsClientAddr(x, s), NEW m \in Nat, NEW b, Holding(b, m, x)
  PROVE  IsClientRead(ClientAddr(h, b, m + 1, Len(x)), h, s)
<1>. DEFINE u == b[m + 1] \div 2
            g == [h EXCEPT !.client_addr = u]
            r == ClientAddr(h, b, m + 1, Len(x))
<1>1. Len(x) = 1 /\ u = s.client_addr
  BY DEF IsClientAddr, Holding
<1>2. r = Result("OK", g)
  BY <1>1 DEF ClientAddr
<1>3. r.ret = "OK" /\ r.h = g
  BY <1>2, ResultIs
<1>. HIDE DEF u
<1>4. Keeps(g, h) /\ g.client_addr = u /\ g.addr_len = h.addr_len
      /\ g.logical_device = h.logical_device /\ g.phy_address = h.phy_address
  BY DEF IsHdlc, Keeps
<1>. HIDE DEF g, r
<1>5. r.ret = "OK" /\ Keeps(r.h, h) /\ r.h.client_addr = s.client_addr
      /\ r.h.addr_len = h.addr_len /\ r.h.logical_device = h.logical_device
      /\ r.h.phy_address = h.phy_address
  BY <1>1, <1>3, <1>4
<1>. QED  BY <1>5 DEF r, IsClientRead

\* The type of each control field that is sent, and of no other.
KindIs(cf, t) ==
    /\ {p \in PacketTypes : Masked(cf, p.mask) = p.value} # {}
    /\ \A p \in PacketTypes : Masked(cf, p.mask) = p.value => p.type = t

Kind(type, mask, value) == [type |-> type, mask |-> mask, value |-> value]

LEMMA KindFields ==
  ASSUME NEW type, NEW mask, NEW value, NEW p, p = Kind(type, mask, value)
  PROVE  p.type = type /\ p.mask = mask /\ p.value = value
BY DEF Kind

\* The control field has the value of type t, and of no other, under each mask.
Only(cf, t) ==
    /\ t \in {"I", "RR", "RNR", "SNRM", "DISC", "UA", "DM", "FRMR", "UI"}
    /\ Masked(cf, 1) = 0 <=> t = "I"
    /\ Masked(cf, 15) = 1 <=> t = "RR"
    /\ Masked(cf, 15) = 5 <=> t = "RNR"
    /\ Masked(cf, 239) = 131 <=> t = "SNRM"
    /\ Masked(cf, 239) = 67 <=> t = "DISC"
    /\ Masked(cf, 239) = 99 <=> t = "UA"
    /\ Masked(cf, 239) = 15 <=> t = "DM"
    /\ Masked(cf, 239) = 135 <=> t = "FRMR"
    /\ Masked(cf, 239) = 3 <=> t = "UI"

LEMMA OnlyKind ==
  ASSUME NEW cf, NEW t, Only(cf, t)
  PROVE  KindIs(cf, t)
<1>1. PacketTypes = { Kind("I", 1, 0),
                      Kind("RR", 15, 1),
                      Kind("RNR", 15, 5),
                      Kind("SNRM", 239, 131),
                      Kind("DISC", 239, 67),
                      Kind("UA", 239, 99),
                      Kind("DM", 239, 15),
                      Kind("FRMR", 239, 135),
                      Kind("UI", 239, 3) }
  BY DEF PacketTypes, Kind
<1>2. \A p : p = Kind("I", 1, 0) => (Masked(cf, p.mask) = p.value <=> t = "I") /\ p.type = "I"
  BY KindFields DEF Only
<1>3. \A p : p = Kind("RR", 15, 1) => (Masked(cf, p.mask) = p.value <=> t = "RR") /\ p.type = "RR"
  BY KindFields DEF Only
<1>4. \A p : p = Kind("RNR", 15, 5) => (Masked(cf, p.mask) = p.value <=> t = "RNR") /\ p.type = "RNR"
  BY KindFields DEF Only
<1>5. \A p : p = Kind("SNRM", 239, 131) => (Masked(cf, p.mask) = p.value <=> t = "SNRM") /\ p.type = "SNRM"
  BY KindFields DEF Only
<1>6. \A p : p = Kind("DISC", 239, 67) => (Masked(cf, p.mask) = p.value <=> t = "DISC") /\ p.type = "DISC"
  BY KindFields DEF Only
<1>7. \A p : p = Kind("UA", 239, 99) => (Masked(cf, p.mask) = p.value <=> t = "UA") /\ p.type = "UA"
  BY KindFields DEF Only
<1>8. \A p : p = Kind("DM", 239, 15) => (Masked(cf, p.mask) = p.value <=> t = "DM") /\ p.type = "DM"
  BY KindFields DEF Only
<1>9. \A p : p = Kind("FRMR", 239, 135) => (Masked(cf, p.mask) = p.value <=> t = "FRMR") /\ p.type = "FRMR"
  BY KindFields DEF Only
<1>10. \A p : p = Kind("UI", 239, 3) => (Masked(cf, p.mask) = p.value <=> t = "UI") /\ p.type = "UI"
  BY KindFields DEF Only
<1>11. ASSUME NEW p \in PacketTypes
       PROVE  (Masked(cf, p.mask) = p.value <=> t = p.type) 
  BY <1>1, <1>2, <1>3, <1>4, <1>5, <1>6, <1>7, <1>8, <1>9, <1>10
<1>12. \E p \in PacketTypes : p.type = t
  <2>1. t \in {"I", "RR", "RNR", "SNRM", "DISC", "UA", "DM", "FRMR", "UI"}
    BY DEF Only
  <2>. QED  BY <2>1, <1>1, <1>2, <1>3, <1>4, <1>5, <1>6, <1>7, <1>8, <1>9, <1>10
<1>. QED  BY <1>11, <1>12 DEF KindIs

LEMMA InfoKind ==
  ASSUME NEW r \in 0..7, NEW q \in 0..7
  PROVE  /\ KindIs(InfoField(r, q), "I")
         /\ InfoField(r, q) \div 32 = r /\ (InfoField(r, q) \div 2) % 8 = q
<1>. DEFINE cf == InfoField(r, q)
<1>1. cf = 32 * r + 2 * q + 16
  BY DEF InfoField
<1>2. cf % 2 = 0 /\ cf \in Nat
  BY <1>1
<1>3. cf \div 32 = r /\ (cf \div 2) % 8 = q
  <2>1. cf \div 32 = r
    BY <1>1
  <2>2. cf \div 2 = 8 * (2 * r + 1) + q
    BY <1>1
  <2>3. (8 * (2 * r + 1) + q) % 8 = q
    OBVIOUS
  <2>. QED  BY <2>1, <2>2, <2>3
<1>. HIDE DEF cf
<1>4. /\ cf % 2 = 0 /\ cf % 16 # 1 /\ cf % 16 # 5
      /\ (cf - 16 * ((cf \div 16) % 2)) % 2 = 0
  BY <1>2
<1>. DEFINE m == cf - 16 * ((cf \div 16) % 2)
<1>5. m # 131 /\ m # 67 /\ m # 99 /\ m # 15 /\ m # 135 /\ m # 3
  <2>1. m % 2 = 0 /\ m \in Int
    BY <1>2, <1>4
  <2>. HIDE DEF m
  <2>. QED  BY <2>1
<1>6. Masked(cf, 1) = cf % 2 /\ Masked(cf, 15) = cf % 16 /\ Masked(cf, 239) = m
  BY DEF Masked
<1>. HIDE DEF m
<1>7. KindIs(cf, "I")
  <2>1. Only(cf, "I")
    BY <1>4, <1>5, <1>6 DEF Only
  <2>. QED  BY <2>1, OnlyKind
<1>. QED  BY <1>3, <1>7 DEF cf

LEMMA ReadyKind ==
  ASSUME NEW r \in 0..7
  PROVE  /\ KindIs(ReadyField(r), "RR")
         /\ ReadyField(r) \div 32 = r /\ (ReadyField(r) \div 2) % 8 = 0
<1>. DEFINE cf == ReadyField(r)
            m == cf - 16 * ((cf \div 16) % 2)
<1>1. cf = 32 * r + 17
  BY DEF ReadyField
<1>2. cf % 2 = 1 /\ cf % 16 = 1 /\ cf \div 16 = 2 * r + 1 /\ cf \div 32 = r /\ cf \div 2 = 8 * (2 * r + 1)
  BY <1>1
<1>3. (2 * r + 1) % 2 = 1 /\ (8 * (2 * r + 1)) % 8 = 0
  OBVIOUS
<1>4. m = 32 * r + 1
  BY <1>1, <1>2, <1>3
<1>. HIDE DEF cf, m
<1>5. m # 131 /\ m # 67 /\ m # 99 /\ m # 15 /\ m # 135 /\ m # 3
  BY <1>4
<1>6. Masked(cf, 1) = cf % 2 /\ Masked(cf, 15) = cf % 16 /\ Masked(cf, 239) = m
  BY DEF Masked, m
<1>7. KindIs(cf, "RR")
  <2>1. Only(cf, "RR")
    BY <1>2, <1>5, <1>6 DEF Only
  <2>. QED  BY <2>1, OnlyKind
<1>. QED  BY <1>2, <1>3, <1>7 DEF cf

LEMMA LinkKinds ==
  KindIs(SnrmField, "SNRM") /\ KindIs(115, "UA")
<1>1. Masked(147, 1) = 1 /\ Masked(147, 15) = 3 /\ Masked(147, 239) = 131
  BY DEF Masked
<1>2. Masked(115, 1) = 1 /\ Masked(115, 15) = 3 /\ Masked(115, 239) = 99
  BY DEF Masked
<1>3. Only(147, "SNRM") /\ Only(115, "UA")
  BY <1>1, <1>2 DEF Only
<1>4. KindIs(147, "SNRM") /\ KindIs(115, "UA")
  BY <1>3, OnlyKind
<1>. QED  BY <1>4 DEF SnrmField

\* The control field of a frame is decoded to its type and its numbers.
KnowsControl(g, f) ==
    /\ g.type = f.h.type
    /\ g.type \in {"I", "RR"} => g.rrr = f.h.rrr /\ g.sss = f.h.sss

SameAddresses(g, h) ==
    /\ g.addr_len = h.addr_len /\ g.logical_device = h.logical_device
    /\ g.phy_address = h.phy_address /\ g.client_addr = h.client_addr

IsControlRead(r, h, f) ==
    r.ret = "OK" /\ Keeps(r.h, h) /\ KnowsControl(r.h, f) /\ SameAddresses(r.h, h)

LEMMA ControlRead ==
  ASSUME NEW h, IsHdlc(h), NEW s, NEW f, IsOwn(f, s)
  PROVE  IsControlRead(ControlField(h, Control(f.h)), h, f)
<1>. DEFINE cf == Control(f.h)
            t == f.h.type
            kinds == {p \in PacketTypes : Masked(cf, p.mask) = p.value}
            k == (CHOOSE p \in kinds : TRUE).type
            g == Numbers(h, cf)
            n == [g EXCEPT !.type = k]
            r == ControlField(h, cf)
<1>1. t \in {"I", "RR", "SNRM", "UA"} /\ (t \in {"I", "RR"} => f.h.rrr \in 0..7 /\ f.h.sss \in 0..7)
      /\ (t = "RR" => f.h.sss = 0)
  BY DEF IsOwn
<1>2. /\ t = "I" => cf = InfoField(f.h.rrr, f.h.sss)
      /\ t = "RR" => cf = ReadyField(f.h.rrr)
      /\ t = "SNRM" => cf = SnrmField
      /\ t = "UA" => cf = 115
  BY DEF Control
<1>. HIDE DEF cf
<1>3. KindIs(cf, t) /\ (t \in {"I", "RR"} => cf \div 32 = f.h.rrr /\ (cf \div 2) % 8 = f.h.sss)
  BY <1>1, <1>2, InfoKind, ReadyKind, LinkKinds
<1>4. kinds # {} /\ k = t
  <2>1. kinds # {} /\ \A p \in kinds : p.type = t
    BY <1>3 DEF KindIs
  <2>. HIDE DEF kinds
  <2>. QED  BY <2>1
<1>5. r = Result("OK", n)
  BY <1>4 DEF ControlField, Numbers
<1>6. r.ret = "OK" /\ r.h = n
  BY <1>5, ResultIs
<1>7. Keeps(g, h) /\ g.rrr = cf \div 32 /\ g.sss = (cf \div 2) % 8 /\ SameAddresses(g, h)
  BY NumbersKeep DEF SameAddresses
<1>. HIDE DEF g, k, kinds, t
<1>8. Keeps(n, h) /\ n.type = k /\ n.rrr = g.rrr /\ n.sss = g.sss /\ SameAddresses(n, h)
  BY <1>7 DEF IsHdlc, Keeps, SameAddresses
<1>. HIDE DEF n, r
<1>9. r.ret = "OK" /\ Keeps(r.h, h) /\ KnowsControl(r.h, f) /\ SameAddresses(r.h, h)
  BY <1>3, <1>4, <1>6, <1>7, <1>8 DEF KnowsControl, t
<1>. QED  BY <1>9 DEF r, cf, IsControlRead

\* What the information field leaves alone, and what it is found by.
KeepsHeader(g, h) ==
    /\ IsHdlc(g) /\ g.sender = h.sender /\ g.frame_size = h.frame_size /\ g.type = h.type
    /\ g.rrr = h.rrr /\ g.sss = h.sss /\ SameAddresses(g, h)

Shows(h, b, d) ==
    d # <<>> => /\ h.data_size = Len(d)
                /\ SubSeq(b, h.data_index + 1, h.data_index + h.data_size) = d

Informed(h, i, l) == [h EXCEPT !.data_index = i, !.data_size = l]

LEMMA PlacedInfo ==
  ASSUME NEW h, IsHdlc(h), NEW i, NEW l, NEW g, g = Informed(h, i, l)
  PROVE  KeepsHeader(g, h) /\ g.data_index = i /\ g.data_size = l
<1>. DEFINE k == [h EXCEPT !.data_index = i]
            m == [k EXCEPT !.data_size = l]
<1>1. m = g
  BY DEF Informed
<1>2. KeepsHeader(k, h) /\ k.data_index = i
  BY DEF IsHdlc, KeepsHeader, SameAddresses
<1>. HIDE DEF k
<1>3. KeepsHeader(m, h) /\ m.data_index = i /\ m.data_size = l
  BY <1>2 DEF IsHdlc, KeepsHeader, SameAddresses
<1>. HIDE DEF m
<1>. QED  BY <1>1, <1>3

LEMMA PieceOf ==
  ASSUME NEW b, IsSequence(b), NEW d \in Bytes, NEW m \in Nat, m + Len(d) <= Len(b), Holding(b, m, d)
  PROVE  SubSeq(b, m + 1, m + Len(d)) = d
<1>. DEFINE n == Len(d)
            x == SubSeq(b, m + 1, m + n)
<1>1. n \in Nat
  BY LenIs
<1>. HIDE DEF n
<1>2. ArePiece(x, b, m, n)
  BY <1>1, PieceIs DEF n
<1>. HIDE DEF x
<1>3. \E T : x \in Seq(T)
  BY <1>2 DEF ArePiece, IsSequence
<1>4. \E T : d \in Seq(T)
  BY DEF Bytes
<1>5. Len(x) = Len(d) /\ \A i \in 1..Len(x) : x[i] = d[i]
  BY <1>2 DEF ArePiece, Holding, n
<1>6. x = d
  BY <1>3, <1>4, <1>5, SeqEqual
<1>. QED  BY <1>6 DEF x, n

\* The information field of a whole frame is decoded.
LEMMA InformationRead ==
  ASSUME NEW a \in Bytes, Len(a) \in 2..5, NEW cf, NEW d \in Bytes, Len(d) <= MaxInfo,
         NEW z, IsWire(z, a, cf, d), NEW b, IsSequence(b), Len(z) <= Len(b), Holding(b, 0, z),
         NEW h, IsHdlc(h), h.frame_size = Len(z), NEW r, r = Information(h, b, 4 + Len(a))
  PROVE  r.ret = "OK" /\ KeepsHeader(r.h, h) /\ Shows(r.h, b, d)
<1>. DEFINE p == Len(a)
            n == Len(d)
            w == Overhead(d)
            at == 4 + p
            c == 65536
            remaining == (h.frame_size - 3 + c - at) % c
<1>1. p \in 2..5 /\ n \in Nat /\ n <= 128 /\ at \in Nat
  BY LenIs DEF MaxInfo
<1>2. /\ d = <<>> => w = 0
      /\ d # <<>> => w = 2 + n
  BY DEF Overhead
<1>3. Len(z) = p + 7 + w
  BY DEF IsWire
<1>. HIDE DEF p, n, w
<1>4. remaining = w
  <2>1. h.frame_size - 3 + c - at = w + c /\ w \in 0..130
    <3>1. w \in 0..130
      <4>1. CASE d = <<>>
        BY <1>2, <4>1
      <4>2. CASE d # <<>>
        BY <1>1, <1>2, <4>2
      <4>. QED  BY <4>1, <4>2
    <3>2. \A x \in 2..5, y \in 0..130 : (x + 7 + y) - 3 + c - (4 + x) = y + c
      OBVIOUS
    <3>3. h.frame_size = p + 7 + w
      BY <1>3
    <3>4. (p + 7 + w) - 3 + c - (4 + p) = w + c
      BY <1>1, <3>1, <3>2
    <3>. QED  BY <3>1, <3>3, <3>4
  <2>. HIDE DEF at
  <2>2. (w + c) % c = w
    BY <2>1
  <2>. QED  BY <2>1, <2>2
<1>5. r = IF remaining < 2 THEN Result("OK", h)
          ELSE IF ~Checks(b, at) THEN Result("ERR_HCS", h)
          ELSE Result("OK", [h EXCEPT !.data_index = at + 2, !.data_size = remaining - 2])
  BY DEF Information, p
<1>. HIDE DEF remaining
<1>6. CASE d = <<>>
  <2>1. r = Result("OK", h)
    BY <1>2, <1>4, <1>5, <1>6
  <2>2. r.ret = "OK" /\ r.h = h
    BY <2>1, ResultIs
  <2>. QED  BY <1>6, <2>2 DEF KeepsHeader, SameAddresses, Shows
<1>7. CASE d # <<>>
  <2>1. z \in Bytes /\ CheckSequence(SubSeq(z, 2, at)) = << z[at + 1], z[at + 2] >>
        /\ \A i \in 1..n : z[at + 2 + i] = d[i]
    <3>1. at + 1 = 5 + p /\ at + 2 = 6 + p
      BY <1>1
    <3>. HIDE DEF at
    <3>2. z \in Bytes /\ CheckSequence(SubSeq(z, 2, 4 + p)) = << z[5 + p], z[6 + p] >>
          /\ \A i \in 1..n : z[6 + p + i] = d[i]
      BY <1>7 DEF IsWire, p, n
    <3>. QED  BY <3>1, <3>2 DEF at
  <2>2. at >= 2 /\ at + 2 <= Len(z) /\ Len(z) \in Nat /\ Len(b) \in Nat
    BY <1>1, <1>2, <1>3, <1>7, SequenceIs
  <2>. HIDE DEF at
  <2>3. Checks(b, at)
    BY <1>1, <2>1, <2>2, ChecksHeld
  <2>. DEFINE u == at + 2
              v == remaining - 2
              g == [h EXCEPT !.data_index = u, !.data_size = v]
  <2>4. v = n
    BY <1>1, <1>2, <1>4, <1>7
  <2>5. ~(remaining < 2)
    BY <1>1, <1>2, <1>4, <1>7
  <2>6. r = Result("OK", g)
    BY <1>5, <2>3, <2>5
  <2>7. u \in Nat /\ u + n <= Len(z) /\ u + n <= Len(b)
    BY <1>1, <1>2, <1>3, <1>7, <2>2 DEF at
  <2>8. Holding(b, u, d)
    <3>1. ASSUME NEW i \in 1..n
          PROVE  b[u + i] = d[i]
      <4>1. u + i \in 1..Len(z)
        BY <1>1, <2>2, <2>7
      <4>2. b[u + i] = z[u + i]
        <5>1. b[0 + (u + i)] = z[u + i] /\ 0 + (u + i) = u + i
          BY <4>1 DEF Holding
        <5>. QED  BY <5>1
      <4>3. z[u + i] = d[i]
        BY <2>1
      <4>. QED  BY <4>2, <4>3
    <3>. QED  BY <3>1 DEF Holding, n
  <2>. HIDE DEF u, v
  <2>9. KeepsHeader(g, h) /\ g.data_index = u /\ g.data_size = v
    <3>1. g = Informed(h, u, v)
      BY DEF Informed
    <3>. HIDE DEF g
    <3>. QED  BY <3>1, PlacedInfo
  <2>. HIDE DEF g
  <2>10. SubSeq(b, u + 1, u + Len(d)) = d
    BY <2>7, <2>8, PieceOf DEF n
  <2>11. Shows(g, b, d)
    BY <2>4, <2>9, <2>10 DEF Shows, n
  <2>12. r.ret = "OK" /\ r.h = g
    BY <2>6, ResultIs
  <2>. QED  BY <2>9, <2>11, <2>12
<1>. QED  BY <1>6, <1>7

\* A description has what frame f carries, with its information in buffer b.
ReadAs(h, b, f) ==
    /\ h.type = f.h.type /\ h.frame_size = f.len
    /\ h.client_addr = f.h.client_addr /\ h.addr_len = f.h.addr_len
    /\ h.logical_device = f.h.logical_device
    /\ h.addr_len > 1 => h.phy_address = f.h.phy_address
    /\ h.type \in {"I", "RR"} => h.rrr = f.h.rrr /\ h.sss = f.h.sss
    /\ Shows(h, b, f.info)

LEMMA ReadDescribes ==
  ASSUME NEW h, NEW f
  PROVE  Describes(h, f) <=> ReadAs(h, buf, f)
BY DEF Describes, ReadAs, Shows

\* The wire of a frame begins a buffer.
BeginsBuffer(b, z) == IsSequence(b) /\ Len(z) <= Len(b) /\ Holding(b, 0, z)

\* Where the parts of a frame are in a buffer that begins with it.
LEMMA PartsHeld ==
  ASSUME NEW x, NEW y, NEW s, AreAddresses(x, y, s), NEW cf, NEW d \in Bytes,
         NEW z, IsWire(z, x \o y, cf, d), NEW b, BeginsBuffer(b, z)
  PROVE  Holding(b, 3, x) /\ Holding(b, 3 + Len(x), y) /\ b[4 + Len(x) + Len(y)] = cf
<1>. DEFINE p == Len(x)
            q == Len(y)
            a == x \o y
            l == Len(z)
            o == Overhead(d)
<1>1. p \in {1, 2, 4} /\ q \in {1, 2, 4} /\ Len(a) = p + q
      /\ (\A i \in 1..p : a[i] = x[i]) /\ (\A i \in 1..q : a[p + i] = y[i])
  BY AddressTypes
<1>. HIDE DEF a, o
<1>2. l = Len(a) + 7 + o /\ (\A i \in 1..Len(a) : z[3 + i] = a[i]) /\ z[4 + Len(a)] = cf
  BY DEF IsWire, a, o
<1>3. o \in Nat
  <2>1. Len(d) \in Nat
    BY LenIs
  <2>2. CASE d = <<>>
    BY <2>2 DEF Overhead, o
  <2>3. CASE d # <<>>
    BY <2>1, <2>3 DEF Overhead, o
  <2>. QED  BY <2>2, <2>3
<1>4. \A i \in 1..l : b[i] = z[i]
  BY DEF BeginsBuffer, Holding
<1>. HIDE DEF p, q, l
<1>5. l = p + q + 7 + o /\ (\A i \in 1..p + q : z[3 + i] = a[i]) /\ z[4 + (p + q)] = cf
  BY <1>1, <1>2
<1>6. ASSUME NEW i \in 1..p
      PROVE  b[3 + i] = x[i]
  <2>1. 3 + i \in 1..l /\ i \in 1..p + q
    BY <1>1, <1>3, <1>5
  <2>. QED  BY <1>1, <1>4, <1>5, <2>1
<1>7. ASSUME NEW i \in 1..q
      PROVE  b[(3 + p) + i] = y[i]
  <2>1. 3 + (p + i) \in 1..l /\ p + i \in 1..p + q /\ 3 + (p + i) = (3 + p) + i
    BY <1>1, <1>3, <1>5
  <2>2. b[3 + (p + i)] = z[3 + (p + i)]
    BY <1>4, <2>1
  <2>3. z[3 + (p + i)] = a[p + i] /\ a[p + i] = y[i]
    BY <1>1, <1>5, <2>1
  <2>. QED  BY <2>1, <2>2, <2>3
<1>8. b[4 + p + q] = cf
  <2>1. 4 + (p + q) \in 1..l /\ 4 + (p + q) = 4 + p + q
    BY <1>1, <1>3, <1>5
  <2>. QED  BY <1>4, <1>5, <2>1
<1>. QED  BY <1>6, <1>7, <1>8 DEF Holding, p, q

\* Both addresses are decoded, in the order of the frame.
KnowsAddresses(r, h, s) ==
    r.ret = "OK" /\ Keeps(r.h, h) /\ KnowsServer(r.h, s) /\ r.h.client_addr = s.client_addr

LEMMA AddressesRead ==
  ASSUME NEW x, NEW y, NEW s, AreAddresses(x, y, s), NEW b, Holding(b, 3, x),
         Holding(b, 3 + Len(x), y), NEW h, IsHdlc(h), h.sender = s.sender,
         NEW d, d = IF h.sender = CLIENT THEN ServerAddr(h, b, 4, Len(x))
                                         ELSE ClientAddr(h, b, 4, Len(x)),
         NEW r, r = IF h.sender = CLIENT THEN ClientAddr(d.h, b, 4 + Len(x), Len(y))
                                         ELSE ServerAddr(d.h, b, 4 + Len(x), Len(y))
  PROVE  d.ret = "OK" /\ KnowsAddresses(r, h, s)
<1>. DEFINE p == Len(x)
            m == 3 + p
<1>1. p \in {1, 2, 4}
  BY AddressTypes
<1>2. m \in Nat /\ m + 1 = 4 + p /\ 3 + 1 = 4
  BY <1>1
<1>. HIDE DEF m
<1>3. Holding(b, m, y)
  BY DEF m
<1>4. CASE s.sender = SERVER /\ IsClientAddr(x, s) /\ IsServerAddr(y, s)
  <2>1. h.sender # CLIENT
    BY <1>4 DEF SERVER, CLIENT
  <2>2. d = ClientAddr(h, b, 3 + 1, Len(x)) /\ r = ServerAddr(d.h, b, m + 1, Len(y))
    BY <1>2, <2>1
  <2>3. IsClientRead(d, h, s)
    BY <1>4, <2>2, ClientRead
  <2>4. d.ret = "OK" /\ IsHdlc(d.h)
    BY <2>3 DEF IsClientRead, Keeps
  <2>5. IsServerRead(r, d.h, s)
    BY <1>2, <1>3, <1>4, <2>2, <2>4, ServerRead
  <2>. QED  BY <2>3, <2>4, <2>5 DEF IsClientRead, IsServerRead, Keeps, KnowsAddresses
<1>5. CASE s.sender = CLIENT /\ IsServerAddr(x, s) /\ IsClientAddr(y, s)
  <2>1. h.sender = CLIENT
    BY <1>5
  <2>2. d = ServerAddr(h, b, 3 + 1, Len(x)) /\ r = ClientAddr(d.h, b, m + 1, Len(y))
    BY <1>2, <2>1
  <2>3. IsServerRead(d, h, s)
    BY <1>5, <2>2, ServerRead
  <2>4. d.ret = "OK" /\ IsHdlc(d.h)
    BY <2>3 DEF IsServerRead, Keeps
  <2>5. IsClientRead(r, d.h, s)
    BY <1>2, <1>3, <1>5, <2>2, <2>4, ClientRead
  <2>. QED  BY <2>3, <2>4, <2>5 DEF IsClientRead, IsServerRead, Keeps, KnowsAddresses, KnowsServer
<1>. QED  BY <1>4, <1>5 DEF AreAddresses

\* The contents of a whole frame are those that were sent.
LEMMA ContentsRead ==
  ASSUME NEW s, StationFits(s), NEW f, IsOwn(f, s), NEW b, BeginsBuffer(b, Wire(f)),
         NEW h, IsHdlc(h), h.sender = s.sender, h.frame_size = Len(Wire(f)),
         NEW r, r = Contents(h, b)
  PROVE  r.ret = "OK" /\ ReadAs(r.h, b, f)
<1>. DEFINE z == Wire(f)
            x == Dest(f.h)
            y == Source(f.h)
            cf == Control(f.h)
            d == f.info
            dest == AddrSize(b, 4, h.frame_size)
            src  == AddrSize(b, 4 + dest, h.frame_size)
            at   == 4 + dest + src
            to   == IF h.sender = CLIENT THEN ServerAddr(h, b, 4, dest)
                                         ELSE ClientAddr(h, b, 4, dest)
            from == IF h.sender = CLIENT THEN ClientAddr(to.h, b, 4 + dest, src)
                                         ELSE ServerAddr(to.h, b, 4 + dest, src)
            c    == ControlField(from.h, b[at])
            i    == Information(c.h, b, at)
<1>1. /\ to.ret = "OK" /\ from.ret = "OK" /\ c.ret = "OK" => r = i
  BY DEF Contents
<1>2. /\ IsWire(z, x \o y, cf, d) /\ AreAddresses(x, y, s) /\ d \in Bytes /\ Len(d) <= MaxInfo
      /\ f.len = Len(z)
  <2>1. IsOf(f.h, s) /\ d \in Bytes /\ Len(d) <= MaxInfo /\ f.len = Len(z)
    BY DEF IsOwn
  <2>. QED  BY <2>1, WireOfSent, AddressesAre
<1>3. BeginsBuffer(b, z) /\ h.frame_size = Len(z)
  OBVIOUS
<1>. HIDE DEF z, x, y, cf, d
<1>4. /\ x \in Bytes /\ y \in Bytes /\ Len(x) \in {1, 2, 4} /\ Len(y) \in {1, 2, 4}
      /\ x \o y \in Bytes /\ Len(x \o y) = Len(x) + Len(y) /\ Len(x \o y) \in 2..5
  BY <1>2, AddressTypes
<1>5. /\ Holding(b, 3, x) /\ Holding(b, 3 + Len(x), y) /\ b[4 + Len(x) + Len(y)] = cf
  BY <1>2, <1>3, PartsHeld
<1>6. IsAddress(x) /\ IsAddress(y)
  BY <1>2, AddressIs DEF AreAddresses
<1>7. h.frame_size \in Nat /\ h.frame_size >= 4
  <2>1. Len(z) = Len(x \o y) + 7 + Overhead(d) /\ Len(d) \in Nat
    BY <1>2, LenIs DEF IsWire
  <2>2. Overhead(d) \in Nat
    <3>1. CASE d = <<>>
      BY <3>1 DEF Overhead
    <3>2. CASE d # <<>>
      BY <2>1, <3>2 DEF Overhead
    <3>. QED  BY <3>1, <3>2
  <2>. QED  BY <1>3, <1>4, <2>1, <2>2
<1>8. dest = Len(x)
  <2>1. AddrSize(b, 3 + 1, h.frame_size) = Len(x)
    BY <1>5, <1>6, <1>7, AddrSizeIs
  <2>. QED  BY <2>1
<1>9. src = Len(y)
  <2>. DEFINE m == 3 + Len(x)
  <2>1. m \in Nat /\ m + 1 = 4 + dest /\ Holding(b, m, y)
    BY <1>4, <1>5, <1>8
  <2>. HIDE DEF m, dest
  <2>2. AddrSize(b, m + 1, h.frame_size) = Len(y)
    BY <1>6, <1>7, <2>1, AddrSizeIs
  <2>. QED  BY <2>1, <2>2
<1>10. b[at] = cf /\ at = 4 + Len(x \o y)
  <2>1. at = 4 + Len(x) + Len(y)
    BY <1>8, <1>9
  <2>2. 4 + Len(x) + Len(y) = 4 + Len(x \o y)
    BY <1>4
  <2>. HIDE DEF at
  <2>. QED  BY <1>5, <2>1, <2>2
<1>11. to.ret = "OK" /\ KnowsAddresses(from, h, s)
  <2>1. /\ to = IF h.sender = CLIENT THEN ServerAddr(h, b, 4, Len(x))
                                      ELSE ClientAddr(h, b, 4, Len(x))
        /\ from = IF h.sender = CLIENT THEN ClientAddr(to.h, b, 4 + Len(x), Len(y))
                                        ELSE ServerAddr(to.h, b, 4 + Len(x), Len(y))
    BY <1>8, <1>9
  <2>. HIDE DEF to, from
  <2>. QED  BY <1>2, <1>5, <2>1, AddressesRead
<1>. HIDE DEF dest, src, to, from, at
<1>12. IsControlRead(c, from.h, f)
  <2>1. IsHdlc(from.h)
    BY <1>11 DEF KnowsAddresses, Keeps
  <2>2. c = ControlField(from.h, Control(f.h))
    BY <1>10 DEF cf
  <2>. HIDE DEF c
  <2>. QED  BY <2>1, <2>2, ControlRead
<1>. HIDE DEF c
<1>13. i.ret = "OK" /\ KeepsHeader(i.h, c.h) /\ Shows(i.h, b, d)
  <2>1. IsHdlc(c.h) /\ c.h.frame_size = Len(z)
    BY <1>3, <1>11, <1>12 DEF KnowsAddresses, Keeps, IsControlRead
  <2>2. i = Information(c.h, b, 4 + Len(x \o y))
    BY <1>10
  <2>3. IsSequence(b) /\ Len(z) <= Len(b) /\ Holding(b, 0, z)
    BY <1>3 DEF BeginsBuffer
  <2>. HIDE DEF i
  <2>. DEFINE a == x \o y
  <2>4. a \in Bytes /\ Len(a) \in 2..5 /\ IsWire(z, a, cf, d) /\ i = Information(c.h, b, 4 + Len(a))
    BY <1>2, <1>4, <2>2
  <2>. HIDE DEF a
  <2>. QED  BY <1>2, <2>1, <2>3, <2>4, InformationRead
<1>. HIDE DEF i
<1>14. r = i
  BY <1>1, <1>11, <1>12 DEF KnowsAddresses, IsControlRead
<1>15. IsOf(f.h, s)
  BY DEF IsOwn
<1>16. /\ from.h.client_addr = s.client_addr /\ KnowsServer(from.h, s) /\ Keeps(from.h, h)
       /\ KnowsControl(c.h, f) /\ SameAddresses(c.h, from.h) /\ Keeps(c.h, from.h)
  BY <1>11, <1>12 DEF KnowsAddresses, IsControlRead
<1>17. ReadAs(i.h, b, f)
  <2>. DEFINE g == i.h
              k == c.h
              l == from.h
  <2>1. g.type = k.type /\ g.rrr = k.rrr /\ g.sss = k.sss /\ g.frame_size = k.frame_size
        /\ g.client_addr = k.client_addr /\ g.addr_len = k.addr_len
        /\ g.logical_device = k.logical_device /\ g.phy_address = k.phy_address
    BY <1>13 DEF KeepsHeader, SameAddresses
  <2>2. k.frame_size = f.len
    BY <1>2, <1>3, <1>16 DEF Keeps
  <2>3. k.type = f.h.type /\ (k.type \in {"I", "RR"} => k.rrr = f.h.rrr /\ k.sss = f.h.sss)
    BY <1>16 DEF KnowsControl
  <2>4. k.client_addr = f.h.client_addr /\ k.addr_len = f.h.addr_len
        /\ k.logical_device = f.h.logical_device
        /\ (k.addr_len > 1 => k.phy_address = f.h.phy_address)
    BY <1>15, <1>16 DEF KnowsServer, SameAddresses, IsOf
  <2>5. Shows(g, b, f.info)
    BY <1>13 DEF d
  <2>. HIDE DEF g, k, l
  <2>6. ReadAs(g, b, f)
    BY <2>1, <2>2, <2>3, <2>4, <2>5 DEF ReadAs
  <2>. QED  BY <2>6 DEF g
<1>. QED  BY <1>13, <1>14, <1>17

-----------------------------------------------------------------------------
(* What hdlc_decode returns of a part of a frame, and of a whole one         *)

LEMMA WireSize ==
  ASSUME NEW s, StationFits(s), NEW f, IsOwn(f, s)
  PROVE  Len(Wire(f)) \in 9..142 /\ f.len = Len(Wire(f)) /\ Wire(f) \in Bytes
<1>. DEFINE x == Dest(f.h)
            y == Source(f.h)
            d == f.info
            z == Wire(f)
            a == x \o y
<1>1. IsWire(z, a, Control(f.h), d)
  BY WireOfSent
<1>2. IsOf(f.h, s) /\ d \in Bytes /\ Len(d) <= 128 /\ f.len = Len(z)
  BY DEF IsOwn, MaxInfo
<1>3. AreAddresses(x, y, s)
  BY <1>2, AddressesAre
<1>4. Len(a) \in 2..5 /\ Len(d) \in Nat
  BY <1>2, <1>3, AddressTypes, LenIs
<1>. HIDE DEF a, d, z
<1>5. Len(z) = Len(a) + 7 + Overhead(d) /\ z \in Bytes
  BY <1>1 DEF IsWire
<1>6. Overhead(d) \in 0..130
  <2>1. CASE d = <<>>
    BY <2>1 DEF Overhead
  <2>2. CASE d # <<>>
    <3>. DEFINE m == Len(d)
    <3>1. m \in Nat /\ m <= 128 /\ Overhead(d) = 2 + m
      BY <1>2, <1>4, <2>2 DEF Overhead
    <3>. HIDE DEF m
    <3>. QED  BY <3>1
  <2>. QED  BY <2>1, <2>2
<1>7. Len(z) \in 9..142
  <2>. DEFINE m == Len(a)
              o == Overhead(d)
  <2>1. m \in 2..5 /\ o \in 0..130 /\ Len(z) = m + 7 + o
    BY <1>4, <1>5, <1>6
  <2>. HIDE DEF m, o
  <2>2. m + 7 + o \in 9..142
    BY <2>1
  <2>. QED  BY <2>1, <2>2
<1>. QED  BY <1>2, <1>5, <1>7 DEF z

\* The first three bytes give the size of the frame.
LEMMA SizeRead ==
  ASSUME NEW s, StationFits(s), NEW f, IsOwn(f, s), NEW b,
         b[1] = Wire(f)[1], b[2] = Wire(f)[2], b[3] = Wire(f)[3]
  PROVE  b[1] = FLAG /\ HasFormat(b[2]) /\ FrameSize(b) = Len(Wire(f))
<1>. DEFINE z == Wire(f)
<1>1. z[1] = FLAG /\ z[2] = 160 /\ z[3] = Len(z) - 2
  BY WireOfSent DEF IsWire, FORMAT
<1>2. Len(z) \in 9..142
  BY WireSize
<1>. HIDE DEF z
<1>3. b[1] = FLAG /\ b[2] = 160 /\ b[3] = Len(z) - 2
  BY <1>1 DEF z
<1>4. FrameSize(b) = Len(z)
  <2>1. FrameSize(b) = 2048 * (160 % 4) + (Len(z) - 2) + 2
    BY <1>3 DEF FrameSize
  <2>2. 2048 * (160 % 4) = 0
    OBVIOUS
  <2>. QED  BY <1>2, <2>1, <2>2
<1>5. HasFormat(b[2])
  BY <1>3 DEF HasFormat
<1>. QED  BY <1>3, <1>4, <1>5 DEF z

LEMMA DecodePart ==
  ASSUME NEW s, StationFits(s), NEW f, IsOwn(f, s), NEW b,
         b[1] = Wire(f)[1], b[2] = Wire(f)[2], b[3] = Wire(f)[3],
         NEW h, IsHdlc(h), NEW n \in Nat, n < Len(Wire(f))
  PROVE  Decode(h, b, n) = Result("ERR_SIZE", Sized(h, b))
<1>. DEFINE g == Sized(h, b)
<1>1. b[1] = FLAG /\ HasFormat(b[2]) /\ FrameSize(b) = Len(Wire(f))
  BY SizeRead
<1>2. g.frame_size = FrameSize(b)
  BY SizedIs
<1>3. Len(Wire(f)) \in 9..142
  BY WireSize
<1>4. g.frame_size > n
  BY <1>1, <1>2, <1>3
<1>5. g = [h EXCEPT !.segmentation = (b[2] \div 8) % 2, !.frame_size = FrameSize(b)]
  BY DEF Sized
<1>. HIDE DEF g
<1>6. Decode(h, b, n) = Result("ERR_SIZE", g)
  BY <1>1, <1>4, <1>5 DEF Decode
<1>. QED  BY <1>6 DEF g

LEMMA DecodeWhole ==
  ASSUME NEW s, StationFits(s), NEW f, IsOwn(f, s), NEW b, BeginsBuffer(b, Wire(f)),
         NEW h, IsHdlc(h), h.sender = s.sender, NEW n \in Nat, n >= Len(Wire(f)),
         NEW r, r = Decode(h, b, n)
  PROVE  r.ret = "OK" /\ ReadAs(r.h, b, f)
<1>. DEFINE g == Sized(h, b)
            z == Wire(f)
            l == Len(z) - 3
<1>1. Len(z) \in 9..142 /\ z \in Bytes
  BY WireSize
<1>2. \A i \in 1..Len(z) : b[i] = z[i]
  BY DEF BeginsBuffer, Holding
<1>3. b[1] = FLAG /\ HasFormat(b[2]) /\ FrameSize(b) = Len(z)
  <2>1. b[1] = z[1] /\ b[2] = z[2] /\ b[3] = z[3]
    BY <1>1, <1>2
  <2>. QED  BY <2>1, SizeRead
<1>4. IsHdlc(g) /\ g.sender = s.sender /\ g.frame_size = Len(z)
  BY <1>3, SizedIs
<1>5. z[Len(z)] = FLAG /\ CheckSequence(SubSeq(z, 2, l)) = << z[Len(z) - 2], z[Len(z) - 1] >>
  BY WireOfSent DEF IsWire
<1>6. g = [h EXCEPT !.segmentation = (b[2] \div 8) % 2, !.frame_size = FrameSize(b)]
  BY DEF Sized
<1>7. n >= Len(z) /\ BeginsBuffer(b, z)
  OBVIOUS
<1>. HIDE DEF g, z
<1>8. l \in Nat /\ l >= 2 /\ l + 2 <= Len(z) /\ l + 1 = Len(z) - 2 /\ l + 2 = Len(z) - 1
  <2>. DEFINE k == Len(z)
  <2>1. k \in 9..142
    BY <1>1
  <2>. HIDE DEF k
  <2>2. k - 3 \in Nat /\ k - 3 >= 2 /\ (k - 3) + 2 <= k /\ (k - 3) + 1 = k - 2 /\ (k - 3) + 2 = k - 1
    BY <2>1
  <2>. QED  BY <2>2 DEF k
<1>9. Checks(b, l)
  <2>1. CheckSequence(SubSeq(z, 2, l)) = << z[l + 1], z[l + 2] >>
    BY <1>5, <1>8
  <2>2. IsSequence(b) /\ Len(z) <= Len(b) /\ Holding(b, 0, z)
    BY <1>7 DEF BeginsBuffer
  <2>. HIDE DEF l
  <2>. QED  BY <1>1, <1>8, <2>1, <2>2, ChecksHeld
<1>10. Checks(b, g.frame_size - 3)
  BY <1>4, <1>9
<1>11. ~(g.frame_size > n) /\ b[g.frame_size] = FLAG
  <2>. DEFINE k == Len(z)
  <2>1. k \in 9..142 /\ n >= k /\ g.frame_size = k /\ z[k] = FLAG /\ \A i \in 1..k : b[i] = z[i]
    BY <1>1, <1>2, <1>4, <1>5, <1>7
  <2>. HIDE DEF k
  <2>2. ~(k > n) /\ b[k] = FLAG
    BY <2>1
  <2>. QED  BY <2>1, <2>2
<1>12. r = Contents(g, b)
  BY <1>3, <1>6, <1>10, <1>11 DEF Decode
<1>. QED  BY <1>4, <1>7, <1>12, ContentsRead DEF z

-----------------------------------------------------------------------------
(* The bytes that a receiver has or will have, without a fault               *)

\* Byte i of the n bytes in buffer b and of those on line l.
Stream(b, n, l, i) == IF i <= n THEN b[i] ELSE l[i - n]

Fits(f) == f.len \in 9..142 /\ f.len = Len(Wire(f)) /\ Wire(f) \in Bytes

LEMMA SentFits ==
  ASSUME NEW s, StationFits(s), NEW f, IsSent(f, s)
  PROVE  Fits(f)
<1>1. CASE IsOwn(f, s)
  BY <1>1, WireSize DEF Fits
<1>2. CASE IsOther(f)
  BY <1>2, OtherIs DEF Fits
<1>. QED  BY <1>1, <1>2 DEF IsSent

\* The bytes are those of frames q; frame k ends at byte at[k].
IsAligned(at, q, b, n, l) ==
    /\ at[0] = 0 /\ at[Len(q)] = n + Len(l)
    /\ \A k \in 0..Len(q) : at[k] \in 0..n + Len(l)
    /\ \A j, k \in 0..Len(q) : j <= k => at[j] <= at[k]
    /\ \A k \in 1..Len(q) :
          /\ Fits(q[k]) /\ at[k] = at[k - 1] + q[k].len
          /\ \A i \in 1..q[k].len : Stream(b, n, l, at[k - 1] + i) = Wire(q[k])[i]

\* The same bytes, with some moved from the line to the buffer.
LEMMA SameStream ==
  ASSUME NEW q, IsSequence(q), NEW b, NEW n \in Nat, NEW l, Len(l) \in Nat,
         NEW c, NEW m \in Nat, NEW r, m + Len(r) = n + Len(l),
         \A i \in 1..n + Len(l) : Stream(c, m, r, i) = Stream(b, n, l, i),
         NEW at, IsAligned(at, q, b, n, l)
  PROVE  IsAligned(at, q, c, m, r)
<1>. DEFINE t == n + Len(l)
<1>1. /\ at[0] = 0 /\ at[Len(q)] = t
      /\ \A k \in 0..Len(q) : at[k] \in 0..t
      /\ \A j, k \in 0..Len(q) : j <= k => at[j] <= at[k]
  BY DEF IsAligned
<1>2. t \in Nat /\ m + Len(r) = t /\ Len(q) \in Nat
      /\ \A i \in 1..t : Stream(c, m, r, i) = Stream(b, n, l, i)
  BY SequenceIs
<1>3. ASSUME NEW k \in 1..Len(q)
      PROVE  /\ Fits(q[k]) /\ at[k] = at[k - 1] + q[k].len
             /\ \A i \in 1..q[k].len : Stream(c, m, r, at[k - 1] + i) = Wire(q[k])[i]
  <2>1. /\ Fits(q[k]) /\ at[k] = at[k - 1] + q[k].len
        /\ \A i \in 1..q[k].len : Stream(b, n, l, at[k - 1] + i) = Wire(q[k])[i]
    BY DEF IsAligned
  <2>2. k \in 0..Len(q) /\ k - 1 \in 0..Len(q)
    BY <1>2
  <2>3. at[k] \in 0..t /\ at[k - 1] \in 0..t /\ q[k].len \in 9..142
    BY <1>1, <2>1, <2>2 DEF Fits
  <2>. HIDE DEF t
  <2>4. ASSUME NEW i \in 1..q[k].len
        PROVE  Stream(c, m, r, at[k - 1] + i) = Wire(q[k])[i]
    <3>. DEFINE x == at[k - 1]
                y == q[k].len
    <3>1. x \in 0..t /\ y \in 9..142 /\ x + y \in 0..t /\ i \in 1..y
      BY <2>1, <2>3
    <3>2. Stream(b, n, l, x + i) = Wire(q[k])[i]
      BY <2>1
    <3>. HIDE DEF x, y
    <3>3. x + i \in 1..t
      BY <1>2, <3>1
    <3>4. Stream(c, m, r, x + i) = Wire(q[k])[i]
      BY <1>2, <3>2, <3>3
    <3>. QED  BY <3>4 DEF x
  <2>. QED  BY <2>1, <2>4
<1>. HIDE DEF t
<1>. QED  BY <1>1, <1>2, <1>3 DEF IsAligned

LEMMA SentAligned ==
  ASSUME NEW q, IsSequence(q), NEW b, NEW n \in Nat, NEW l \in Bytes,
         NEW at, IsAligned(at, q, b, n, l), NEW f, Fits(f), NEW p, AreAppended(p, q, f),
         NEW r, AreJoined(r, l, Wire(f))
  PROVE  \E new : IsAligned(new, p, b, n, r)
<1>. DEFINE t == n + Len(l)
            z == Wire(f)
            c == Len(q)
            new == [k \in 0..c + 1 |-> IF k <= c THEN at[k] ELSE t + f.len]
<1>1. t \in Nat /\ c \in Nat /\ Len(l) \in Nat
  BY LenIs, SequenceIs
<1>2. f.len \in 9..142 /\ Len(z) = f.len
  BY DEF Fits
<1>3. /\ Len(r) = Len(l) + f.len
      /\ \A i \in 1..Len(l) : r[i] = l[i]
      /\ \A i \in 1..f.len : r[Len(l) + i] = z[i]
  BY <1>2 DEF AreJoined
<1>4. Len(p) = c + 1 /\ (\A i \in 1..c : p[i] = q[i]) /\ p[c + 1] = f
  BY DEF AreAppended
<1>5. at[0] = 0 /\ at[c] = t /\ (\A k \in 0..c : at[k] \in 0..t)
      /\ \A j, k \in 0..c : j <= k => at[j] <= at[k]
  BY DEF IsAligned
<1>6. n + Len(r) = t + f.len
  BY <1>1, <1>2, <1>3
<1>7. ASSUME NEW i \in 1..t
      PROVE  Stream(b, n, r, i) = Stream(b, n, l, i)
  <2>1. CASE i <= n
    BY <2>1 DEF Stream
  <2>2. CASE ~(i <= n)
    <3>1. i - n \in 1..Len(l)
      BY <1>1, <2>2
    <3>. QED  BY <1>3, <2>2, <3>1 DEF Stream
  <2>. QED  BY <2>1, <2>2
<1>8. ASSUME NEW i \in 1..f.len
      PROVE  Stream(b, n, r, t + i) = z[i]
  <2>1. ~(t + i <= n) /\ t + i - n = Len(l) + i
    BY <1>1, <1>2
  <2>2. r[t + i - n] = z[i]
    BY <1>3, <2>1
  <2>. DEFINE u == t + i
  <2>3. ~(u <= n) /\ r[u - n] = z[i]
    BY <2>1, <2>2
  <2>. HIDE DEF u
  <2>4. Stream(b, n, r, u) = z[i]
    BY <2>3 DEF Stream
  <2>. QED  BY <2>4 DEF u
<1>. HIDE DEF t, c, z
<1>9. new[0] = 0 /\ new[c + 1] = t + f.len /\ \A k \in 0..c : new[k] = at[k]
  BY <1>1, <1>5
<1>. HIDE DEF new
<1>10. ASSUME NEW k \in 0..c + 1
       PROVE  new[k] \in 0..t + f.len
  <2>1. CASE k = c + 1
    BY <1>1, <1>2, <1>9, <2>1
  <2>2. CASE k \in 0..c
    <3>1. at[k] \in 0..t /\ new[k] = at[k]
      BY <1>5, <1>9, <2>2
    <3>. QED  BY <1>1, <1>2, <3>1
  <2>. QED  BY <1>1, <2>1, <2>2
<1>11. ASSUME NEW k \in 1..c + 1
       PROVE  /\ Fits(p[k]) /\ new[k] = new[k - 1] + p[k].len
              /\ \A i \in 1..p[k].len : Stream(b, n, r, new[k - 1] + i) = Wire(p[k])[i]
  <2>1. CASE k = c + 1
    <3>1. p[k] = f /\ new[k] = t + f.len /\ k - 1 = c /\ c \in 0..c
      BY <1>1, <1>4, <1>9, <2>1
    <3>2. new[k - 1] = t
      BY <1>5, <1>9, <3>1
    <3>. QED  BY <1>8, <3>1, <3>2 DEF z
  <2>2. CASE k \in 1..c
    <3>1. /\ Fits(q[k]) /\ at[k] = at[k - 1] + q[k].len
          /\ \A i \in 1..q[k].len : Stream(b, n, l, at[k - 1] + i) = Wire(q[k])[i]
      BY <2>2 DEF IsAligned, c
    <3>2. k \in 0..c /\ k - 1 \in 0..c /\ p[k] = q[k]
      BY <1>1, <1>4, <2>2
    <3>3. new[k] = at[k] /\ new[k - 1] = at[k - 1] /\ at[k] \in 0..t /\ at[k - 1] \in 0..t
      BY <1>5, <1>9, <3>2
    <3>. DEFINE x == at[k - 1]
                y == q[k].len
    <3>4. x \in 0..t /\ y \in 9..142 /\ x + y \in 0..t
      BY <3>1, <3>3 DEF Fits
    <3>5. ASSUME NEW i \in 1..y
          PROVE  Stream(b, n, r, x + i) = Wire(q[k])[i]
      <4>1. Stream(b, n, l, x + i) = Wire(q[k])[i]
        BY <3>1
      <4>. HIDE DEF x, y
      <4>2. x + i \in 1..t
        BY <1>1, <3>4
      <4>. QED  BY <1>7, <4>1, <4>2
    <3>. QED  BY <3>1, <3>2, <3>3, <3>5
  <2>. QED  BY <1>1, <2>1, <2>2
<1>12. ASSUME NEW j \in 0..c + 1, NEW k \in 0..c + 1, j <= k
       PROVE  new[j] <= new[k]
  <2>1. CASE k = c + 1
    <3>1. new[k] = t + f.len
      BY <1>9, <2>1
    <3>2. new[j] \in 0..t + f.len
      BY <1>10
    <3>. QED  BY <1>1, <1>2, <3>1, <3>2
  <2>2. CASE k # c + 1
    <3>1. j \in 0..c /\ k \in 0..c
      BY <1>1, <1>12, <2>2
    <3>2. at[j] <= at[k]
      BY <1>5, <1>12, <3>1
    <3>. QED  BY <1>9, <3>1, <3>2
  <2>. QED  BY <2>1, <2>2
<1>13. IsAligned(new, p, b, n, r)
  BY <1>4, <1>6, <1>9, <1>10, <1>11, <1>12 DEF IsAligned
<1>. QED  BY <1>13

LEMMA ConsumedAligned ==
  ASSUME NEW q, IsSequence(q), q # <<>>, NEW b, NEW n \in Nat, NEW l \in Bytes,
         NEW at, IsAligned(at, q, b, n, l), NEW p, AreRest(p, q, 1), q[1].len <= n,
         NEW c, \A i \in 1..n - q[1].len : c[i] = b[i + q[1].len]
  PROVE  \E new : IsAligned(new, p, c, n - q[1].len, l)
<1>. DEFINE m == q[1].len
            t == n + Len(l)
            o == Len(q)
            new == [k \in 0..o - 1 |-> at[k + 1] - m]
<1>1. t \in Nat /\ o \in Nat /\ o >= 1 /\ Len(l) \in Nat
  <2>1. Len(l) \in Nat /\ o \in Nat
    BY LenIs, SequenceIs
  <2>2. o # 0
    BY EmptySeq DEF IsSequence
  <2>. QED  BY <2>1, <2>2
<1>2. at[0] = 0 /\ at[o] = t /\ (\A k \in 0..o : at[k] \in 0..t)
      /\ \A j, k \in 0..o : j <= k => at[j] <= at[k]
  BY DEF IsAligned
<1>3. ASSUME NEW k \in 1..o
      PROVE  /\ Fits(q[k]) /\ at[k] = at[k - 1] + q[k].len
             /\ \A i \in 1..q[k].len : Stream(b, n, l, at[k - 1] + i) = Wire(q[k])[i]
  BY DEF IsAligned
<1>4. m \in 9..142 /\ m <= n /\ at[1] = m
  <2>1. 1 \in 1..o /\ 1 - 1 = 0
    BY <1>1
  <2>2. Fits(q[1]) /\ at[1] = at[0] + m
    BY <1>3, <2>1
  <2>3. m \in 9..142
    BY <2>2 DEF Fits
  <2>. HIDE DEF m
  <2>4. 0 + m = m
    BY <2>3
  <2>. QED  BY <1>2, <2>2, <2>3, <2>4 DEF m
<1>5. Len(p) = o - 1 /\ \A i \in 1..o - 1 : p[i] = q[1 + i]
  BY DEF AreRest
<1>6. \A i \in 1..n - m : c[i] = b[i + m]
  OBVIOUS
<1>. HIDE DEF m, o
<1>7. n - m \in Nat /\ (n - m) + Len(l) = t - m /\ t - m \in Nat
  BY <1>1, <1>4
<1>8. ASSUME NEW i \in 1..t - m
      PROVE  Stream(c, n - m, l, i) = Stream(b, n, l, i + m)
  <2>1. CASE i <= n - m
    <3>1. i + m <= n /\ i \in 1..n - m
      BY <1>4, <1>7, <2>1
    <3>. QED  BY <1>6, <2>1, <3>1 DEF Stream
  <2>2. CASE ~(i <= n - m)
    <3>. DEFINE u == i + m
                v == n - m
    <3>1. ~(u <= n) /\ ~(i <= v) /\ u - n = i - v
      BY <1>4, <1>7, <2>2
    <3>. HIDE DEF u, v
    <3>2. Stream(c, v, l, i) = l[i - v] /\ Stream(b, n, l, u) = l[u - n]
      BY <3>1 DEF Stream
    <3>3. Stream(c, v, l, i) = Stream(b, n, l, u)
      BY <3>1, <3>2
    <3>. QED  BY <3>3 DEF u, v
  <2>. QED  BY <2>1, <2>2
<1>. HIDE DEF t
<1>9. \A k \in 0..o - 1 : new[k] = at[k + 1] - m
  OBVIOUS
<1>. HIDE DEF new
<1>10. new[0] = 0 /\ new[o - 1] = t - m
  <2>1. 0 \in 0..o - 1 /\ o - 1 \in 0..o - 1 /\ 0 + 1 = 1 /\ o - 1 + 1 = o
    BY <1>1
  <2>2. new[0] = m - m /\ new[o - 1] = t - m
    BY <1>2, <1>4, <1>9, <2>1
  <2>. QED  BY <1>4, <2>2
<1>11. ASSUME NEW k \in 1..o - 1
       PROVE  /\ Fits(p[k]) /\ new[k] = new[k - 1] + p[k].len
              /\ new[k - 1] \in 0..t - m /\ new[k] \in 0..t - m
              /\ \A i \in 1..p[k].len : Stream(c, n - m, l, new[k - 1] + i) = Wire(p[k])[i]
  <2>. DEFINE j == k + 1
              x == at[k]
              y == q[j].len
  <2>1. j \in 1..o /\ k \in 0..o - 1 /\ k - 1 \in 0..o - 1 /\ k - 1 + 1 = k /\ j - 1 = k /\ 1 + k = j
        /\ k \in 1..o /\ k \in 0..o /\ j \in 0..o
    BY <1>1
  <2>. HIDE DEF j
  <2>2. /\ Fits(q[j]) /\ at[j] = x + y
        /\ \A i \in 1..y : Stream(b, n, l, x + i) = Wire(q[j])[i]
    BY <1>3, <2>1
  <2>3. p[k] = q[j] /\ new[k - 1] = x - m /\ new[k] = at[j] - m
    BY <1>5, <1>9, <2>1 DEF j
  <2>4. x \in 0..t /\ at[j] \in 0..t /\ y \in 9..142
    BY <1>2, <2>1, <2>2 DEF Fits
  <2>5. x >= m
    <3>1. 1 \in 0..o /\ 1 <= k
      BY <1>1
    <3>2. at[1] <= at[k]
      BY <1>2, <2>1, <3>1
    <3>. QED  BY <1>4, <2>4, <3>2
  <2>6. ASSUME NEW i \in 1..y
        PROVE  Stream(c, n - m, l, (x - m) + i) = Wire(q[j])[i]
    <3>1. Stream(b, n, l, x + i) = Wire(q[j])[i]
      BY <2>2
    <3>2. x + y \in 0..t
      BY <2>2, <2>4
    <3>. HIDE DEF x, y
    <3>3. (x - m) + i \in 1..t - m /\ (x - m) + i + m = x + i
      <4>1. x \in Int /\ m \in Int /\ t \in Int /\ y \in Int /\ x >= m /\ x + y <= t
            /\ i \in Int /\ 1 <= i /\ i <= y
        BY <1>1, <1>4, <2>4, <2>5, <3>2
      <4>. QED  BY <4>1
    <3>4. Stream(c, n - m, l, (x - m) + i) = Stream(b, n, l, (x - m) + i + m)
      BY <1>8, <3>3
    <3>. QED  BY <3>1, <3>3, <3>4
  <2>7. at[j] - m = (x - m) + y /\ x - m \in 0..t - m /\ at[j] - m \in 0..t - m
    <3>1. x + y \in 0..t /\ at[j] = x + y
      BY <2>2, <2>4
    <3>. HIDE DEF x, y
    <3>. QED  BY <1>1, <1>4, <2>4, <2>5, <3>1
  <2>. QED  BY <2>2, <2>3, <2>6, <2>7
<1>12. ASSUME NEW k \in 0..o - 1
       PROVE  new[k] \in 0..t - m
  <2>1. CASE k = 0
    BY <1>7, <1>10, <2>1
  <2>2. CASE k # 0
    BY <1>11, <2>2
  <2>. QED  BY <2>1, <2>2
<1>13. ASSUME NEW j \in 0..o - 1, NEW k \in 0..o - 1, j <= k
       PROVE  new[j] <= new[k]
  <2>1. j + 1 \in 0..o /\ k + 1 \in 0..o /\ j + 1 <= k + 1
    BY <1>1, <1>13
  <2>2. at[j + 1] <= at[k + 1] /\ at[j + 1] \in 0..t /\ at[k + 1] \in 0..t
    BY <1>2, <2>1
  <2>. DEFINE x == at[j + 1]
              y == at[k + 1]
  <2>3. new[j] = x - m /\ new[k] = y - m
    BY <1>9
  <2>4. x <= y /\ x \in 0..t /\ y \in 0..t
    BY <2>2
  <2>. HIDE DEF x, y
  <2>5. x \in Int /\ y \in Int
    <3>1. 0..t \subseteq Int
      OBVIOUS
    <3>. QED  BY <2>4, <3>1
  <2>6. m \in Int
    <3>1. m \in 9..142
      BY <1>4
    <3>. QED  BY <3>1
  <2>7. x - m <= y - m
    <3>1. x <= y
      BY <2>4
    <3>. QED  BY <2>5, <2>6, <3>1
  <2>. QED  BY <2>3, <2>7
<1>14. IsAligned(new, p, c, n - m, l)
  BY <1>5, <1>7, <1>10, <1>11, <1>12, <1>13 DEF IsAligned
<1>. QED  BY <1>14 DEF m

\* What the decoder says of a frame that it accepts: all that a station put into its own, and
\* the size of one of others.
Takes(h, b, f) ==
    IF f.own THEN ReadAs(h, b, f) ELSE h.frame_size = f.len /\ SubSeq(b, 1, f.len) = f.info

\* Without a fault, the bytes are those of the frames that the receiver has not passed, it
\* waits while the oldest is not whole, and what it decoded is the oldest.
Clean ==
    /\ \E at : IsAligned(at, sent, buf, size, line)
    /\ phase = "waiting" /\ sent # <<>> => size < sent[1].len
    /\ Decoded => sent # <<>> /\ Takes(rx, buf, sent[1]) /\ sent[1].len <= size

CleanInv == ~hurt => Clean

FirstOf(s) ==
    /\ sent = <<>> => size = 0 /\ Len(line) = 0
    /\ sent # <<>> =>
          /\ Fits(sent[1]) /\ IsSent(sent[1], s) /\ sent[1].len <= size + Len(line)
          /\ \A i \in 1..sent[1].len : i <= size => buf[i] = Wire(sent[1])[i]

LEMMA FirstIs ==
  ASSUME NEW s, LinkOf(s), Clean
  PROVE  FirstOf(s)
<1>1. PICK at : IsAligned(at, sent, buf, size, line)
  BY DEF Clean
<1>. DEFINE n == Len(sent)
            t == size + Len(line)
<1>2. IsSequence(sent) /\ line \in Bytes /\ size \in Nat /\ \A i \in 1..n : IsSent(sent[i], s)
  BY LinkAssumption DEF LinkOf
<1>3. n \in Nat /\ Len(line) \in Nat
  BY <1>2, LenIs, SequenceIs
<1>4. at[0] = 0 /\ at[n] = t /\ \A k \in 0..n : at[k] \in 0..t
  BY <1>1 DEF IsAligned
<1>5. CASE sent = <<>>
  <2>1. t = 0
    BY <1>4, <1>5
  <2>2. size = 0 /\ Len(line) = 0
    BY <1>2, <1>3, <2>1
  <2>. QED  BY <1>5, <2>2 DEF FirstOf
<1>6. CASE sent # <<>>
  <2>1. n >= 1
    <3>1. n # 0
      BY <1>2, <1>6, EmptySeq DEF IsSequence
    <3>. QED  BY <1>3, <3>1
  <2>2. 1 \in 1..n /\ 1 - 1 = 0 /\ 1 \in 0..n
    BY <1>3, <2>1
  <2>3. /\ Fits(sent[1]) /\ at[1] = at[0] + sent[1].len
        /\ \A i \in 1..sent[1].len : Stream(buf, size, line, at[0] + i) = Wire(sent[1])[i]
    BY <1>1, <2>2 DEF IsAligned
  <2>4. IsSent(sent[1], s)
    BY <1>2, <2>2
  <2>5. sent[1].len <= t
    <3>. DEFINE e == sent[1].len
    <3>1. e \in 9..142 /\ at[1] \in 0..t /\ at[1] = 0 + e /\ t \in Nat
      BY <1>2, <1>3, <1>4, <2>2, <2>3 DEF Fits
    <3>. HIDE DEF t, e
    <3>2. e <= t
      BY <3>1
    <3>. QED  BY <3>2 DEF t, e
  <2>6. ASSUME NEW i \in 1..sent[1].len, i <= size
        PROVE  buf[i] = Wire(sent[1])[i]
    <3>1. Stream(buf, size, line, 0 + i) = Wire(sent[1])[i] /\ 0 + i = i
      BY <1>4, <2>3
    <3>. QED  BY <2>6, <3>1 DEF Stream
  <2>. QED  BY <1>6, <2>3, <2>4, <2>5, <2>6 DEF FirstOf
<1>. QED  BY <1>5, <1>6

\* What the contents of a frame make of a description: the decoder accepts or refuses them, and
\* a refusal leaves the last information.
IsVerdict(r, h) ==
    /\ r.ret \in {"OK"} \cup Refusals
    /\ r.h.frame_size = h.frame_size
    /\ r.ret # "OK" => r.h.data_index = h.data_index /\ r.h.data_size = h.data_size

\* The part of the decoder that returned, with the code of a part that was passed.
Part(r, h, codes) == r.ret \in codes /\ Keeps(r.h, h)

LEMMA PartKept ==
  ASSUME NEW r, NEW h, NEW g, Keeps(g, h), NEW codes, Part(r, g, codes)
  PROVE  Part(r, h, codes)
BY DEF Part, Keeps

LEMMA ServerAddrPart ==
  ASSUME NEW h, IsHdlc(h), NEW b, NEW at, NEW n
  PROVE  Part(ServerAddr(h, b, at, n), h, {"OK", "ERR_ADDR"})
<1>. DEFINE g == [h EXCEPT !.addr_len = n]
            r == ServerAddr(h, b, at, n)
<1>1. Keeps(r.h, h)
  BY ServerAddrKeeps
<1>2. IsServerAddrOf(r, g, b, at, n)
  BY ServerAddrIs
<1>. HIDE DEF g, r
<1>3. r.ret \in {"OK", "ERR_ADDR"}
  BY <1>2, ResultIs DEF IsServerAddrOf
<1>. QED  BY <1>1, <1>3 DEF Part, r

LEMMA ClientAddrPart ==
  ASSUME NEW h, IsHdlc(h), NEW b, NEW at, NEW n
  PROVE  Part(ClientAddr(h, b, at, n), h, {"OK", "ERR_ADDR"})
<1>1. Keeps(ClientAddr(h, b, at, n).h, h)
  BY ClientAddrKeeps
<1>2. ClientAddr(h, b, at, n).ret \in {"OK", "ERR_ADDR"}
  BY DEF ClientAddr, Result
<1>. QED  BY <1>1, <1>2 DEF Part

LEMMA ControlFieldPart ==
  ASSUME NEW h, IsHdlc(h), NEW cf
  PROVE  Part(ControlField(h, cf), h, {"OK", "ERR"})
<1>1. Keeps(ControlField(h, cf).h, h)
  BY ControlFieldKeeps
<1>2. ControlField(h, cf).ret \in {"OK", "ERR"}
  BY DEF ControlField, Result
<1>. QED  BY <1>1, <1>2 DEF Part

LEMMA InformationVerdict ==
  ASSUME NEW h, IsHdlc(h), NEW b, NEW cf
  PROVE  IsVerdict(Information(h, b, cf), h)
<1>. DEFINE l == (h.frame_size - 3 + 65536 - cf) % 65536
            i == cf + 2
            n == l - 2
            k == [h EXCEPT !.data_index = i]
            m == [k EXCEPT !.data_size = n]
            r == Information(h, b, cf)
<1>1. r \in {Result("OK", h), Result("ERR_HCS", h), Result("OK", m)}
  BY DEF Information
<1>. HIDE DEF i, n, l
<1>2. IsHdlc(k) /\ k.frame_size = h.frame_size
  BY DEF IsHdlc
<1>. HIDE DEF k
<1>3. m.frame_size = h.frame_size
  BY <1>2 DEF IsHdlc
<1>. HIDE DEF m, r
<1>4. CASE r = Result("OK", h) \/ r = Result("OK", m)
  BY <1>3, <1>4, ResultIs DEF IsVerdict, r
<1>5. CASE r = Result("ERR_HCS", h)
  BY <1>5, ResultIs DEF IsVerdict, r, Refusals
<1>. QED  BY <1>1, <1>4, <1>5

LEMMA ContentsVerdict ==
  ASSUME NEW h, IsHdlc(h), NEW b
  PROVE  IsVerdict(Contents(h, b), h)
<1>. DEFINE dest == AddrSize(b, 4, h.frame_size)
            src  == AddrSize(b, 4 + dest, h.frame_size)
            cf   == 4 + dest + src
            d    == IF h.sender = CLIENT THEN ServerAddr(h, b, 4, dest)
                                         ELSE ClientAddr(h, b, 4, dest)
            s    == IF h.sender = CLIENT THEN ClientAddr(d.h, b, 4 + dest, src)
                                         ELSE ServerAddr(d.h, b, 4 + dest, src)
            c    == ControlField(s.h, b[cf])
            i    == Information(c.h, b, cf)
            r    == Contents(h, b)
<1>1. \/ r = d /\ d.ret # "OK"
      \/ r = s /\ s.ret # "OK"
      \/ r = c /\ c.ret # "OK"
      \/ r = i
  BY DEF Contents
<1>. HIDE DEF r
<1>2. Part(d, h, {"OK", "ERR_ADDR"})
  BY ServerAddrPart, ClientAddrPart
<1>3. IsHdlc(d.h) /\ Keeps(d.h, h)
  BY <1>2 DEF Part, Keeps
<1>. HIDE DEF d, dest, src
<1>4. Part(s, h, {"OK", "ERR_ADDR"})
  <2>1. Part(s, d.h, {"OK", "ERR_ADDR"})
    BY <1>3, ServerAddrPart, ClientAddrPart
  <2>. QED  BY <1>3, <2>1, PartKept
<1>. HIDE DEF s
<1>5. IsHdlc(s.h) /\ Keeps(s.h, h)
  BY <1>4 DEF Part, Keeps
<1>6. Part(c, h, {"OK", "ERR"})
  <2>1. Part(c, s.h, {"OK", "ERR"})
    BY <1>5, ControlFieldPart
  <2>. QED  BY <1>5, <2>1, PartKept
<1>. HIDE DEF c, cf
<1>7. IsHdlc(c.h) /\ Keeps(c.h, h)
  BY <1>6 DEF Part, Keeps
<1>8. IsVerdict(i, h)
  <2>1. IsVerdict(i, c.h)
    BY <1>7, InformationVerdict
  <2>. HIDE DEF i
  <2>. QED  BY <1>7, <2>1 DEF IsVerdict, Keeps
<1>. HIDE DEF i
<1>9. ASSUME NEW x, Part(x, h, {"OK", "ERR_ADDR"}) \/ Part(x, h, {"OK", "ERR"})
      PROVE  IsVerdict(x, h)
  BY <1>9 DEF Part, Keeps, IsVerdict, Refusals
<1>10. IsVerdict(r, h)
  BY <1>1, <1>2, <1>4, <1>6, <1>8, <1>9
<1>. QED  BY <1>10 DEF r

\* The first three bytes of a frame of others give its size.
LEMMA OtherSizeRead ==
  ASSUME NEW f, IsOther(f), NEW b,
         b[1] = Wire(f)[1], b[2] = Wire(f)[2], b[3] = Wire(f)[3]
  PROVE  b[1] = FLAG /\ HasFormat(b[2]) /\ FrameSize(b) = Len(Wire(f))
<1>1. Wire(f)[1] = FLAG /\ HasFormat(Wire(f)[2]) /\ FrameSize(Wire(f)) = Len(Wire(f))
  BY OtherIs
<1>2. FrameSize(b) = FrameSize(Wire(f))
  BY DEF FrameSize
<1>. QED  BY <1>1, <1>2

LEMMA OtherPart ==
  ASSUME NEW f, IsOther(f), NEW b,
         b[1] = Wire(f)[1], b[2] = Wire(f)[2], b[3] = Wire(f)[3],
         NEW h, IsHdlc(h), NEW n \in Nat, n < Len(Wire(f))
  PROVE  Decode(h, b, n) = Result("ERR_SIZE", Sized(h, b))
<1>. DEFINE g == Sized(h, b)
<1>1. b[1] = FLAG /\ HasFormat(b[2]) /\ FrameSize(b) = Len(Wire(f))
  BY OtherSizeRead
<1>2. g.frame_size = FrameSize(b)
  BY SizedIs
<1>3. Len(Wire(f)) \in 9..142
  BY OtherIs
<1>4. g.frame_size > n
  BY <1>1, <1>2, <1>3
<1>5. g = [h EXCEPT !.segmentation = (b[2] \div 8) % 2, !.frame_size = FrameSize(b)]
  BY DEF Sized
<1>. HIDE DEF g
<1>6. Decode(h, b, n) = Result("ERR_SIZE", g)
  BY <1>1, <1>4, <1>5 DEF Decode
<1>. QED  BY <1>6 DEF g

\* A whole frame of others is accepted or refused for its contents.
LEMMA OtherWhole ==
  ASSUME NEW f, IsOther(f), NEW b, BeginsBuffer(b, Wire(f)),
         NEW h, IsHdlc(h), NEW n \in Nat, n >= Len(Wire(f)),
         NEW r, r = Decode(h, b, n)
  PROVE  r.h.frame_size = f.len /\ IsVerdict(r, Sized(h, b))
<1>. DEFINE g == Sized(h, b)
            z == Wire(f)
            l == Len(z) - 3
<1>1. /\ Len(z) \in 9..142 /\ z \in Bytes /\ f.len = Len(z) /\ z[1] = FLAG /\ HasFormat(z[2])
      /\ FrameSize(z) = Len(z) /\ Checks(z, l) /\ z[Len(z)] = FLAG
  BY OtherIs
<1>2. \A i \in 1..Len(z) : b[i] = z[i]
  BY DEF BeginsBuffer, Holding
<1>3. b[1] = FLAG /\ HasFormat(b[2]) /\ FrameSize(b) = Len(z)
  <2>1. b[1] = z[1] /\ b[2] = z[2] /\ b[3] = z[3]
    BY <1>1, <1>2
  <2>. QED  BY <2>1, OtherSizeRead
<1>4. IsHdlc(g) /\ g.frame_size = Len(z)
  BY <1>3, SizedIs
<1>5. CheckSequence(SubSeq(z, 2, l)) = << z[l + 1], z[l + 2] >>
  BY <1>1 DEF Checks
<1>6. g = [h EXCEPT !.segmentation = (b[2] \div 8) % 2, !.frame_size = FrameSize(b)]
  BY DEF Sized
<1>7. n >= Len(z) /\ BeginsBuffer(b, z)
  OBVIOUS
<1>. HIDE DEF g, z
<1>8. l \in Nat /\ l >= 2 /\ l + 2 <= Len(z)
  <2>. DEFINE k == Len(z)
  <2>1. k \in 9..142
    BY <1>1
  <2>. HIDE DEF k
  <2>2. k - 3 \in Nat /\ k - 3 >= 2 /\ (k - 3) + 2 <= k
    BY <2>1
  <2>. QED  BY <2>2 DEF k
<1>9. Checks(b, l)
  <2>1. IsSequence(b) /\ Len(z) <= Len(b) /\ Holding(b, 0, z)
    BY <1>7 DEF BeginsBuffer
  <2>. HIDE DEF l
  <2>. QED  BY <1>1, <1>5, <1>8, <2>1, ChecksHeld
<1>10. Checks(b, g.frame_size - 3)
  BY <1>4, <1>9
<1>11. ~(g.frame_size > n) /\ b[g.frame_size] = FLAG
  <2>. DEFINE k == Len(z)
  <2>1. k \in 9..142 /\ n >= k /\ g.frame_size = k /\ z[k] = FLAG /\ \A i \in 1..k : b[i] = z[i]
    BY <1>1, <1>2, <1>4, <1>7
  <2>. HIDE DEF k
  <2>2. ~(k > n) /\ b[k] = FLAG
    BY <2>1
  <2>. QED  BY <2>1, <2>2
<1>12. r = Contents(g, b)
  BY <1>3, <1>6, <1>10, <1>11 DEF Decode
<1>13. IsVerdict(r, g)
  BY <1>4, <1>12, ContentsVerdict
<1>14. r.h.frame_size = f.len
  BY <1>1, <1>4, <1>13 DEF IsVerdict
<1>. QED  BY <1>13, <1>14 DEF g

\* What the receiver knows apart from the frame size.
Untouched(g, h) == Peer(g) = Peer(h) /\ g.data_index = h.data_index /\ g.data_size = h.data_size

\* The oldest frame is passed, n bytes long.
Passes(n) ==
    /\ ~sent[1].own /\ 1 \in AtFront(n) /\ phase' = "decoding"
    /\ buf' = Shifted(n) /\ size' = size - n /\ sent' = After(AtFront(n))

\* What the receiver does with the oldest frame.
ReceivesFirst ==
    /\ sent # <<>> /\ UNCHANGED <<tx, budget, line, hurt, fill, loop>>
    /\ sent[1].len <= size =>
          \/ /\ last' = "OK" /\ phase' = "accepted" /\ Takes(rx', buf, sent[1])
             /\ UNCHANGED <<sent, buf, size>>
          \/ /\ last' \in Refusals /\ rx'.frame_size = sent[1].len /\ Passes(sent[1].len)
             /\ rx'.data_index = rx.data_index /\ rx'.data_size = rx.data_size
    /\ ~(sent[1].len <= size) =>
          last' = "ERR_SIZE" /\ phase' = "waiting" /\ Untouched(rx', rx)
             /\ UNCHANGED <<sent, buf, size>>

LEMMA ReceiveIs ==
  ASSUME NEW s \in Stations, LinkOf(s), Clean, Receive
  PROVE  ReceivesFirst
<1>. DEFINE r == Decode(rx, buf, size)
            f == sent[1]
            z == Wire(f)
            n == r.h.frame_size
<1>1. /\ phase = "decoding" /\ size >= 3 /\ rx' = r.h /\ last' = r.ret
      /\ r.ret = "OK" => phase' = "accepted" /\ UNCHANGED <<sent, buf, size>>
      /\ r.ret = "ERR_SIZE" => phase' = "waiting" /\ UNCHANGED <<sent, buf, size>>
      /\ r.ret \in Refusals => /\ phase' = "decoding" /\ buf' = Shifted(n)
                               /\ size' = size - n /\ sent' = After(AtFront(n))
      /\ UNCHANGED <<tx, budget, line, hurt, fill, loop>>
  BY DEF Receive, Refusals
<1>2. StationFits(s) /\ FirstOf(s) /\ Capacity \in Nat
  BY FirstIs, LinkAssumption
<1>3. /\ IsHdlc(rx) /\ rx.sender = s.sender /\ buf \in [1..Capacity -> Byte]
      /\ size \in Nat /\ size <= Capacity
  BY <1>2 DEF LinkOf
<1>4. sent # <<>>
  BY <1>1, <1>2 DEF FirstOf
<1>5. /\ f.len \in 9..142 /\ f.len = Len(z) /\ z \in Bytes /\ IsSent(f, s)
      /\ \A i \in 1..f.len : i <= size => buf[i] = z[i]
  BY <1>2, <1>4 DEF FirstOf, Fits
<1>6. 1 \in DOMAIN sent
  <2>1. IsSequence(sent)
    BY DEF LinkOf
  <2>2. Len(sent) \in Nat /\ Len(sent) # 0 /\ DOMAIN sent = 1..Len(sent)
    BY <1>4, <2>1, SequenceIs, EmptySeq DEF IsSequence
  <2>. QED  BY <2>2
<1>7. r = Decode(rx, buf, size)
  BY DEF r
<1>8. f = sent[1]
  OBVIOUS
<1>. HIDE DEF f, r, z, n
<1>9. CASE f.len <= size
  <2>1. IsSequence(buf) /\ Len(buf) = Capacity
    BY <1>3, BufferIs
  <2>2. Len(z) <= Len(buf) /\ Holding(buf, 0, z)
    <3>1. f.len <= Capacity
      BY <1>2, <1>3, <1>5, <1>9
    <3>2. ASSUME NEW i \in 1..f.len
          PROVE  buf[0 + i] = z[i]
      <4>1. i <= size /\ 0 + i = i
        BY <1>3, <1>5, <1>9
      <4>. QED  BY <1>5, <4>1
    <3>. QED  BY <1>5, <2>1, <3>1, <3>2 DEF Holding
  <2>3. BeginsBuffer(buf, Wire(f))
    BY <2>1, <2>2 DEF BeginsBuffer, z
  <2>4. size >= Len(Wire(f))
    BY <1>3, <1>5, <1>9 DEF z
  <2>5. CASE IsOwn(f, s)
    <3>1. r.ret = "OK" /\ ReadAs(r.h, buf, f)
      BY <1>2, <1>3, <1>7, <2>3, <2>4, <2>5, DecodeWhole
    <3>2. Takes(r.h, buf, f)
      BY <2>5, <3>1 DEF Takes, IsOwn
    <3>. QED  BY <1>1, <1>4, <1>8, <1>9, <3>1, <3>2 DEF ReceivesFirst
  <2>6. CASE IsOther(f)
    <3>1. r.h.frame_size = f.len /\ IsVerdict(r, Sized(rx, buf))
      BY <1>3, <1>7, <2>3, <2>4, <2>6, OtherWhole
    <3>2. z = f.info /\ f.own = FALSE
      BY <2>6, OtherIs DEF IsOther, z
    <3>3. SubSeq(buf, 1, f.len) = f.info
      <4>1. 0 + Len(z) <= Len(buf) /\ 0 \in Nat
        BY <1>5, <2>2
      <4>2. SubSeq(buf, 0 + 1, 0 + Len(z)) = z
        BY <1>5, <2>1, <2>2, <4>1, PieceOf
      <4>3. 0 + 1 = 1 /\ 0 + Len(z) = f.len
        BY <1>5
      <4>. QED  BY <3>2, <4>2, <4>3
    <3>4. CASE r.ret = "OK"
      <4>1. Takes(r.h, buf, f)
        BY <3>1, <3>2, <3>3 DEF Takes
      <4>. QED  BY <1>1, <1>4, <1>8, <1>9, <3>4, <4>1 DEF ReceivesFirst
    <3>5. CASE r.ret # "OK"
      <4>1. r.ret \in Refusals /\ r.h.data_index = rx.data_index /\ r.h.data_size = rx.data_size
        <5>1. Sized(rx, buf).data_index = rx.data_index /\ Sized(rx, buf).data_size = rx.data_size
          BY <1>3, SizedIs
        <5>. QED  BY <3>1, <3>5, <5>1 DEF IsVerdict
      <4>2. n = f.len
        BY <3>1 DEF n
      <4>3. 1 \in AtFront(f.len)
        BY <1>6, <1>8, <3>2, <3>3 DEF AtFront
      <4>4. Passes(f.len)
        BY <1>1, <1>8, <3>2, <4>1, <4>2, <4>3 DEF Passes
      <4>. QED  BY <1>1, <1>4, <1>8, <1>9, <3>1, <4>1, <4>4 DEF ReceivesFirst
    <3>. QED  BY <3>4, <3>5
  <2>. QED  BY <1>5, <2>5, <2>6 DEF IsSent
<1>10. CASE ~(f.len <= size)
  <2>1. size < Len(Wire(f))
    BY <1>3, <1>5, <1>10 DEF z
  <2>2. buf[1] = Wire(f)[1] /\ buf[2] = Wire(f)[2] /\ buf[3] = Wire(f)[3]
    BY <1>1, <1>3, <1>5 DEF z
  <2>3. r = Result("ERR_SIZE", Sized(rx, buf))
    <3>1. CASE IsOwn(f, s)
      BY <1>2, <1>3, <1>7, <2>1, <2>2, <3>1, DecodePart
    <3>2. CASE IsOther(f)
      BY <1>3, <1>7, <2>1, <2>2, <3>2, OtherPart
    <3>. QED  BY <1>5, <3>1, <3>2 DEF IsSent
  <2>4. r.ret = "ERR_SIZE" /\ r.h = Sized(rx, buf)
    BY <2>3, ResultIs
  <2>5. Untouched(r.h, rx)
    BY <1>3, <2>4, SizedIs DEF Untouched
  <2>. QED  BY <1>1, <1>4, <1>8, <1>10, <2>4, <2>5 DEF ReceivesFirst
<1>. QED  BY <1>9, <1>10

LEMMA InitIsClean ==
  ASSUME Init
  PROVE  Clean
<1>1. sent = <<>> /\ line = <<>> /\ size = 0 /\ phase = "waiting"
  BY DEF Init
<1>. DEFINE at == [k \in {0} |-> 0]
<1>2. Len(sent) = 0 /\ Len(line) = 0
  BY <1>1
<1>3. at[0] = 0
  OBVIOUS
<1>. HIDE DEF at
<1>4. IsAligned(at, sent, buf, size, line)
  <2>1. size + Len(line) = 0
    BY <1>1, <1>2
  <2>2. \A k \in 0..Len(sent) : k = 0
    BY <1>2
  <2>3. \A k \in 1..Len(sent) : FALSE
    BY <1>2
  <2>4. at[Len(sent)] = size + Len(line)
    BY <1>2, <1>3, <2>1
  <2>5. \A k \in 0..Len(sent) : at[k] \in 0..size + Len(line)
    BY <1>3, <2>1, <2>2
  <2>6. \A j, k \in 0..Len(sent) : j <= k => at[j] <= at[k]
    BY <1>3, <2>2
  <2>. QED  BY <1>3, <2>3, <2>4, <2>5, <2>6 DEF IsAligned
<1>. QED  BY <1>1, <1>4 DEF Clean, Decoded

LEMMA SendsClean ==
  ASSUME NEW s \in Stations, LinkOf(s), Clean, Sends(s)
  PROVE  Clean'
<1>1. PICK at : IsAligned(at, sent, buf, size, line)
  BY DEF Clean
<1>2. PICK f : IsSent(f, s) /\ sent' = Append(sent, f) /\ line' = line \o Wire(f)
  BY DEF Sends
<1>3. /\ phase = "waiting" /\ phase' = phase /\ buf' = buf /\ size' = size
      /\ IsSequence(sent) /\ line \in Bytes /\ size \in Nat
  BY LinkAssumption DEF Sends, LinkOf, receiver
<1>4. Fits(f)
  BY <1>2, SentFits, LinkAssumption
<1>5. AreAppended(sent', sent, f)
  BY <1>2, <1>3, AppendIs
<1>6. AreJoined(line', line, Wire(f))
  BY <1>2, <1>3, <1>4, JoinedAre DEF Fits
<1>7. \E new : IsAligned(new, sent', buf, size, line')
  BY <1>1, <1>3, <1>4, <1>5, <1>6, SentAligned
<1>8. size < sent'[1].len
  <2>1. CASE sent = <<>>
    <3>1. Len(sent) = 0 /\ FirstOf(s)
      BY <2>1, FirstIs
    <3>2. sent'[1] = f /\ size = 0
      BY <1>5, <2>1, <3>1 DEF AreAppended, FirstOf
    <3>3. f.len \in 9..142
      BY <1>4 DEF Fits
    <3>. QED  BY <3>2, <3>3
  <2>2. CASE sent # <<>>
    <3>1. Len(sent) \in Nat /\ Len(sent) # 0
      BY <1>3, <2>2, SequenceIs, EmptySeq DEF IsSequence
    <3>2. 1 \in 1..Len(sent)
      BY <3>1
    <3>3. sent'[1] = sent[1]
      BY <1>5, <3>2 DEF AreAppended
    <3>. QED  BY <1>3, <2>2, <3>3 DEF Clean
  <2>. QED  BY <2>1, <2>2
<1>9. ~Decoded'
  BY <1>3 DEF Decoded
<1>. QED  BY <1>3, <1>7, <1>8, <1>9 DEF Clean

LEMMA DeliversClean ==
  ASSUME NEW s \in Stations, LinkOf(s), Clean, NEW n, Delivers(n)
  PROVE  Clean'
<1>1. PICK at : IsAligned(at, sent, buf, size, line)
  BY DEF Clean
<1>. DEFINE l == Len(line)
            r == Len(line')
            m == size + n
<1>2. IsSequence(sent) /\ size \in 0..Capacity /\ Capacity \in Nat /\ l \in Nat
  <2>1. IsSequence(sent) /\ line \in Bytes /\ size \in 0..Capacity
    BY DEF LinkOf
  <2>. QED  BY <2>1, LenIs, LinkAssumption
<1>3. /\ n \in 1..l /\ m <= Capacity /\ size' = m /\ phase' = "decoding" /\ sent' = sent
      /\ r = l - n /\ \A i \in 1..l - n : line'[i] = line[n + i]
  BY DEF Delivers, sender
<1>4. \A i \in 1..Capacity : buf'[i] = IF i \in size + 1..m THEN line[i - size] ELSE buf[i]
  BY DEF Delivers
<1>. HIDE DEF l, r, m
<1>5. m \in Nat /\ m + r = size + l /\ r \in Nat
  BY <1>2, <1>3 DEF m
<1>6. ASSUME NEW i \in 1..size + l
      PROVE  Stream(buf', m, line', i) = Stream(buf, size, line, i)
  <2>1. CASE i <= size
    <3>1. i <= m /\ i \in 1..Capacity /\ ~(i \in size + 1..m)
      BY <1>2, <1>3, <2>1 DEF m
    <3>. QED  BY <1>4, <2>1, <3>1 DEF Stream
  <2>2. CASE ~(i <= size) /\ i <= m
    <3>1. i \in 1..Capacity /\ i \in size + 1..m
      BY <1>2, <1>3, <1>5, <2>2
    <3>. QED  BY <1>4, <2>2, <3>1 DEF Stream
  <2>3. CASE ~(i <= size) /\ ~(i <= m)
    <3>. DEFINE u == i - m
                v == i - size
    <3>1. u \in 1..l - n /\ n + u = v
      BY <1>2, <1>3, <1>5, <2>3 DEF m
    <3>. HIDE DEF u, v
    <3>2. line'[u] = line[v]
      BY <1>3, <3>1
    <3>. QED  BY <2>3, <3>2 DEF Stream, u, v
  <2>. QED  BY <1>2, <1>5, <2>1, <2>2, <2>3
<1>7. IsAligned(at, sent, buf', m, line')
  <2>1. /\ IsSequence(sent) /\ size \in Nat /\ Len(line) \in Nat /\ m \in Nat
        /\ m + Len(line') = size + Len(line)
        /\ \A i \in 1..size + Len(line) : Stream(buf', m, line', i) = Stream(buf, size, line, i)
    BY <1>2, <1>5, <1>6 DEF l, r
  <2>. QED  BY <1>1, <2>1, SameStream
<1>8. ~Decoded' /\ phase' # "waiting"
  BY <1>3 DEF Decoded
<1>. QED  BY <1>3, <1>7, <1>8 DEF Clean

\* The oldest frame leaves the buffer, and the frames that are not passed.
LEMMA PassesClean ==
  ASSUME NEW s \in Stations, LinkOf(s), Clean, sent # <<>>, sent[1].len <= size,
         buf' = Shifted(sent[1].len), size' = size - sent[1].len, line' = line,
         NEW F, F \subseteq DOMAIN sent, 1 \in F, sent' = After(F), phase' = "decoding"
  PROVE  Clean'
<1>1. PICK at : IsAligned(at, sent, buf, size, line)
  BY DEF Clean
<1>. DEFINE m == sent[1].len
<1>2. /\ IsSequence(sent) /\ line \in Bytes /\ size \in 0..Capacity /\ Capacity \in Nat
      /\ m \in 9..142
  BY FirstIs, LinkAssumption DEF LinkOf, FirstOf, Fits
<1>3. Len(sent) \in Nat /\ DOMAIN sent = 1..Len(sent) /\ 1 \in 1..Len(sent)
  <2>1. Len(sent) \in Nat /\ Len(sent) # 0 /\ DOMAIN sent = 1..Len(sent)
    BY <1>2, SequenceIs, EmptySeq DEF IsSequence
  <2>. QED  BY <2>1
<1>4. F # {} /\ Lowest(F) = 1
  <2>1. F \in SUBSET Nat /\ \A k \in F : 1 <= k
    BY <1>3
  <2>. HIDE DEF m
  <2>. QED  BY <2>1, LowestIs
<1>5. AreRest(sent', sent, 1)
  <2>1. sent' = SubSeq(sent, 1 + 1, Len(sent))
    BY <1>4 DEF After
  <2>2. 1 \in 0..Len(sent)
    BY <1>3
  <2>. QED  BY <1>2, <2>1, <2>2, RestIs
<1>6. ASSUME NEW i \in 1..size - m
      PROVE  buf'[i] = buf[i + m]
  <2>1. buf' = Shifted(m)
    OBVIOUS
  <2>. HIDE DEF m
  <2>2. i + m <= size /\ i \in 1..Capacity
    BY <1>2
  <2>. QED  BY <2>1, <2>2 DEF Shifted
<1>7. \E new : IsAligned(new, sent', buf', size - m, line)
  <2>1. size \in Nat
    BY <1>2
  <2>. QED  BY <1>1, <1>2, <1>5, <1>6, <2>1, ConsumedAligned
<1>8. ~Decoded' /\ phase' # "waiting" /\ size' = size - m
  BY DEF Decoded
<1>. HIDE DEF m
<1>. QED  BY <1>7, <1>8 DEF Clean

\* What was accepted is the oldest frame.
LEMMA TakenFirst ==
  ASSUME NEW s, LinkOf(s), sent # <<>>, Takes(rx, buf, sent[1])
  PROVE  1 \in Found /\ Found \in SUBSET Nat /\ \A k \in Found : 1 <= k
<1>1. Len(sent) \in Nat /\ DOMAIN sent = 1..Len(sent) /\ 1 \in 1..Len(sent)
  <2>1. IsSequence(sent)
    BY DEF LinkOf
  <2>2. Len(sent) \in Nat /\ Len(sent) # 0 /\ DOMAIN sent = 1..Len(sent)
    BY <2>1, SequenceIs, EmptySeq DEF IsSequence
  <2>. QED  BY <2>2
<1>2. CASE sent[1].own
  <2>1. Describes(rx, sent[1])
    BY <1>2, ReadDescribes DEF Takes
  <2>. QED  BY <1>1, <1>2, <2>1 DEF Found, AtFront
<1>3. CASE ~sent[1].own
  <2>1. SubSeq(buf, 1, rx.frame_size) = sent[1].info
    BY <1>3 DEF Takes
  <2>2. 1 \in AtFront(rx.frame_size)
    BY <1>1, <1>3, <2>1 DEF AtFront
  <2>. QED  BY <1>1, <2>2 DEF Found, AtFront
<1>. QED  BY <1>2, <1>3

LEMMA ConsumesClean ==
  ASSUME NEW s \in Stations, LinkOf(s), Clean, Consume
  PROVE  Clean'
<1>1. /\ Decoded /\ buf' = Shifted(rx.frame_size) /\ size' = size - rx.frame_size
      /\ phase' = "decoding" /\ line' = line /\ sent' = After(Found)
  BY DEF Consume, Decoded
<1>2. sent # <<>> /\ Takes(rx, buf, sent[1]) /\ sent[1].len <= size
  BY <1>1 DEF Clean
<1>3. rx.frame_size = sent[1].len
  BY <1>2 DEF Takes, ReadAs
<1>4. Found \subseteq DOMAIN sent /\ 1 \in Found
  BY <1>2, TakenFirst DEF Found, AtFront
<1>. QED  BY <1>1, <1>2, <1>3, <1>4, PassesClean

LEMMA SameTaken ==
  ASSUME NEW g, NEW h, SameFrame(g, h), NEW b, NEW f, Takes(h, b, f)
  PROVE  Takes(g, b, f)
BY DEF SameFrame, Takes, ReadAs, Shows

LEMMA FirstSize ==
  ASSUME NEW s, LinkOf(s), Clean
  PROVE  size \in Nat /\ (sent # <<>> => sent[1].len \in 9..142)
<1>1. size \in 0..Capacity
  BY DEF LinkOf
<1>2. Capacity \in Nat
  BY LinkAssumption
<1>3. size \in Nat
  BY <1>1, <1>2
<1>4. sent # <<>> => sent[1].len \in 9..142
  BY FirstIs DEF FirstOf, Fits
<1>. QED  BY <1>3, <1>4

LEMMA ReceivesClean ==
  ASSUME NEW s \in Stations, LinkOf(s), Clean, Receive
  PROVE  Clean'
<1>1. /\ sent # <<>> /\ line' = line
      /\ sent[1].len <= size =>
            \/ phase' = "accepted" /\ Takes(rx', buf, sent[1]) /\ UNCHANGED <<sent, buf, size>>
            \/ Passes(sent[1].len)
      /\ ~(sent[1].len <= size) => phase' = "waiting" /\ UNCHANGED <<sent, buf, size>>
  BY ReceiveIs DEF ReceivesFirst
<1>2. sent[1].len \in 9..142 /\ size \in Nat
  BY <1>1, FirstSize
<1>3. CASE sent[1].len <= size /\ Passes(sent[1].len)
  <2>1. /\ buf' = Shifted(sent[1].len) /\ size' = size - sent[1].len /\ phase' = "decoding"
        /\ sent' = After(AtFront(sent[1].len)) /\ 1 \in AtFront(sent[1].len)
    BY <1>3 DEF Passes
  <2>2. AtFront(sent[1].len) \subseteq DOMAIN sent
    BY DEF AtFront
  <2>. QED  BY <1>1, <1>3, <2>1, <2>2, PassesClean
<1>4. CASE UNCHANGED <<sent, buf, size>> /\ (phase' = "accepted" \/ phase' = "waiting")
           /\ (phase' = "accepted" => Takes(rx', buf, sent[1]) /\ sent[1].len <= size)
           /\ (phase' = "waiting" => ~(sent[1].len <= size))
  <2>1. \E at : IsAligned(at, sent', buf', size', line')
    BY <1>1, <1>4 DEF Clean
  <2>2. phase' = "waiting" => size' < sent'[1].len
    <3>1. ~(sent[1].len <= size) => size < sent[1].len
      BY <1>2
    <3>. QED  BY <1>4, <3>1
  <2>3. Decoded' => Takes(rx', buf', sent'[1]) /\ sent'[1].len <= size'
    BY <1>4 DEF Decoded
  <2>. QED  BY <1>1, <1>4, <2>1, <2>2, <2>3 DEF Clean
<1>. QED  BY <1>1, <1>3, <1>4

LEMMA CleanStep ==
  ASSUME LinkInv, CleanInv, [Next]_vars
  PROVE  CleanInv'
<1>1. PICK s \in Stations : LinkOf(s)
  BY DEF LinkInv
<1>2. SUFFICES ASSUME ~hurt'
               PROVE  Clean'
  BY DEF CleanInv
<1>3. Clean
  <2>1. ~hurt
    BY <1>2 DEF Next, SendData, SendReady, SendSnrm, SendUa, SendOther, Send, Damage, Deliver, Wait, Receive,
                GiveUp, Negotiate, NextOption, Consume, vars
  <2>. QED  BY <2>1 DEF CleanInv
<1>4. CASE SendData \/ SendReady \/ SendSnrm \/ SendUa \/ SendOther
  <2>1. Sends(s)
    BY <1>1, <1>4, SendDataSends, SendReadySends, SendSnrmSends, SendUaSends, SendOtherSends
  <2>. QED  BY <1>1, <1>3, <2>1, SendsClean
<1>5. CASE Damage
  BY <1>2, <1>5 DEF Damage
<1>6. CASE \E n \in Chunks : Deliver(n)
  <2>1. line \in Bytes /\ buf \in [1..Capacity -> Byte] /\ size \in 0..Capacity
    BY <1>1 DEF LinkOf
  <2>2. \E n : Delivers(n)
    BY <1>6, <2>1, DeliverIs
  <2>. QED  BY <1>1, <1>3, <2>2, DeliversClean
<1>7. CASE Wait
  <2>1. /\ size < 3 /\ phase' = "waiting" /\ sent' = sent /\ line' = line /\ buf' = buf
        /\ size' = size
    BY <1>7 DEF Wait, sender
  <2>2. \E at : IsAligned(at, sent', buf', size', line')
    BY <1>3, <2>1 DEF Clean
  <2>3. sent # <<>> => size < sent[1].len
    <3>1. size \in Nat /\ (sent # <<>> => sent[1].len \in 9..142)
      BY <1>1, <1>3, FirstSize
    <3>2. ASSUME NEW x \in 9..142
          PROVE  size < x
      BY <2>1, <3>1
    <3>. QED  BY <3>1, <3>2
  <2>4. ~Decoded'
    BY <2>1 DEF Decoded
  <2>. QED  BY <2>1, <2>2, <2>3, <2>4 DEF Clean
<1>8. CASE Receive
  BY <1>1, <1>3, <1>8, ReceivesClean
<1>9. CASE GiveUp
  <2>1. phase = "waiting" /\ size > 0 /\ line = <<>>
    BY <1>9 DEF GiveUp
  <2>2. FirstOf(s) /\ size \in Nat
    BY <1>1, <1>3, FirstIs, LinkAssumption DEF LinkOf
  <2>3. sent # <<>>
    BY <2>1, <2>2 DEF FirstOf
  <2>4. sent[1].len <= size /\ sent[1].len \in 9..142
    <3>1. Len(line) = 0
      BY <2>1
    <3>2. sent[1].len <= size + 0 /\ sent[1].len \in 9..142
      BY <2>2, <2>3, <3>1 DEF FirstOf, Fits
    <3>. QED  BY <2>2, <3>2
  <2>5. size < sent[1].len
    BY <1>3, <2>1, <2>3 DEF Clean
  <2>. QED  BY <2>2, <2>4, <2>5
<1>10. CASE Negotiate \/ NextOption \/ UNCHANGED vars
  <2>1. /\ sent' = sent /\ line' = line /\ buf' = buf /\ size' = size
        /\ Decoded' => Decoded
        /\ phase' = "waiting" => phase = "waiting"
    BY <1>10 DEF Negotiate, NextOption, vars, sender, Decoded
  <2>2. SameFrame(rx', rx)
    <3>1. IsHdlc(rx)
      BY <1>1 DEF LinkOf
    <3>2. CASE rx' = rx
      BY <3>1, <3>2 DEF SameFrame
    <3>3. CASE NextOption
      BY <1>1, <3>3, OptionKeeps
    <3>. QED  BY <1>10, <3>2, <3>3 DEF Negotiate, vars
  <2>3. \E at : IsAligned(at, sent', buf', size', line')
    BY <1>3, <2>1 DEF Clean
  <2>4. Decoded => Takes(rx', buf, sent[1])
    BY <1>3, <2>2, SameTaken DEF Clean
  <2>. QED  BY <1>3, <2>1, <2>3, <2>4 DEF Clean
<1>11. CASE Consume
  BY <1>1, <1>3, <1>11, ConsumesClean
<1>. QED  BY <1>4, <1>5, <1>6, <1>7, <1>8, <1>9, <1>10, <1>11 DEF Next

-----------------------------------------------------------------------------
(* What holds while the line neither damages nor loses a byte                *)

LEMMA CleanSpec == Spec => [](LinkInv /\ CleanInv)
<1>1. Init => LinkInv /\ CleanInv
  BY InitIsLink, InitIsClean DEF CleanInv
<1>2. LinkInv /\ CleanInv /\ [Next]_vars => (LinkInv /\ CleanInv)'
  BY LinkStep, CleanStep
<1>. QED  BY <1>1, <1>2, PTL DEF Spec

LEMMA CleanIsSent ==
  ASSUME LinkInv, CleanInv, ~hurt
  PROVE  AcceptedIsSent
<1>1. SUFFICES ASSUME phase = "accepted"
               PROVE  Found # {} /\ Oldest = 1
  BY DEF AcceptedIsSent
<1>2. PICK s \in Stations : LinkOf(s)
  BY DEF LinkInv
<1>3. sent # <<>> /\ Takes(rx, buf, sent[1])
  BY <1>1 DEF CleanInv, Clean, Decoded
<1>4. 1 \in Found /\ Found \in SUBSET Nat /\ \A k \in Found : 1 <= k
  BY <1>2, <1>3, TakenFirst
<1>. QED  BY <1>4, LowestIs DEF Oldest

\* Whatever pieces the bytes come in, whatever the buffer held before, and whatever frames of
\* other implementations come in between: without a fault, each frame that hdlc_decode accepts
\* is the oldest one that was sent and not passed yet, with its type, addresses, sequence
\* numbers, information and size.
THEOREM CleanAccepted == Spec => [](~hurt => AcceptedIsSent)
<1>1. LinkInv /\ CleanInv => (~hurt => AcceptedIsSent)
  BY CleanIsSent
<1>. QED  BY <1>1, CleanSpec, PTL

\* Only a call of hdlc_decode moves the receiver when it has a size to decode.
LEMMA OnlyReceive ==
  ASSUME LinkInv, [Next]_vars, Receives
  PROVE  Receive \/ UNCHANGED vars
<1>1. phase = "decoding" /\ size >= 3
  BY DEF Receives
<1>2. ~SendData /\ ~SendReady /\ ~SendSnrm /\ ~SendUa /\ ~SendOther
  BY <1>1 DEF SendData, SendReady, SendSnrm, SendUa, SendOther, Send
<1>3. ~Damage /\ ~GiveUp /\ ~Negotiate /\ ~NextOption /\ ~Consume /\ ~\E n \in Chunks : Deliver(n)
  BY <1>1 DEF Damage, GiveUp, Negotiate, NextOption, Consume, Deliver
<1>4. ~Wait
  <2>1. size \in 0..Capacity /\ Capacity \in Nat
    BY LinkAssumption DEF LinkInv, LinkOf
  <2>2. ~(size < 3)
    BY <1>1, <2>1
  <2>. QED  BY <2>2 DEF Wait
<1>. QED  BY <1>2, <1>3, <1>4 DEF Next

LEMMA CleanReceives ==
  ASSUME LinkInv, CleanInv, ~hurt, [Next]_vars, Receives
  PROVE  ReceivesFirst \/ UNCHANGED vars
<1>1. PICK s \in Stations : LinkOf(s)
  BY DEF LinkInv
<1>2. Clean
  BY DEF CleanInv
<1>. QED  BY <1>1, <1>2, OnlyReceive, ReceiveIs

\* Without a fault hdlc_decode asks for more bytes until the oldest frame is whole, whatever
\* the buffer holds behind it, and then accepts the frame of a station, and accepts or refuses
\* for its contents one of another implementation.
THEOREM WholeAccepted == Spec => WholeIsAccepted
<1>. DEFINE A == Receives /\ ~hurt /\ sent # << >> =>
                   /\ size < Head(sent).len => last' = "ERR_SIZE"
                   /\ size >= Head(sent).len =>
                         last' \in {"OK"} \cup (IF Head(sent).own THEN {} ELSE Refusals)
<1>1. LinkInv /\ CleanInv /\ [Next]_vars => [A]_vars
  <2>1. SUFFICES ASSUME LinkInv, CleanInv, [Next]_vars, Receives, ~hurt, sent # <<>>,
                        ~UNCHANGED vars
                 PROVE  /\ size < Head(sent).len => last' = "ERR_SIZE"
                        /\ size >= Head(sent).len =>
                              last' \in {"OK"} \cup (IF Head(sent).own THEN {} ELSE Refusals)
    OBVIOUS
  <2>2. PICK s \in Stations : LinkOf(s)
    BY <2>1 DEF LinkInv
  <2>3. ReceivesFirst /\ FirstOf(s) /\ Clean
    BY <2>1, <2>2, CleanReceives, FirstIs DEF CleanInv
  <2>4. Head(sent) = sent[1]
    <3>1. IsSequence(sent)
      BY <2>2 DEF LinkOf
    <3>. QED  BY <2>1, <3>1 DEF IsSequence
  <2>5. sent[1].len \in 9..142 /\ size \in Nat
    BY <2>1, <2>2, <2>3, FirstSize
  <2>6. /\ sent[1].len <= size => last' = "OK" \/ (last' \in Refusals /\ ~sent[1].own)
        /\ ~(sent[1].len <= size) => last' = "ERR_SIZE"
    BY <2>3 DEF ReceivesFirst, Passes
  <2>7. /\ size < sent[1].len => ~(sent[1].len <= size)
        /\ size >= sent[1].len => sent[1].len <= size
    BY <2>5
  <2>. QED  BY <2>4, <2>6, <2>7
<1>. HIDE DEF A
<1>2. Spec => [][A]_vars
  BY <1>1, CleanSpec, PTL DEF Spec
<1>. QED  BY <1>2 DEF A, WholeIsAccepted

\* On a line without faults, with frames of other implementations on it that hdlc_decode may
\* refuse at any place of their contents: a call that does not accept leaves the last
\* information as it was, and changes the addresses, the type or the numbers only when one of
\* those frames is whole at the front of the buffer.
THEOREM CleanKeepsPeer == Spec /\ []~hurt => RefusedKeepsPeer
<1>. DEFINE A == Receives /\ last' # "OK" =>
                   /\ rx'.data_index = rx.data_index /\ rx'.data_size = rx.data_size
                   /\ Peer(rx') # Peer(rx) =>
                         rx'.frame_size <= size /\ AtFront(rx'.frame_size) # {}
<1>1. LinkInv /\ CleanInv /\ ~hurt /\ [Next]_vars => [A]_vars
  <2>1. SUFFICES ASSUME LinkInv, CleanInv, ~hurt, [Next]_vars, Receives, last' # "OK",
                        ~UNCHANGED vars
                 PROVE  /\ rx'.data_index = rx.data_index /\ rx'.data_size = rx.data_size
                        /\ Peer(rx') # Peer(rx) =>
                              rx'.frame_size <= size /\ AtFront(rx'.frame_size) # {}
    OBVIOUS
  <2>2. ReceivesFirst
    BY <2>1, CleanReceives
  <2>3. CASE sent[1].len <= size
    BY <2>1, <2>2, <2>3 DEF ReceivesFirst, Passes
  <2>4. CASE ~(sent[1].len <= size)
    BY <2>1, <2>2, <2>4 DEF ReceivesFirst, Untouched
  <2>. QED  BY <2>3, <2>4
<1>. HIDE DEF A
<1>2. Spec /\ []~hurt => [][A]_vars
  BY <1>1, CleanSpec, PTL DEF Spec
<1>. QED  BY <1>2 DEF A, RefusedKeepsPeer
=============================================================================
