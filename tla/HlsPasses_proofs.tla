-------------------------- MODULE HlsPasses_proofs ---------------------------
(***************************************************************************)
(* The passes of the high level security stay in the buffer, verify the    *)
(* challenge of the server, and leave a whole response, for any buffer,    *)
(* header and challenge.                                                   *)
(***************************************************************************)
EXTENDS HlsPasses, SequenceTheorems, TLAPS

USE DEF MAX_HLS_SIZE, SEC_HDR_SIZE, TAG_SIZE, AK_SIZE, RESPONSE_HEADER

-----------------------------------------------------------------------------
(* Rows of cells                                                            *)

\* s has n elements, numbered from one.
Row(s, n) == n \in Nat /\ s = [i \in 1..n |-> s[i]]

LEMMA RowIsSequence ==
  ASSUME NEW s, NEW n, Row(s, n)
  PROVE  s \in Seq({s[i] : i \in 1..n}) /\ Len(s) = n
BY DEF Row

\* j is s, of m elements, followed by t, of n.
IsJoin(j, s, t, m, n) ==
    /\ m \in Nat /\ n \in Nat /\ Row(j, m + n)
    /\ \A i \in 1..m : j[i] = s[i]
    /\ \A i \in 1..n : j[m + i] = t[i]

LEMMA JoinedRows ==
  ASSUME NEW s, NEW t, NEW m, NEW n, Row(s, m), Row(t, n)
  PROVE  IsJoin(s \o t, s, t, m, n)
<1>. DEFINE S == {s[i] : i \in 1..m} \cup {t[i] : i \in 1..n}
<1>1. s \in Seq(S) /\ t \in Seq(S)
  <2>1. /\ m \in Nat /\ n \in Nat
        /\ s = [i \in 1..m |-> s[i]] /\ \A i \in 1..m : s[i] \in S
        /\ t = [i \in 1..n |-> t[i]] /\ \A i \in 1..n : t[i] \in S
    BY DEF Row
  <2>. HIDE DEF S
  <2>. QED  BY <2>1
<1>2. Len(s) = m /\ Len(t) = n /\ m \in Nat /\ n \in Nat
  BY RowIsSequence DEF Row
<1>. HIDE DEF S
<1>3. s \o t \in Seq(S) /\ Len(s \o t) = m + n
  BY <1>1, <1>2
<1>4. Row(s \o t, m + n)
  BY <1>2, <1>3 DEF Row
<1>5. /\ \A i \in 1..m : (s \o t)[i] = s[i]
      /\ \A i \in 1..n : (s \o t)[m + i] = t[i]
  BY <1>1, <1>2
<1>. QED  BY <1>2, <1>4, <1>5 DEF IsJoin

LEMMA EqualRows ==
  ASSUME NEW s, NEW t, NEW n, Row(s, n), Row(t, n), \A i \in 1..n : s[i] = t[i]
  PROVE  s = t
BY DEF Row

LEMMA NoRow ==
  ASSUME NEW s, Row(s, 0)
  PROVE  s = << >>
<1>1. s \in Seq({s[i] : i \in 1..0}) /\ Len(s) = 0
  BY RowIsSequence
<1>. QED  BY <1>1, EmptySeq

-----------------------------------------------------------------------------
(* The arrays                                                               *)

\* A size that leaves room for two packets before the indices wrap.
Roomy(size) == size \in Nat /\ size + 2 * MAX_HLS_SIZE < Wrap /\ Wrap \in Nat

Arr(off, rd, wr, size) == [rd |-> rd, wr |-> wr, offset |-> off, size |-> size]

\* The array moved to x, and emptied.
Emptied(a, x) == [a EXCEPT !.offset = x, !.rd = 0, !.wr = 0]

LEMMA MovedArr ==
  ASSUME NEW off, NEW rd, NEW wr, NEW size, NEW a, a = Arr(off, rd, wr, size), NEW x
  PROVE  Emptied(a, x) = Arr(x, 0, 0, size)
<1>. DEFINE y == [a EXCEPT !.offset = x]
            z == [y EXCEPT !.rd = 0]
<1>1. Emptied(a, x) = [z EXCEPT !.wr = 0]
  BY DEF Emptied
<1>2. y = Arr(x, rd, wr, size)
  BY DEF Arr
<1>. HIDE DEF y
<1>3. z = Arr(x, 0, wr, size)
  BY <1>2 DEF Arr
<1>. HIDE DEF z
<1>4. [z EXCEPT !.wr = 0] = Arr(x, 0, 0, size)
  BY <1>3 DEF Arr
<1>. QED  BY <1>1, <1>4

LEMMA AddIs ==
  ASSUME NEW x \in Nat, NEW y \in Nat, x + y < Wrap
  PROVE  A!Add(x, y) = x + y
BY DEF A!Add

LEMMA SubIs ==
  ASSUME NEW x \in Nat, NEW y \in Nat, x >= y
  PROVE  A!Sub(x, y) = x - y
BY DEF A!Sub

LEMMA ArrFacts ==
  ASSUME NEW size, Roomy(size), NEW off \in Nat, NEW rd \in Nat, NEW wr \in Nat,
         off + wr <= size, off + rd <= size
  PROVE  LET a == Arr(off, rd, wr, size) IN
         /\ A!WrIndex(a) = off + wr /\ A!RdIndex(a) = off + rd
         /\ A!FreeSize(a) = size - (off + wr)
         /\ A!Unread(a) = IF wr > rd THEN wr - rd ELSE 0
BY DEF Roomy, Arr, A!WrIndex, A!RdIndex, A!Index, A!Add, A!FreeSize, A!Sub, A!Unread

LEMMA WriterFacts ==
  ASSUME NEW size, Roomy(size), NEW off \in Nat, NEW rd \in Nat, NEW wr \in Nat,
         off + wr <= size, NEW n \in 0..TAG_SIZE + SEC_HDR_SIZE + 2
  PROVE  LET a == Arr(off, rd, wr, size) IN
         /\ A!WriterFits(a, n) <=> off + wr + n < size
         /\ A!WriterAt(a, n) = Arr(off, rd, IF off + wr + n < size THEN wr + n ELSE size - off, size)
<1>. DEFINE a == Arr(off, rd, wr, size)
<1>1. A!Add(a.wr, n) = wr + n
  BY DEF Roomy, Arr, A!Add
<1>2. A!Index(a, wr + n) = off + wr + n
  BY DEF Roomy, Arr, A!Index, A!Add
<1>3. A!WriterFits(a, n) <=> off + wr + n < size
  BY <1>1, <1>2 DEF A!WriterFits, Arr
<1>4. A!Sub(a.size, a.offset) = size - off
  BY DEF Roomy, Arr, A!Sub
<1>. QED  BY <1>1, <1>3, <1>4 DEF A!WriterAt, Arr

IsWriterFits(off, rd, wr, size, n) ==
    A!WriterFits(Arr(off, rd, wr, size), n) <=> off + wr + n < size

LEMMA WriterFitsIs ==
  ASSUME NEW size, Roomy(size), NEW off \in Nat, NEW rd \in Nat, NEW wr \in Nat,
         off + wr <= size, NEW n \in 0..TAG_SIZE + SEC_HDR_SIZE + 2
  PROVE  IsWriterFits(off, rd, wr, size, n)
BY WriterFacts DEF IsWriterFits

LEMMA ReaderFacts ==
  ASSUME NEW size, Roomy(size), NEW off \in Nat, NEW rd \in Nat, NEW wr \in Nat,
         off + rd + 4 <= size
  PROVE  A!ReaderAt(Arr(off, rd, wr, size), 4) = Arr(off, rd + 4, wr, size)
<1>. DEFINE a == Arr(off, rd, wr, size)
<1>1. A!Add(a.rd, 4) = rd + 4
  BY DEF Roomy, Arr, A!Add
<1>2. A!Index(a, rd + 4) = off + rd + 4
  BY DEF Roomy, Arr, A!Index, A!Add
<1>3. A!Sub(a.size, a.offset) = size - off
  BY DEF Roomy, Arr, A!Sub
<1>4. CASE off + rd + 4 < size
  BY <1>1, <1>2, <1>4 DEF A!ReaderAt, A!ReaderFits, Arr
<1>5. CASE off + rd + 4 = size
  <2>1. size - off = rd + 4
    BY <1>5 DEF Roomy
  <2>. QED  BY <1>1, <1>2, <1>3, <1>5, <2>1 DEF A!ReaderAt, A!ReaderFits, Arr
<1>. QED  BY <1>4, <1>5 DEF Roomy

-----------------------------------------------------------------------------
(* The buffer with the array at work                                        *)

\* The buffer b with the cells laid at a place.
Laid(b, at, cells) ==
    [i \in DOMAIN b |-> IF i \in at..at + Len(cells) - 1 THEN cells[i - at + 1] ELSE b[i]]

\* n cells of b from a place on.
CellsOf(b, at, n) ==
    [i \in 1..n |-> IF at + i - 1 \in DOMAIN b THEN b[at + i - 1] ELSE Blank]

\* The buffer is b, the array has these indices, and nothing beyond the buffer was touched.
IsMem(m, b, off, rd, wr, size) ==
    /\ m = [buf |-> b, arr |-> Arr(off, rd, wr, size), touched |-> m.touched]
    /\ m.touched \subseteq 0..size - 1
    /\ DOMAIN b = 0..size - 1
    /\ Roomy(size) /\ off \in Nat /\ rd \in Nat /\ wr \in Nat
    /\ off + wr <= size /\ off + rd <= size

LEMMA MemFacts ==
  ASSUME NEW m, NEW b, NEW off, NEW rd, NEW wr, NEW size, IsMem(m, b, off, rd, wr, size)
  PROVE  /\ m.buf = b /\ m.arr = Arr(off, rd, wr, size)
         /\ m.arr.offset = off /\ m.arr.rd = rd /\ m.arr.wr = wr /\ m.arr.size = size
         /\ A!WrIndex(m.arr) = off + wr /\ A!RdIndex(m.arr) = off + rd
         /\ A!FreeSize(m.arr) = size - (off + wr)
         /\ A!Unread(m.arr) = IF wr > rd THEN wr - rd ELSE 0
         /\ size \in Nat /\ off \in Nat /\ rd \in Nat /\ wr \in Nat
         /\ \A at, n : Cells(m, at, n) = CellsOf(b, at, n)
<1>1. m.buf = b /\ m.arr = Arr(off, rd, wr, size)
  BY DEF IsMem
<1>2. /\ m.arr.offset = off /\ m.arr.rd = rd /\ m.arr.wr = wr /\ m.arr.size = size
  BY <1>1 DEF Arr
<1>3. Roomy(size) /\ off \in Nat /\ rd \in Nat /\ wr \in Nat /\ off + wr <= size /\ off + rd <= size
  BY DEF IsMem
<1>4. /\ A!WrIndex(m.arr) = off + wr /\ A!RdIndex(m.arr) = off + rd
      /\ A!FreeSize(m.arr) = size - (off + wr)
      /\ A!Unread(m.arr) = IF wr > rd THEN wr - rd ELSE 0
  BY <1>1, <1>3, ArrFacts
<1>5. \A at, n : Cells(m, at, n) = CellsOf(b, at, n)
  BY <1>1 DEF Cells, CellsOf
<1>. QED  BY <1>1, <1>2, <1>3, <1>4, <1>5 DEF Roomy

LEMMA TouchMem ==
  ASSUME NEW m, NEW b, NEW off, NEW rd, NEW wr, NEW size, IsMem(m, b, off, rd, wr, size),
         NEW at \in Nat, NEW n \in Nat, at + n <= size
  PROVE  IsMem(Touch(m, at, n), b, off, rd, wr, size)
<1>1. PICK s : m = [buf |-> b, arr |-> Arr(off, rd, wr, size), touched |-> s] /\ s = m.touched
  BY DEF IsMem
<1>. DEFINE t == s \cup (at..at + n - 1)
<1>2. Touch(m, at, n) = [buf |-> b, arr |-> Arr(off, rd, wr, size), touched |-> t]
  BY <1>1 DEF Touch
<1>3. t \subseteq 0..size - 1
  BY <1>1 DEF IsMem, Roomy
<1>. HIDE DEF t
<1>. QED  BY <1>2, <1>3 DEF IsMem

LEMMA PutMem ==
  ASSUME NEW m, NEW b, NEW off, NEW rd, NEW wr, NEW size, IsMem(m, b, off, rd, wr, size),
         NEW cells, NEW n, Row(cells, n), NEW at \in Nat, at + n <= size
  PROVE  IsMem(Put(m, at, cells), Laid(b, at, cells), off, rd, wr, size)
<1>. DEFINE t == Touch(m, at, Len(cells))
<1>1. Len(cells) = n /\ n \in Nat
  BY RowIsSequence DEF Row
<1>2. IsMem(t, b, off, rd, wr, size)
  BY <1>1, TouchMem
<1>3. Put(m, at, cells) = [t EXCEPT !.buf = [i \in DOMAIN @ |->
                              IF i \in at..at + Len(cells) - 1 THEN cells[i - at + 1] ELSE @[i]]]
  BY DEF Put
<1>. HIDE DEF t
<1>4. t.buf = b
  BY <1>2, MemFacts
<1>5. Put(m, at, cells) = [t EXCEPT !.buf = Laid(b, at, cells)]
  BY <1>3, <1>4 DEF Laid
<1>6. Put(m, at, cells) = [buf |-> Laid(b, at, cells), arr |-> Arr(off, rd, wr, size),
                           touched |-> t.touched]
  BY <1>2, <1>5 DEF IsMem
<1>7. DOMAIN Laid(b, at, cells) = DOMAIN b
  BY DEF Laid
<1>. QED  BY <1>2, <1>6, <1>7 DEF IsMem

LEMMA ArrMem ==
  ASSUME NEW m, NEW b, NEW off, NEW rd, NEW wr, NEW size, IsMem(m, b, off, rd, wr, size),
         NEW o \in Nat, NEW r \in Nat, NEW w \in Nat, o + r <= size, o + w <= size
  PROVE  IsMem([m EXCEPT !.arr = Arr(o, r, w, size)], b, o, r, w, size)
<1>1. PICK t : m = [buf |-> b, arr |-> Arr(off, rd, wr, size), touched |-> t] /\ t = m.touched
  BY DEF IsMem
<1>2. [m EXCEPT !.arr = Arr(o, r, w, size)]
        = [buf |-> b, arr |-> Arr(o, r, w, size), touched |-> t]
  BY <1>1
<1>3. t \subseteq 0..size - 1
  BY <1>1 DEF IsMem
<1>. QED  BY <1>2, <1>3 DEF IsMem

\* The same when only one of the indices changes.
LEMMA IndexMem ==
  ASSUME NEW m, NEW b, NEW off, NEW rd, NEW wr, NEW size, IsMem(m, b, off, rd, wr, size),
         NEW r \in Nat, NEW w \in Nat, off + r <= size, off + w <= size
  PROVE  /\ IsMem([m EXCEPT !.arr.wr = w], b, off, rd, w, size)
         /\ IsMem([m EXCEPT !.arr.rd = r], b, off, r, wr, size)
<1>1. PICK t : m = [buf |-> b, arr |-> Arr(off, rd, wr, size), touched |-> t] /\ t = m.touched
  BY DEF IsMem
<1>3. [m EXCEPT !.arr.wr = w] = [buf |-> b, arr |-> Arr(off, rd, w, size), touched |-> t]
  BY <1>1 DEF Arr
<1>4. [m EXCEPT !.arr.rd = r] = [buf |-> b, arr |-> Arr(off, r, wr, size), touched |-> t]
  BY <1>1 DEF Arr
<1>5. t \subseteq 0..size - 1
  BY <1>1 DEF IsMem
<1>6. IsMem([m EXCEPT !.arr.wr = w], b, off, rd, w, size)
  BY <1>3, <1>5 DEF IsMem
<1>7. IsMem([m EXCEPT !.arr.rd = r], b, off, r, wr, size)
  BY <1>4, <1>5 DEF IsMem
<1>. QED  BY <1>6, <1>7

LEMMA WrittenMem ==
  ASSUME NEW m, NEW b, NEW off, NEW rd, NEW wr, NEW size, IsMem(m, b, off, rd, wr, size),
         NEW cells, NEW n, Row(cells, n), n <= 2 * MAX_HLS_SIZE, off + wr + n <= size
  PROVE  IsMem(Written(m, cells), Laid(b, off + wr, cells), off, rd, wr + n, size)
<1>. DEFINE p == Put(m, off + wr, cells)
<1>1. Len(cells) = n /\ n \in Nat
  BY RowIsSequence DEF Row
<1>2. /\ Roomy(size) /\ off + wr \in Nat /\ off + wr <= size
      /\ off \in Nat /\ wr \in Nat /\ size \in Nat /\ rd \in Nat
      /\ off + rd <= size
  BY DEF IsMem, Roomy
<1>3. A!WrIndex(m.arr) = off + wr /\ A!Add(wr, n) = wr + n
  BY <1>1, <1>2, MemFacts DEF A!Add, Roomy
<1>4. IsMem(p, Laid(b, off + wr, cells), off, rd, wr, size)
  BY <1>2, PutMem
<1>5. Written(m, cells) = [p EXCEPT !.arr.wr = A!Add(@, n)]
  BY <1>1, <1>3 DEF Written
<1>. HIDE DEF p
<1>6. p.arr.wr = wr
  BY <1>4, MemFacts
<1>7. Written(m, cells) = [p EXCEPT !.arr.wr = wr + n]
  BY <1>3, <1>5, <1>6
<1>8. wr + n \in Nat /\ off + (wr + n) <= size
  BY <1>1, <1>2
<1>9. IsMem([p EXCEPT !.arr.wr = wr + n], Laid(b, off + wr, cells), off, rd, wr + n, size)
  BY <1>2, <1>4, <1>8, IndexMem, Zenon
<1>. QED  BY <1>7, <1>9

LEMMA WriteBuffMem ==
  ASSUME NEW m, NEW b, NEW off, NEW rd, NEW wr, NEW size, IsMem(m, b, off, rd, wr, size),
         NEW cells, NEW n, Row(cells, n), n <= 2 * MAX_HLS_SIZE
  PROVE  /\ off + wr + n <= size =>
               IsMem(WriteBuff(m, cells), Laid(b, off + wr, cells), off, rd, wr + n, size)
         /\ off + wr + n > size => WriteBuff(m, cells) = m
<1>1. Len(cells) = n /\ n \in Nat
  BY RowIsSequence DEF Row
<1>2. /\ Roomy(size) /\ off + wr \in Nat /\ off + wr <= size /\ size \in Nat
  BY DEF IsMem, Roomy
<1>3. A!WrIndex(m.arr) = off + wr /\ m.arr.size = size
  BY MemFacts
<1>4. A!Add(off + wr, n) = off + wr + n
  BY <1>1, <1>2 DEF A!Add, Roomy
<1>5. WriteBuff(m, cells) = IF off + wr + n > size THEN m ELSE Written(m, cells)
  BY <1>1, <1>3, <1>4 DEF WriteBuff
<1>6. off + wr + n <= size =>
         IsMem(Written(m, cells), Laid(b, off + wr, cells), off, rd, wr + n, size)
  BY WrittenMem
<1>. QED  BY <1>1, <1>2, <1>5, <1>6

LEMMA JumpMem ==
  ASSUME NEW m, NEW b, NEW off, NEW rd, NEW wr, NEW size, IsMem(m, b, off, rd, wr, size),
         NEW n \in 0..TAG_SIZE + SEC_HDR_SIZE + 2
  PROVE  IsMem(WriterJump(m, n), b, off, rd, IF off + wr + n < size THEN wr + n ELSE size - off, size)
<1>. DEFINE w == IF off + wr + n < size THEN wr + n ELSE size - off
<1>1. /\ Roomy(size) /\ off \in Nat /\ rd \in Nat /\ wr \in Nat /\ size \in Nat
      /\ off + wr <= size /\ off + rd <= size
  BY DEF IsMem, Roomy
<1>2. m.arr = Arr(off, rd, wr, size)
  BY MemFacts
<1>3. A!WriterAt(m.arr, n) = Arr(off, rd, w, size)
  <2>1. A!WriterAt(Arr(off, rd, wr, size), n) = Arr(off, rd, w, size)
    BY <1>1, WriterFacts, Zenon
  <2>. QED  BY <1>2, <2>1
<1>4. WriterJump(m, n) = [m EXCEPT !.arr = Arr(off, rd, w, size)]
  BY <1>3 DEF WriterJump
<1>5. w \in Nat /\ off + w <= size
  BY <1>1
<1>. HIDE DEF w
<1>6. IsMem([m EXCEPT !.arr = Arr(off, rd, w, size)], b, off, rd, w, size)
  BY <1>1, <1>5, ArrMem, Zenon
<1>. QED  BY <1>4, <1>6 DEF w

\* A word that fits; one that fills the buffer too.
LEMMA WriteWordMem ==
  ASSUME NEW m, NEW b, NEW off, NEW rd, NEW wr, NEW size, IsMem(m, b, off, rd, wr, size),
         NEW cells, Row(cells, 4), off + wr + 4 <= size
  PROVE  IsMem(WriteWord(m, cells), Laid(b, off + wr, cells), off, rd, wr + 4, size)
<1>. DEFINE p == Put(m, off + wr, cells)
<1>1. /\ Roomy(size) /\ off \in Nat /\ rd \in Nat /\ wr \in Nat /\ size \in Nat /\ off + wr \in Nat
      /\ off + wr <= size /\ off + rd <= size
  BY DEF IsMem, Roomy
<1>2. A!WrIndex(m.arr) = off + wr /\ ~(A!FreeSize(m.arr) < 4)
  BY <1>1, MemFacts
<1>3. WriteWord(m, cells) = [p EXCEPT !.arr = A!WriterAt(@, 4)]
  BY <1>2 DEF WriteWord
<1>4. IsMem(p, Laid(b, off + wr, cells), off, rd, wr, size)
  BY <1>1, PutMem
<1>. HIDE DEF p
<1>5. WriteWord(m, cells) = WriterJump(p, 4)
  BY <1>3 DEF WriterJump
<1>6. (IF off + wr + 4 < size THEN wr + 4 ELSE size - off) = wr + 4
  BY <1>1
<1>7. 4 \in 0..TAG_SIZE + SEC_HDR_SIZE + 2
  OBVIOUS
<1>8. IsMem(WriterJump(p, 4), Laid(b, off + wr, cells), off, rd,
            IF off + wr + 4 < size THEN wr + 4 ELSE size - off, size)
  BY <1>4, <1>7, JumpMem
<1>. QED  BY <1>5, <1>6, <1>8

\* A security header that is there.
LEMMA ReadHeaderMem ==
  ASSUME NEW m, NEW b, NEW off, NEW rd, NEW wr, NEW size, IsMem(m, b, off, rd, wr, size),
         wr >= rd + SEC_HDR_SIZE
  PROVE  IsMem(ReadHeader(m), b, off, rd + SEC_HDR_SIZE, wr, size)
<1>. DEFINE p == Touch(m, off + rd, 1)
            q == [p EXCEPT !.arr.rd = rd + 1]
            t == Touch(q, off + (rd + 1), 4)
<1>1. /\ Roomy(size) /\ off \in Nat /\ rd \in Nat /\ wr \in Nat /\ size \in Nat /\ off + rd \in Nat
      /\ off + wr <= size /\ off + rd <= size
  BY DEF IsMem, Roomy
<1>2. A!RdIndex(m.arr) = off + rd /\ ~(A!Unread(m.arr) < 1) /\ m.arr.rd = rd
  BY <1>1, MemFacts
<1>3. A!Add(rd, 1) = rd + 1
  BY <1>1 DEF A!Add, Roomy
<1>4. IsMem(p, b, off, rd, wr, size)
  BY <1>1, TouchMem
<1>5. p.arr.rd = rd
  <2>. HIDE DEF p
  <2>. QED  BY <1>4, MemFacts
<1>6. IsMem(q, b, off, rd + 1, wr, size)
  <2>. HIDE DEF p
  <2>1. rd + 1 \in Nat /\ off + (rd + 1) <= size
    BY <1>1
  <2>. QED  BY <1>1, <1>4, <2>1, IndexMem, Zenon
<1>7. [Touch(m, A!RdIndex(m.arr), 1) EXCEPT !.arr.rd = A!Add(@, 1)] = q
  <2>. HIDE DEF p
  <2>1. Touch(m, A!RdIndex(m.arr), 1) = p
    BY <1>2 DEF p
  <2>. QED  BY <1>3, <1>5, <2>1
<1>. HIDE DEF p, q
<1>8. A!RdIndex(q.arr) = off + (rd + 1) /\ ~(A!Unread(q.arr) < 4)
  BY <1>1, <1>6, MemFacts
<1>9. ReadHeader(m) = [t EXCEPT !.arr = A!ReaderAt(@, 4)]
  BY <1>2, <1>7, <1>8 DEF ReadHeader
<1>10. IsMem(t, b, off, rd + 1, wr, size)
  BY <1>1, <1>6, TouchMem
<1>. HIDE DEF t
<1>11. t.arr = Arr(off, rd + 1, wr, size)
  BY <1>10, MemFacts
<1>12. A!ReaderAt(t.arr, 4) = Arr(off, rd + 5, wr, size)
  <2>1. A!ReaderAt(Arr(off, rd + 1, wr, size), 4) = Arr(off, (rd + 1) + 4, wr, size)
    BY <1>1, ReaderFacts
  <2>2. (rd + 1) + 4 = rd + 5
    BY <1>1
  <2>. QED  BY <1>11, <2>1, <2>2
<1>13. ReadHeader(m) = [t EXCEPT !.arr = Arr(off, rd + 5, wr, size)]
  BY <1>9, <1>12
<1>14. rd + 5 \in Nat /\ off + (rd + 5) <= size
  BY <1>1
<1>15. IsMem([t EXCEPT !.arr = Arr(off, rd + 5, wr, size)], b, off, rd + 5, wr, size)
  BY <1>1, <1>10, <1>14, ArrMem, Zenon
<1>. QED  BY <1>13, <1>15

\* Bytes that all fit are written as a whole.
LEMMA WriteBytesMem ==
  ASSUME NEW m, NEW b, NEW off, NEW rd, NEW wr, NEW size, IsMem(m, b, off, rd, wr, size),
         NEW cells, NEW n, Row(cells, n), off + wr + n <= size, n <= 2 * MAX_HLS_SIZE
  PROVE  IsMem(WriteBytes(m, cells), Laid(b, off + wr, cells), off, rd, wr + n, size)
<1>. DEFINE k == IF Len(cells) < A!FreeSize(m.arr) THEN Len(cells) ELSE A!FreeSize(m.arr)
<1>1. Len(cells) = n /\ n \in Nat /\ cells \in Seq({cells[i] : i \in 1..n})
  BY RowIsSequence DEF Row
<1>2. size \in Nat /\ off \in Nat /\ wr \in Nat /\ A!FreeSize(m.arr) = size - (off + wr)
  BY MemFacts
<1>3. k = n
  BY <1>1, <1>2
<1>4. SubSeq(cells, 1, n) = cells
  BY <1>1, SubSeqFull
<1>5. WriteBytes(m, cells) = Written(m, SubSeq(cells, 1, k))
  BY DEF WriteBytes
<1>. HIDE DEF k
<1>6. WriteBytes(m, cells) = Written(m, cells)
  BY <1>3, <1>4, <1>5
<1>. QED  BY <1>6, WrittenMem

-----------------------------------------------------------------------------
(* GCM over a packet                                                        *)

\* The additional data, before what is authenticated with it.
Aad(sc) == << ScCell(sc) >> \o AkCells
Blanks(n) == [i \in 1..n |-> Blank]

LEMMA AadRow ==
  ASSUME NEW sc
  PROVE  /\ Row(Aad(sc), 1 + AK_SIZE) /\ Aad(sc)[1] = ScCell(sc)
         /\ \A i \in 1..AK_SIZE : Aad(sc)[1 + i] = Ak(i)
<1>. DEFINE s == << ScCell(sc) >>
<1>1. Row(s, 1) /\ s[1] = ScCell(sc)
  BY DEF Row
<1>2. Row(AkCells, AK_SIZE) /\ \A i \in 1..AK_SIZE : AkCells[i] = Ak(i)
  BY DEF Row, AkCells
<1>. HIDE DEF s
<1>3. IsJoin(s \o AkCells, s, AkCells, 1, AK_SIZE)
  BY <1>1, <1>2, JoinedRows, Zenon
<1>. DEFINE j == s \o AkCells
<1>4. Aad(sc) = j
  BY DEF Aad, s
<1>. HIDE DEF j
<1>5. Row(j, 17) /\ j[1] = s[1] /\ \A i \in 1..AK_SIZE : j[1 + i] = AkCells[i]
  <2>1. IsJoin(j, s, AkCells, 1, AK_SIZE)
    BY <1>3 DEF j
  <2>2. /\ Row(j, 1 + AK_SIZE) /\ \A i \in 1..1 : j[i] = s[i]
        /\ \A i \in 1..AK_SIZE : j[1 + i] = AkCells[i]
    BY <2>1, Zenon DEF IsJoin
  <2>3. 1 \in 1..1 /\ 1 + AK_SIZE = 17
    OBVIOUS
  <2>. QED  BY <2>2, <2>3
<1>. QED  BY <1>1, <1>2, <1>4, <1>5

LEMMA BlanksRow ==
  ASSUME NEW n \in Nat
  PROVE  Row(Blanks(n), n)
BY DEF Blanks, Row

LEMMA CellsRow ==
  ASSUME NEW b, NEW at, NEW n \in Nat
  PROVE  Row(CellsOf(b, at, n), n)
BY DEF CellsOf, Row

\* Where nothing is laid the cells stay.
Apart(from, n, at, k) == at >= from + n \/ at + k <= from

LEMMA CellsKept ==
  ASSUME NEW b, NEW from \in Nat, NEW cells, NEW n, Row(cells, n), NEW at \in Nat, NEW k \in Nat,
         Apart(from, n, at, k)
  PROVE  CellsOf(Laid(b, from, cells), at, k) = CellsOf(b, at, k)
<1>1. Len(cells) = n /\ n \in Nat
  BY RowIsSequence DEF Row
<1>2. ASSUME NEW i \in 1..k
      PROVE  at + i - 1 \notin from..from + Len(cells) - 1
  BY <1>1 DEF Apart
<1>. QED  BY <1>2 DEF CellsOf, Laid

LEMMA GcmMem ==
  ASSUME NEW m, NEW b, NEW off, NEW rd, NEW wr, NEW size, IsMem(m, b, off, rd, wr, size),
         NEW title, NEW ic, NEW data \in Nat, NEW n \in Nat, NEW aad \in Nat,
         data >= 1 + AK_SIZE, data + n <= size, data - (1 + AK_SIZE) + aad <= size
  PROVE  /\ IsMem(Gcm(m, title, ic, data, n, aad).m, Laid(b, data, Blanks(n)), off, rd, wr, size)
         /\ Gcm(m, title, ic, data, n, aad).tag
              = Tag(title, ic, CellsOf(b, data - (1 + AK_SIZE), aad), CellsOf(b, data, n))
<1>. DEFINE a == data - (1 + AK_SIZE)
            s == Touch(m, a, aad)
            t == Touch(s, data, n)
<1>1. a \in Nat
  OBVIOUS
<1>2. IsMem(s, b, off, rd, wr, size)
  BY <1>1, TouchMem
<1>. HIDE DEF s
<1>3. IsMem(t, b, off, rd, wr, size)
  BY <1>2, TouchMem
<1>4. /\ Gcm(m, title, ic, data, n, aad).m = Put(t, data, Blanks(n))
      /\ Gcm(m, title, ic, data, n, aad).tag = Tag(title, ic, Cells(m, a, aad), Cells(m, data, n))
  BY DEF Gcm, Blanks, s
<1>. HIDE DEF t
<1>5. IsMem(Put(t, data, Blanks(n)), Laid(b, data, Blanks(n)), off, rd, wr, size)
  BY <1>3, BlanksRow, PutMem
<1>6. Cells(m, a, aad) = CellsOf(b, a, aad) /\ Cells(m, data, n) = CellsOf(b, data, n)
  BY MemFacts
<1>. QED  BY <1>4, <1>5, <1>6

LEMMA AadMem ==
  ASSUME NEW m, NEW b, NEW off, NEW rd, NEW wr, NEW size, IsMem(m, b, off, rd, wr, size),
         NEW data \in Nat, data >= 1 + AK_SIZE, data <= size, NEW sc
  PROVE  IsMem(PutAad(m, data, sc), Laid(b, data - (1 + AK_SIZE), Aad(sc)), off, rd, wr, size)
<1>1. data - (1 + AK_SIZE) \in Nat /\ data - (1 + AK_SIZE) + (1 + AK_SIZE) <= size
  BY DEF IsMem, Roomy
<1>2. IsMem(Put(m, data - (1 + AK_SIZE), Aad(sc)), Laid(b, data - (1 + AK_SIZE), Aad(sc)),
            off, rd, wr, size)
  BY <1>1, AadRow, PutMem
<1>. QED  BY <1>2 DEF PutAad, Aad

\* What was laid is there.
LEMMA CellsLaid ==
  ASSUME NEW b, NEW size \in Nat, DOMAIN b = 0..size - 1, NEW cells, NEW n, Row(cells, n),
         NEW at \in Nat, at + n <= size
  PROVE  CellsOf(Laid(b, at, cells), at, n) = cells
<1>. DEFINE c == Laid(b, at, cells)
<1>1. Len(cells) = n /\ n \in Nat
  BY RowIsSequence DEF Row
<1>2. DOMAIN c = 0..size - 1 /\ \A i \in at..at + n - 1 : i \in 0..size - 1 => c[i] = cells[i - at + 1]
  BY <1>1 DEF Laid
<1>. HIDE DEF c
<1>3. ASSUME NEW i \in 1..n
      PROVE  CellsOf(c, at, n)[i] = cells[i]
  <2>1. at + i - 1 \in at..at + n - 1 /\ at + i - 1 \in 0..size - 1 /\ (at + i - 1) - at + 1 = i
    BY <1>1
  <2>2. c[at + i - 1] = cells[(at + i - 1) - at + 1]
    BY <1>2, <2>1
  <2>. QED  BY <1>2, <2>1, <2>2 DEF CellsOf
<1>4. Row(CellsOf(c, at, n), n)
  BY <1>1, CellsRow
<1>. HIDE DEF CellsOf
<1>5. CellsOf(c, at, n) = cells
  BY <1>3, <1>4, EqualRows
<1>. QED  BY <1>5 DEF c

LEMMA TagRow ==
  ASSUME NEW tag
  PROVE  Row(TagCells(tag), TAG_SIZE) /\ \A i \in 1..TAG_SIZE : TagCells(tag)[i] = << "tag", tag, i >>
BY DEF TagCells, Row

\* The packet of n bytes of information and a tag, after its additional data was laid.
Packet(b, data, sc) == Laid(b, data - (1 + AK_SIZE), Aad(sc))

\* What is authenticated when there is no encryption.
Authenticated(b, data, sc, n, title, ic) ==
    Tag(title, ic, CellsOf(Packet(b, data, sc), data - (1 + AK_SIZE), 1 + AK_SIZE + n), << >>)

Sound(m, off, rd, size) == IsMem(m, m.buf, off, rd, m.arr.wr, size)

IsDecrypted(d, b, off, n, size, title, sc, ic) ==
    /\ Sound(d.m, off, SEC_HDR_SIZE, size) /\ d.m.arr.wr = SEC_HDR_SIZE + n + TAG_SIZE
    /\ d.ok \in BOOLEAN
    /\ sc = AuthOnly =>
          (d.ok <=> CellsOf(Packet(b, off + SEC_HDR_SIZE, sc), off + SEC_HDR_SIZE + n, TAG_SIZE)
                      = TagCells(Authenticated(b, off + SEC_HDR_SIZE, sc, n, title, ic)))

LEMMA Decrypted ==
  ASSUME NEW m, NEW b, NEW off, NEW n \in 0..64, NEW size,
         IsMem(m, b, off, 0, SEC_HDR_SIZE + n + TAG_SIZE, size), off >= 1 + AK_SIZE - SEC_HDR_SIZE,
         NEW title, NEW sc \in Controls, NEW ic
  PROVE  IsDecrypted(AuthDecrypt(m, title, sc, ic), b, off, n, size, title, sc, ic)
<1>. DEFINE wr     == SEC_HDR_SIZE + n + TAG_SIZE
            r      == ReadHeader(m)
            data   == off + SEC_HDR_SIZE
            unread == n + TAG_SIZE
            small  == sc.auth /\ (IF sc.enc THEN unread <= TAG_SIZE ELSE unread < TAG_SIZE)
            p      == PutAad(r, data, sc)
            text   == TextSize(sc, unread, small)
            aad    == AadSize(sc, n, small)
            g      == Gcm(p, title, ic, data, text, aad)
            at     == data + n
            b1     == Packet(b, data, sc)
            b2     == Laid(b1, data, Blanks(text))
            d      == AuthDecrypt(m, title, sc, ic)
<1>1. /\ Roomy(size) /\ off \in Nat /\ size \in Nat /\ wr \in Nat /\ data \in Nat /\ data >= 1 + AK_SIZE
      /\ off + wr <= size /\ at \in Nat /\ at + TAG_SIZE <= size /\ n \in Nat /\ unread \in Nat
      /\ data <= size
  <2>1. Roomy(size) /\ off \in Nat /\ off + wr <= size
    BY DEF IsMem
  <2>2. size \in Nat /\ n \in Nat
    BY <2>1 DEF Roomy
  <2>. QED  BY <2>1, <2>2
<1>2. IsMem(r, b, off, SEC_HDR_SIZE, wr, size)
  <2>1. wr >= 0 + SEC_HDR_SIZE /\ 0 + SEC_HDR_SIZE = SEC_HDR_SIZE
    BY <1>1
  <2>2. IsMem(ReadHeader(m), b, off, 0 + SEC_HDR_SIZE, wr, size)
    BY <2>1, ReadHeaderMem
  <2>. QED  BY <2>1, <2>2
<1>. HIDE DEF r
<1>3. A!RdIndex(r.arr) = data /\ A!Unread(r.arr) = unread
  BY <1>1, <1>2, MemFacts
<1>4. IsMem(p, b1, off, SEC_HDR_SIZE, wr, size)
  BY <1>1, <1>2, AadMem DEF Packet
<1>. HIDE DEF p
<1>5. text \in 0..unread /\ aad \in 0..1 + AK_SIZE + n
  BY <1>1 DEF TextSize, AadSize, Controls
<1>6. sc = AuthOnly => ~small /\ text = 0 /\ aad = 1 + AK_SIZE + n
  BY <1>1 DEF TextSize, AadSize, AuthOnly
<1>. HIDE DEF text, aad, b1
<1>7. /\ IsMem(g.m, b2, off, SEC_HDR_SIZE, wr, size)
      /\ g.tag = Tag(title, ic, CellsOf(b1, data - (1 + AK_SIZE), aad), CellsOf(b1, data, text))
  <2>1. /\ data + text <= size /\ data - (1 + AK_SIZE) + aad <= size
        /\ text \in Nat /\ aad \in Nat
    BY <1>1, <1>5
  <2>. QED  BY <1>1, <1>4, <2>1, GcmMem
<1>8. d = IF sc = AuthOnly /\ ~small
          THEN [m |-> Touch(g.m, at, TAG_SIZE), ok |-> Cells(g.m, at, TAG_SIZE) = TagCells(g.tag)]
          ELSE [m |-> g.m, ok |-> ~small]
  <2>1. data + unread - TAG_SIZE = at /\ unread - TAG_SIZE = n
    BY <1>1
  <2>. QED  BY <1>3, <2>1 DEF AuthDecrypt, p, text, aad, r
<1>. HIDE DEF d, g, b2
<1>9. CASE sc # AuthOnly
  <2>1. small \in BOOLEAN
    BY DEF Controls
  <2>. DEFINE v == ~small
  <2>2. d = [m |-> g.m, ok |-> v] /\ v \in BOOLEAN
    BY <1>8, <1>9, <2>1
  <2>. HIDE DEF v
  <2>3. d.m = g.m /\ d.ok \in BOOLEAN
    BY <2>2
  <2>. QED  BY <1>7, <1>9, <2>3, MemFacts DEF IsDecrypted, Sound, d
<1>10. CASE sc = AuthOnly
  <2>. DEFINE v == CellsOf(b2, at, TAG_SIZE) = TagCells(g.tag)
  <2>1. Cells(g.m, at, TAG_SIZE) = CellsOf(b2, at, TAG_SIZE)
    BY <1>7, MemFacts
  <2>2. d = [m |-> Touch(g.m, at, TAG_SIZE), ok |-> v] /\ v \in BOOLEAN
    BY <1>6, <1>8, <1>10, <2>1
  <2>3. CellsOf(b2, at, TAG_SIZE) = CellsOf(b1, at, TAG_SIZE)
    <3>1. Row(Blanks(0), 0) /\ Apart(data, 0, at, TAG_SIZE) /\ TAG_SIZE \in Nat
      BY <1>1, BlanksRow DEF Apart
    <3>. HIDE DEF data, at
    <3>2. CellsOf(Laid(b1, data, Blanks(0)), at, TAG_SIZE) = CellsOf(b1, at, TAG_SIZE)
      BY <1>1, <3>1, CellsKept
    <3>. QED  BY <1>6, <1>10, <3>2 DEF b2
  <2>4. g.tag = Tag(title, ic, CellsOf(b1, data - (1 + AK_SIZE), 1 + AK_SIZE + n), << >>)
    <3>1. CellsOf(b1, data, 0) = << >>
      BY CellsRow, NoRow
    <3>. QED  BY <1>6, <1>7, <1>10, <3>1
  <2>5. v <=> CellsOf(b1, at, TAG_SIZE) = TagCells(Authenticated(b, data, sc, n, title, ic))
    BY <2>3, <2>4 DEF Authenticated, b1
  <2>6. IsMem(Touch(g.m, at, TAG_SIZE), b2, off, SEC_HDR_SIZE, wr, size)
    BY <1>1, <1>7, TouchMem
  <2>. HIDE DEF v
  <2>7. d.m = Touch(g.m, at, TAG_SIZE) /\ d.ok = v
    BY <2>2
  <2>8. IsMem(d.m, b2, off, SEC_HDR_SIZE, wr, size) /\ d.ok \in BOOLEAN
    BY <2>2, <2>6, <2>7
  <2>9. Sound(d.m, off, SEC_HDR_SIZE, size) /\ d.m.arr.wr = wr
    BY <2>8, MemFacts DEF Sound
  <2>. QED  BY <2>5, <2>7, <2>8, <2>9 DEF IsDecrypted, d, b1
<1>. QED  BY <1>9, <1>10

LEMMA ChallengeRow ==
  ASSUME NEW whose, NEW n \in Nat
  PROVE  Row(Challenge(whose, n), n)
BY DEF Challenge, Row

\* The additional data ends where the information begins.
IsPacket(b, data, n, info, sc) ==
    CellsOf(Packet(b, data, sc), data - (1 + AK_SIZE), 1 + AK_SIZE + n) = Aad(sc) \o info

LEMMA PacketCells ==
  ASSUME NEW b, NEW size \in Nat, DOMAIN b = 0..size - 1, NEW data \in Nat, data >= 1 + AK_SIZE,
         NEW n \in Nat, data + n <= size, NEW info, CellsOf(b, data, n) = info, NEW sc
  PROVE  IsPacket(b, data, n, info, sc)
<1>. DEFINE p == Packet(b, data, sc)
            a == data - 17
            s == CellsOf(p, a, 17 + n)
            t == Aad(sc) \o info
<1>1. a \in Nat /\ a + 17 = data /\ a + 17 <= size /\ 17 + n \in Nat
  OBVIOUS
<1>2. Row(Aad(sc), 17) /\ Row(info, n)
  BY AadRow, CellsRow
<1>3. IsJoin(t, Aad(sc), info, 17, n)
  BY <1>2, JoinedRows, Zenon
<1>4. CellsOf(p, a, 17) = Aad(sc)
  BY <1>1, <1>2, CellsLaid DEF Packet
<1>5. CellsOf(p, data, n) = info
  <2>1. Apart(a, 17, data, n)
    BY DEF Apart
  <2>2. CellsOf(Laid(b, a, Aad(sc)), data, n) = CellsOf(b, data, n)
    BY <1>1, <1>2, <2>1, CellsKept
  <2>. QED  BY <2>2 DEF Packet
<1>. HIDE DEF p, t
<1>6. Row(s, 17 + n) /\ Row(t, 17 + n)
  BY <1>1, <1>3, CellsRow DEF IsJoin
<1>7. ASSUME NEW i \in 1..17 + n
      PROVE  s[i] = t[i]
  <2>1. CASE i \in 1..17
    <3>1. s[i] = CellsOf(p, a, 17)[i]
      BY <2>1 DEF CellsOf
    <3>. QED  BY <1>3, <1>4, <2>1, <3>1 DEF IsJoin
  <2>2. CASE i \notin 1..17
    <3>1. i - 17 \in 1..n /\ 17 + (i - 17) = i /\ a + i - 1 = data + (i - 17) - 1
      BY <2>2
    <3>2. s[i] = CellsOf(p, data, n)[i - 17]
      BY <3>1 DEF CellsOf
    <3>3. t[17 + (i - 17)] = info[i - 17]
      BY <1>3, <3>1 DEF IsJoin
    <3>. QED  BY <1>5, <3>1, <3>2, <3>3
  <2>. QED  BY <2>1, <2>2
<1>. HIDE DEF s
<1>8. s = t
  BY <1>6, <1>7, EqualRows
<1>. QED  BY <1>8 DEF s, t, p, IsPacket

IsEncrypted(e, b, off, n, size, title, ic) ==
    /\ Sound(e.m, off, 0, size)
    /\ e.ok = (n > 0)
    /\ n > 0 /\ off + n + TAG_SIZE <= size =>
          CellsOf(e.m.buf, off + n, TAG_SIZE)
            = TagCells(Authenticated(b, off, AuthOnly, n, title, ic))

LEMMA Encrypted ==
  ASSUME NEW m, NEW b, NEW off, NEW n \in 0..64, NEW size, IsMem(m, b, off, 0, n, size),
         off >= 1 + AK_SIZE, NEW title, NEW ic
  PROVE  IsEncrypted(AuthEncrypt(m, title, AuthOnly, ic), b, off, n, size, title, ic)
<1>. DEFINE sc    == AuthOnly
            small == n = 0
            p     == PutAad(m, off, sc)
            aad   == AadSize(sc, n, small)
            g     == Gcm(p, title, ic, off, 0, aad)
            j     == WriterJump(g.m, 0)
            b1    == Packet(b, off, sc)
            b2    == Laid(b1, off, Blanks(0))
            cells == TagCells(g.tag)
            e     == AuthEncrypt(m, title, sc, ic)
<1>1. /\ Roomy(size) /\ off \in Nat /\ size \in Nat /\ n \in Nat /\ off + n <= size /\ off <= size
  <2>1. Roomy(size) /\ off \in Nat /\ off + n <= size
    BY DEF IsMem
  <2>. QED  BY <2>1 DEF Roomy
<1>2. A!RdIndex(m.arr) = off /\ A!Unread(m.arr) = n
  BY <1>1, MemFacts
<1>3. IsMem(p, b1, off, 0, n, size)
  BY <1>1, AadMem DEF Packet
<1>4. /\ sc.auth /\ ~sc.enc /\ TextSize(sc, n, small) = 0
      /\ aad = IF n = 0 THEN 0 ELSE 1 + AK_SIZE + n
  BY DEF AuthOnly, TextSize, AadSize
<1>. HIDE DEF p, aad, b1
<1>5. /\ IsMem(g.m, b2, off, 0, n, size)
      /\ g.tag = Tag(title, ic, CellsOf(b1, off - (1 + AK_SIZE), aad), CellsOf(b1, off, 0))
  <2>1. /\ off + 0 <= size /\ off - (1 + AK_SIZE) + aad <= size
        /\ 0 \in Nat /\ aad \in Nat
    BY <1>1, <1>4
  <2>. QED  BY <1>1, <1>3, <2>1, GcmMem
<1>6. e = [m |-> IF n > 0 THEN WriteBuff(j, cells) ELSE j, ok |-> ~small]
  <2>1. (sc.auth /\ IF sc.enc THEN n <= TAG_SIZE ELSE n = 0) <=> small
    BY <1>4
  <2>2. e = [m |-> IF sc.auth /\ ~small THEN WriteBuff(j, cells) ELSE j, ok |-> ~small]
    BY <1>2, <1>4, <2>1 DEF AuthEncrypt, p, aad
  <2>. QED  BY <1>1, <1>4, <2>2
<1>. HIDE DEF e, g, b2
<1>7. IsMem(j, b2, off, 0, n, size)
  <2>1. 0 \in 0..TAG_SIZE + SEC_HDR_SIZE + 2 /\ (IF off + n + 0 < size THEN n + 0 ELSE size - off) = n
    BY <1>1
  <2>2. IsMem(j, b2, off, 0, IF off + n + 0 < size THEN n + 0 ELSE size - off, size)
    BY <1>5, <2>1, JumpMem
  <2>. QED  BY <2>1, <2>2
<1>. HIDE DEF j
<1>8. e.ok = (n > 0) /\ e.m = IF n > 0 THEN WriteBuff(j, cells) ELSE j
  BY <1>1, <1>6
<1>9. CASE n = 0
  BY <1>1, <1>7, <1>8, <1>9, MemFacts DEF IsEncrypted, Sound, e
<1>10. CASE n > 0 /\ off + n + TAG_SIZE > size
  <2>1. e.m = j
    BY <1>7, <1>8, <1>10, TagRow, WriteBuffMem
  <2>. QED  BY <1>7, <1>8, <1>10, <2>1, MemFacts DEF IsEncrypted, Sound, e
<1>11. CASE n > 0 /\ off + n + TAG_SIZE <= size
  <2>1. Row(cells, TAG_SIZE)
    BY TagRow
  <2>. DEFINE b3 == Laid(b2, off + n, cells)
  <2>. HIDE DEF cells
  <2>2. IsMem(e.m, b3, off, 0, n + TAG_SIZE, size)
    BY <1>7, <1>8, <1>11, <2>1, WriteBuffMem
  <2>3. DOMAIN b2 = 0..size - 1
    BY <1>7 DEF IsMem
  <2>4. CellsOf(b3, off + n, TAG_SIZE) = cells
    BY <1>1, <1>11, <2>1, <2>3, CellsLaid
  <2>5. g.tag = Tag(title, ic, CellsOf(b1, off - (1 + AK_SIZE), 1 + AK_SIZE + n), << >>)
    <3>1. CellsOf(b1, off, 0) = << >>
      BY CellsRow, NoRow
    <3>. QED  BY <1>4, <1>5, <1>11, <3>1
  <2>6. cells = TagCells(Authenticated(b, off, sc, n, title, ic))
    BY <2>5 DEF Authenticated, b1, cells
  <2>. HIDE DEF b3
  <2>7. e.m.buf = b3 /\ e.m.arr.wr = n + TAG_SIZE
    BY <2>2, MemFacts
  <2>. QED  BY <1>8, <2>2, <2>4, <2>6, <2>7 DEF IsEncrypted, Sound, e
<1>. QED  BY <1>1, <1>9, <1>10, <1>11

-----------------------------------------------------------------------------
(* The inductive invariant                                                  *)

\* The octet string with which pass 4 answers (csm_channel_hls_pass4).
OctetString(tag) ==
    << Cell("octet string"), Cell("17"), ScCell(AuthOnly) >> \o IcCells("own ic") \o TagCells(tag)
OwnTag(n) == Tag("server", "own ic", Aad(AuthOnly) \o Challenge("ctos", n), << >>)

\* Both arrays are over the buffer, the output after the header of the response.
AreOver(b, i, o, t) ==
    /\ i = Arr(i.offset, i.rd, i.wr, i.size)
    /\ o = Arr(i.offset + RESPONSE_HEADER, 0, o.wr, i.size)
    /\ Roomy(i.size) /\ i.offset \in Nat /\ i.rd \in Nat /\ i.wr \in Nat /\ o.wr \in Nat
    /\ i.offset + SEC_HDR_SIZE <= i.size
    /\ DOMAIN b = 0..i.size - 1 /\ t \subseteq 0..i.size - 1

Arrays == AreOver(buf, in, out, touched)

Peer ==
    /\ peer.sc \in Controls /\ peer.stoc \in 0..64 /\ peer.ctos \in 0..64 /\ peer.extra \in Nat
    /\ phase \in {"request", "passed", "answered", "responded"}

\* The request is in the buffer, with the tag of the peer when it has its size.
Requested ==
    phase = "request" =>
        /\ pass3 = "none" /\ pass4 = "none" /\ out.wr = 0
        /\ in.wr = in.rd + SEC_HDR_SIZE + peer.extra /\ in.offset + in.wr <= in.size
        /\ peer.extra = TAG_SIZE =>
              CellsOf(buf, in.offset + in.rd + SEC_HDR_SIZE, TAG_SIZE) = TagCells(peer.tag)

\* Only a request with room before it passes, and it has a tag.
Passed ==
    /\ pass3 = "true" => in.offset >= MAX_HLS_SIZE /\ in.offset + SEC_HDR_SIZE + TAG_SIZE <= in.size
    /\ phase = "passed" => out.wr = 0 /\ pass4 = "none"

\* The octet string is in the output array, and the header of the response fits before it.
Answered ==
    phase = "answered" =>
        /\ pass3 = "true" /\ out.wr <= 2 + SEC_HDR_SIZE + TAG_SIZE
        /\ in.offset + RESPONSE_HEADER + out.wr <= in.size
        /\ pass4 = "true" =>
              /\ out.wr = 2 + SEC_HDR_SIZE + TAG_SIZE
              /\ in.offset + RESPONSE_HEADER + out.wr < in.size
              /\ CellsOf(buf, in.offset + RESPONSE_HEADER, out.wr) = OctetString(OwnTag(peer.ctos))

HlsInv == Arrays /\ Peer /\ Requested /\ Passed /\ Answered /\ Pass3Verifies /\ ResponseIsWhole

LEMMA OverBuffer ==
  ASSUME NEW off \in Nat, NEW rd \in Nat, NEW wr \in Nat, NEW own \in Nat, NEW size, Roomy(size),
         off + SEC_HDR_SIZE <= size, NEW b, DOMAIN b = 0..size - 1, NEW t, t \subseteq 0..size - 1
  PROVE  AreOver(b, Arr(off, rd, wr, size), Arr(off + RESPONSE_HEADER, 0, own, size), t)
<1>. DEFINE i == Arr(off, rd, wr, size)
            o == Arr(off + RESPONSE_HEADER, 0, own, size)
<1>1. i.offset = off /\ i.rd = rd /\ i.wr = wr /\ i.size = size /\ o.wr = own
  BY DEF Arr
<1>. HIDE DEF i, o
<1>2. AreOver(b, i, o, t)
  BY <1>1 DEF AreOver, i, o
<1>. QED  BY <1>2 DEF i, o

LEMMA MemoryMem ==
  ASSUME Arrays, NEW off \in Nat, NEW rd \in Nat, NEW wr \in Nat,
         off + rd <= in.size, off + wr <= in.size
  PROVE  IsMem(Memory(Arr(off, rd, wr, in.size)), buf, off, rd, wr, in.size)
BY DEF Arrays, AreOver, Memory, IsMem

LEMMA IcRow ==
  ASSUME NEW ic
  PROVE  Row(IcCells(ic), 4) /\ \A i \in 1..4 : IcCells(ic)[i] = << "ic", ic, i >>
BY DEF IcCells, Row

LEMMA OneCell ==
  ASSUME NEW c
  PROVE  Row(<< c >>, 1) /\ << c >>[1] = c
BY DEF Row

\* The data of pass 3: the security header, and as much of a tag as there is.
RequestData(sc, tag, extra) ==
    << ScCell(sc) >> \o IcCells("ic") \o SubSeq(TagCells(tag) \o [i \in 1..extra |-> Blank], 1, extra)

LEMMA RequestRow ==
  ASSUME NEW sc, NEW tag, NEW extra \in Nat
  PROVE  /\ Row(RequestData(sc, tag, extra), SEC_HDR_SIZE + extra)
         /\ extra = TAG_SIZE =>
               \A i \in 1..TAG_SIZE : RequestData(sc, tag, extra)[SEC_HDR_SIZE + i] = TagCells(tag)[i]
<1>. DEFINE one  == << ScCell(sc) >>
            ic   == IcCells("ic")
            t    == TagCells(tag)
            pad  == [i \in 1..extra |-> Blank]
            long == t \o pad
            cut  == SubSeq(long, 1, extra)
            head == one \o ic
            data == head \o cut
<1>1. Row(one, 1) /\ Row(ic, 4)
  BY OneCell, IcRow
<1>2. Row(t, 12) /\ Row(pad, extra)
  BY TagRow DEF Row
<1>. HIDE DEF one, ic, t, pad
<1>3. IsJoin(head, one, ic, 1, 4) /\ IsJoin(long, t, pad, 12, extra)
  BY <1>1, <1>2, JoinedRows, Zenon
<1>4. Row(head, 5)
  <2>1. Row(head, 1 + 4) /\ 1 + 4 = 5
    BY <1>3 DEF IsJoin
  <2>. QED  BY <2>1
<1>. HIDE DEF long, head
<1>5. Row(cut, extra) /\ \A i \in 1..extra : cut[i] = long[i]
  <2>. DEFINE S == {long[i] : i \in 1..extra}
  <2>1. \A i \in 1..extra : long[i] \in S
    OBVIOUS
  <2>2. 1 \in Int /\ extra \in Int
    OBVIOUS
  <2>. HIDE DEF S
  <2>3. /\ cut \in Seq(S) /\ Len(cut) = IF 1 <= extra THEN extra - 1 + 1 ELSE 0
        /\ \A i \in 1..extra - 1 + 1 : cut[i] = long[1 + i - 1]
    BY <2>1, <2>2, SubSeqProperties
  <2>4. Len(cut) = extra
    BY <2>3
  <2>. QED  BY <2>3, <2>4 DEF Row
<1>. HIDE DEF cut
<1>6. IsJoin(data, head, cut, 5, extra)
  BY <1>4, <1>5, JoinedRows, Zenon
<1>7. data = RequestData(sc, tag, extra)
  BY DEF RequestData, cut, head, long, one, ic, t, pad
<1>. HIDE DEF data
<1>8. Row(data, 5 + extra) /\ \A i \in 1..extra : data[5 + i] = cut[i]
  BY <1>6 DEF IsJoin
<1>9. ASSUME extra = 12, NEW i \in 1..12
      PROVE  data[5 + i] = t[i]
  <2>1. cut[i] = long[i] /\ long[i] = t[i]
    BY <1>3, <1>5, <1>9 DEF IsJoin
  <2>. QED  BY <1>8, <1>9, <2>1
<1>. QED  BY <1>7, <1>8, <1>9 DEF t

\* A request at its beginning.
Begun(offset, room, header, extra, stoc, ctos, sc, tag) ==
    LET data == RequestData(sc, tag, extra)
        size == offset + header + Len(data) + room
    IN
    /\ buf = [i \in 0..size - 1 |->
                IF i \in offset + header..offset + header + Len(data) - 1
                THEN data[i - offset - header + 1] ELSE Blank]
    /\ in = [rd |-> header, wr |-> header + Len(data), offset |-> offset, size |-> size]
    /\ out = [rd |-> 0, wr |-> 0, offset |-> offset + RESPONSE_HEADER, size |-> size]
    /\ peer = [sc |-> sc, tag |-> tag, stoc |-> stoc, ctos |-> ctos, extra |-> extra]
    /\ touched = {} /\ pass3 = "none" /\ pass4 = "none" /\ phase = "request"

LEMMA HlsInit == Init => HlsInv
<1>. SUFFICES ASSUME Init
              PROVE  HlsInv
  OBVIOUS
<1>1. PICK offset \in Offsets, room \in Rooms, header \in Headers, extra \in Extras,
           stoc \in Challenges, ctos \in Challenges, sc \in Controls :
        \E tag \in PeerTags(sc, "ic", stoc) :
           Begun(offset, room, header, extra, stoc, ctos, sc, tag)
  BY Zenon DEF Init, Begun, RequestData
<1>. PICK tag \in PeerTags(sc, "ic", stoc) :
        Begun(offset, room, header, extra, stoc, ctos, sc, tag)
  BY <1>1
<1>. DEFINE data == RequestData(sc, tag, extra)
            size == offset + header + Len(data) + room
<1>2. /\ offset \in Nat /\ room \in Nat /\ header \in Nat /\ extra \in Nat /\ Wrap \in Nat
      /\ stoc \in 0..64 /\ ctos \in 0..64
      /\ offset + header + SEC_HDR_SIZE + extra + room + 2 * MAX_HLS_SIZE < Wrap
  BY HlsAssumption
<1>3. Row(data, SEC_HDR_SIZE + extra) /\ Len(data) = SEC_HDR_SIZE + extra
  BY <1>2, RequestRow, RowIsSequence
<1>4. extra = TAG_SIZE => \A i \in 1..TAG_SIZE : data[SEC_HDR_SIZE + i] = TagCells(tag)[i]
  BY <1>2, RequestRow
<1>. HIDE DEF data
<1>5. /\ buf = [i \in 0..size - 1 |->
                  IF i \in offset + header..offset + header + Len(data) - 1
                  THEN data[i - offset - header + 1] ELSE Blank]
      /\ in = Arr(offset, header, header + Len(data), size)
      /\ out = Arr(offset + RESPONSE_HEADER, 0, 0, size)
      /\ peer = [sc |-> sc, tag |-> tag, stoc |-> stoc, ctos |-> ctos, extra |-> extra]
      /\ touched = {} /\ pass3 = "none" /\ pass4 = "none" /\ phase = "request"
  BY DEF Begun, Arr, data
<1>6. Arrays
  <2>1. /\ in.offset = offset /\ in.rd = header /\ in.wr = header + SEC_HDR_SIZE + extra
        /\ in.size = offset + header + SEC_HDR_SIZE + extra + room /\ out.wr = 0
    BY <1>2, <1>3, <1>5 DEF Arr
  <2>2. in.size = size /\ in.wr = header + Len(data)
    BY <1>5 DEF Arr
  <2>3. Roomy(in.size) /\ in.offset + SEC_HDR_SIZE <= in.size
    BY <1>2, <2>1 DEF Roomy
  <2>4. DOMAIN buf = 0..in.size - 1
    BY <1>5, <2>2
  <2>5. in = Arr(in.offset, in.rd, in.wr, in.size)
    <3>. HIDE DEF size
    <3>. QED  BY <1>5, <2>1, <2>2
  <2>6. out = Arr(in.offset + RESPONSE_HEADER, 0, out.wr, in.size)
    <3>. HIDE DEF size
    <3>. QED  BY <1>5, <2>1, <2>2
  <2>7. in.offset \in Nat /\ in.rd \in Nat /\ in.wr \in Nat /\ out.wr \in Nat /\ touched = {}
    BY <1>2, <1>5, <2>1
  <2>. QED  BY <2>3, <2>4, <2>5, <2>6, <2>7 DEF Arrays, AreOver
<1>7. Peer
  BY <1>2, <1>5 DEF Peer
<1>8. Requested
  <2>1. /\ in.offset = offset /\ in.rd = header /\ in.wr = header + SEC_HDR_SIZE + extra
        /\ in.size = offset + header + SEC_HDR_SIZE + extra + room /\ out.wr = 0 /\ in.size = size
    BY <1>2, <1>3, <1>5 DEF Arr
  <2>2. ASSUME extra = TAG_SIZE
        PROVE  CellsOf(buf, offset + header + SEC_HDR_SIZE, TAG_SIZE) = TagCells(tag)
    <3>. DEFINE at == offset + header + SEC_HDR_SIZE
    <3>1. ASSUME NEW i \in 1..TAG_SIZE
          PROVE  CellsOf(buf, at, TAG_SIZE)[i] = TagCells(tag)[i]
      <4>1. /\ at + i - 1 \in 0..size - 1
            /\ at + i - 1 \in offset + header..offset + header + Len(data) - 1
            /\ (at + i - 1) - offset - header + 1 = SEC_HDR_SIZE + i
        BY <1>2, <1>3, <2>2
      <4>. HIDE DEF size
      <4>2. buf[at + i - 1] = data[SEC_HDR_SIZE + i] /\ at + i - 1 \in DOMAIN buf
        BY <1>5, <4>1
      <4>. QED  BY <1>4, <2>2, <4>2 DEF CellsOf
    <3>2. Row(CellsOf(buf, at, TAG_SIZE), TAG_SIZE) /\ Row(TagCells(tag), TAG_SIZE)
      BY CellsRow, TagRow
    <3>. HIDE DEF at
    <3>3. CellsOf(buf, at, TAG_SIZE) = TagCells(tag)
      BY <3>1, <3>2, EqualRows
    <3>. QED  BY <3>3 DEF at
  <2>3. peer.extra = extra /\ peer.tag = tag /\ in.offset + in.wr <= in.size
        /\ in.wr = in.rd + SEC_HDR_SIZE + peer.extra
    BY <1>2, <1>5, <2>1
  <2>. QED  BY <1>5, <2>1, <2>2, <2>3 DEF Requested
<1>. QED  BY <1>5, <1>6, <1>7, <1>8 DEF HlsInv, Passed, Answered, Pass3Verifies, ResponseIsWhole

-----------------------------------------------------------------------------
(* Pass 3                                                                   *)

\* The packet that pass 3 lays out before the tag of the request, at from.
Laid3(b, from, n, sc) ==
    Laid(Laid(Laid(b, from, << ScCell(sc) >>), from + 1, IcCells("ic")),
         from + SEC_HDR_SIZE, Challenge("stoc", n))

\* It authenticates the challenge of the server, and leaves the tag.
IsPacket3(c, b, data, n, sc) ==
    /\ CellsOf(Packet(c, data, sc), data + n, TAG_SIZE) = CellsOf(b, data + n, TAG_SIZE)
    /\ Authenticated(c, data, sc, n, "client", "ic") = RightTag(sc, "ic", n)

LEMMA Packet3 ==
  ASSUME NEW b, NEW size \in Nat, DOMAIN b = 0..size - 1, NEW from \in Nat, from >= TAG_SIZE,
         NEW n \in Nat, NEW sc, from + SEC_HDR_SIZE + n + TAG_SIZE <= size
  PROVE  IsPacket3(Laid3(b, from, n, sc), b, from + SEC_HDR_SIZE, n, sc)
<1>. DEFINE data == from + SEC_HDR_SIZE
            at == data + n
            info == Challenge("stoc", n)
            one == << ScCell(sc) >>
            ic == IcCells("ic")
            c1 == Laid(b, from, one)
            c2 == Laid(c1, from + 1, ic)
            c == Laid(c2, data, info)
            p == Laid(c, data - 17, Aad(sc))
<1>1. Row(one, 1) /\ Row(ic, 4) /\ Row(info, n) /\ Row(Aad(sc), 17)
  BY OneCell, IcRow, ChallengeRow, AadRow
<1>2. /\ data \in Nat /\ at \in Nat /\ data - 17 \in Nat /\ from + 1 \in Nat /\ TAG_SIZE \in Nat
      /\ data + n <= size /\ data >= 1 + AK_SIZE
  OBVIOUS
<1>3. /\ Apart(from, 1, at, TAG_SIZE) /\ Apart(from + 1, 4, at, TAG_SIZE)
      /\ Apart(data, n, at, TAG_SIZE) /\ Apart(data - 17, 17, at, TAG_SIZE)
  BY DEF Apart
<1>4. DOMAIN c2 = 0..size - 1 /\ DOMAIN c = 0..size - 1
  BY DEF Laid
<1>5. c = Laid3(b, from, n, sc) /\ p = Packet(c, data, sc)
  BY DEF Laid3, Packet
<1>. HIDE DEF one, ic, info, data, at
<1>6. CellsOf(c1, at, TAG_SIZE) = CellsOf(b, at, TAG_SIZE)
  BY <1>1, <1>2, <1>3, CellsKept
<1>. HIDE DEF c1
<1>7. CellsOf(c2, at, TAG_SIZE) = CellsOf(c1, at, TAG_SIZE)
  BY <1>1, <1>2, <1>3, CellsKept
<1>. HIDE DEF c2
<1>8. CellsOf(c, at, TAG_SIZE) = CellsOf(c2, at, TAG_SIZE)
  BY <1>1, <1>2, <1>3, CellsKept
<1>9. CellsOf(c, data, n) = info
  BY <1>1, <1>2, <1>4, CellsLaid
<1>. HIDE DEF c
<1>10. CellsOf(p, at, TAG_SIZE) = CellsOf(c, at, TAG_SIZE)
  BY <1>1, <1>2, <1>3, CellsKept
<1>11. IsPacket(c, data, n, info, sc)
  BY <1>2, <1>4, <1>9, PacketCells, Zenon
<1>12. Authenticated(c, data, sc, n, "client", "ic") = RightTag(sc, "ic", n)
  BY <1>11 DEF Authenticated, RightTag, Aad, IsPacket, info
<1>13. CellsOf(Packet(c, data, sc), at, TAG_SIZE) = CellsOf(b, at, TAG_SIZE)
  BY <1>5, <1>6, <1>7, <1>8, <1>10
<1>14. IsPacket3(c, b, data, n, sc)
  BY <1>12, <1>13 DEF IsPacket3, at
<1>. QED  BY <1>5, <1>14 DEF data

LEMMA EqualTags ==
  ASSUME NEW s, NEW t, TagCells(s) = TagCells(t)
  PROVE  s = t
<1>1. << "tag", s, 1 >> = << "tag", t, 1 >>
  <2>1. 1 \in 1..TAG_SIZE
    OBVIOUS
  <2>2. TagCells(s)[1] = << "tag", s, 1 >> /\ TagCells(t)[1] = << "tag", t, 1 >>
    BY <2>1, TagRow
  <2>. QED  BY <2>2
<1>. QED  BY <1>1

LEMMA Pass3Inv == HlsInv /\ Pass3 => HlsInv'
<1>. SUFFICES ASSUME HlsInv, Pass3
              PROVE  HlsInv'
  OBVIOUS
<1>. DEFINE n    == peer.stoc
            sc   == peer.sc
            off  == in.offset
            size == in.size
            from == off + in.rd - n
            r    == ReadHeader(Memory(in))
            p    == [r EXCEPT !.arr = Moved3(@, n)]
            q    == WriteBuff(p, << ScCell(sc) >>)
            h    == WriteWord(q, IcCells("ic"))
            w    == WriteBuff(h, Challenge("stoc", n))
            s    == WriterJump(w, TAG_SIZE)
            d    == AuthDecrypt(s, "client", sc, "ic")
            tried == A!Unread(r.arr) = TAG_SIZE /\ RoomForHls(r.arr)
<1>1. /\ phase = "request" /\ phase' = "passed"
      /\ pass3' = Result(tried /\ d.ok)
      /\ IF tried
         THEN /\ buf' = d.m.buf /\ touched' = d.m.touched
              /\ in' = Restored(d.m.arr, in)
         ELSE /\ in' = r.arr /\ touched' = r.touched
              /\ buf' = buf
      /\ out' = out /\ peer' = peer /\ pass4' = pass4
  BY Zenon DEF Pass3
<1>2. /\ off \in Nat /\ in.rd \in Nat /\ in.wr \in Nat /\ size \in Nat /\ Roomy(size)
      /\ n \in 0..64 /\ sc \in Controls /\ peer.extra \in Nat
      /\ in = Arr(off, in.rd, in.wr, size) /\ out = Arr(off + RESPONSE_HEADER, 0, 0, size)
      /\ out.wr = 0 /\ pass4 = "none"
      /\ in.wr = in.rd + SEC_HDR_SIZE + peer.extra /\ off + in.wr <= size
      /\ off + SEC_HDR_SIZE <= size /\ off + in.rd <= size
      /\ peer.extra = TAG_SIZE => CellsOf(buf, off + in.rd + SEC_HDR_SIZE, TAG_SIZE) = TagCells(peer.tag)
  <2>1. Arrays /\ Peer /\ Requested
    BY DEF HlsInv
  <2>2. /\ off \in Nat /\ in.rd \in Nat /\ in.wr \in Nat /\ Roomy(size)
        /\ in = Arr(off, in.rd, in.wr, size) /\ out = Arr(off + RESPONSE_HEADER, 0, out.wr, size)
        /\ off + SEC_HDR_SIZE <= size
    BY <2>1 DEF Arrays, AreOver
  <2>3. n \in 0..64 /\ sc \in Controls /\ peer.extra \in Nat
    BY <2>1 DEF Peer
  <2>4. /\ out.wr = 0 /\ pass4 = "none"
        /\ in.wr = in.rd + SEC_HDR_SIZE + peer.extra /\ off + in.wr <= size
        /\ peer.extra = TAG_SIZE =>
              CellsOf(buf, off + in.rd + SEC_HDR_SIZE, TAG_SIZE) = TagCells(peer.tag)
    BY <1>1, <2>1 DEF Requested
  <2>5. size \in Nat
    BY <2>2 DEF Roomy
  <2>. HIDE DEF off, size, n, sc
  <2>6. off + in.rd <= size
    BY <2>2, <2>3, <2>4, <2>5
  <2>. QED  BY <2>2, <2>3, <2>4, <2>5, <2>6
<1>. HIDE DEF off, size, n, sc
<1>3. IsMem(Memory(in), buf, off, in.rd, in.wr, size)
  <2>1. Arrays
    BY DEF HlsInv
  <2>2. off + in.rd <= in.size /\ off + in.wr <= in.size
    BY <1>2 DEF size
  <2>3. IsMem(Memory(Arr(off, in.rd, in.wr, in.size)), buf, off, in.rd, in.wr, in.size)
    BY <1>2, <2>1, <2>2, MemoryMem
  <2>. QED  BY <1>2, <2>3 DEF size
<1>4. IsMem(r, buf, off, in.rd + SEC_HDR_SIZE, in.wr, size)
  BY <1>2, <1>3, ReadHeaderMem
<1>. HIDE DEF r
<1>5. tried <=> peer.extra = TAG_SIZE /\ off >= MAX_HLS_SIZE
  <2>1. /\ A!Unread(r.arr) = IF in.wr > in.rd + SEC_HDR_SIZE THEN in.wr - (in.rd + SEC_HDR_SIZE) ELSE 0
        /\ r.arr.offset = off
    BY <1>4, MemFacts
  <2>. QED  BY <1>2, <2>1 DEF RoomForHls
<1>. HIDE DEF tried
<1>8. Peer' /\ out'.wr = 0
  BY <1>1, <1>2 DEF HlsInv, Peer
<1>6. CASE ~tried
  <2>1. /\ pass3' = "false" /\ in' = Arr(off, in.rd + SEC_HDR_SIZE, in.wr, size) /\ buf' = buf
        /\ touched' = r.touched /\ DOMAIN buf = 0..size - 1
    BY <1>1, <1>4, <1>6, MemFacts DEF Result, IsMem
  <2>2. touched' \subseteq 0..size - 1
    BY <1>4, <2>1 DEF IsMem
  <2>3. in'.offset = off
    BY <2>1 DEF Arr
  <2>4. AreOver(buf', Arr(off, in.rd + SEC_HDR_SIZE, in.wr, size), Arr(off + RESPONSE_HEADER, 0, 0, size),
                touched')
    <3>1. in.rd + SEC_HDR_SIZE \in Nat /\ 0 \in Nat
      BY <1>2
    <3>. QED  BY <1>2, <2>1, <2>2, <3>1, OverBuffer, Zenon
  <2>5. Arrays'
    BY <1>1, <1>2, <2>1, <2>4 DEF Arrays
  <2>6. Pass3Verifies'
    BY <1>1, <1>5, <1>6, <2>1, <2>3 DEF Pass3Verifies, n
  <2>. QED
    BY <1>1, <1>2, <1>8, <2>1, <2>5, <2>6 DEF HlsInv, Requested, Passed, Answered, ResponseIsWhole
<1>7. CASE tried
  <2>1. /\ off >= MAX_HLS_SIZE /\ peer.extra = TAG_SIZE /\ from \in Nat /\ from >= TAG_SIZE
        /\ in.wr = in.rd + SEC_HDR_SIZE + TAG_SIZE /\ from + SEC_HDR_SIZE + n + TAG_SIZE <= size
        /\ n \in Nat /\ from + n = off + in.rd
    BY <1>2, <1>5, <1>7
  <2>2. IsMem(p, buf, from, 0, 0, size)
    <3>1. r.arr = Arr(off, in.rd + SEC_HDR_SIZE, in.wr, size)
      BY <1>4, MemFacts
    <3>7. r.arr.offset = off /\ r.arr.rd = in.rd + SEC_HDR_SIZE
      BY <1>4, MemFacts
    <3>2. A!Add(off, in.rd + SEC_HDR_SIZE) = off + (in.rd + SEC_HDR_SIZE)
      BY <1>2 DEF Roomy, A!Add
    <3>3. A!Sub(off + (in.rd + SEC_HDR_SIZE), SEC_HDR_SIZE + n) = from
      BY <1>2, <2>1 DEF A!Sub
    <3>4. Moved3(r.arr, n) = Arr(from, 0, 0, size)
      <4>. HIDE DEF from
      <4>1. Moved3(r.arr, n) = Emptied(r.arr, from)
        BY <3>2, <3>3, <3>7 DEF Moved3, Emptied
      <4>2. Emptied(r.arr, from) = Arr(from, 0, 0, size)
        BY <3>1, MovedArr
      <4>. QED  BY <4>1, <4>2
    <3>5. p = [r EXCEPT !.arr = Arr(from, 0, 0, size)]
      BY <3>4
    <3>6. from + 0 <= size /\ 0 \in Nat
      BY <1>2, <2>1
    <3>. HIDE DEF from, p
    <3>. QED  BY <1>4, <2>1, <3>5, <3>6, ArrMem
  <2>. DEFINE b1 == Laid(buf, from, << ScCell(sc) >>)
              b2 == Laid(b1, from + 1, IcCells("ic"))
              b3 == Laid(b2, from + SEC_HDR_SIZE, Challenge("stoc", n))
  <2>. HIDE DEF from, p
  <2>3. IsMem(q, b1, from, 0, 1, size)
    <3>1. /\ from + 0 + 1 <= size /\ 1 <= 2 * MAX_HLS_SIZE /\ from + 0 = from /\ 0 + 1 = 1
      BY <1>2, <2>1
    <3>2. IsMem(q, Laid(buf, from + 0, << ScCell(sc) >>), from, 0, 0 + 1, size)
      BY <2>2, <3>1, OneCell, WriteBuffMem
    <3>. QED  BY <3>1, <3>2
  <2>. HIDE DEF q, b1
  <2>4. IsMem(h, b2, from, 0, SEC_HDR_SIZE, size)
    <3>1. from + 1 + 4 <= size /\ 1 + 4 = SEC_HDR_SIZE
      BY <1>2, <2>1
    <3>2. IsMem(h, b2, from, 0, 1 + 4, size)
      BY <2>3, <3>1, IcRow, WriteWordMem
    <3>. QED  BY <3>1, <3>2
  <2>. HIDE DEF h, b2
  <2>5. IsMem(w, b3, from, 0, SEC_HDR_SIZE + n, size)
    <3>1. from + SEC_HDR_SIZE + n <= size /\ n <= 2 * MAX_HLS_SIZE /\ Row(Challenge("stoc", n), n)
      BY <1>2, <2>1, ChallengeRow
    <3>. QED  BY <2>4, <3>1, WriteBuffMem
  <2>. HIDE DEF w, b3
  <2>6. IsMem(s, b3, from, 0, SEC_HDR_SIZE + n + TAG_SIZE, size)
    <3>. DEFINE x == IF from + (SEC_HDR_SIZE + n) + TAG_SIZE < size
                     THEN SEC_HDR_SIZE + n + TAG_SIZE ELSE size - from
    <3>1. TAG_SIZE \in 0..TAG_SIZE + SEC_HDR_SIZE + 2 /\ x = SEC_HDR_SIZE + n + TAG_SIZE
      BY <1>2, <2>1
    <3>2. IsMem(s, b3, from, 0, x, size)
      BY <2>5, <3>1, JumpMem
    <3>. HIDE DEF x
    <3>. QED  BY <3>1, <3>2
  <2>. HIDE DEF s
  <2>7. IsDecrypted(d, b3, from, n, size, "client", sc, "ic")
    <3>1. from >= 1 + AK_SIZE - SEC_HDR_SIZE
      BY <2>1
    <3>. QED  BY <1>2, <2>6, <3>1, Decrypted
  <2>. HIDE DEF d
  <2>8. sc = AuthOnly => (d.ok <=> peer.tag = RightTag(sc, "ic", n))
    <3>. DEFINE data == from + SEC_HDR_SIZE
    <3>1. DOMAIN buf = 0..size - 1
      BY DEF HlsInv, Arrays, AreOver, size
    <3>2. b3 = Laid3(buf, from, n, sc)
      BY DEF Laid3, b1, b2, b3
    <3>3. /\ CellsOf(Packet(b3, data, sc), data + n, TAG_SIZE) = CellsOf(buf, data + n, TAG_SIZE)
          /\ Authenticated(b3, data, sc, n, "client", "ic") = RightTag(sc, "ic", n)
      <4>1. IsPacket3(Laid3(buf, from, n, sc), buf, from + SEC_HDR_SIZE, n, sc)
        BY <1>2, <2>1, <3>1, Packet3
      <4>. QED  BY <3>2, <4>1 DEF IsPacket3
    <3>4. data + n = off + in.rd + SEC_HDR_SIZE
      BY <1>2, <2>1
    <3>5. CellsOf(buf, data + n, TAG_SIZE) = TagCells(peer.tag)
      BY <1>2, <2>1, <3>4
    <3>6. sc = AuthOnly => (d.ok <=> TagCells(peer.tag) = TagCells(RightTag(sc, "ic", n)))
      BY <2>7, <3>3, <3>5 DEF IsDecrypted
    <3>. QED  BY <3>6, EqualTags
  <2>9. /\ d.ok \in BOOLEAN /\ pass3' = Result(d.ok)
        /\ (pass3' = "true" <=> d.ok) /\ pass3' \in {"true", "false"}
    <3>1. d.ok \in BOOLEAN
      BY <2>7 DEF IsDecrypted
    <3>. QED  BY <1>1, <1>7, <3>1 DEF Result
  <2>10. /\ buf' = d.m.buf /\ touched' = d.m.touched
         /\ in' = Arr(off, SEC_HDR_SIZE, SEC_HDR_SIZE + n + TAG_SIZE, size)
    <3>1. d.m.arr = Arr(from, SEC_HDR_SIZE, SEC_HDR_SIZE + n + TAG_SIZE, size)
      BY <2>7, MemFacts DEF IsDecrypted, Sound
    <3>2. Restored(d.m.arr, in) = Arr(off, SEC_HDR_SIZE, SEC_HDR_SIZE + n + TAG_SIZE, size)
      BY <3>1 DEF Restored, Arr, off
    <3>. QED  BY <1>1, <1>7, <3>2
  <2>11. DOMAIN buf' = 0..size - 1 /\ touched' \subseteq 0..size - 1
    BY <2>7, <2>10 DEF IsDecrypted, Sound, IsMem
  <2>12. in'.offset = off /\ in'.size = size
    BY <2>10 DEF Arr
  <2>13. AreOver(buf', Arr(off, SEC_HDR_SIZE, SEC_HDR_SIZE + n + TAG_SIZE, size),
                 Arr(off + RESPONSE_HEADER, 0, 0, size), touched')
    <3>1. SEC_HDR_SIZE \in Nat /\ SEC_HDR_SIZE + n + TAG_SIZE \in Nat /\ 0 \in Nat
      BY <1>2
    <3>. QED  BY <1>2, <2>11, <3>1, OverBuffer, Zenon
  <2>14. Arrays'
    BY <1>1, <1>2, <2>10, <2>13 DEF Arrays
  <2>15. Pass3Verifies'
    BY <1>1, <2>1, <2>8, <2>9, <2>12 DEF Pass3Verifies, n, sc
  <2>16. off + SEC_HDR_SIZE + TAG_SIZE <= size
    BY <1>2, <2>1
  <2>. QED
    BY <1>1, <1>2, <1>8, <2>1, <2>12, <2>14, <2>15, <2>16
       DEF HlsInv, Requested, Passed, Answered, ResponseIsWhole
<1>. QED  BY <1>6, <1>7

-----------------------------------------------------------------------------
(* Pass 4                                                                   *)

IsSplit(b, at, m, n) == CellsOf(b, at, m + n) = CellsOf(b, at, m) \o CellsOf(b, at + m, n)

LEMMA CellsSplit ==
  ASSUME NEW b, NEW at \in Nat, NEW m \in Nat, NEW n \in Nat
  PROVE  IsSplit(b, at, m, n)
<1>. DEFINE s == CellsOf(b, at, m)
            t == CellsOf(b, at + m, n)
            j == s \o t
            c == CellsOf(b, at, m + n)
<1>1. Row(s, m) /\ Row(t, n) /\ Row(c, m + n)
  BY CellsRow
<1>2. ASSUME NEW i \in 1..m
      PROVE  c[i] = s[i]
  BY DEF CellsOf
<1>3. ASSUME NEW i \in 1..n
      PROVE  c[m + i] = t[i]
  <2>1. m + i \in 1..m + n /\ at + (m + i) - 1 = (at + m) + i - 1
    OBVIOUS
  <2>. QED  BY <2>1 DEF CellsOf
<1>. HIDE DEF s, t, c
<1>4. IsJoin(j, s, t, m, n)
  BY <1>1, JoinedRows, Zenon
<1>. HIDE DEF j
<1>5. Row(j, m + n)
  BY <1>4 DEF IsJoin
<1>6. ASSUME NEW i \in 1..m + n
      PROVE  c[i] = j[i]
  <2>1. CASE i \in 1..m
    BY <1>2, <1>4, <2>1 DEF IsJoin
  <2>2. CASE i \notin 1..m
    <3>1. i - m \in 1..n /\ m + (i - m) = i
      BY <2>2
    <3>2. c[m + (i - m)] = t[i - m] /\ j[m + (i - m)] = t[i - m]
      BY <1>3, <1>4, <3>1 DEF IsJoin
    <3>. QED  BY <3>1, <3>2
  <2>. QED  BY <2>1, <2>2
<1>7. c = j
  BY <1>1, <1>5, <1>6, EqualRows
<1>. QED  BY <1>7 DEF c, j, s, t, IsSplit

\* Three cells and a counter, laid one after the other.
Laid4(b, at, x, y, z, ic) ==
    Laid(Laid(Laid(Laid(b, at, << x >>), at + 1, << y >>), at + 2, << z >>), at + 3, ic)

IsLaid4(c, b, at, x, y, z, ic, n) ==
    /\ CellsOf(c, at, 7) = << x, y, z >> \o ic
    /\ CellsOf(c, at + 7, n) = CellsOf(b, at + 7, n)

LEMMA Header4 ==
  ASSUME NEW b, NEW size \in Nat, DOMAIN b = 0..size - 1, NEW at \in Nat, at + 7 <= size,
         NEW x, NEW y, NEW z, NEW ic, Row(ic, 4), NEW n \in Nat
  PROVE  IsLaid4(Laid4(b, at, x, y, z, ic), b, at, x, y, z, ic, n)
<1>. DEFINE b1 == Laid(b, at, << x >>)
            b2 == Laid(b1, at + 1, << y >>)
            b3 == Laid(b2, at + 2, << z >>)
            c  == Laid(b3, at + 3, ic)
            h  == << x, y, z >>
<1>1. c = Laid4(b, at, x, y, z, ic)
  BY DEF Laid4
<1>2. /\ Row(<< x >>, 1) /\ Row(<< y >>, 1) /\ Row(<< z >>, 1)
      /\ << x >>[1] = x /\ << y >>[1] = y /\ << z >>[1] = z
  BY OneCell
<1>3. DOMAIN b1 = 0..size - 1 /\ DOMAIN b2 = 0..size - 1 /\ DOMAIN b3 = 0..size - 1
  BY DEF Laid
<1>4. DOMAIN c = 0..size - 1
  BY <1>3 DEF Laid
<1>5. CellsOf(c, at + 7, n) = CellsOf(b, at + 7, n)
  <2>. DEFINE to == at + 7
  <2>1. /\ Apart(at, 1, to, n) /\ Apart(at + 1, 1, to, n) /\ Apart(at + 2, 1, to, n)
        /\ Apart(at + 3, 4, to, n)
        /\ at + 1 \in Nat /\ at + 2 \in Nat /\ at + 3 \in Nat /\ to \in Nat
    BY DEF Apart
  <2>. HIDE DEF to, b1, b2, b3
  <2>2. CellsOf(c, to, n) = CellsOf(b3, to, n)
    BY <2>1, CellsKept
  <2>3. CellsOf(b3, to, n) = CellsOf(b2, to, n)
    BY <1>2, <2>1, CellsKept DEF b3
  <2>4. CellsOf(b2, to, n) = CellsOf(b1, to, n)
    BY <1>2, <2>1, CellsKept DEF b2
  <2>5. CellsOf(b1, to, n) = CellsOf(b, to, n)
    BY <1>2, <2>1, CellsKept DEF b1
  <2>. QED  BY <2>2, <2>3, <2>4, <2>5 DEF to
<1>6. /\ CellsOf(c, at + 3, 4) = ic
      /\ CellsOf(b3, at + 2, 1) = << z >> /\ CellsOf(b2, at + 1, 1) = << y >>
      /\ CellsOf(b1, at, 1) = << x >>
  <2>1. /\ at + 1 \in Nat /\ at + 2 \in Nat /\ at + 3 \in Nat
        /\ at + 1 <= size /\ (at + 1) + 1 <= size /\ (at + 2) + 1 <= size /\ (at + 3) + 4 <= size
    OBVIOUS
  <2>. HIDE DEF b1, b2, b3
  <2>2. CellsOf(c, at + 3, 4) = ic
    BY <1>3, <2>1, CellsLaid
  <2>3. CellsOf(b3, at + 2, 1) = << z >>
    BY <1>2, <1>3, <2>1, CellsLaid DEF b3
  <2>4. CellsOf(b2, at + 1, 1) = << y >>
    BY <1>2, <1>3, <2>1, CellsLaid DEF b2
  <2>5. CellsOf(b1, at, 1) = << x >>
    <3>1. Row(<< x >>, 1) /\ at + 1 <= size
      BY <1>2, <2>1
    <3>2. CellsOf(Laid(b, at, << x >>), at, 1) = << x >>
      BY <3>1, CellsLaid, Zenon
    <3>. QED  BY <3>2 DEF b1
  <2>. QED  BY <2>2, <2>3, <2>4, <2>5
<1>7. CellsOf(c, at, 3) = h
  <2>1. /\ Row(h, 3) /\ h[1] = x /\ h[2] = y /\ h[3] = z
    BY DEF Row
  <2>2. Row(CellsOf(c, at, 3), 3)
    BY CellsRow
  <2>3. /\ Apart(at + 3, 4, at, 1) /\ Apart(at + 2, 1, at, 1) /\ Apart(at + 1, 1, at, 1)
        /\ Apart(at + 3, 4, at + 1, 1) /\ Apart(at + 2, 1, at + 1, 1)
        /\ Apart(at + 3, 4, at + 2, 1)
        /\ at + 1 \in Nat /\ at + 2 \in Nat /\ at + 3 \in Nat /\ 1 \in Nat
    BY DEF Apart
  <2>. HIDE DEF h, b1, b2, b3
  <2>4. CellsOf(c, at, 1) = << x >>
    <3>1. CellsOf(c, at, 1) = CellsOf(b3, at, 1)
      BY <2>3, CellsKept
    <3>2. CellsOf(b3, at, 1) = CellsOf(b2, at, 1)
      BY <1>2, <2>3, CellsKept DEF b3
    <3>3. CellsOf(b2, at, 1) = CellsOf(b1, at, 1)
      BY <1>2, <2>3, CellsKept DEF b2
    <3>. QED  BY <1>6, <3>1, <3>2, <3>3
  <2>5. CellsOf(c, at + 1, 1) = << y >>
    <3>1. CellsOf(c, at + 1, 1) = CellsOf(b3, at + 1, 1)
      BY <2>3, CellsKept
    <3>2. CellsOf(b3, at + 1, 1) = CellsOf(b2, at + 1, 1)
      BY <1>2, <2>3, CellsKept DEF b3
    <3>. QED  BY <1>6, <3>1, <3>2
  <2>6. CellsOf(c, at + 2, 1) = << z >>
    <3>1. CellsOf(c, at + 2, 1) = CellsOf(b3, at + 2, 1)
      BY <2>3, CellsKept
    <3>. QED  BY <1>6, <3>1
  <2>. HIDE DEF c
  <2>7. CellsOf(c, at, 3)[1] = CellsOf(c, at, 1)[1]
    BY DEF CellsOf
  <2>8. CellsOf(c, at, 3)[2] = CellsOf(c, at + 1, 1)[1]
    BY DEF CellsOf
  <2>9. CellsOf(c, at, 3)[3] = CellsOf(c, at + 2, 1)[1]
    BY DEF CellsOf
  <2>10. \A i \in 1..3 : CellsOf(c, at, 3)[i] = h[i]
    <3>1. \A i \in 1..3 : i = 1 \/ i = 2 \/ i = 3
      OBVIOUS
    <3>. QED  BY <1>2, <2>1, <2>4, <2>5, <2>6, <2>7, <2>8, <2>9, <3>1, Zenon
  <2>. QED  BY <2>1, <2>2, <2>10, EqualRows
<1>8. IsSplit(c, at, 3, 4)
  <2>1. 3 \in Nat /\ 4 \in Nat
    OBVIOUS
  <2>. HIDE DEF c
  <2>. QED  BY <2>1, CellsSplit, Zenon
<1>. HIDE DEF c, h
<1>9. IsLaid4(c, b, at, x, y, z, ic, n)
  <2>1. 3 + 4 = 7
    OBVIOUS
  <2>. QED  BY <1>5, <1>6, <1>7, <1>8, <2>1 DEF IsLaid4, IsSplit, h
<1>. QED  BY <1>1, <1>9

\* The packet that pass 4 lays out, at from, authenticates the challenge of the client.
IsPacket4(b, from, n) ==
    Authenticated(b, from, AuthOnly, n, "server", "own ic") = OwnTag(n)

LEMMA Packet4 ==
  ASSUME NEW b, NEW size \in Nat, DOMAIN b = 0..size - 1, NEW from \in Nat, from >= 1 + AK_SIZE,
         NEW n \in Nat, from + n <= size
  PROVE  IsPacket4(Laid(b, from, Challenge("ctos", n)), from, n)
<1>. DEFINE info == Challenge("ctos", n)
            c == Laid(b, from, info)
<1>1. Row(info, n)
  BY ChallengeRow
<1>2. DOMAIN c = 0..size - 1
  BY DEF Laid
<1>. HIDE DEF info
<1>3. CellsOf(c, from, n) = info
  BY <1>1, CellsLaid
<1>. HIDE DEF c
<1>4. IsPacket(c, from, n, info, AuthOnly)
  BY <1>2, <1>3, PacketCells, Zenon
<1>5. Authenticated(c, from, AuthOnly, n, "server", "own ic") = OwnTag(n)
  BY <1>4 DEF Authenticated, OwnTag, IsPacket, info
<1>. QED  BY <1>5 DEF c, info, IsPacket4

\* Where pass 4 moves the array: the challenge ends after the header of the octet string.
LEMMA Moved4Is ==
  ASSUME NEW size, Roomy(size), NEW off \in Nat, off + 17 <= size, off >= MAX_HLS_SIZE,
         NEW n \in 0..64
  PROVE  Moved4(Arr(off + RESPONSE_HEADER, 0, 0, size), n) = Arr(off + 13 - n, 0, 0, size)
<1>. DEFINE a == Arr(off + RESPONSE_HEADER, 0, 0, size)
            x == off + 13 - n
<1>1. A!Sub(off + RESPONSE_HEADER, A!Sub(n, SEC_HDR_SIZE + 2)) = x
  <2>1. /\ size \in Nat /\ Wrap \in Nat /\ size + 2 * MAX_HLS_SIZE < Wrap
    BY DEF Roomy
  <2>2. CASE n >= 7
    BY <2>1, <2>2 DEF A!Sub
  <2>3. CASE n < 7
    <3>1. A!Sub(n, SEC_HDR_SIZE + 2) = n + Wrap - 7
      BY <2>1, <2>3 DEF A!Sub
    <3>2. A!Sub(off + 6, n + Wrap - 7) = x
      BY <2>1, <2>3 DEF A!Sub
    <3>. QED  BY <3>1, <3>2
  <2>. QED  BY <2>2, <2>3
<1>2. a.offset = off + RESPONSE_HEADER
  BY DEF Arr
<1>. HIDE DEF x
<1>3. Moved4(a, n) = [a EXCEPT !.offset = x]
  BY <1>1, <1>2 DEF Moved4
<1>4. [a EXCEPT !.offset = x] = Arr(x, 0, 0, size)
  BY DEF Arr
<1>. HIDE DEF a
<1>. QED  BY <1>3, <1>4 DEF a, x

LEMMA Pass4Inv == HlsInv /\ Pass4 => HlsInv'
<1>. SUFFICES ASSUME HlsInv, Pass4
              PROVE  HlsInv'
  OBVIOUS
<1>. DEFINE n    == peer.ctos
            off  == in.offset
            size == in.size
            from == off + 13 - n
            at   == off + RESPONSE_HEADER
            p == [Memory(out) EXCEPT !.arr = Moved4(@, n)]
            v == WriteBuff(p, Challenge("ctos", n))
            e == AuthEncrypt(v, "server", AuthOnly, "own ic")
            w == [e.m EXCEPT !.arr = [Restored(@, out) EXCEPT !.wr = 0]]
            k == WriteBuff(w, << Cell("octet string") >>)
            l == WriteBuff(k, << Cell("17") >>)
            s == WriteBuff(l, << ScCell(AuthOnly) >>)
            h == WriteWord(s, IcCells("own ic"))
            j == IF A!FreeSize(w.arr) >= 7 THEN WriterJump(h, TAG_SIZE) ELSE h
<1>1. /\ phase = "passed" /\ phase' = "answered" /\ pass3 = "true" /\ pass3' = pass3
      /\ in' = in /\ peer' = peer
      /\ IF RoomForHls(out)
         THEN /\ pass4' = Result(/\ e.ok
                                 /\ A!FreeSize(w.arr) >= 7 /\ A!WriterFits(h.arr, TAG_SIZE))
              /\ buf' = j.buf /\ out' = j.arr /\ touched' = j.touched
         ELSE /\ pass4' = "false"
              /\ buf' = buf /\ out' = out /\ touched' = touched
  BY Zenon DEF Pass4
<1>2. /\ off \in Nat /\ in.rd \in Nat /\ in.wr \in Nat /\ size \in Nat /\ Roomy(size) /\ n \in 0..64
      /\ in = Arr(off, in.rd, in.wr, size) /\ out = Arr(at, 0, 0, size)
      /\ off >= MAX_HLS_SIZE /\ off + SEC_HDR_SIZE + TAG_SIZE <= size
      /\ DOMAIN buf = 0..size - 1 /\ touched \subseteq 0..size - 1
  <2>1. Arrays /\ Peer /\ Passed
    BY DEF HlsInv
  <2>2. /\ off \in Nat /\ in.rd \in Nat /\ in.wr \in Nat /\ Roomy(size)
        /\ in = Arr(off, in.rd, in.wr, size) /\ out = Arr(at, 0, out.wr, size)
        /\ DOMAIN buf = 0..size - 1 /\ touched \subseteq 0..size - 1
    BY <2>1 DEF Arrays, AreOver
  <2>3. n \in 0..64 /\ out.wr = 0 /\ off >= MAX_HLS_SIZE /\ off + SEC_HDR_SIZE + TAG_SIZE <= size
    BY <1>1, <2>1 DEF Peer, Passed
  <2>4. size \in Nat
    BY <2>2 DEF Roomy
  <2>. HIDE DEF off, size, n, at
  <2>. QED  BY <2>2, <2>3, <2>4
<1>3. Arrays
  BY DEF HlsInv
<1>4. Peer' /\ Pass3Verifies'
  BY <1>1 DEF HlsInv, Peer, Pass3Verifies
<1>5. IsMem(Memory(out), buf, at, 0, 0, size)
  <2>1. at + 0 <= in.size /\ at \in Nat /\ 0 \in Nat
    BY <1>2
  <2>2. IsMem(Memory(Arr(at, 0, 0, in.size)), buf, at, 0, 0, in.size)
    BY <1>3, <2>1, MemoryMem, Zenon
  <2>. QED  BY <1>2, <2>2
<1>. HIDE DEF off, size, n
<1>6. from \in Nat /\ from >= 1 + AK_SIZE /\ from + n = off + 13 /\ at \in Nat /\ from + n <= size
  BY <1>2
<1>7. IsMem(p, buf, from, 0, 0, size)
  <2>1. Moved4(out, n) = Arr(from, 0, 0, size)
    <3>1. off + 17 <= size
      BY <1>2
    <3>2. Moved4(Arr(off + RESPONSE_HEADER, 0, 0, size), n) = Arr(off + 13 - n, 0, 0, size)
      BY <1>2, <3>1, Moved4Is, Zenon
    <3>. QED  BY <1>2, <3>2
  <2>2. Memory(out).arr = out
    BY DEF Memory
  <2>3. p = [Memory(out) EXCEPT !.arr = Arr(from, 0, 0, size)]
    BY <2>1, <2>2
  <2>4. from + 0 <= size /\ 0 \in Nat
    BY <1>2, <1>6
  <2>. HIDE DEF from, at, p
  <2>. QED  BY <1>5, <1>6, <2>3, <2>4, ArrMem
<1>. DEFINE b1 == Laid(buf, from, Challenge("ctos", n))
            b2 == e.m.buf
<1>. HIDE DEF p, from, at
<1>8. IsMem(v, b1, from, 0, n, size)
  <2>1. /\ from + 0 + n <= size /\ n <= 2 * MAX_HLS_SIZE /\ from + 0 = from /\ 0 + n = n /\ n \in Nat
    BY <1>2, <1>6
  <2>2. IsMem(v, Laid(buf, from + 0, Challenge("ctos", n)), from, 0, 0 + n, size)
    BY <1>7, <2>1, ChallengeRow, WriteBuffMem
  <2>. QED  BY <2>1, <2>2
<1>. HIDE DEF v, b1
<1>9. IsEncrypted(e, b1, from, n, size, "server", "own ic")
  BY <1>2, <1>6, <1>8, Encrypted
<1>10. Authenticated(b1, from, AuthOnly, n, "server", "own ic") = OwnTag(n)
  <2>1. n \in Nat
    BY <1>2
  <2>2. IsPacket4(Laid(buf, from, Challenge("ctos", n)), from, n)
    BY <1>2, <1>6, <2>1, Packet4, Zenon
  <2>. QED  BY <2>2 DEF b1, IsPacket4
<1>. HIDE DEF e
<1>11. IsMem(w, b2, at, 0, 0, size)
  <2>1. IsMem(e.m, b2, from, 0, e.m.arr.wr, size)
    BY <1>9 DEF IsEncrypted, Sound
  <2>2. e.m.arr = Arr(from, 0, e.m.arr.wr, size) /\ out.offset = at
    BY <1>2, <2>1, MemFacts DEF Arr
  <2>3. [Restored(e.m.arr, out) EXCEPT !.wr = 0] = Arr(at, 0, 0, size)
    <3>. DEFINE a == e.m.arr
                y == Restored(a, out)
                x == a.wr
    <3>1. a = Arr(from, 0, x, size)
      BY <2>2
    <3>. HIDE DEF a, x
    <3>2. y = Arr(at, 0, x, size)
      BY <2>2, <3>1 DEF Restored, Arr
    <3>. HIDE DEF y
    <3>3. [y EXCEPT !.wr = 0] = Arr(at, 0, 0, size)
      BY <3>2 DEF Arr
    <3>. QED  BY <3>3 DEF a, y
  <2>4. w = [e.m EXCEPT !.arr = Arr(at, 0, 0, size)]
    BY <2>3
  <2>5. at + 0 <= size /\ 0 \in Nat
    BY <1>2 DEF at
  <2>. HIDE DEF w, b2
  <2>. QED  BY <1>6, <2>1, <2>4, <2>5, ArrMem
<1>. HIDE DEF w, b2
<1>. DEFINE b3 == Laid(b2, at, << Cell("octet string") >>)
            b4 == Laid(b3, at + 1, << Cell("17") >>)
            b5 == Laid(b4, at + 2, << ScCell(AuthOnly) >>)
            b6 == Laid(b5, at + 3, IcCells("own ic"))
<1>12. IsMem(k, b3, at, 0, 1, size)
  <2>1. at + 0 + 1 <= size /\ 1 <= 2 * MAX_HLS_SIZE /\ at + 0 = at /\ 0 + 1 = 1
    BY <1>2 DEF at
  <2>2. IsMem(k, Laid(b2, at + 0, << Cell("octet string") >>), at, 0, 0 + 1, size)
    BY <1>11, <2>1, OneCell, WriteBuffMem
  <2>. QED  BY <2>1, <2>2
<1>. HIDE DEF k, b3
<1>13. IsMem(l, b4, at, 0, 2, size)
  <2>1. at + 1 + 1 <= size /\ 1 <= 2 * MAX_HLS_SIZE /\ 1 + 1 = 2
    BY <1>2 DEF at
  <2>2. IsMem(l, Laid(b3, at + 1, << Cell("17") >>), at, 0, 1 + 1, size)
    BY <1>12, <2>1, OneCell, WriteBuffMem
  <2>. QED  BY <2>1, <2>2
<1>. HIDE DEF l, b4
<1>14. IsMem(s, b5, at, 0, 3, size)
  <2>1. at + 2 + 1 <= size /\ 1 <= 2 * MAX_HLS_SIZE /\ 2 + 1 = 3
    BY <1>2 DEF at
  <2>2. IsMem(s, Laid(b4, at + 2, << ScCell(AuthOnly) >>), at, 0, 2 + 1, size)
    BY <1>13, <2>1, OneCell, WriteBuffMem
  <2>. QED  BY <2>1, <2>2
<1>. HIDE DEF s, b5
<1>15. IsMem(h, b6, at, 0, 7, size)
  <2>1. at + 3 + 4 <= size /\ 3 + 4 = 7
    BY <1>2 DEF at
  <2>2. IsMem(h, b6, at, 0, 3 + 4, size)
    BY <1>14, <2>1, IcRow, WriteWordMem
  <2>. QED  BY <2>1, <2>2
<1>. HIDE DEF h, b6
<1>. DEFINE own == IF at + 7 + TAG_SIZE < size THEN 7 + TAG_SIZE ELSE size - at
            fits == at + 7 + TAG_SIZE < size
<1>16. A!FreeSize(w.arr) >= 7
  <2>1. A!FreeSize(w.arr) = size - (at + 0)
    BY <1>11, MemFacts
  <2>. QED  BY <1>2, <2>1 DEF at
<1>17. TAG_SIZE \in 0..TAG_SIZE + SEC_HDR_SIZE + 2
  OBVIOUS
<1>18. IsMem(j, b6, at, 0, own, size)
  <2>1. j = WriterJump(h, TAG_SIZE)
    BY <1>16
  <2>. HIDE DEF j
  <2>. QED  BY <1>15, <1>17, <2>1, JumpMem
<1>19. A!WriterFits(h.arr, TAG_SIZE) <=> fits
  <2>1. h.arr = Arr(at, 0, 7, size)
    BY <1>15, MemFacts
  <2>2. at + 7 <= size /\ 7 \in Nat /\ 0 \in Nat
    BY <1>2 DEF at
  <2>3. IsWriterFits(at, 0, 7, size, TAG_SIZE)
    BY <1>2, <1>6, <1>17, <2>2, WriterFitsIs, Zenon
  <2>. QED  BY <2>1, <2>3 DEF IsWriterFits
<1>20. own \in Nat /\ own <= 2 + SEC_HDR_SIZE + TAG_SIZE /\ at + own <= size
       /\ (fits => own = 2 + SEC_HDR_SIZE + TAG_SIZE /\ at + own < size)
  BY <1>2, <1>6 DEF at
<1>. HIDE DEF j, own
<1>21. /\ buf' = b6 /\ out' = Arr(at, 0, own, size) /\ touched' = j.touched
       /\ (pass4' = "true" => n > 0 /\ fits)
  <2>1. RoomForHls(out)
    <3>1. out.offset = at
      BY <1>2 DEF Arr
    <3>. QED  BY <1>2, <3>1 DEF RoomForHls, at
  <2>2. /\ pass4' = Result(e.ok /\ A!FreeSize(w.arr) >= 7 /\ A!WriterFits(h.arr, TAG_SIZE))
        /\ buf' = j.buf /\ out' = j.arr /\ touched' = j.touched
    BY <1>1, <2>1
  <2>3. j.buf = b6 /\ j.arr = Arr(at, 0, own, size)
    BY <1>18, MemFacts
  <2>4. e.ok = (n > 0)
    BY <1>9 DEF IsEncrypted
  <2>. HIDE DEF fits
  <2>5. pass4' = "true" => e.ok /\ A!WriterFits(h.arr, TAG_SIZE)
    BY <2>2 DEF Result
  <2>. QED  BY <1>19, <2>2, <2>3, <2>4, <2>5
<1>22. Arrays'
  <2>1. touched' \subseteq 0..size - 1 /\ DOMAIN b6 = 0..size - 1
    BY <1>18, <1>21 DEF IsMem
  <2>2. off + SEC_HDR_SIZE <= size
    BY <1>2
  <2>3. AreOver(b6, Arr(off, in.rd, in.wr, size), Arr(off + RESPONSE_HEADER, 0, own, size), touched')
    BY <1>2, <1>20, <2>1, <2>2, OverBuffer, Zenon
  <2>. QED  BY <1>1, <1>2, <1>21, <2>3 DEF Arrays, at
<1>23. ASSUME pass4' = "true"
       PROVE  CellsOf(b6, at, 2 + SEC_HDR_SIZE + TAG_SIZE) = OctetString(OwnTag(n))
  <2>. DEFINE x == Cell("octet string")
              y == Cell("17")
              z == ScCell(AuthOnly)
              ic == IcCells("own ic")
  <2>1. n > 0 /\ fits
    BY <1>21, <1>23
  <2>2. CellsOf(b2, at + 7, TAG_SIZE) = TagCells(OwnTag(n))
    <3>1. n > 0 /\ from + n + TAG_SIZE <= size /\ from + n = at + 7
      BY <1>2, <1>6, <2>1 DEF at
    <3>. QED  BY <1>9, <1>10, <3>1 DEF IsEncrypted, b2
  <2>3. IsLaid4(b6, b2, at, x, y, z, ic, TAG_SIZE)
    <3>1. DOMAIN b2 = 0..size - 1 /\ at + 7 <= size /\ TAG_SIZE \in Nat
      BY <1>2, <1>11 DEF IsMem, at
    <3>2. b6 = Laid4(b2, at, x, y, z, ic)
      BY DEF Laid4, b3, b4, b5, b6
    <3>. HIDE DEF x, y, z, ic
    <3>3. Row(ic, 4)
      BY IcRow DEF ic
    <3>. QED  BY <1>2, <1>6, <3>1, <3>2, <3>3, Header4, Zenon
  <2>4. IsSplit(b6, at, 7, TAG_SIZE)
    <3>1. 7 \in Nat /\ TAG_SIZE \in Nat
      OBVIOUS
    <3>. QED  BY <1>6, <3>1, CellsSplit, Zenon
  <2>. HIDE DEF x, y, z, ic
  <2>5. CellsOf(b6, at, 7 + TAG_SIZE) = (<< x, y, z >> \o ic) \o TagCells(OwnTag(n))
    BY <2>2, <2>3, <2>4 DEF IsLaid4, IsSplit
  <2>6. 7 + TAG_SIZE = 2 + SEC_HDR_SIZE + TAG_SIZE
    OBVIOUS
  <2>. QED  BY <2>5, <2>6 DEF OctetString, x, y, z, ic
<1>24. Answered'
  <2>1. out'.wr = own
    BY <1>21 DEF Arr
  <2>2. pass4' = "true" => fits
    BY <1>21
  <2>. HIDE DEF fits
  <2>. QED  BY <1>1, <1>20, <1>21, <1>23, <2>1, <2>2 DEF Answered, at, off, size, n
<1>25. Requested' /\ Passed' /\ ResponseIsWhole'
  BY <1>1, <1>2 DEF HlsInv, Requested, Passed, ResponseIsWhole, off, size
<1>. QED  BY <1>4, <1>22, <1>24, <1>25 DEF HlsInv

-----------------------------------------------------------------------------
(* The response                                                             *)

\* The header of a response with data, and the cells of the whole response.
DataHeader ==
    << Cell("tag"), Cell("normal"), Cell("id"), Cell("result"), Cell("data"), Cell("data") >>

WholeCells(tag) ==
    << Cell("tag"), Cell("normal"), Cell("id"), Cell("result"), Cell("data"), Cell("data"),
       Cell("octet string"), Cell("17"), ScCell(AuthOnly) >> \o IcCells("own ic") \o TagCells(tag)

LEMMA WholeIs ==
  ASSUME NEW tag
  PROVE  DataHeader \o OctetString(tag) = WholeCells(tag)
<1>. DEFINE a == DataHeader
            b == << Cell("octet string"), Cell("17"), ScCell(AuthOnly) >>
            c == << Cell("tag"), Cell("normal"), Cell("id"), Cell("result"), Cell("data"),
                    Cell("data"), Cell("octet string"), Cell("17"), ScCell(AuthOnly) >>
            ic == IcCells("own ic")
            t  == TagCells(tag)
            bi == b \o ic
            o  == bi \o t
            w  == a \o o
            ci == c \o ic
            r  == ci \o t
<1>1. Row(ic, 4) /\ Row(t, 12)
  BY IcRow, TagRow
<1>2. Row(a, 6) /\ Row(b, 3) /\ Row(c, 9)
  BY DEF Row, DataHeader
<1>3. (\A i \in 1..6 : c[i] = a[i]) /\ (\A i \in 1..3 : c[6 + i] = b[i])
  <2>1. /\ c[1] = a[1] /\ c[2] = a[2] /\ c[3] = a[3] /\ c[4] = a[4] /\ c[5] = a[5] /\ c[6] = a[6]
        /\ c[7] = b[1] /\ c[8] = b[2] /\ c[9] = b[3]
    BY DEF DataHeader
  <2>. HIDE DEF a, b, c
  <2>2. /\ \A i \in 1..6 : i = 1 \/ i = 2 \/ i = 3 \/ i = 4 \/ i = 5 \/ i = 6
        /\ \A i \in 1..3 : (i = 1 /\ 6 + i = 7) \/ (i = 2 /\ 6 + i = 8) \/ (i = 3 /\ 6 + i = 9)
    OBVIOUS
  <2>. QED  BY <2>1, <2>2, Zenon
<1>4. o = OctetString(tag) /\ r = WholeCells(tag)
  BY DEF OctetString, WholeCells
<1>. HIDE DEF a, b, c, ic, t
<1>5. IsJoin(bi, b, ic, 3, 4) /\ IsJoin(ci, c, ic, 9, 4)
  BY <1>1, <1>2, JoinedRows, Zenon
<1>6. Row(bi, 7) /\ Row(ci, 13)
  <2>1. Row(bi, 3 + 4) /\ Row(ci, 9 + 4) /\ 3 + 4 = 7 /\ 9 + 4 = 13
    BY <1>5 DEF IsJoin
  <2>. QED  BY <2>1
<1>. HIDE DEF bi, ci
<1>7. IsJoin(o, bi, t, 7, 12) /\ IsJoin(r, ci, t, 13, 12)
  BY <1>1, <1>6, JoinedRows, Zenon
<1>8. Row(o, 19) /\ Row(r, 25)
  <2>1. Row(o, 7 + 12) /\ Row(r, 13 + 12) /\ 7 + 12 = 19 /\ 13 + 12 = 25
    BY <1>7 DEF IsJoin
  <2>. QED  BY <2>1
<1>. HIDE DEF o, r
<1>9. IsJoin(w, a, o, 6, 19)
  BY <1>2, <1>8, JoinedRows, Zenon
<1>10. Row(w, 25)
  <2>1. Row(w, 6 + 19) /\ 6 + 19 = 25
    BY <1>9 DEF IsJoin
  <2>. QED  BY <2>1
<1>. HIDE DEF w
<1>11. ASSUME NEW i \in 1..25
       PROVE  w[i] = r[i]
  <2>1. CASE i \in 1..6
    <3>1. w[i] = a[i]
      BY <1>9, <2>1 DEF IsJoin
    <3>2. r[i] = ci[i] /\ ci[i] = c[i]
      BY <1>5, <1>7, <2>1 DEF IsJoin
    <3>. QED  BY <1>3, <2>1, <3>1, <3>2
  <2>2. CASE i \in 7..9
    <3>1. i - 6 \in 1..3 /\ 6 + (i - 6) = i /\ i - 6 \in 1..7 /\ i - 6 \in 1..19 /\ i \in 1..9
          /\ i \in 1..13
      BY <2>2
    <3>2. w[6 + (i - 6)] = o[i - 6]
      BY <1>9, <3>1 DEF IsJoin
    <3>3. o[i - 6] = bi[i - 6] /\ bi[i - 6] = b[i - 6]
      BY <1>5, <1>7, <3>1 DEF IsJoin
    <3>4. r[i] = ci[i] /\ ci[i] = c[i]
      BY <1>5, <1>7, <3>1 DEF IsJoin
    <3>5. c[6 + (i - 6)] = b[i - 6]
      BY <1>3, <3>1
    <3>. QED  BY <3>1, <3>2, <3>3, <3>4, <3>5
  <2>3. CASE i \in 10..13
    <3>1. /\ i - 9 \in 1..4 /\ 9 + (i - 9) = i /\ 3 + (i - 9) = i - 6 /\ 6 + (i - 6) = i
          /\ i - 6 \in 1..7 /\ i - 6 \in 1..19 /\ i \in 1..13
      BY <2>3
    <3>2. w[6 + (i - 6)] = o[i - 6]
      BY <1>9, <3>1 DEF IsJoin
    <3>3. o[i - 6] = bi[i - 6] /\ bi[3 + (i - 9)] = ic[i - 9]
      BY <1>5, <1>7, <3>1 DEF IsJoin
    <3>4. r[i] = ci[i] /\ ci[9 + (i - 9)] = ic[i - 9]
      BY <1>5, <1>7, <3>1 DEF IsJoin
    <3>. QED  BY <3>1, <3>2, <3>3, <3>4
  <2>4. CASE i \in 14..25
    <3>1. /\ i - 13 \in 1..12 /\ 13 + (i - 13) = i /\ 7 + (i - 13) = i - 6 /\ 6 + (i - 6) = i
          /\ i - 6 \in 1..19
      BY <2>4
    <3>2. w[6 + (i - 6)] = o[i - 6]
      BY <1>9, <3>1 DEF IsJoin
    <3>3. o[7 + (i - 13)] = t[i - 13]
      BY <1>7, <3>1 DEF IsJoin
    <3>4. r[13 + (i - 13)] = t[i - 13]
      BY <1>7, <3>1 DEF IsJoin
    <3>. QED  BY <3>1, <3>2, <3>3, <3>4
  <2>. QED  BY <2>1, <2>2, <2>3, <2>4
<1>12. w = r
  BY <1>8, <1>10, <1>11, EqualRows
<1>13. w = DataHeader \o OctetString(tag)
  BY <1>4 DEF w, a
<1>. QED  BY <1>4, <1>12, <1>13

\* The answer of the handler behind a header of five cells, or of six and the octet string.
Header(own) ==
    << Cell("tag"), Cell("normal"), Cell("id"), Cell("result") >>
      \o (IF own > 0 THEN << Cell("data"), Cell("data") >> ELSE << Cell("no data") >>)

LEMMA HeaderRow ==
  ASSUME NEW own \in Nat
  PROVE  /\ Row(Header(own), IF own > 0 THEN 6 ELSE 5)
         /\ own > 0 => Header(own) = DataHeader
<1>. DEFINE a == << Cell("tag"), Cell("normal"), Cell("id"), Cell("result") >>
            b == << Cell("data"), Cell("data") >>
            c == << Cell("no data") >>
<1>1. Row(a, 4) /\ Row(b, 2) /\ Row(c, 1) /\ Row(DataHeader, 6)
  BY DEF Row, DataHeader
<1>2. /\ DataHeader[1] = a[1] /\ DataHeader[2] = a[2] /\ DataHeader[3] = a[3]
      /\ DataHeader[4] = a[4] /\ DataHeader[5] = b[1] /\ DataHeader[6] = b[2]
  BY DEF DataHeader
<1>3. Header(own) = IF own > 0 THEN a \o b ELSE a \o c
  BY DEF Header
<1>. HIDE DEF a, b, c
<1>4. IsJoin(a \o b, a, b, 4, 2) /\ IsJoin(a \o c, a, c, 4, 1)
  BY <1>1, JoinedRows, Zenon
<1>5. Row(a \o b, 6) /\ Row(a \o c, 5)
  <2>1. Row(a \o b, 4 + 2) /\ Row(a \o c, 4 + 1) /\ 4 + 2 = 6 /\ 4 + 1 = 5
    BY <1>4 DEF IsJoin
  <2>. QED  BY <2>1
<1>6. ASSUME NEW i \in 1..6
      PROVE  (a \o b)[i] = DataHeader[i]
  <2>. DEFINE j == a \o b
  <2>1. IsJoin(j, a, b, 4, 2)
    BY <1>4
  <2>. HIDE DEF j
  <2>2. CASE i \in 1..4
    <3>1. j[i] = a[i]
      BY <2>1, <2>2 DEF IsJoin
    <3>2. i = 1 \/ i = 2 \/ i = 3 \/ i = 4
      BY <2>2
    <3>. QED  BY <1>2, <3>1, <3>2 DEF j
  <2>3. CASE i \in 5..6
    <3>1. i - 4 \in 1..2 /\ 4 + (i - 4) = i
      BY <2>3
    <3>2. j[4 + (i - 4)] = b[i - 4]
      BY <2>1, <3>1 DEF IsJoin
    <3>3. (i = 5 /\ i - 4 = 1) \/ (i = 6 /\ i - 4 = 2)
      BY <2>3
    <3>4. CASE i = 5
      <4>1. i - 4 = 1
        BY <3>4
      <4>. QED  BY <1>2, <3>1, <3>2, <3>4, <4>1 DEF j
    <3>5. CASE i = 6
      <4>1. i - 4 = 2
        BY <3>5
      <4>. QED  BY <1>2, <3>1, <3>2, <3>5, <4>1 DEF j
    <3>. QED  BY <3>3, <3>4, <3>5
  <2>4. i \in 1..4 \/ i \in 5..6
    OBVIOUS
  <2>. QED  BY <2>2, <2>3, <2>4, Zenon
<1>7. a \o b = DataHeader
  BY <1>1, <1>5, <1>6, EqualRows
<1>. QED  BY <1>3, <1>5, <1>7

LEMMA RespondInv == HlsInv /\ Respond => HlsInv'
<1>. SUFFICES ASSUME HlsInv, Respond
              PROVE  HlsInv'
  OBVIOUS
<1>. DEFINE own    == out.wr
            off    == in.offset
            size   == in.size
            header == Header(own)
            n      == Len(header)
            o == [Memory(out) EXCEPT !.arr.offset = A!Sub(@, RESPONSE_HEADER), !.arr.wr = 0]
            h == WriteBytes(o, header)
            room  == A!FreeSize(o.arr) >= n
            fits  == own > 0 => A!WriterFits(h.arr, own)
            d == IF room /\ own > 0 THEN WriterJump(h, own) ELSE h
            except == [i \in 1..3 |-> Cell("exception")]
            e == [d EXCEPT !.arr.wr = 0]
            x == WriteBytes(e, except)
            r == IF room /\ fits THEN d ELSE x
<1>1. /\ phase = "answered" \/ (phase = "passed" /\ pass3 = "false")
      /\ buf' = r.buf /\ touched' = r.touched
      /\ in' = [in EXCEPT !.wr = r.arr.wr]
      /\ phase' = "responded"
      /\ out' = out /\ peer' = peer /\ pass3' = pass3 /\ pass4' = pass4
  BY Zenon DEF Respond, Header
<1>2. /\ off \in Nat /\ in.rd \in Nat /\ in.wr \in Nat /\ size \in Nat /\ Roomy(size) /\ own \in Nat
      /\ in = Arr(off, in.rd, in.wr, size) /\ out = Arr(off + RESPONSE_HEADER, 0, own, size)
      /\ off + SEC_HDR_SIZE <= size
      /\ DOMAIN buf = 0..size - 1 /\ touched \subseteq 0..size - 1
  <2>1. Arrays
    BY DEF HlsInv
  <2>. QED  BY <2>1 DEF Arrays, AreOver, Roomy
<1>3. /\ own <= 2 + SEC_HDR_SIZE + TAG_SIZE
      /\ own > 0 => off + RESPONSE_HEADER + own <= size
      /\ pass4 = "true" =>
            /\ own = 2 + SEC_HDR_SIZE + TAG_SIZE /\ off + RESPONSE_HEADER + own < size
            /\ CellsOf(buf, off + RESPONSE_HEADER, own) = OctetString(OwnTag(peer.ctos))
  <2>1. Passed /\ Answered
    BY DEF HlsInv
  <2>2. CASE phase = "answered"
    BY <2>1, <2>2 DEF Answered
  <2>3. CASE phase = "passed"
    BY <2>1, <2>3 DEF Passed
  <2>. QED  BY <1>1, <2>2, <2>3
<1>4. Peer'
  BY <1>1 DEF HlsInv, Peer
<1>. HIDE DEF off, size, own
<1>5. Row(header, n) /\ n = (IF own > 0 THEN 6 ELSE 5) /\ (own > 0 => header = DataHeader)
  <2>. DEFINE k == IF own > 0 THEN 6 ELSE 5
  <2>1. Row(header, k) /\ (own > 0 => header = DataHeader)
    BY <1>2, HeaderRow
  <2>. HIDE DEF header, k
  <2>2. n = k
    BY <2>1, RowIsSequence
  <2>. QED  BY <2>1, <2>2 DEF k
<1>. HIDE DEF header, n
<1>6. IsMem(o, buf, off, 0, 0, size)
  <2>1. A!Sub(off + RESPONSE_HEADER, RESPONSE_HEADER) = off
    BY <1>2 DEF A!Sub
  <2>2. o = [buf |-> buf, arr |-> Arr(off, 0, 0, size), touched |-> touched]
    <3>. DEFINE m == Memory(out)
                a == m.arr
    <3>1. a = out /\ m = [buf |-> buf, arr |-> out, touched |-> touched]
      BY DEF Memory
    <3>2. a.offset = off + RESPONSE_HEADER
      BY <1>2, <3>1 DEF Arr
    <3>3. o = [m EXCEPT !.arr = [a EXCEPT !.offset = off, !.wr = 0]]
      BY <2>1, <3>2
    <3>. HIDE DEF a, m, o
    <3>4. [a EXCEPT !.offset = off, !.wr = 0] = Arr(off, 0, 0, size)
      <4>. DEFINE y == [a EXCEPT !.offset = off]
      <4>1. [a EXCEPT !.offset = off, !.wr = 0] = [y EXCEPT !.wr = 0]
        OBVIOUS
      <4>2. y = Arr(off, 0, own, size)
        BY <1>2, <3>1 DEF Arr
      <4>. HIDE DEF y
      <4>3. [y EXCEPT !.wr = 0] = Arr(off, 0, 0, size)
        BY <4>2 DEF Arr
      <4>. QED  BY <4>1, <4>3
    <3>. QED  BY <3>1, <3>3, <3>4
  <2>. HIDE DEF o
  <2>3. o.touched = touched
    BY <2>2
  <2>. QED  BY <1>2, <2>2, <2>3 DEF IsMem
<1>. HIDE DEF o
<1>7. room /\ off + n <= size /\ n \in Nat
  <2>1. A!FreeSize(o.arr) = size - (off + 0)
    BY <1>6, MemFacts
  <2>. QED  BY <1>2, <1>3, <1>5, <2>1
<1>. DEFINE b1 == Laid(buf, off, header)
<1>8. IsMem(h, b1, off, 0, n, size)
  <2>1. off + 0 + n <= size /\ n <= 2 * MAX_HLS_SIZE /\ off + 0 = off /\ 0 + n = n
    BY <1>2, <1>5, <1>7
  <2>2. IsMem(h, Laid(buf, off + 0, header), off, 0, 0 + n, size)
    BY <1>5, <1>6, <2>1, WriteBytesMem
  <2>. QED  BY <2>1, <2>2
<1>. HIDE DEF h, b1, room
<1>. DEFINE wr == IF own = 0 THEN n ELSE IF off + n + own < size THEN n + own ELSE size - off
<1>9. own \in 0..TAG_SIZE + SEC_HDR_SIZE + 2
  BY <1>2, <1>3
<1>10. IsMem(d, b1, off, 0, wr, size)
  <2>1. CASE own = 0
    <3>1. d = h /\ wr = n
      BY <2>1
    <3>. QED  BY <1>8, <3>1
  <2>2. CASE own # 0
    <3>1. own > 0
      BY <1>2, <2>2
    <3>2. d = WriterJump(h, own) /\ wr = IF off + n + own < size THEN n + own ELSE size - off
      BY <1>7, <3>1
    <3>. HIDE DEF d, wr
    <3>3. IsMem(WriterJump(h, own), b1, off, 0, IF off + n + own < size THEN n + own ELSE size - off,
                size)
      BY <1>8, <1>9, JumpMem, Zenon
    <3>. QED  BY <3>2, <3>3
  <2>. QED  BY <2>1, <2>2
<1>. HIDE DEF d
<1>11. fits <=> (own > 0 => off + n + own < size)
  <2>1. h.arr = Arr(off, 0, n, size)
    BY <1>8, MemFacts
  <2>2. 0 \in Nat
    OBVIOUS
  <2>3. IsWriterFits(off, 0, n, size, own)
    BY <1>2, <1>7, <1>9, <2>2, WriterFitsIs, Zenon
  <2>. QED  BY <2>1, <2>3 DEF IsWriterFits
<1>. HIDE DEF wr, fits
<1>12. IsMem(x, Laid(b1, off, except), off, 0, 3, size)
  <2>1. IsMem(e, b1, off, 0, 0, size)
    <3>1. 0 \in Nat /\ off + 0 <= size
      BY <1>2
    <3>. QED  BY <1>10, <3>1, IndexMem
  <2>2. Row(except, 3)
    BY DEF Row
  <2>3. off + 0 + 3 <= size /\ 3 <= 2 * MAX_HLS_SIZE /\ off + 0 = off /\ 0 + 3 = 3
    BY <1>2
  <2>. HIDE DEF e, except
  <2>4. IsMem(x, Laid(b1, off + 0, except), off, 0, 0 + 3, size)
    BY <2>1, <2>2, <2>3, WriteBytesMem
  <2>. QED  BY <2>3, <2>4
<1>. HIDE DEF x, except
<1>. DEFINE b2 == IF fits THEN b1 ELSE Laid(b1, off, except)
            w2 == IF fits THEN wr ELSE 3
<1>13. IsMem(r, b2, off, 0, w2, size)
  <2>1. CASE fits
    <3>1. r = d /\ b2 = b1 /\ w2 = wr
      BY <1>7, <2>1
    <3>. HIDE DEF r, b2, w2
    <3>. QED  BY <1>10, <3>1
  <2>2. CASE ~fits
    <3>1. r = x /\ b2 = Laid(b1, off, except) /\ w2 = 3
      BY <2>2
    <3>. HIDE DEF r, b2, w2
    <3>. QED  BY <1>12, <3>1
  <2>. QED  BY <2>1, <2>2
<1>. HIDE DEF r, b2, w2
<1>14. /\ buf' = b2 /\ in' = Arr(off, in.rd, w2, size) /\ touched' \subseteq 0..size - 1
       /\ DOMAIN b2 = 0..size - 1 /\ w2 \in Nat
  <2>1. r.buf = b2 /\ r.arr.wr = w2 /\ w2 \in Nat
    BY <1>13, MemFacts
  <2>2. r.touched \subseteq 0..size - 1 /\ DOMAIN b2 = 0..size - 1
    BY <1>13 DEF IsMem
  <2>3. in' = [in EXCEPT !.wr = w2]
    BY <1>1, <2>1
  <2>4. in' = Arr(off, in.rd, w2, size)
    <3>. DEFINE a == in
                rd == in.rd
                y == in.wr
    <3>1. a = Arr(off, rd, y, size)
      BY <1>2
    <3>. HIDE DEF a, rd, y
    <3>2. [a EXCEPT !.wr = w2] = Arr(off, rd, w2, size)
      BY <3>1 DEF Arr
    <3>. QED  BY <2>3, <3>2 DEF a, rd
  <2>. QED  BY <1>1, <2>1, <2>2, <2>4
<1>15. in'.offset = off /\ in'.wr = w2
  BY <1>14 DEF Arr
<1>16. Arrays'
  <2>1. AreOver(b2, Arr(off, in.rd, w2, size), Arr(off + RESPONSE_HEADER, 0, own, size), touched')
    BY <1>2, <1>14, OverBuffer, Zenon
  <2>. QED  BY <1>1, <1>2, <1>14, <2>1 DEF Arrays
<1>17. Pass3Verifies'
  BY <1>1, <1>15 DEF HlsInv, Pass3Verifies, off
<1>18. ResponseIsWhole'
  <2>1. SUFFICES ASSUME pass4 = "true"
                 PROVE  /\ w2 = 25
                        /\ CellsOf(b2, off, 25) = WholeCells(OwnTag(peer.ctos))
    <3>1. Cells([buf |-> b2], off, 25) = CellsOf(b2, off, 25)
      BY DEF Cells, CellsOf
    <3>2. RESPONSE_HEADER + 2 + SEC_HDR_SIZE + TAG_SIZE = 25
      OBVIOUS
    <3>. QED  BY <1>1, <1>14, <1>15, <3>1, <3>2
               DEF ResponseIsWhole, WholeCells, OwnTag, Aad
  <2>2. own = 19 /\ off + 6 + own < size /\ n = 6 /\ header = DataHeader
    BY <1>3, <1>5, <2>1
  <2>3. fits
    BY <1>2, <1>11, <2>2
  <2>4. w2 = 25 /\ b2 = b1
    BY <1>2, <2>2, <2>3 DEF w2, b2, wr
  <2>5. CellsOf(b1, off, 6) = DataHeader
    BY <1>2, <1>5, <1>7, <2>2, CellsLaid DEF b1
  <2>6. CellsOf(b1, off + 6, 19) = OctetString(OwnTag(peer.ctos))
    <3>1. Apart(off, 6, off + 6, 19) /\ off + 6 \in Nat /\ 19 \in Nat
      BY <1>2 DEF Apart
    <3>2. CellsOf(b1, off + 6, 19) = CellsOf(buf, off + 6, 19)
      BY <1>2, <1>5, <2>2, <3>1, CellsKept DEF b1
    <3>. QED  BY <1>3, <2>1, <2>2, <3>2
  <2>7. IsSplit(b1, off, 6, 19)
    <3>1. 6 \in Nat /\ 19 \in Nat
      OBVIOUS
    <3>. QED  BY <1>2, <3>1, CellsSplit, Zenon
  <2>8. CellsOf(b1, off, 6 + 19) = WholeCells(OwnTag(peer.ctos))
    BY <2>5, <2>6, <2>7, WholeIs DEF IsSplit
  <2>9. 6 + 19 = 25
    OBVIOUS
  <2>. QED  BY <2>4, <2>8, <2>9
<1>19. Requested' /\ Passed' /\ Answered'
  BY <1>1, <1>2, <1>14, <1>15 DEF HlsInv, Requested, Passed, Answered, Arr, off, size
<1>. QED  BY <1>4, <1>16, <1>17, <1>18, <1>19 DEF HlsInv

-----------------------------------------------------------------------------
(* Theorems                                                                 *)

LEMMA HlsNext == HlsInv /\ [Next]_vars => HlsInv'
<1>. SUFFICES ASSUME HlsInv, [Next]_vars
              PROVE  HlsInv'
  OBVIOUS
<1>1. CASE Next
  BY <1>1, Pass3Inv, Pass4Inv, RespondInv DEF Next
<1>2. CASE UNCHANGED vars
  BY <1>2 DEF vars, HlsInv, Arrays, Peer, Requested, Passed, Answered, Pass3Verifies,
              ResponseIsWhole
<1>. QED  BY <1>1, <1>2

LEMMA HlsHolds == Spec => []HlsInv
<1>. QED  BY HlsInit, HlsNext, PTL DEF Spec

\* Every byte that the passes of HLS read or write is in the buffer, for any buffer, header
\* and challenge: the packets that csm_channel_hls_pass3 and csm_channel_hls_pass4 lay
\* before the data of the request begin after the beginning of the buffer.
THEOREM BufferOnly == Spec => []TouchedInBuffer
<1>1. HlsInv => TouchedInBuffer
  BY DEF HlsInv, Arrays, AreOver, TouchedInBuffer
<1>. QED  BY <1>1, HlsHolds, PTL

\* With authentication only, csm_channel_hls_pass3 accepts the tag of the client over the
\* challenge that the server sent, of any size, and nothing else, when the request begins
\* after the room that the glue reserves.
THEOREM ChallengeVerified == Spec => []Pass3Verifies
<1>1. HlsInv => Pass3Verifies
  BY DEF HlsInv
<1>. QED  BY <1>1, HlsHolds, PTL

\* When csm_channel_hls_pass4 succeeds, the response is whole: the header of the response,
\* that of the octet string, and the tag over the challenge of the client, which was
\* computed for a packet laid elsewhere, are next to each other.
THEOREM WholeResponse == Spec => []ResponseIsWhole
<1>1. HlsInv => ResponseIsWhole
  BY DEF HlsInv
<1>. QED  BY <1>1, HlsHolds, PTL
==============================================================================
