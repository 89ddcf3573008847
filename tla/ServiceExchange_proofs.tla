------------------------- MODULE ServiceExchange_proofs -------------------------
(***************************************************************************)
(* What the two ends of csm_services.c agree on: the database is called    *)
(* for what was asked, the client reports what the database did, and an    *)
(* object that comes in blocks is whole when no stray answer came, for any *)
(* objects, invocations, data, number of blocks and other answers.         *)
(***************************************************************************)
EXTENDS ServiceExchange, SequenceTheorems, TLAPS

-----------------------------------------------------------------------------
(* The inductive invariant                                                  *)

Bytes == Seq(Nat)

Requests ==
    [svc : Services, type : {"NORMAL", "NEXT"}, invoke : Nat, obj : Nat, sel : {0, 1},
     enable : {0, 1}, data : Bytes, block : Nat]

\* What the server keeps of a request is read from any byte.
ServerRequests ==
    [svc : Services, type : {"NORMAL"}, invoke : Nat, obj : Nat, sel : Nat, enable : Nat,
     data : {<< >>}, block : {0}]

Responses ==
    [service : Services \cup {"EXCEPTION", "UNKNOWN"}, type : {"NORMAL", "DATABLOCK"},
     invoke : Nat, access : Nat, action : Nat, last : Nat, block : Nat, has_data : BOOLEAN]

Calls == [called : BOOLEAN, data : Bytes, code : Codes, out : Datas \cup {<< >>}]

Types ==
    /\ phase \in {"idle", "asked", "answered", "more"} /\ peer \in {"own", "other"}
    /\ req \in Requests /\ sreq \in ServerRequests /\ rsp \in Responses
    /\ apdu \in Bytes /\ ret \in BOOLEAN /\ rest \in Bytes /\ got \in Bytes
    /\ db \in Calls /\ pos \in 0..NBlocks /\ strays \in Nat

Numbers(n) == [i \in 1..n |-> i]

\* A block of the object of the other server, the number of which is its data.
Block(invoke, n) == << GET_RESPONSE, 2, invoke, IF n = NBlocks THEN 1 ELSE 0, n, n >>

\* With the server of this stack: its request is that of the client, and its answer is
\* the one to it.
AnsweredOwn == db.called /\ apdu = Reply(sreq, db.code, db.out)

OwnExchange ==
    peer = "own" =>
        /\ phase # "more"
        /\ phase = "asked" => req \in Asked /\ apdu = EncodeNormal(req) /\ ~db.called
        /\ phase = "answered" => AnsweredOwn
        /\ phase # "idle" => rsp.type = "NORMAL"

\* With another one that sent no stray: nothing came yet, or all the blocks up to the last
\* one that came, which the client asks the next of.
NothingYet == rsp.type = "NORMAL" /\ got = << >> /\ phase # "more"
              /\ (phase = "asked" => pos = 0)
InTransfer == /\ rsp.type = "DATABLOCK" /\ rsp.last = 0 /\ rsp.block \in 1..NBlocks
              /\ got = Numbers(rsp.block)
              /\ phase = "more" \/ (req.type = "NEXT" /\ req.block = rsp.block)

Arriving == \/ apdu \in Answers /\ ~Stray(apdu)
            \/ pos > 0 /\ apdu = Block(req.invoke, pos) /\ got = Numbers(pos - 1)

OtherExchange ==
    peer = "other" =>
        /\ ~db.called
        /\ strays = 0 =>
            /\ phase # "idle" => NothingYet \/ InTransfer
            /\ phase = "asked" /\ NothingYet => req.type = "NORMAL"
            /\ phase = "answered" => Arriving

ExchangeInv ==
    Types /\ OwnExchange /\ OtherExchange /\ ServedAsAsked /\ AgreeOnResult /\ ObjectIsWhole

-----------------------------------------------------------------------------
(* Sequences                                                                *)

\* What was appended is what is left behind the rest.
LEMMA Joined ==
  ASSUME NEW x \in Bytes, NEW y \in Bytes
  PROVE  /\ x \o y \in Bytes /\ Len(x \o y) = Len(x) + Len(y)
         /\ \A i \in 1..Len(x) : (x \o y)[i] = x[i]
         /\ \A i \in 1..Len(y) : (x \o y)[Len(x) + i] = y[i]
         /\ Drop(x \o y, Len(x)) = y
<1>1. /\ x \o y \in Bytes /\ Len(x \o y) = Len(x) + Len(y)
      /\ \A i \in 1..Len(x) : (x \o y)[i] = x[i]
      /\ \A i \in 1..Len(y) : (x \o y)[Len(x) + i] = y[i]
  BY DEF Bytes
<1>2. Drop(x \o y, Len(x)) \in Bytes /\ Len(Drop(x \o y, Len(x))) = Len(y)
  BY <1>1 DEF Drop, Bytes
<1>3. ASSUME NEW i \in 1..Len(y)
      PROVE  Drop(x \o y, Len(x))[i] = y[i]
  BY <1>1 DEF Drop, Bytes
<1>. QED  BY <1>1, <1>2, <1>3, SeqEqual DEF Bytes

LEMMA Dropped ==
  ASSUME NEW m \in Bytes, NEW n \in Nat
  PROVE  Drop(m, n) \in Bytes
BY DEF Drop, Bytes

\* What is left of m behind n bytes.
IsRest(s, m, n) ==
    s \in Bytes /\ Len(s) = Len(m) - n /\ \A i \in 1..Len(m) - n : s[i] = m[n + i]

LEMMA Shorter ==
  ASSUME NEW m \in Bytes, NEW n \in Nat, Len(m) >= n
  PROVE  IsRest(Drop(m, n), m, n)
BY DEF Drop, Bytes, IsRest

LEMMA DroppedTwice ==
  ASSUME NEW m \in Bytes, NEW i \in Nat, NEW j \in Nat, i + j <= Len(m)
  PROVE  Drop(Drop(m, i), j) = Drop(m, i + j)
<1>. DEFINE n == Drop(m, i)
            s == Drop(n, j)
            t == Drop(m, i + j)
<1>1. Len(m) \in Nat /\ Len(m) >= i /\ i + j \in Nat /\ Len(m) >= i + j
  BY DEF Bytes
<1>2. IsRest(n, m, i) /\ IsRest(t, m, i + j)
  BY <1>1, Shorter, Zenon
<1>. HIDE DEF n, t
<1>3. /\ n \in Bytes /\ Len(n) = Len(m) - i
      /\ \A k \in 1..Len(m) - i : n[k] = m[i + k]
  BY <1>2 DEF IsRest
<1>4. Len(n) >= j
  BY <1>1, <1>3
<1>5. IsRest(s, n, j)
  BY <1>3, <1>4, Shorter, Zenon
<1>. HIDE DEF s
<1>6. /\ s \in Seq(Nat) /\ Len(s) = Len(n) - j /\ \A k \in 1..Len(n) - j : s[k] = n[j + k]
      /\ t \in Seq(Nat) /\ Len(t) = Len(m) - (i + j)
      /\ \A k \in 1..Len(m) - (i + j) : t[k] = m[(i + j) + k]
  BY <1>2, <1>5 DEF IsRest, Bytes
<1>7. Len(s) = Len(t) /\ Len(s) = Len(m) - (i + j)
  BY <1>1, <1>3, <1>6
<1>8. ASSUME NEW k \in 1..Len(s)
      PROVE  s[k] = t[k]
  <2>1. k \in 1..Len(n) - j /\ j + k \in 1..Len(m) - i /\ k \in 1..Len(m) - (i + j)
        /\ i + (j + k) = (i + j) + k
    BY <1>1, <1>3, <1>7
  <2>2. s[k] = n[j + k] /\ n[j + k] = m[i + (j + k)] /\ t[k] = m[(i + j) + k]
    BY <1>3, <1>6, <2>1
  <2>. QED  BY <2>1, <2>2
<1>9. s = t
  BY <1>6, <1>7, <1>8, SeqEqual
<1>. QED  BY <1>9 DEF s, n, t

\* The header of a response is three bytes.
LEMMA Header ==
  ASSUME NEW m \in Bytes, Len(m) >= 3
  PROVE  /\ IsRest(Drop(m, 1), m, 1) /\ IsRest(Drop(m, 3), m, 3)
         /\ Drop(Drop(m, 1), 2) = Drop(m, 3)
<1>1. /\ Len(m) \in Nat /\ Len(m) >= 1 /\ 1 \in Nat /\ 2 \in Nat /\ 3 \in Nat
      /\ 1 + 2 <= Len(m) /\ 1 + 2 = 3
  BY DEF Bytes
<1>2. Drop(Drop(m, 1), 2) = Drop(m, 1 + 2)
  BY <1>1, DroppedTwice, Zenon
<1>3. IsRest(Drop(m, 1), m, 1) /\ IsRest(Drop(m, 3), m, 3)
  BY <1>1, Shorter, Zenon
<1>. QED  BY <1>1, <1>2, <1>3

LEMMA Nothing ==
  ASSUME NEW x \in Bytes
  PROVE  x \o << >> = x /\ << >> \o x = x
BY DEF Bytes

\* An APDU p of four fields and x.
Begins(p, a, b, c, d, x) ==
    /\ p \in Bytes /\ Len(p) = 4 + Len(x) /\ Drop(p, 4) = x
    /\ p[1] = a /\ p[2] = b /\ p[3] = c /\ p[4] = d
    /\ \A i \in 1..Len(x) : p[4 + i] = x[i]

LEMMA FourFields ==
  ASSUME NEW a \in Nat, NEW b \in Nat, NEW c \in Nat, NEW d \in Nat, NEW x \in Bytes
  PROVE  Begins(<< a, b, c, d >> \o x, a, b, c, d, x)
<1>. DEFINE h == << a, b, c, d >>
<1>1. h \in Bytes /\ Len(h) = 4 /\ h[1] = a /\ h[2] = b /\ h[3] = c /\ h[4] = d
  BY DEF Bytes
<1>. HIDE DEF h
<1>2. /\ h \o x \in Bytes /\ Len(h \o x) = Len(h) + Len(x)
      /\ \A i \in 1..Len(h) : (h \o x)[i] = h[i]
      /\ \A i \in 1..Len(x) : (h \o x)[Len(h) + i] = x[i]
      /\ Drop(h \o x, Len(h)) = x
  BY <1>1, Joined, Zenon
<1>3. Len(x) \in Nat
  BY DEF Bytes
<1>. QED  BY <1>1, <1>2, <1>3 DEF h, Begins

-----------------------------------------------------------------------------
(* A request on its way to the database                                     *)

LEMMA AskedType ==
  ASSUME NEW q \in Asked
  PROVE  /\ q \in Requests /\ q.type = "NORMAL" /\ q.invoke \in Nat /\ q.obj \in Nat
         /\ q.sel \in {0, 1} /\ q.enable \in {0, 1} /\ q.data \in Bytes
<1>1. CASE q \in {Q("GET", "NORMAL", i, o, sel, 0, << >>, 0) :
                   i \in Invokes, o \in Objs, sel \in {0, 1}}
  <2>1. PICK i \in Invokes, o \in Objs, sel \in {0, 1} :
            q = Q("GET", "NORMAL", i, o, sel, 0, << >>, 0)
    BY <1>1
  <2>2. i \in Nat /\ o \in Nat /\ << >> \in Bytes
    BY ServiceAssumption DEF Bytes
  <2>. QED  BY <2>1, <2>2 DEF Q, Requests, Services
<1>2. CASE q \in {Q(svc, "NORMAL", i, o, sel, en, d, 0) :
                   svc \in {"SET", "ACTION"}, i \in Invokes, o \in Objs, sel \in {0, 1},
                   en \in {0, 1}, d \in Datas \cup {<< >>}}
  <2>1. PICK svc \in {"SET", "ACTION"}, i \in Invokes, o \in Objs, sel \in {0, 1},
             en \in {0, 1}, d \in Datas \cup {<< >>} :
            q = Q(svc, "NORMAL", i, o, sel, en, d, 0)
    BY <1>2
  <2>2. i \in Nat /\ o \in Nat
    BY ServiceAssumption
  <2>3. d \in Bytes
    BY ServiceAssumption, EmptySeq, Zenon DEF Bytes
  <2>. QED  BY <2>1, <2>2, <2>3 DEF Q, Requests, Services
<1>. QED  BY <1>1, <1>2 DEF Asked

\* What follows the name of the object, and the data behind it.
Flags(q) == IF q.svc = "ACTION" THEN << q.enable >>
            ELSE << q.sel >> \o When(q.sel = 1, << SELECTOR >>)
Carried(q) ==
    IF q.svc = "GET" THEN << >>
    ELSE IF q.enable = 1 /\ q.data # << >> THEN q.data
    ELSE IF q.svc = "SET" THEN << TAG_NULL >> ELSE << >>

Front(q) == << RequestTag(q.svc), RequestType(q), q.invoke, q.obj >> \o Flags(q)

LEMMA FrontFacts ==
  ASSUME NEW q \in Requests
  PROVE  /\ Flags(q) \in Bytes /\ Front(q) \in Bytes
         /\ Len(Front(q)) = IF q.svc # "ACTION" /\ q.sel = 1 THEN 6 ELSE 5
         /\ Front(q)[1] = RequestTag(q.svc) /\ Front(q)[3] = q.invoke /\ Front(q)[4] = q.obj
         /\ Front(q)[5] = IF q.svc = "ACTION" THEN q.enable ELSE q.sel
<1>1. /\ Flags(q) \in Bytes
      /\ Len(Flags(q)) = IF q.svc # "ACTION" /\ q.sel = 1 THEN 2 ELSE 1
      /\ Flags(q)[1] = IF q.svc = "ACTION" THEN q.enable ELSE q.sel
  BY DEF Flags, When, SELECTOR, Requests, Bytes
<1>2. RequestTag(q.svc) \in Nat /\ RequestType(q) \in Nat /\ q.invoke \in Nat /\ q.obj \in Nat
  BY DEF RequestTag, RequestType, GET_REQUEST, SET_REQUEST, ACTION_REQUEST, Requests
<1>. DEFINE t == RequestTag(q.svc)
            u == RequestType(q)
            x == Flags(q)
<1>3. Front(q) = << t, u, q.invoke, q.obj >> \o x
  BY DEF Front
<1>. HIDE DEF t, u, x
<1>4. Begins(<< t, u, q.invoke, q.obj >> \o x, t, u, q.invoke, q.obj, x)
  <2>1. t \in Nat /\ u \in Nat /\ q.invoke \in Nat /\ q.obj \in Nat /\ x \in Bytes
    BY <1>1, <1>2 DEF t, u, x
  <2>. QED  BY <2>1, FourFields, Zenon
<1>5. /\ Front(q) \in Bytes /\ Len(Front(q)) = 4 + Len(x)
      /\ Front(q)[1] = t /\ Front(q)[3] = q.invoke /\ Front(q)[4] = q.obj
      /\ \A i \in 1..Len(x) : Front(q)[4 + i] = x[i]
  BY <1>3, <1>4 DEF Begins
<1>6. /\ x \in Bytes /\ 1 \in 1..Len(x) /\ 4 + 1 = 5
      /\ Len(x) = IF q.svc # "ACTION" /\ q.sel = 1 THEN 2 ELSE 1
      /\ x[1] = IF q.svc = "ACTION" THEN q.enable ELSE q.sel
  BY <1>1 DEF x
<1>7. Front(q)[5] = x[1]
  BY <1>5, <1>6
<1>. QED  BY <1>5, <1>6, <1>7 DEF t, x

LEMMA EncodedForm ==
  ASSUME NEW q \in Requests
  PROVE  EncodeNormal(q) = Front(q) \o Carried(q) /\ Carried(q) \in Bytes
<1>. DEFINE h == << RequestTag(q.svc), RequestType(q), q.invoke, q.obj >>
<1>1. h \in Bytes /\ Front(q) \in Bytes
  <2>1. RequestTag(q.svc) \in Nat /\ RequestType(q) \in Nat /\ q.invoke \in Nat /\ q.obj \in Nat
    BY DEF RequestTag, RequestType, GET_REQUEST, SET_REQUEST, ACTION_REQUEST, Requests
  <2>. QED  BY <2>1, FrontFacts DEF Bytes
<1>2. Carried(q) \in Bytes
  BY DEF Carried, Requests, Bytes, TAG_NULL
<1>3. h \o When(q.svc # "ACTION", << q.sel >> \o When(q.sel = 1, << SELECTOR >>))
        \o When(q.svc = "ACTION", << q.enable >>) = Front(q)
  <2>1. CASE q.svc = "ACTION"
    BY <2>1, <1>1, Nothing DEF Front, Flags, When
  <2>2. CASE q.svc # "ACTION"
    BY <2>2, <1>1, Nothing DEF Front, Flags, When
  <2>. QED  BY <2>1, <2>2
<1>4. EncodeNormal(q) = Front(q) \o When(q.svc # "GET" /\ q.enable = 1, q.data)
                           \o When(q.svc = "SET" /\ (q.enable = 0 \/ q.data = << >>), << TAG_NULL >>)
  BY <1>3 DEF EncodeNormal
<1>. HIDE DEF h
<1>5. q.enable \in {0, 1} /\ q.svc \in Services /\ q.data \in Bytes
  BY DEF Requests
<1>6. CASE q.svc = "GET" \/ q.enable = 0 \/ q.data = << >>
  <2>1. Front(q) \o << >> = Front(q)
    BY <1>1, Nothing
  <2>2. When(q.svc # "GET" /\ q.enable = 1, q.data) = << >>
    BY <1>5, <1>6 DEF When
  <2>3. When(q.svc = "SET" /\ (q.enable = 0 \/ q.data = << >>), << TAG_NULL >>) = Carried(q)
    BY <1>5, <1>6 DEF Carried, When, Services
  <2>. QED  BY <1>2, <1>4, <2>1, <2>2, <2>3
<1>7. CASE q.svc # "GET" /\ q.enable = 1 /\ q.data # << >>
  <2>1. Front(q) \o q.data \in Bytes
    BY <1>1, <1>5, Joined
  <2>. QED  BY <1>4, <1>5, <1>7, <2>1, Nothing DEF Carried, When
<1>. QED  BY <1>2, <1>6, <1>7, <1>5

\* The server makes of the request of a client what was asked; of a SET it takes the first
\* byte of the data for a flag.
LEMMA DecodedAsAsked ==
  ASSUME NEW q \in Requests, NEW s \in ServerRequests
  PROVE  LET d == DecodeRequest(s, EncodeNormal(q))
         IN  /\ d.req \in ServerRequests /\ d.data \in Bytes
             /\ d.req.svc = q.svc /\ d.req.invoke = q.invoke /\ d.req.obj = q.obj
             /\ q.svc # "ACTION" => d.req.sel = q.sel
             /\ q.svc = "GET" => d.data = << >>
             /\ q.svc = "ACTION" => d.req.enable = q.enable /\ d.data = When(q.enable = 1, q.data)
<1>. DEFINE m == EncodeNormal(q)
            svc == CHOOSE v \in Services : RequestTag(v) = m[1]
            flagAt == IF svc = "ACTION" THEN 5 ELSE SkipSelector(m, 5)
            next == IF svc = "GET" THEN flagAt ELSE flagAt + 1
            left == SubSeq(m, next, Len(m))
<1>1. /\ m = Front(q) \o Carried(q) /\ Front(q) \in Bytes /\ Carried(q) \in Bytes
      /\ m \in Bytes /\ Len(m) = Len(Front(q)) + Len(Carried(q))
      /\ \A i \in 1..Len(Front(q)) : m[i] = Front(q)[i]
      /\ Drop(m, Len(Front(q))) = Carried(q)
  <2>1. m = Front(q) \o Carried(q) /\ Carried(q) \in Bytes
    BY EncodedForm
  <2>2. Front(q) \in Bytes
    BY FrontFacts
  <2>. HIDE DEF m
  <2>. QED  BY <2>1, <2>2, Joined
<1>2. /\ Len(Front(q)) = IF q.svc # "ACTION" /\ q.sel = 1 THEN 6 ELSE 5
      /\ m[1] = RequestTag(q.svc) /\ m[3] = q.invoke /\ m[4] = q.obj
      /\ m[5] = IF q.svc = "ACTION" THEN q.enable ELSE q.sel
  BY <1>1, FrontFacts
<1>. HIDE DEF m
<1>3. q.svc \in Services /\ q.invoke \in Nat /\ q.obj \in Nat /\ q.sel \in {0, 1}
      /\ q.enable \in {0, 1} /\ q.data \in Bytes
  BY DEF Requests
<1>4. svc = q.svc
  BY <1>2, <1>3 DEF Services, RequestTag, GET_REQUEST, SET_REQUEST, ACTION_REQUEST
<1>. HIDE DEF svc
<1>5. /\ q.svc = "ACTION" => flagAt = 5 /\ next = 6
      /\ q.svc = "GET" => flagAt = Len(Front(q)) + 1 /\ next = Len(Front(q)) + 1
      /\ q.svc = "SET" => flagAt = Len(Front(q)) + 1 /\ next = Len(Front(q)) + 2
  BY <1>2, <1>3, <1>4 DEF SkipSelector
<1>6. q.svc # "GET" => flagAt \in 1..Len(m)
  <2>1. q.svc = "SET" => Len(Carried(q)) > 0
    BY <1>1, <1>3 DEF Carried, TAG_NULL, Bytes
  <2>. DEFINE l == Len(Front(q))
              n == Len(Carried(q))
  <2>2. l \in Nat /\ l >= 5 /\ n \in Nat /\ Len(m) = l + n
    BY <1>1, <1>2 DEF Bytes
  <2>3. /\ q.svc = "ACTION" => flagAt = 5
        /\ q.svc = "SET" => flagAt = l + 1
    BY <1>5
  <2>4. q.svc = "SET" => n > 0
    BY <2>1
  <2>. HIDE DEF flagAt, next, l, n
  <2>5. q.svc = "ACTION" => flagAt \in 1..Len(m)
    BY <2>2, <2>3
  <2>6. q.svc = "SET" => flagAt \in 1..Len(m)
    BY <2>2, <2>3, <2>4
  <2>. QED  BY <1>3, <2>5, <2>6 DEF Services
<1>7. q.svc # "GET" => m[flagAt] \in Nat
  BY <1>1, <1>6 DEF Bytes
<1>. HIDE DEF flagAt
<1>8. left \in Bytes
  <2>1. next \in Nat /\ next - 1 \in Nat
    BY <1>5, <1>2, <1>3 DEF Services
  <2>2. Drop(m, next - 1) \in Bytes
    BY <1>1, <2>1, Dropped
  <2>. QED  BY <2>1, <2>2 DEF Drop
<1>9. q.svc = "GET" \/ q.svc = "ACTION" => left = Carried(q)
  BY <1>1, <1>2, <1>5 DEF Drop
<1>. HIDE DEF next, left
<1>. DEFINE e == [s EXCEPT !.svc = svc, !.invoke = m[3], !.obj = m[4],
                           !.sel = IF svc = "ACTION" THEN @ ELSE m[5],
                           !.enable = IF svc = "GET" THEN @ ELSE m[flagAt]]
<1>10. DecodeRequest(s, m) = [req |-> e, data |-> left]
  BY DEF DecodeRequest, svc, flagAt, next, left
<1>11. q.svc = "ACTION" => m[flagAt] = q.enable
  BY <1>2, <1>5
<1>12. /\ Carried(q) = When(q.enable = 1, q.data) \/ q.svc # "ACTION"
       /\ q.svc = "GET" => Carried(q) = << >>
  BY <1>3 DEF Carried, When
<1>. DEFINE sel == IF svc = "ACTION" THEN s.sel ELSE m[5]
            enable == IF svc = "GET" THEN s.enable ELSE m[flagAt]
            r == [s EXCEPT !.svc = svc, !.invoke = m[3], !.obj = m[4], !.sel = sel,
                           !.enable = enable]
<1>13. sel \in Nat /\ enable \in Nat
  BY <1>2, <1>3, <1>4, <1>7 DEF ServerRequests
<1>14. /\ q.svc # "ACTION" => sel = q.sel
       /\ q.svc = "ACTION" => enable = q.enable
  BY <1>2, <1>4, <1>11
<1>15. DecodeRequest(s, m).req = r /\ DecodeRequest(s, m).data = left
  <2>. HIDE DEF svc, flagAt, next
  <2>1. e = r
    BY DEF ServerRequests
  <2>. HIDE DEF e, r
  <2>. QED  BY <1>10, <2>1
<1>. HIDE DEF sel, enable
<1>16. /\ r \in ServerRequests /\ r.svc = svc /\ r.invoke = m[3] /\ r.obj = m[4]
       /\ r.sel = sel /\ r.enable = enable
  BY <1>2, <1>3, <1>4, <1>13 DEF ServerRequests
<1>. HIDE DEF r
<1>17. /\ q.svc = "GET" => left = << >>
       /\ q.svc = "ACTION" => left = When(q.enable = 1, q.data)
  BY <1>9, <1>12
<1>. QED  BY <1>2, <1>4, <1>8, <1>14, <1>15, <1>16, <1>17 DEF m

-----------------------------------------------------------------------------
(* What the client decodes                                                  *)

\* Whatever result arrives, the response stays one.
IsResult(d, r) ==
    /\ d.rsp \in Responses /\ d.ret \in BOOLEAN /\ d.rest \in Bytes
    /\ d.rsp.type = r.type /\ d.rsp.last = r.last /\ d.rsp.block = r.block
    /\ d.rsp.service = r.service /\ d.rsp.invoke = r.invoke

\* A response whose result is not set yet (svc_get_response_decoder and its likes).
Cleared(q, r) ==
    /\ q \in Responses /\ q.has_data = FALSE
    /\ q.type = r.type /\ q.last = r.last /\ q.block = r.block
    /\ q.service = r.service /\ q.invoke = r.invoke

LEMMA ClearedType ==
  ASSUME NEW r \in Responses
  PROVE  Cleared([r EXCEPT !.has_data = FALSE, !.access = NOT_SET], r)
<1>. DEFINE q == [r EXCEPT !.has_data = FALSE, !.access = NOT_SET]
<1>1. NOT_SET \in Nat
  BY DEF NOT_SET
<1>2. q \in Responses
  BY <1>1, ZenonT(30) DEF Responses
<1>3. q.has_data = FALSE
  BY SMTT(20) DEF Responses
<1>4. q.type = r.type /\ q.last = r.last /\ q.block = r.block
  BY SMTT(20) DEF Responses
<1>5. q.service = r.service /\ q.invoke = r.invoke
  BY SMTT(20) DEF Responses
<1>. HIDE DEF q
<1>6. Cleared(q, r)
  BY <1>2, <1>3, <1>4, <1>5 DEF Cleared
<1>. QED  BY <1>6 DEF q

LEMMA ResultType ==
  ASSUME NEW r \in Responses, NEW b \in Bytes
  PROVE  IsResult(DecodeResult(r, b), r)
<1>. DEFINE q == [r EXCEPT !.has_data = FALSE, !.access = NOT_SET]
            Kept(x) == /\ x \in Responses /\ x.type = r.type /\ x.last = r.last
                       /\ x.block = r.block /\ x.service = r.service /\ x.invoke = r.invoke
            Good(d) == Kept(d.rsp) /\ d.ret \in BOOLEAN /\ d.rest \in Bytes
<1>1. Kept(q)
  <2>1. Cleared(q, r)
    BY ClearedType
  <2>. HIDE DEF q
  <2>. QED  BY <2>1 DEF Cleared
<1>2. ASSUME NEW x, Kept(x), NEW v \in BOOLEAN, NEW t \in Bytes
      PROVE  Good(Out(x, v, t))
  BY <1>2 DEF Out
<1>3. ASSUME NEW x, Kept(x), NEW n \in Nat
      PROVE  Kept([x EXCEPT !.action = n]) /\ Kept([x EXCEPT !.access = n])
             /\ Kept([x EXCEPT !.has_data = TRUE, !.access = n])
  BY <1>3 DEF Responses
<1>4. << >> \in Bytes /\ Drop(b, 1) \in Bytes /\ Drop(b, 2) \in Bytes /\ Drop(b, 3) \in Bytes
  <2>1. << >> \in Bytes /\ 1 \in Nat /\ 2 \in Nat /\ 3 \in Nat
    BY DEF Bytes
  <2>. QED  BY <2>1, Dropped, Zenon
<1>5. ActionResults \subseteq Nat /\ AccessResults \subseteq Nat
  BY DEF ActionResults, AccessResults, OTHER_REASON
<1>. HIDE DEF Good, Kept, q
<1>6. Good(AccessResult(q, b))
  BY <1>1, <1>2, <1>3, <1>4, <1>5 DEF AccessResult
<1>7. Good(ActionResult(q, b))
  <2>. DEFINE a == [q EXCEPT !.action = b[1]]
              c == [a EXCEPT !.access = 1]
              h == [a EXCEPT !.has_data = TRUE, !.access = SUCCESS]
  <2>1. CASE b = << >> \/ b[1] \notin ActionResults
    BY <1>1, <1>2, <1>4, <2>1 DEF ActionResult
  <2>2. CASE ~(b = << >> \/ b[1] \notin ActionResults)
    <3>1. Kept(a)
      BY <1>1, <1>3, <1>5, <2>2
    <3>2. Kept(c) /\ Kept(h)
      BY <1>3, <3>1 DEF SUCCESS
    <3>. HIDE DEF a, c, h
    <3>3. ActionResult(q, b) \in
            {Out(a, FALSE, << >>), Out(a, TRUE, Drop(b, 2)), Out(a, FALSE, Drop(b, 2)),
             Out(c, FALSE, << >>), Out(c, TRUE, Drop(b, 3)), Out(h, TRUE, Drop(b, 3)),
             Out(a, FALSE, Drop(b, 3))}
      BY <2>2 DEF ActionResult, a, c, h
    <3>. QED  BY <1>2, <1>4, <3>1, <3>2, <3>3
  <2>. QED  BY <2>1, <2>2
<1>8. Good(DecodeResult(r, b))
  BY <1>6, <1>7 DEF DecodeResult, q
<1>. QED  BY <1>8 DEF Good, Kept, IsResult

\* A block cut before its number is none.
IsBlock(d, r, b) ==
    /\ d.rsp \in Responses /\ d.ret \in BOOLEAN /\ d.rest \in Bytes
    /\ d.rsp.type = r.type /\ d.rsp.service = r.service
    /\ d.ret <=> Len(b) >= 2
    /\ d.ret => d.rsp.last = b[1] /\ d.rsp.block = b[2] /\ d.rest = Drop(b, 2)

LEMMA BlockType ==
  ASSUME NEW r \in Responses, NEW b \in Bytes
  PROVE  IsBlock(DecodeBlock(r, b), r, b)
<1>1. CASE b = << >>
  BY <1>1 DEF DecodeBlock, Out, Bytes, IsBlock
<1>2. CASE b # << >> /\ Len(b) = 1
  <2>1. b[1] \in Nat /\ << >> \in Bytes
    BY <1>2 DEF Bytes
  <2>. QED  BY <1>2, <2>1 DEF DecodeBlock, Out, Responses, IsBlock
<1>3. CASE b # << >> /\ Len(b) # 1
  <2>1. b[1] \in Nat /\ b[2] \in Nat /\ Len(b) >= 2
    <3>1. Len(b) \in Nat /\ Len(b) # 0
      BY <1>3, EmptySeq DEF Bytes
    <3>2. Len(b) >= 2 /\ 1 \in 1..Len(b) /\ 2 \in 1..Len(b)
      BY <1>3, <3>1
    <3>. QED  BY <3>2, ElementOfSeq DEF Bytes
  <2>2. Drop(b, 2) \in Bytes
    BY Dropped
  <2>. DEFINE x == [r EXCEPT !.last = b[1], !.block = b[2], !.access = SUCCESS]
  <2>3. /\ x \in Responses /\ x.type = r.type /\ x.service = r.service /\ x.last = b[1]
        /\ x.block = b[2]
    BY <2>1 DEF Responses, SUCCESS
  <2>4. DecodeBlock(r, b) = Out(x, TRUE, Drop(b, 2))
    BY <1>3 DEF DecodeBlock
  <2>. HIDE DEF x
  <2>. QED  BY <2>1, <2>2, <2>3, <2>4 DEF Out, IsBlock
<1>. QED  BY <1>1, <1>2, <1>3

Tags == {GET_RESPONSE, SET_RESPONSE, ACTION_RESPONSE}

LEMMA ServiceOfTag ==
  /\ DOMAIN ResponseService = Tags /\ EXCEPTION_RESPONSE \notin Tags
  /\ \A t \in Tags : ResponseService[t] \in Services
  /\ ResponseService[GET_RESPONSE] = "GET" /\ ResponseService[SET_RESPONSE] = "SET"
  /\ ResponseService[ACTION_RESPONSE] = "ACTION"
BY DEF ResponseService, Tags, GET_RESPONSE, SET_RESPONSE, ACTION_RESPONSE, EXCEPTION_RESPONSE,
       Services

\* The response that knows the header of m, and its type.
Headed(r, m, type) ==
    [r EXCEPT !.service = ResponseService[m[1]], !.invoke = m[3], !.type = type]

LEMMA HeadedFacts ==
  ASSUME NEW r \in Responses, NEW m, m[1] \in Tags, m[3] \in Nat, NEW type \in {"NORMAL", "DATABLOCK"}
  PROVE  /\ Headed(r, m, type) \in Responses /\ Headed(r, m, type).type = type
         /\ Headed(r, m, type).service = ResponseService[m[1]]
         /\ Headed(r, m, type).invoke = m[3]
BY ServiceOfTag DEF Headed, Responses

\* A response of a service of at least three bytes is decoded by its type.
IsByType(d, r, m, t) ==
    /\ m[2] = 1 => d = DecodeResult(Headed(r, m, "NORMAL"), Drop(m, 3))
    /\ m[2] = 2 => d = DecodeBlock(Headed(r, m, "DATABLOCK"), Drop(m, 3))
    /\ m[2] # 1 /\ m[2] # 2 => d = Out(Headed(r, m, t), TRUE, Drop(m, 3))

LEMMA ResponseByType ==
  ASSUME NEW r \in Responses, NEW m \in Bytes, Len(m) >= 3, m[1] \in Tags
  PROVE  IsByType(Decode(r, m), r, m, r.type)
<1>. DEFINE n == Drop(m, 1)
            p == [r EXCEPT !.service = ResponseService[m[1]]]
            q == [p EXCEPT !.invoke = n[2]]
<1>1. m # << >>
  BY DEF Bytes
<1>2. n \in Bytes /\ Len(n) >= 2 /\ n[1] = m[2] /\ n[2] = m[3] /\ Drop(n, 2) = Drop(m, 3)
  <2>1. IsRest(n, m, 1) /\ Drop(n, 2) = Drop(m, 3)
    BY Header
  <2>2. Len(m) \in Nat
    BY DEF Bytes
  <2>3. n \in Bytes /\ Len(n) = Len(m) - 1 /\ \A i \in 1..Len(m) - 1 : n[i] = m[1 + i]
    BY <2>1 DEF IsRest
  <2>. HIDE DEF n
  <2>4. n[1] = m[1 + 1] /\ n[2] = m[1 + 2]
    BY <2>2, <2>3
  <2>. QED  BY <2>1, <2>2, <2>3, <2>4
<1>3. Decode(r, m) = DecodeResponse(p, n)
  BY <1>1, ServiceOfTag DEF Decode
<1>4. /\ [q EXCEPT !.type = "NORMAL"] = Headed(r, m, "NORMAL")
      /\ [q EXCEPT !.type = "DATABLOCK"] = Headed(r, m, "DATABLOCK")
      /\ q = Headed(r, m, r.type)
  BY <1>2 DEF Headed, Responses
<1>5. DecodeResponse(p, n) =
        IF Len(n) < 2          THEN Out(p, FALSE, << >>)
        ELSE IF IsNormal(n[1]) THEN DecodeResult([q EXCEPT !.type = "NORMAL"], Drop(n, 2))
        ELSE IF IsDataBlock(n[1])
             THEN DecodeBlock([q EXCEPT !.type = "DATABLOCK"], Drop(n, 2))
             ELSE Out(q, TRUE, Drop(n, 2))
  BY DEF DecodeResponse
<1>6. ~(Len(n) < 2)
  <2>1. Len(n) \in Nat
    BY <1>2 DEF Bytes
  <2>. HIDE DEF n
  <2>. QED  BY <1>2, <2>1
<1>. HIDE DEF n, p, q
<1>7. CASE m[2] = 1
  <2>1. IsNormal(n[1])
    BY <1>2, <1>7 DEF IsNormal
  <2>2. Decode(r, m) = DecodeResult([q EXCEPT !.type = "NORMAL"], Drop(n, 2))
    BY <1>3, <1>5, <1>6, <2>1, Zenon
  <2>. QED  BY <1>2, <1>4, <1>7, <2>2 DEF IsByType
<1>8. CASE m[2] = 2
  <2>1. ~IsNormal(n[1]) /\ IsDataBlock(n[1])
    BY <1>2, <1>8 DEF IsNormal, IsDataBlock
  <2>2. Decode(r, m) = DecodeBlock([q EXCEPT !.type = "DATABLOCK"], Drop(n, 2))
    BY <1>3, <1>5, <1>6, <2>1, Zenon
  <2>. QED  BY <1>2, <1>4, <1>8, <2>2 DEF IsByType
<1>9. CASE m[2] # 1 /\ m[2] # 2
  <2>1. ~IsNormal(n[1]) /\ ~IsDataBlock(n[1])
    BY <1>2, <1>9 DEF IsNormal, IsDataBlock
  <2>2. Decode(r, m) = Out(q, TRUE, Drop(n, 2))
    BY <1>3, <1>5, <1>6, <2>1, Zenon
  <2>. QED  BY <1>2, <1>4, <1>9, <2>2 DEF IsByType
<1>. QED  BY <1>7, <1>8, <1>9

Same(r, s) == s.type = r.type /\ s.last = r.last /\ s.block = r.block

\* An answer that is no block: it is not understood, or it is a result, or it is an
\* exception, which leaves what the client knows of the last block.
Harmless(r, d) ==
    /\ d.rsp \in Responses /\ d.ret \in BOOLEAN /\ d.rest \in Bytes
    /\ \/ ~d.ret
       \/ d.rsp.type = "NORMAL"
       \/ d.rsp.service = "EXCEPTION" /\ Same(r, d.rsp)

LEMMA NoBlockDecoded ==
  ASSUME NEW r \in Responses, NEW m \in Bytes, ~Stray(m)
  PROVE  Harmless(r, Decode(r, m))
<1>. DEFINE d == Decode(r, m)
<1>1. << >> \in Bytes /\ Drop(m, 1) \in Bytes /\ Len(m) \in Nat
  BY Dropped DEF Bytes
<1>2. CASE m = << >>
  <2>1. d = Out([r EXCEPT !.service = "UNKNOWN"], FALSE, << >>)
    BY <1>2 DEF Decode
  <2>. HIDE DEF d
  <2>. QED  BY <1>1, <2>1 DEF Harmless, Out, Responses, d
<1>3. CASE m # << >> /\ m[1] = EXCEPTION_RESPONSE
  <2>. DEFINE v == Len(Drop(m, 1)) >= 2
              t == Drop(Drop(m, 1), 2)
              x == [r EXCEPT !.service = "EXCEPTION"]
  <2>1. t \in Bytes /\ v \in BOOLEAN
    BY <1>1, Dropped
  <2>2. d = Out(x, v, t)
    BY <1>3, ServiceOfTag DEF Decode, DecodeException
  <2>3. x \in Responses /\ x.service = "EXCEPTION" /\ Same(r, x)
    BY DEF Responses, Same
  <2>. HIDE DEF v, t, d, x
  <2>4. d.rsp = x /\ d.ret = v /\ d.rest = t
    BY <2>2 DEF Out
  <2>5. Harmless(r, d)
    BY <2>1, <2>3, <2>4 DEF Harmless
  <2>. QED  BY <2>5 DEF d
<1>4. CASE m # << >> /\ m[1] \in Tags /\ Len(m) < 3
  <2>. DEFINE n == Drop(m, 1)
              x == [r EXCEPT !.service = ResponseService[m[1]]]
  <2>1. Len(n) < 2
    <3>1. Len(m) >= 1 /\ 1 \in Nat
      BY <1>1, <1>4 DEF Bytes
    <3>2. IsRest(n, m, 1)
      BY <3>1, Shorter, Zenon
    <3>3. Len(n) = Len(m) - 1
      BY <3>2 DEF IsRest
    <3>. HIDE DEF n
    <3>. QED  BY <1>1, <1>4, <3>1, <3>3
  <2>2. d = DecodeResponse(x, n)
    BY <1>4, ServiceOfTag DEF Decode
  <2>3. x \in Responses
    BY <1>4, ServiceOfTag DEF Responses
  <2>. HIDE DEF d, x, n
  <2>4. d = Out(x, FALSE, << >>)
    BY <2>1, <2>2 DEF DecodeResponse
  <2>. QED  BY <1>1, <2>3, <2>4 DEF Harmless, Out, d
<1>5. CASE m # << >> /\ m[1] \in Tags /\ Len(m) >= 3
  <2>. DEFINE b == Drop(m, 3)
              p == Headed(r, m, "NORMAL")
              q == Headed(r, m, "DATABLOCK")
  <2>0. IsByType(d, r, m, r.type)
    BY <1>5, ResponseByType
  <2>1. /\ m[2] = 1 => d = DecodeResult(p, b)
        /\ m[2] = 2 => d = DecodeBlock(q, b)
    <3>. HIDE DEF d
    <3>. QED  BY <2>0 DEF IsByType
  <2>2. p \in Responses /\ p.type = "NORMAL" /\ q \in Responses
    <3>1. m[3] \in Nat
      BY <1>5 DEF Bytes
    <3>. QED  BY <1>5, <3>1, HeadedFacts
  <2>3. b \in Bytes /\ Len(b) = Len(m) - 3
    BY <1>5, Header DEF IsRest
  <2>4. m[2] = 1 \/ (m[2] = 2 /\ Len(m) < 5)
    BY <1>1, <1>5, ServiceOfTag DEF Stray
  <2>. HIDE DEF p, q, b, d
  <2>5. CASE m[2] = 1
    <3>1. IsResult(d, p)
      BY <2>1, <2>2, <2>3, <2>5, ResultType
    <3>. QED  BY <2>2, <3>1 DEF IsResult, Harmless, d
  <2>6. CASE m[2] = 2 /\ Len(m) < 5
    <3>1. IsBlock(d, q, b)
      BY <2>1, <2>2, <2>3, <2>6, BlockType
    <3>2. ~(Len(b) >= 2)
      BY <1>1, <2>3, <2>6
    <3>. QED  BY <3>1, <3>2 DEF IsBlock, Harmless, d
  <2>. QED  BY <2>4, <2>5, <2>6
<1>6. CASE m # << >> /\ m[1] \notin Tags /\ m[1] # EXCEPTION_RESPONSE
  <2>1. d = Out([r EXCEPT !.service = "UNKNOWN"], FALSE, Drop(m, 1))
    BY <1>6, ServiceOfTag DEF Decode
  <2>. HIDE DEF d
  <2>. QED  BY <1>1, <2>1 DEF Harmless, Out, Responses, d
<1>7. Len(m) < 3 \/ Len(m) >= 3
  BY <1>1
<1>. QED  BY <1>2, <1>3, <1>4, <1>5, <1>6, <1>7

\* Whatever is decoded, the response stays one.
Decoded(d) == d.rsp \in Responses /\ d.ret \in BOOLEAN /\ d.rest \in Bytes

LEMMA StrayDecoded ==
  ASSUME NEW r \in Responses, NEW m \in Bytes, Stray(m)
  PROVE  Decoded(Decode(r, m))
<1>. DEFINE d == Decode(r, m)
            b == Drop(m, 3)
            q == Headed(r, m, "DATABLOCK")
            p == Headed(r, m, r.type)
<1>1. Len(m) >= 3 /\ m[1] \in Tags /\ m[2] # 1
  BY ServiceOfTag DEF Stray
<1>2. m[3] \in Nat /\ r.type \in {"NORMAL", "DATABLOCK"} /\ b \in Bytes
  <2>1. b \in Bytes
    <3>1. 3 \in Nat
      OBVIOUS
    <3>. QED  BY <3>1, Dropped, Zenon
  <2>2. m[3] \in Nat
    BY <1>1 DEF Bytes
  <2>3. r.type \in {"NORMAL", "DATABLOCK"}
    BY DEF Responses
  <2>. QED  BY <2>1, <2>2, <2>3
<1>3. p \in Responses /\ q \in Responses
  BY <1>1, <1>2, HeadedFacts
<1>4. /\ m[2] = 2 => d = DecodeBlock(q, b)
      /\ m[2] # 2 => d = Out(p, TRUE, b)
  <2>1. IsByType(d, r, m, r.type)
    BY <1>1, ResponseByType
  <2>. HIDE DEF d
  <2>. QED  BY <1>1, <2>1 DEF IsByType
<1>. HIDE DEF p, q, b, d
<1>5. IsBlock(DecodeBlock(q, b), q, b)
  BY <1>2, <1>3, BlockType
<1>6. Decoded(d)
  <2>1. CASE m[2] = 2
    BY <1>4, <1>5, <2>1 DEF IsBlock, Decoded
  <2>2. CASE m[2] # 2
    <3>1. d.rsp = p /\ d.ret = TRUE /\ d.rest = b
      BY <1>4, <2>2 DEF Out
    <3>. QED  BY <1>2, <1>3, <3>1 DEF Decoded
  <2>. QED  BY <2>1, <2>2
<1>. QED  BY <1>6 DEF d

LEMMA AnyDecoded ==
  ASSUME NEW r \in Responses, NEW m \in Bytes
  PROVE  Decoded(Decode(r, m))
<1>1. CASE Stray(m)
  BY <1>1, StrayDecoded
<1>2. CASE ~Stray(m)
  BY <1>2, NoBlockDecoded DEF Harmless, Decoded
<1>. QED  BY <1>1, <1>2

\* The client takes a block for what it is.
IsBlockOf(d, n) ==
    /\ d.rsp \in Responses /\ d.ret /\ d.rest = << n >>
    /\ d.rsp.service = "GET" /\ d.rsp.type = "DATABLOCK" /\ d.rsp.block = n
    /\ d.rsp.last = IF n = NBlocks THEN 1 ELSE 0

LEMMA BlockDecoded ==
  ASSUME NEW r \in Responses, NEW invoke \in Nat, NEW n \in 1..NBlocks
  PROVE  IsBlockOf(Decode(r, Block(invoke, n)), n)
<1>. DEFINE m == Block(invoke, n)
            q == Headed(r, m, "DATABLOCK")
            b == Drop(m, 3)
            l == IF n = NBlocks THEN 1 ELSE 0
            d == DecodeBlock(q, b)
<1>1. /\ m \in Bytes /\ Len(m) = 6 /\ m[1] = GET_RESPONSE /\ m[2] = 2 /\ m[3] = invoke
      /\ m[4] = l /\ m[5] = n /\ m[6] = n /\ n \in Nat
  BY ServiceAssumption DEF Block, Bytes, GET_RESPONSE
<1>. HIDE DEF m
<1>2. Len(m) >= 3 /\ m[1] \in Tags
  BY <1>1 DEF Tags
<1>3. Decode(r, m) = d
  <2>1. IsByType(Decode(r, m), r, m, r.type)
    BY <1>1, <1>2, ResponseByType
  <2>. QED  BY <1>1, <2>1 DEF IsByType
<1>4. q \in Responses /\ q.type = "DATABLOCK" /\ q.service = "GET"
  BY <1>1, <1>2, HeadedFacts, ServiceOfTag
<1>5. IsRest(b, m, 3)
  BY <1>1, <1>2, Header
<1>. HIDE DEF q, b, l
<1>6. b \in Bytes /\ Len(b) = 3 /\ \A i \in 1..3 : b[i] = m[3 + i]
  BY <1>1, <1>5 DEF IsRest
<1>7. b[1] = l /\ b[2] = n /\ b[3] = n
  <2>1. b[1] = m[3 + 1] /\ b[2] = m[3 + 2] /\ b[3] = m[3 + 3]
    BY <1>6
  <2>. QED  BY <1>1, <2>1
<1>8. Drop(b, 2) = << n >>
  <2>1. Len(b) >= 2 /\ 2 \in Nat
    BY <1>6
  <2>2. IsRest(Drop(b, 2), b, 2)
    BY <1>6, <2>1, Shorter, Zenon
  <2>3. /\ Drop(b, 2) \in Bytes /\ Len(Drop(b, 2)) = 1
        /\ \A i \in 1..1 : Drop(b, 2)[i] = b[2 + i]
    BY <1>6, <2>2 DEF IsRest
  <2>4. Drop(b, 2)[1] = n
    <3>1. Drop(b, 2)[1] = b[2 + 1]
      BY <2>3
    <3>. QED  BY <1>7, <3>1
  <2>5. << n >> \in Bytes /\ Len(<< n >>) = 1 /\ << n >>[1] = n
    BY <1>1 DEF Bytes
  <2>. DEFINE s == Drop(b, 2)
              t == << n >>
  <2>. HIDE DEF s, t
  <2>6. /\ s \in Seq(Nat) /\ t \in Seq(Nat) /\ Len(s) = Len(t) /\ Len(s) = 1 /\ s[1] = t[1]
    BY <2>3, <2>4, <2>5 DEF s, t, Bytes
  <2>7. \A i \in 1..Len(s) : s[i] = t[i]
    BY <2>6
  <2>8. s = t
    BY <2>6, <2>7, SeqEqual
  <2>. QED  BY <2>8 DEF s, t
<1>9. IsBlock(d, q, b)
  BY <1>4, <1>6, BlockType
<1>10. Len(b) >= 2
  BY <1>6
<1>. HIDE DEF d
<1>. QED  BY <1>3, <1>4, <1>7, <1>8, <1>9, <1>10 DEF IsBlock, IsBlockOf, m, l

\* What the client makes of an answer to q, that is the same as what the database said.
Agreed(d, q, code, out) ==
    /\ d.rsp \in Responses /\ d.ret /\ d.rest \in Bytes /\ d.rsp.type = "NORMAL"
    /\ Succeeds(d.rsp) <=> code = "OK"
    /\ d.rsp.service \in {q.svc, "EXCEPTION"}
    /\ d.rsp.service # "EXCEPTION" => d.rsp.invoke = q.invoke
    /\ d.rsp.service = "ACTION" => d.rsp.has_data = (out # << >>) /\ d.rest = out
    /\ d.rsp.service = "GET" => d.rest = out

\* A normal response m: its tag, the invocation, a result, and what follows it.
IsNormalOf(m, d, r, result, x) ==
    /\ m \in Bytes /\ d = DecodeResult(Headed(r, m, "NORMAL"), Drop(m, 3))
    /\ Drop(m, 3) \in Bytes /\ Len(Drop(m, 3)) = 1 + Len(x)
    /\ Drop(m, 3)[1] = result /\ Drop(Drop(m, 3), 1) = x
    /\ \A i \in 1..Len(x) : Drop(m, 3)[1 + i] = x[i]

\* The same, with what the client knows of it from its header.
NormalResponseOf(r, m, tag, invoke, result, x) ==
    /\ IsNormalOf(m, Decode(r, m), r, result, x)
    /\ Headed(r, m, "NORMAL") \in Responses /\ Headed(r, m, "NORMAL").type = "NORMAL"
    /\ Headed(r, m, "NORMAL").service = ResponseService[tag]
    /\ Headed(r, m, "NORMAL").invoke = invoke

LEMMA NormalResponse ==
  ASSUME NEW r \in Responses, NEW tag \in Tags, NEW invoke \in Nat, NEW result \in Nat,
         NEW x \in Bytes, NEW m, m = << tag, 1, invoke, result >> \o x
  PROVE  NormalResponseOf(r, m, tag, invoke, result, x)
<1>. DEFINE b == Drop(m, 3)
<1>1. tag \in Nat /\ Len(x) \in Nat /\ 1 \in Nat
  BY DEF Tags, GET_RESPONSE, SET_RESPONSE, ACTION_RESPONSE, Bytes
<1>2. /\ m \in Bytes /\ Len(m) = 4 + Len(x) /\ Drop(m, 4) = x
      /\ m[1] = tag /\ m[2] = 1 /\ m[3] = invoke /\ m[4] = result
      /\ \A i \in 1..Len(x) : m[4 + i] = x[i]
  <2>1. Begins(m, tag, 1, invoke, result, x)
    BY <1>1, FourFields, Zenon
  <2>. QED  BY <2>1 DEF Begins
<1>3. Len(m) >= 3 /\ m[1] \in Tags /\ m[3] \in Nat /\ Len(m) \in Nat
  BY <1>1, <1>2
<1>4. Decode(r, m) = DecodeResult(Headed(r, m, "NORMAL"), b)
  <2>1. IsByType(Decode(r, m), r, m, r.type)
    BY <1>2, <1>3, ResponseByType
  <2>. QED  BY <1>2, <1>3, <2>1 DEF IsByType
<1>5. Drop(b, 1) = x
  <2>1. 3 + 1 <= Len(m) /\ 3 \in Nat /\ 3 + 1 = 4
    BY <1>1, <1>2
  <2>2. Drop(Drop(m, 3), 1) = Drop(m, 3 + 1)
    BY <1>1, <1>2, <2>1, DroppedTwice, Zenon
  <2>. QED  BY <1>2, <2>1, <2>2
<1>6. IsRest(b, m, 3)
  BY <1>2, <1>3, Header
<1>. HIDE DEF b
<1>7. b \in Bytes /\ Len(b) = 1 + Len(x) /\ \A i \in 1..Len(m) - 3 : b[i] = m[3 + i]
  BY <1>1, <1>2, <1>6 DEF IsRest
<1>8. b[1] = result
  <2>1. b[1] = m[3 + 1]
    BY <1>1, <1>2, <1>7
  <2>. QED  BY <1>2, <2>1
<1>9. ASSUME NEW i \in 1..Len(x)
      PROVE  b[1 + i] = x[i]
  <2>1. 1 + i \in 1..Len(m) - 3 /\ 3 + (1 + i) = 4 + i
    BY <1>1, <1>2
  <2>2. b[1 + i] = m[3 + (1 + i)]
    BY <1>7, <2>1
  <2>. QED  BY <1>2, <2>1, <2>2
<1>10. /\ Headed(r, m, "NORMAL") \in Responses /\ Headed(r, m, "NORMAL").type = "NORMAL"
       /\ Headed(r, m, "NORMAL").service = ResponseService[tag]
       /\ Headed(r, m, "NORMAL").invoke = invoke
  <2>1. "NORMAL" \in {"NORMAL", "DATABLOCK"}
    OBVIOUS
  <2>2. /\ Headed(r, m, "NORMAL") \in Responses /\ Headed(r, m, "NORMAL").type = "NORMAL"
        /\ Headed(r, m, "NORMAL").service = ResponseService[m[1]]
        /\ Headed(r, m, "NORMAL").invoke = m[3]
    BY <1>3, <2>1, HeadedFacts, Zenon
  <2>. QED  BY <1>2, <2>2, Zenon
<1>11. IsNormalOf(m, Decode(r, m), r, result, x)
  BY <1>2, <1>4, <1>5, <1>7, <1>8, <1>9 DEF IsNormalOf, b
<1>. QED  BY <1>10, <1>11 DEF NormalResponseOf

\* The result of a get or set, and that of an action without and with data.
LEMMA AccessDecoded ==
  ASSUME NEW r \in Responses, r.service # "ACTION", NEW b \in Bytes, b # << >>,
         b[1] \in AccessResults, NEW d, d = DecodeResult(r, b)
  PROVE  /\ IsResult(d, r) /\ d.ret /\ d.rest = Drop(b, 1) /\ d.rsp.access = b[1]
<1>. DEFINE z == [r EXCEPT !.has_data = FALSE, !.access = NOT_SET]
            x == [z EXCEPT !.access = b[1]]
<1>1. d = AccessResult(z, b)
  BY DEF DecodeResult
<1>2. z \in Responses
  <2>1. Cleared(z, r)
    BY ClearedType
  <2>. HIDE DEF z
  <2>. QED  BY <2>1 DEF Cleared
<1>3. x.access = b[1]
  <2>. HIDE DEF z
  <2>. QED  BY <1>2 DEF Responses
<1>. HIDE DEF z, x
<1>4. d = Out(x, TRUE, Drop(b, 1))
  BY <1>1 DEF AccessResult, x
<1>5. d.rsp = x /\ d.ret = TRUE /\ d.rest = Drop(b, 1)
  BY <1>4 DEF Out
<1>6. IsResult(d, r)
  BY ResultType
<1>. QED  BY <1>3, <1>5, <1>6

LEMMA ActionDecoded ==
  ASSUME NEW r \in Responses, r.service = "ACTION", NEW b \in Bytes, b # << >>,
         b[1] \in ActionResults, NEW d, d = DecodeResult(r, b),
         \/ Len(b) = 2 /\ b[2] = 0
         \/ Len(b) >= 3 /\ b[2] = 1 /\ b[3] = 0
  PROVE  /\ IsResult(d, r) /\ d.ret /\ d.rsp.action = b[1]
         /\ b[2] = 0 => ~d.rsp.has_data /\ d.rest = Drop(b, 2)
         /\ b[2] = 1 => d.rsp.has_data /\ d.rest = Drop(b, 3)
<1>. DEFINE z == [r EXCEPT !.has_data = FALSE, !.access = NOT_SET]
            a == [z EXCEPT !.action = b[1]]
            h == [a EXCEPT !.has_data = TRUE, !.access = SUCCESS]
<1>1. d = ActionResult(z, b)
  BY DEF DecodeResult
<1>2. z \in Responses /\ z.has_data = FALSE
  <2>1. Cleared(z, r)
    BY ClearedType
  <2>. HIDE DEF z
  <2>. QED  BY <2>1 DEF Cleared
<1>3. b[1] \in Nat /\ Len(b) \in Nat
  BY DEF ActionResults, OTHER_REASON, Bytes
<1>4. a \in Responses /\ a.action = b[1] /\ a.has_data = FALSE
  <2>. HIDE DEF z
  <2>. QED  BY <1>2, <1>3 DEF Responses
<1>5. h.action = b[1] /\ h.has_data = TRUE
  <2>. HIDE DEF a
  <2>. QED  BY <1>4 DEF Responses
<1>6. IsResult(d, r)
  BY ResultType
<1>7. ~(b = << >> \/ b[1] \notin ActionResults) /\ ~(Len(b) < 2)
  BY <1>3
<1>8. CASE b[2] = 0
  <2>. HIDE DEF z
  <2>1. d = Out(a, TRUE, Drop(b, 2))
    BY <1>1, <1>7, <1>8 DEF ActionResult
  <2>. HIDE DEF a, h
  <2>2. d.rsp = a /\ d.ret = TRUE /\ d.rest = Drop(b, 2)
    BY <2>1 DEF Out
  <2>. QED  BY <1>4, <1>6, <1>8, <2>2
<1>9. CASE Len(b) >= 3 /\ b[2] = 1 /\ b[3] = 0
  <2>1. b[2] # 0 /\ ~(b[2] > 1) /\ ~(Len(b) < 3) /\ b[3] # 1
    BY <1>3, <1>9
  <2>. HIDE DEF z
  <2>2. d = Out(h, TRUE, Drop(b, 3))
    BY <1>1, <1>7, <1>9, <2>1 DEF ActionResult
  <2>. HIDE DEF a, h
  <2>3. d.rsp = h /\ d.ret = TRUE /\ d.rest = Drop(b, 3)
    BY <2>2 DEF Out
  <2>. QED  BY <1>5, <1>6, <1>9, <2>3
<1>. QED  BY <1>8, <1>9

LEMMA ResultCodes ==
  ASSUME NEW code \in Codes
  PROVE  /\ ResultOf(code) \in Nat
         /\ ResultOf(code) \in AccessResults /\ ResultOf(code) \in ActionResults
         /\ ResultOf(code) = SUCCESS <=> code = "OK"
BY DEF ResultOf, SUCCESS, OTHER_REASON, AccessResults, ActionResults

\* The three answers with which the server says what the database did.
LEMMA DataDecoded ==
  ASSUME NEW r \in Responses, NEW q \in ServerRequests, q.svc = "GET", NEW out \in Bytes,
         NEW m, m = << GET_RESPONSE, 1, q.invoke, 0 >> \o out
  PROVE  m \in Bytes /\ Agreed(Decode(r, m), q, "OK", out)
<1>. DEFINE p == Headed(r, m, "NORMAL")
            b == Drop(m, 3)
            d == Decode(r, m)
<1>1. q.invoke \in Nat /\ GET_RESPONSE \in Tags /\ 0 \in Nat
  BY DEF ServerRequests, Tags
<1>2. /\ IsNormalOf(m, d, r, 0, out)
      /\ p \in Responses /\ p.type = "NORMAL" /\ p.service = ResponseService[GET_RESPONSE]
      /\ p.invoke = q.invoke
  <2>1. NormalResponseOf(r, m, GET_RESPONSE, q.invoke, 0, out)
    BY <1>1, NormalResponse, Zenon
  <2>. QED  BY <2>1, Zenon DEF NormalResponseOf
<1>. HIDE DEF d, p, b
<1>3. /\ m \in Bytes /\ d = DecodeResult(p, b) /\ b \in Bytes /\ Len(b) = 1 + Len(out)
      /\ b[1] = 0 /\ Drop(b, 1) = out
  BY <1>2 DEF IsNormalOf, p, b
<1>4. p.service = "GET" /\ b # << >> /\ b[1] \in AccessResults
  BY <1>2, <1>3, ServiceOfTag DEF AccessResults, ActionResults, Bytes
<1>5. IsResult(d, p) /\ d.ret /\ d.rest = Drop(b, 1) /\ d.rsp.access = b[1]
  BY <1>2, <1>3, <1>4, AccessDecoded
<1>6. Agreed(d, q, "OK", out)
  BY <1>2, <1>3, <1>4, <1>5 DEF Agreed, IsResult, Succeeds, SUCCESS
<1>. QED  BY <1>3, <1>6 DEF d

LEMMA ExceptionDecoded ==
  ASSUME NEW r \in Responses, r.type = "NORMAL", NEW q \in ServerRequests, NEW code \in Codes,
         code # "OK", NEW out \in Bytes
  PROVE  Exception \in Bytes /\ Agreed(Decode(r, Exception), q, code, out)
<1>. DEFINE m == Exception
            n == Drop(m, 1)
            x == [r EXCEPT !.service = "EXCEPTION"]
            d == Decode(r, m)
            v == Len(n) >= 2
<1>1. m \in Bytes /\ Len(m) = 3 /\ m[1] = EXCEPTION_RESPONSE /\ m # << >>
  BY DEF Exception, Bytes, EXCEPTION_RESPONSE
<1>. HIDE DEF m
<1>2. Len(m) >= 1 /\ 1 \in Nat /\ 2 \in Nat
  BY <1>1
<1>3. IsRest(n, m, 1)
  BY <1>1, <1>2, Shorter, Zenon
<1>4. d = Out(x, v, Drop(n, 2))
  BY <1>1, ServiceOfTag DEF Decode, DecodeException
<1>. HIDE DEF n, d
<1>5. n \in Bytes /\ Len(n) = 2
  BY <1>1, <1>3 DEF IsRest
<1>6. Drop(n, 2) \in Bytes
  BY <1>2, <1>5, Dropped
<1>7. x \in Responses /\ x.type = "NORMAL" /\ x.service = "EXCEPTION"
  BY DEF Responses
<1>8. v
  BY <1>5
<1>. HIDE DEF x, v
<1>9. d.rsp = x /\ d.ret /\ d.rest = Drop(n, 2)
  BY <1>4, <1>8 DEF Out
<1>10. ~Succeeds(x)
  BY <1>7 DEF Succeeds
<1>11. Agreed(d, q, code, out)
  BY <1>6, <1>7, <1>9, <1>10 DEF Agreed
<1>. QED  BY <1>1, <1>11 DEF d, m

LEMMA SetDecoded ==
  ASSUME NEW r \in Responses, NEW q \in ServerRequests, q.svc = "SET", NEW code \in Codes,
         NEW out \in Bytes, NEW m, m = << SET_RESPONSE, 1, q.invoke, ResultOf(code) >>
  PROVE  m \in Bytes /\ Agreed(Decode(r, m), q, code, out)
<1>. DEFINE p == Headed(r, m, "NORMAL")
            b == Drop(m, 3)
            d == Decode(r, m)
            e == ResultOf(code)
<1>1. q.invoke \in Nat /\ SET_RESPONSE \in Tags /\ e \in Nat /\ << >> \in Bytes
  BY ResultCodes DEF ServerRequests, Tags, Bytes
<1>2. m = << SET_RESPONSE, 1, q.invoke, e >> \o << >>
  <2>1. m \in Bytes
    BY <1>1 DEF Bytes, SET_RESPONSE
  <2>2. m \o << >> = m
    BY <2>1, Nothing
  <2>. QED  BY <2>2
<1>. HIDE DEF e
<1>3. /\ IsNormalOf(m, d, r, e, << >>)
      /\ p \in Responses /\ p.type = "NORMAL" /\ p.service = ResponseService[SET_RESPONSE]
      /\ p.invoke = q.invoke
  <2>1. NormalResponseOf(r, m, SET_RESPONSE, q.invoke, e, << >>)
    BY <1>1, <1>2, NormalResponse, Zenon
  <2>. QED  BY <2>1, Zenon DEF NormalResponseOf
<1>. HIDE DEF d, p, b
<1>4. /\ m \in Bytes /\ d = DecodeResult(p, b) /\ b \in Bytes /\ Len(b) = 1
      /\ b[1] = e /\ Drop(b, 1) = << >>
  BY <1>3 DEF IsNormalOf, p, b
<1>5. p.service = "SET" /\ b # << >> /\ b[1] \in AccessResults /\ (e = SUCCESS <=> code = "OK")
  <2>1. p.service = "SET"
    BY <1>3, ServiceOfTag
  <2>2. b # << >>
    <3>1. Len(b) = 1
      BY <1>4
    <3>2. Len(<< >>) = 0
      OBVIOUS
    <3>3. ASSUME b = << >>
          PROVE  Len(b) = Len(<< >>)
      BY <3>3, Zenon
    <3>. QED  BY <3>1, <3>2, <3>3
  <2>3. e \in AccessResults /\ (e = SUCCESS <=> code = "OK")
    BY ResultCodes DEF e
  <2>. QED  BY <1>4, <2>1, <2>2, <2>3
<1>6. IsResult(d, p) /\ d.ret /\ d.rest = Drop(b, 1) /\ d.rsp.access = b[1]
  BY <1>3, <1>4, <1>5, AccessDecoded
<1>7. Agreed(d, q, code, out)
  BY <1>3, <1>4, <1>5, <1>6 DEF Agreed, IsResult, Succeeds
<1>. QED  BY <1>4, <1>7 DEF d

\* Parameters behind the result of an action, when there are any.
LEMMA Parameters ==
  ASSUME NEW out \in Bytes, NEW x, x = IF out = << >> THEN << 0 >> ELSE << 1, 0 >> \o out
  PROVE  /\ x \in Bytes
         /\ out = << >> => Len(x) = 1 /\ x[1] = 0
         /\ out # << >> => /\ Len(x) = 2 + Len(out) /\ Len(x) >= 2 /\ x[1] = 1 /\ x[2] = 0
                           /\ Drop(x, 2) = out
<1>. DEFINE y == << 1, 0 >>
<1>1. y \in Bytes /\ Len(y) = 2 /\ y[1] = 1 /\ y[2] = 0
  BY DEF Bytes
<1>2. x = IF out = << >> THEN << 0 >> ELSE y \o out
  OBVIOUS
<1>. HIDE DEF y
<1>3. /\ y \o out \in Bytes /\ Len(y \o out) = Len(y) + Len(out)
      /\ \A i \in 1..Len(y) : (y \o out)[i] = y[i]
      /\ Drop(y \o out, Len(y)) = out
  BY <1>1, Joined
<1>4. /\ << 0 >> \in Bytes /\ Len(<< 0 >>) = 1 /\ << 0 >>[1] = 0 /\ Len(out) \in Nat
  BY DEF Bytes
<1>5. CASE out = << >>
  BY <1>2, <1>4, <1>5
<1>6. CASE out # << >>
  <2>1. (y \o out)[1] = 1 /\ (y \o out)[2] = 0
    BY <1>1, <1>3
  <2>2. x = y \o out
    BY <1>2, <1>6
  <2>3. /\ x \in Bytes /\ Len(x) = 2 + Len(out) /\ x[1] = 1 /\ x[2] = 0 /\ Drop(x, 2) = out
    BY <1>1, <1>3, <2>1, <2>2
  <2>4. Len(x) >= 2
    BY <1>4, <2>3
  <2>. QED  BY <1>6, <2>3, <2>4
<1>. QED  BY <1>5, <1>6

LEMMA ActionAnswerDecoded ==
  ASSUME NEW r \in Responses, NEW q \in ServerRequests, q.svc = "ACTION", NEW code \in Codes,
         NEW out \in Bytes, NEW x, x = IF out = << >> THEN << 0 >> ELSE << 1, 0 >> \o out,
         NEW m, m = << ACTION_RESPONSE, 1, q.invoke, ResultOf(code) >> \o x
  PROVE  m \in Bytes /\ Agreed(Decode(r, m), q, code, out)
<1>. DEFINE p == Headed(r, m, "NORMAL")
            b == Drop(m, 3)
            d == Decode(r, m)
            e == ResultOf(code)
<1>1. q.invoke \in Nat /\ ACTION_RESPONSE \in Tags /\ e \in Nat
  BY ResultCodes DEF ServerRequests, Tags
<1>2. /\ x \in Bytes
      /\ out = << >> => Len(x) = 1 /\ x[1] = 0
      /\ out # << >> => /\ Len(x) = 2 + Len(out) /\ Len(x) >= 2 /\ x[1] = 1 /\ x[2] = 0
                        /\ Drop(x, 2) = out
  BY Parameters
<1>. HIDE DEF e
<1>3. m = << ACTION_RESPONSE, 1, q.invoke, e >> \o x
  BY DEF e
<1>4. /\ IsNormalOf(m, d, r, e, x)
      /\ p \in Responses /\ p.type = "NORMAL" /\ p.service = ResponseService[ACTION_RESPONSE]
      /\ p.invoke = q.invoke
  <2>1. NormalResponseOf(r, m, ACTION_RESPONSE, q.invoke, e, x)
    BY <1>1, <1>2, <1>3, NormalResponse, Zenon
  <2>. QED  BY <2>1, Zenon DEF NormalResponseOf
<1>. HIDE DEF d, p, b
<1>5. /\ m \in Bytes /\ d = DecodeResult(p, b) /\ b \in Bytes /\ Len(b) = 1 + Len(x)
      /\ b[1] = e /\ Drop(b, 1) = x /\ \A i \in 1..Len(x) : b[1 + i] = x[i]
  BY <1>4 DEF IsNormalOf, p, b
<1>6. /\ p.service = "ACTION" /\ b[1] \in ActionResults /\ (e = SUCCESS <=> code = "OK")
      /\ Len(x) \in Nat
  BY <1>2, <1>4, <1>5, ServiceOfTag, ResultCodes DEF Bytes, e
<1>7. b # << >>
  BY <1>5, <1>6 DEF Bytes
<1>8. CASE out = << >>
  <2>1. Len(b) = 2 /\ b[2] = 0
    <3>1. b[1 + 1] = x[1] /\ Len(x) = 1
      BY <1>2, <1>5, <1>8
    <3>. QED  BY <1>2, <1>5, <1>8, <3>1
  <2>2. Drop(b, 2) = << >>
    <3>1. Drop(b, 2) = SubSeq(b, 3, 2)
      BY <2>1 DEF Drop
    <3>. QED  BY <3>1, SubSeqEmpty
  <2>3. IsResult(d, p) /\ d.ret /\ d.rsp.action = b[1] /\ ~d.rsp.has_data /\ d.rest = Drop(b, 2)
    BY <1>4, <1>5, <1>6, <1>7, <2>1, ActionDecoded
  <2>4. << >> \in Bytes
    BY <1>8
  <2>5. d.rsp.has_data = (out # << >>) /\ d.rest = out
    <3>1. d.rsp.has_data \in BOOLEAN
      BY <2>3 DEF IsResult, Responses
    <3>. QED  BY <1>8, <2>2, <2>3, <3>1
  <2>6. Succeeds(d.rsp) <=> code = "OK"
    BY <1>4, <1>5, <1>6, <2>3 DEF IsResult, Succeeds
  <2>7. Agreed(d, q, code, out)
    BY <1>4, <1>6, <2>3, <2>5, <2>6 DEF Agreed, IsResult
  <2>. QED  BY <1>5, <2>7 DEF d
<1>9. CASE out # << >>
  <2>1. Len(b) >= 3 /\ b[2] = 1 /\ b[3] = 0 /\ 1 + 2 <= Len(b) /\ 1 + 2 = 3
    <3>1. /\ Len(x) >= 2 /\ x[1] = 1 /\ x[2] = 0
      BY <1>2, <1>9
    <3>2. 1 \in 1..Len(x) /\ 2 \in 1..Len(x)
      BY <1>6, <3>1
    <3>3. b[1 + 1] = x[1] /\ b[1 + 2] = x[2]
      BY <1>5, <3>2
    <3>. QED  BY <1>5, <1>6, <3>1, <3>3
  <2>2. Drop(b, 3) = out
    <3>1. 1 \in Nat /\ 2 \in Nat
      OBVIOUS
    <3>2. Drop(Drop(b, 1), 2) = Drop(b, 1 + 2)
      BY <1>5, <2>1, <3>1, DroppedTwice, Zenon
    <3>. QED  BY <1>2, <1>5, <1>9, <2>1, <3>2
  <2>3. IsResult(d, p) /\ d.ret /\ d.rsp.action = b[1] /\ d.rsp.has_data /\ d.rest = Drop(b, 3)
    BY <1>4, <1>5, <1>6, <1>7, <2>1, ActionDecoded
  <2>4. Agreed(d, q, code, out)
    BY <1>4, <1>5, <1>6, <1>9, <2>2, <2>3 DEF Agreed, IsResult, Succeeds
  <2>. QED  BY <1>5, <2>4 DEF d
<1>. QED  BY <1>8, <1>9

\* An answer of the server of this stack tells the client what the database did.
LEMMA ReplyDecoded ==
  ASSUME NEW r \in Responses, r.type = "NORMAL", NEW q \in ServerRequests, NEW code \in Codes,
         NEW out \in Bytes
  PROVE  Reply(q, code, out) \in Bytes /\ Agreed(Decode(r, Reply(q, code, out)), q, code, out)
<1>1. q.svc \in Services
  BY DEF ServerRequests
<1>2. CASE q.svc = "GET" /\ code = "OK"
  <2>1. Reply(q, code, out) = << GET_RESPONSE, 1, q.invoke, 0 >> \o out
    BY <1>2 DEF Reply
  <2>. QED  BY <1>2, <2>1, DataDecoded
<1>3. CASE q.svc = "GET" /\ code # "OK"
  <2>1. Reply(q, code, out) = Exception
    BY <1>3 DEF Reply
  <2>. QED  BY <1>3, <2>1, ExceptionDecoded
<1>4. CASE q.svc = "SET"
  <2>1. Reply(q, code, out) = << SET_RESPONSE, 1, q.invoke, ResultOf(code) >>
    BY <1>4 DEF Reply
  <2>. QED  BY <1>4, <2>1, SetDecoded
<1>5. CASE q.svc = "ACTION"
  <2>. DEFINE x == IF out = << >> THEN << 0 >> ELSE << 1, 0 >> \o out
  <2>1. Reply(q, code, out) = << ACTION_RESPONSE, 1, q.invoke, ResultOf(code) >> \o x
    BY <1>5 DEF Reply
  <2>. QED  BY <1>5, <2>1, ActionAnswerDecoded
<1>. QED  BY <1>1, <1>2, <1>3, <1>4, <1>5 DEF Services

-----------------------------------------------------------------------------
(* Every step keeps the invariant                                           *)

LEMMA ClientInitFacts ==
  ASSUME NEW r \in Responses
  PROVE  ClientInit(r) \in Responses /\ ClientInit(r).type = "NORMAL"
BY ZenonT(30) DEF ClientInit, Responses

LEMMA ExchangeInit == Init => ExchangeInv
<1>. SUFFICES ASSUME Init
              PROVE  ExchangeInv
  OBVIOUS
<1>1. << >> \in Bytes /\ 0 \in 0..NBlocks
  BY ServiceAssumption DEF Bytes
<1>2. NoRequest \in Requests /\ NoRequest \in ServerRequests
  BY <1>1 DEF NoRequest, Q, Requests, ServerRequests, Services
<1>3. NoCall \in Calls /\ ~NoCall.called
  BY <1>1 DEF NoCall, Calls, Codes
<1>4. ClientInit(NoResponse) \in Responses
  <2>1. NoResponse \in Responses
    BY DEF NoResponse, Responses, NOT_SET
  <2>. QED  BY <2>1, ClientInitFacts
<1>5. Types
  BY <1>1, <1>2, <1>3, <1>4 DEF Init, Types
<1>6. ~db.called /\ ~ret /\ phase = "idle"
  BY <1>3 DEF Init
<1>. QED
  BY <1>5, <1>6 DEF ExchangeInv, OwnExchange, OtherExchange, ServedAsAsked, AgreeOnResult, ObjectIsWhole

LEMMA AskInv ==
  ASSUME ExchangeInv, NEW q \in Asked, ClientAsks(q)
  PROVE  ExchangeInv'
<1>. USE DEF ClientAsks
<1>1. /\ q \in Requests /\ q.type = "NORMAL"
      /\ << >> \in Bytes /\ 0 \in 0..NBlocks
      /\ NoCall \in Calls /\ ~NoCall.called
  BY ServiceAssumption, AskedType DEF Bytes, NoCall, Calls, Codes
<1>2. EncodeNormal(q) \in Bytes
  <2>1. EncodeNormal(q) = Front(q) \o Carried(q) /\ Carried(q) \in Bytes /\ Front(q) \in Bytes
    BY <1>1, EncodedForm, FrontFacts
  <2>. QED  BY <2>1, Joined
<1>3. rsp' \in Responses /\ rsp'.type = "NORMAL"
  BY ClientInitFacts DEF ExchangeInv, Types
<1>4. Types'
  BY <1>1, <1>2, <1>3 DEF ExchangeInv, Types
<1>5. OwnExchange'
  BY <1>1, <1>3 DEF OwnExchange
<1>6. OtherExchange'
  BY <1>1, <1>3 DEF OtherExchange, NothingYet
<1>. QED  BY <1>1, <1>4, <1>5, <1>6 DEF ExchangeInv, ServedAsAsked, AgreeOnResult, ObjectIsWhole

LEMMA AskNextInv ==
  ASSUME ExchangeInv, ClientAsksNext
  PROVE  ExchangeInv'
<1>. USE DEF ClientAsksNext
<1>1. peer = "other" /\ (strays = 0 => InTransfer) /\ ~db.called
  BY DEF ExchangeInv, OwnExchange, OtherExchange, Types, NothingYet
<1>2. /\ req' \in Requests /\ req'.type = "NEXT" /\ req'.block = rsp.block
      /\ req'.invoke \in Nat /\ req'.block \in Nat
  BY DEF ExchangeInv, Types, Requests, Responses
<1>3. EncodeNext(req') \in Bytes
  BY <1>2 DEF EncodeNext, RequestTag, RequestType, GET_REQUEST, SET_REQUEST, ACTION_REQUEST, Bytes
<1>4. Types'
  BY <1>2, <1>3 DEF ExchangeInv, Types
<1>5. strays = 0 => InTransfer' /\ ~NothingYet'
  BY <1>1, <1>2 DEF InTransfer, NothingYet
<1>6. OwnExchange' /\ OtherExchange'
  BY <1>1, <1>5 DEF OwnExchange, OtherExchange
<1>. QED  BY <1>1, <1>4, <1>6 DEF ExchangeInv, ServedAsAsked, AgreeOnResult, ObjectIsWhole

LEMMA ServeInv ==
  ASSUME ExchangeInv, NEW code \in Codes, NEW out \in Datas \cup {<< >>}, ServerExecutes(code, out)
  PROVE  ExchangeInv'
<1>. DEFINE d == DecodeRequest(sreq, apdu)
<1>1. /\ phase = "asked" /\ peer = "own" /\ phase' = "answered"
      /\ sreq' = d.req /\ apdu' = Reply(d.req, code, out)
      /\ db' = [called |-> TRUE, data |-> d.data, code |-> code, out |-> out]
      /\ UNCHANGED <<peer, req, rsp, ret, rest, got, pos, strays>>
  BY DEF ServerExecutes
<1>2. Types /\ req \in Asked /\ apdu = EncodeNormal(req) /\ rsp.type = "NORMAL"
  BY <1>1 DEF ExchangeInv, OwnExchange
<1>3. /\ d.req \in ServerRequests /\ d.data \in Bytes
      /\ d.req.svc = req.svc /\ d.req.invoke = req.invoke /\ d.req.obj = req.obj
      /\ req.svc # "ACTION" => d.req.sel = req.sel
      /\ req.svc = "GET" => d.data = << >>
      /\ req.svc = "ACTION" => d.req.enable = req.enable /\ d.data = When(req.enable = 1, req.data)
  BY <1>2, DecodedAsAsked DEF Types
<1>4. out \in Bytes
  BY ServiceAssumption, EmptySeq, Zenon DEF Bytes
<1>. HIDE DEF d
<1>5. apdu' \in Bytes
  BY <1>1, <1>2, <1>3, <1>4, ReplyDecoded DEF Types
<1>6. db' \in Calls /\ db'.called /\ db'.data = d.data /\ db'.code = code /\ db'.out = out
  BY <1>1, <1>3 DEF Calls
<1>7. Types'
  BY <1>1, <1>2, <1>3, <1>5, <1>6 DEF Types
<1>8. ServedAsAsked'
  BY <1>1, <1>3, <1>6 DEF ServedAsAsked
<1>9. OwnExchange'
  BY <1>1, <1>2, <1>6 DEF OwnExchange, AnsweredOwn
<1>10. OtherExchange'
  BY <1>1 DEF OtherExchange
<1>. QED  BY <1>1, <1>7, <1>8, <1>9, <1>10 DEF ExchangeInv, AgreeOnResult, ObjectIsWhole

LEMMA NumbersType ==
  ASSUME NEW n \in Nat
  PROVE  Numbers(n) \in Bytes /\ Len(Numbers(n)) = n /\ Numbers(n) \o << n + 1 >> = Numbers(n + 1)
         /\ Numbers(0) = << >>
<1>1. /\ Numbers(n) \in Bytes /\ Len(Numbers(n)) = n
      /\ Numbers(n + 1) \in Bytes /\ Len(Numbers(n + 1)) = n + 1
  BY DEF Numbers, Bytes
<1>2. Numbers(n) \o << n + 1 >> \in Bytes /\ Len(Numbers(n) \o << n + 1 >>) = n + 1
  BY <1>1 DEF Bytes
<1>3. ASSUME NEW i \in 1..n + 1
      PROVE  (Numbers(n) \o << n + 1 >>)[i] = Numbers(n + 1)[i]
  BY DEF Numbers
<1>4. Numbers(n) \o << n + 1 >> = Numbers(n + 1)
  BY <1>1, <1>2, <1>3, SeqEqual DEF Bytes
<1>. QED  BY <1>1, <1>4 DEF Numbers

LEMMA SendBlockInv ==
  ASSUME ExchangeInv, OtherSendsBlock
  PROVE  ExchangeInv'
<1>1. /\ phase = "asked" /\ peer = "other" /\ phase' = "answered" /\ pos < NBlocks
      /\ req.type = "NEXT" => req.block = pos
      /\ pos' = pos + 1 /\ apdu' = Block(req.invoke, pos')
      /\ UNCHANGED <<peer, req, rsp, ret, rest, got, sreq, db, strays>>
  BY DEF OtherSendsBlock, Block
<1>2. /\ Types /\ ~db.called
      /\ strays = 0 => NothingYet \/ InTransfer
      /\ strays = 0 /\ NothingYet => req.type = "NORMAL"
  BY <1>1 DEF ExchangeInv, OtherExchange
<1>3. pos \in Nat /\ pos' \in 1..NBlocks /\ req.invoke \in Nat /\ NBlocks \in Nat
  BY <1>1, <1>2, ServiceAssumption DEF Types, Requests
<1>4. apdu' \in Bytes
  BY <1>1, <1>3 DEF Block, Bytes, GET_RESPONSE
<1>5. Types'
  BY <1>1, <1>2, <1>3, <1>4 DEF Types
<1>6. strays = 0 => got = Numbers(pos)
  BY <1>1, <1>2, NumbersType DEF NothingYet, InTransfer
<1>7. strays = 0 => Arriving'
  BY <1>1, <1>3, <1>6 DEF Arriving
<1>8. strays = 0 => NothingYet' \/ InTransfer'
  BY <1>1, <1>2 DEF NothingYet, InTransfer
<1>9. OwnExchange' /\ OtherExchange'
  BY <1>1, <1>2, <1>7, <1>8 DEF OwnExchange, OtherExchange
<1>. QED  BY <1>1, <1>2, <1>5, <1>9 DEF ExchangeInv, ServedAsAsked, AgreeOnResult, ObjectIsWhole

LEMMA AnswerInv ==
  ASSUME ExchangeInv, NEW m \in Answers, OtherAnswers(m)
  PROVE  ExchangeInv'
<1>1. /\ phase = "asked" /\ peer = "other" /\ phase' = "answered" /\ apdu' = m /\ pos' \in {0, pos}
      /\ strays' = IF Stray(m) THEN strays + 1 ELSE strays
      /\ UNCHANGED <<peer, req, rsp, ret, rest, got, sreq, db>>
  BY DEF OtherAnswers
<1>2. Types /\ ~db.called /\ (strays = 0 => NothingYet \/ InTransfer)
  BY <1>1 DEF ExchangeInv, OtherExchange
<1>3. m \in Bytes /\ 0 \in 0..NBlocks
  BY ServiceAssumption DEF Bytes
<1>4. Types'
  BY <1>1, <1>2, <1>3 DEF Types
<1>5. strays' = 0 => Arriving' /\ (NothingYet' \/ InTransfer')
  <2>1. strays' = 0 => strays = 0 /\ ~Stray(m)
    BY <1>1, <1>2 DEF Types
  <2>. QED  BY <1>1, <1>2, <2>1 DEF Arriving, NothingYet, InTransfer
<1>6. OwnExchange' /\ OtherExchange'
  BY <1>1, <1>2, <1>5 DEF OwnExchange, OtherExchange
<1>. QED  BY <1>1, <1>2, <1>4, <1>6 DEF ExchangeInv, ServedAsAsked, AgreeOnResult, ObjectIsWhole

\* The client decodes the answer of the server of this stack.
LEMMA DecodeOwn ==
  ASSUME ExchangeInv, ClientDecodes, peer = "own"
  PROVE  ExchangeInv'
<1>. DEFINE d == Decode(rsp, apdu)
<1>1. /\ phase = "answered" /\ UNCHANGED <<peer, req, apdu, sreq, db, pos, strays>>
      /\ rsp' = d.rsp /\ ret' = d.ret /\ rest' = d.rest
      /\ ~(d.rsp.type = "DATABLOCK") => got' = got /\ phase' = "idle"
  BY DEF ClientDecodes, HasMore
<1>2. /\ Types /\ ServedAsAsked /\ rsp.type = "NORMAL" /\ db.called
      /\ apdu = Reply(sreq, db.code, db.out)
  BY <1>1 DEF ExchangeInv, OwnExchange, AnsweredOwn
<1>3. db.code \in Codes /\ db.out \in Bytes
  BY <1>2, ServiceAssumption, EmptySeq, Zenon DEF Types, Calls, Bytes
<1>4. Agreed(d, sreq, db.code, db.out)
  BY <1>2, <1>3, ReplyDecoded DEF Types
<1>. HIDE DEF d
<1>5. d.rsp \in Responses /\ d.ret /\ d.rest \in Bytes /\ d.rsp.type = "NORMAL"
  BY <1>4 DEF Agreed
<1>6. phase' = "idle" /\ got' = got
  BY <1>1, <1>5
<1>7. Types'
  BY <1>1, <1>2, <1>5, <1>6 DEF Types
<1>8. sreq.svc = req.svc /\ sreq.invoke = req.invoke
  BY <1>2 DEF ServedAsAsked
<1>9. AgreeOnResult'
  BY <1>1, <1>4, <1>5, <1>8 DEF AgreeOnResult, Agreed
<1>10. ServedAsAsked'
  BY <1>1, <1>2 DEF ServedAsAsked
<1>11. OwnExchange' /\ OtherExchange' /\ ObjectIsWhole'
  BY <1>1, <1>5, <1>6 DEF OwnExchange, OtherExchange, ObjectIsWhole
<1>. QED  BY <1>7, <1>9, <1>10, <1>11 DEF ExchangeInv

\* The client decodes an answer of another server.
LEMMA DecodeOther ==
  ASSUME ExchangeInv, ClientDecodes, peer = "other"
  PROVE  ExchangeInv'
<1>. DEFINE d == Decode(rsp, apdu)
            block == d.ret /\ d.rsp.service = "GET" /\ d.rsp.type = "DATABLOCK"
            more == d.ret /\ d.rsp.type = "DATABLOCK" /\ d.rsp.last = 0
<1>1. /\ phase = "answered" /\ UNCHANGED <<peer, req, apdu, sreq, db, pos, strays>>
      /\ rsp' = d.rsp /\ ret' = d.ret /\ rest' = d.rest
      /\ got' = IF block THEN got \o d.rest ELSE got
      /\ phase' = IF more THEN "more" ELSE "idle"
  BY DEF ClientDecodes, HasMore
<1>2. Types /\ ~db.called /\ (strays = 0 => (NothingYet \/ InTransfer) /\ Arriving)
  BY <1>1 DEF ExchangeInv, OtherExchange
<1>5. CASE strays # 0
  <2>1. /\ d.rsp \in Responses /\ d.ret \in BOOLEAN /\ d.rest \in Bytes
    BY <1>2, AnyDecoded DEF Types, Decoded
  <2>. HIDE DEF d
  <2>2. got' \in Bytes /\ phase' \in {"idle", "more"}
    BY <1>1, <1>2, <2>1, Joined DEF Types
  <2>3. Types'
    BY <1>1, <1>2, <2>1, <2>2 DEF Types
  <2>4. OwnExchange' /\ OtherExchange' /\ ObjectIsWhole'
    BY <1>1, <1>2, <1>5 DEF OwnExchange, OtherExchange, ObjectIsWhole
  <2>. QED  BY <1>1, <1>2, <2>3, <2>4 DEF ExchangeInv, ServedAsAsked, AgreeOnResult
<1>3. CASE strays = 0 /\ apdu \in Answers /\ ~Stray(apdu)
  <2>1. apdu \in Bytes /\ rsp \in Responses
    BY <1>2 DEF Types
  <2>2. /\ d.rsp \in Responses /\ d.ret \in BOOLEAN /\ d.rest \in Bytes
        /\ \/ ~d.ret
           \/ d.rsp.type = "NORMAL"
           \/ d.rsp.service = "EXCEPTION" /\ Same(rsp, d.rsp)
    BY <1>3, <2>1, NoBlockDecoded DEF Harmless
  <2>. HIDE DEF d
  <2>3. ~block
    BY <2>2
  <2>4. got' = got
    BY <1>1, <2>3
  <2>5. Types'
    BY <1>1, <1>2, <2>2, <2>4 DEF Types
  <2>6. more => InTransfer'
    <3>1. SUFFICES ASSUME more
                   PROVE  InTransfer'
      OBVIOUS
    <3>2. phase' = "more" /\ Same(rsp, d.rsp)
      BY <1>1, <2>2, <3>1
    <3>3. InTransfer
      BY <1>2, <1>3, <3>1, <3>2 DEF NothingYet, Same
    <3>. QED  BY <1>1, <2>4, <3>2, <3>3 DEF InTransfer, Same
  <2>7. phase' \in {"idle", "more"} /\ (phase' = "more" => InTransfer')
    BY <1>1, <2>6
  <2>8. OwnExchange' /\ OtherExchange'
    BY <1>1, <1>2, <2>7 DEF OwnExchange, OtherExchange
  <2>9. ObjectIsWhole'
    BY <1>1, <2>3 DEF ObjectIsWhole
  <2>. QED  BY <1>1, <1>2, <2>5, <2>8, <2>9 DEF ExchangeInv, ServedAsAsked, AgreeOnResult
<1>4. CASE strays = 0 /\ pos > 0 /\ apdu = Block(req.invoke, pos) /\ got = Numbers(pos - 1)
  <2>1. /\ pos \in 1..NBlocks /\ pos - 1 \in Nat /\ (pos - 1) + 1 = pos /\ req.invoke \in Nat
        /\ rsp \in Responses
    BY <1>2, <1>4, ServiceAssumption DEF Types, Requests
  <2>2. /\ d.rsp \in Responses /\ d.ret /\ d.rest = << pos >>
        /\ d.rsp.service = "GET" /\ d.rsp.type = "DATABLOCK" /\ d.rsp.block = pos
        /\ d.rsp.last = IF pos = NBlocks THEN 1 ELSE 0
    BY <1>4, <2>1, BlockDecoded DEF IsBlockOf
  <2>. HIDE DEF d
  <2>3. got' = Numbers(pos) /\ Numbers(pos) \in Bytes
    <3>1. got' = got \o << pos >>
      BY <1>1, <2>2
    <3>2. Numbers(pos - 1) \o << (pos - 1) + 1 >> = Numbers((pos - 1) + 1)
      BY <2>1, NumbersType, Zenon
    <3>3. Numbers(pos) \in Bytes
      <4>1. pos \in Nat
        BY <2>1
      <4>. QED  BY <4>1, NumbersType, Zenon
    <3>. QED  BY <1>4, <2>1, <3>1, <3>2, <3>3
  <2>4. << pos >> \in Bytes
    BY <2>1 DEF Bytes
  <2>5. phase' = IF pos = NBlocks THEN "idle" ELSE "more"
    BY <1>1, <2>2
  <2>6. Types'
    BY <1>1, <1>2, <2>2, <2>3, <2>4, <2>5 DEF Types
  <2>7. phase' = "more" => InTransfer'
    BY <1>1, <2>1, <2>2, <2>3, <2>5 DEF InTransfer
  <2>8. OwnExchange' /\ OtherExchange'
    BY <1>1, <1>2, <2>5, <2>7 DEF OwnExchange, OtherExchange
  <2>9. ObjectIsWhole'
    BY <1>1, <2>3, <2>5 DEF ObjectIsWhole, Numbers
  <2>. QED  BY <1>1, <1>2, <2>6, <2>8, <2>9 DEF ExchangeInv, ServedAsAsked, AgreeOnResult
<1>. QED  BY <1>2, <1>3, <1>4, <1>5 DEF Arriving

LEMMA ExchangeNext == ExchangeInv /\ [Next]_vars => ExchangeInv'
<1>. SUFFICES ASSUME ExchangeInv, [Next]_vars
              PROVE  ExchangeInv'
  OBVIOUS
<1>1. CASE UNCHANGED vars
  BY <1>1 DEF ExchangeInv, Types, OwnExchange, OtherExchange, AnsweredOwn, NothingYet, InTransfer,
              Arriving, ServedAsAsked, AgreeOnResult, ObjectIsWhole, vars
<1>2. CASE \E q \in Asked : ClientAsks(q)
  BY <1>2, AskInv
<1>3. CASE ClientAsksNext
  BY <1>3, AskNextInv
<1>4. CASE \E code \in Codes, out \in Datas \cup {<< >>} : ServerExecutes(code, out)
  BY <1>4, ServeInv
<1>5. CASE OtherSendsBlock
  BY <1>5, SendBlockInv
<1>6. CASE \E m \in Answers : OtherAnswers(m)
  BY <1>6, AnswerInv
<1>7. CASE ClientDecodes
  BY <1>7, DecodeOwn, DecodeOther DEF ExchangeInv, Types
<1>. QED  BY <1>1, <1>2, <1>3, <1>4, <1>5, <1>6, <1>7 DEF Next

LEMMA ExchangeHolds == Spec => []ExchangeInv
BY ExchangeInit, ExchangeNext, PTL DEF Spec

-----------------------------------------------------------------------------

\* Whatever a client asks, the database is called for that object and invocation, with the
\* selection of a get or set and the parameters of an action (csm_server_services_execute).
THEOREM DatabaseAsAsked == Spec => []ServedAsAsked
<1>1. ExchangeInv => ServedAsAsked
  BY DEF ExchangeInv
<1>. QED  BY <1>1, ExchangeHolds, PTL

\* Whatever the database answers, the client reports a success exactly when it did and is left
\* with its data (csm_client_decode).
THEOREM ResultAsAnswered == Spec => []AgreeOnResult
<1>1. ExchangeInv => AgreeOnResult
  BY DEF ExchangeInv
<1>. QED  BY <1>1, ExchangeHolds, PTL

\* Whatever the number of blocks and wherever the other server refuses or cuts its answer, an
\* object that is taken for complete has each of its blocks once and in order, if no stray
\* answer came since it was asked for: no response of an unknown type, which the decoder
\* accepts, and no block that was not asked for, which it does not notice.
THEOREM WholeObject == Spec => []ObjectIsWhole
<1>1. ExchangeInv => ObjectIsWhole
  BY DEF ExchangeInv
<1>. QED  BY <1>1, ExchangeHolds, PTL
=============================================================================
