------------------------- MODULE AcseExchange_proofs -------------------------
(***************************************************************************)
(* What client and server agree on after an exchange, for any mechanisms,  *)
(* passwords, challenges and bytes behind a message, and whatever the      *)
(* exchanges before left in both states.                                   *)
(***************************************************************************)
EXTENDS AcseExchange, Acse_proofs

-----------------------------------------------------------------------------
(* The decoding loop, one turn                                              *)

\* A state of the loop.
Looping(p) == p = [asso |-> p.asso, pos |-> p.pos, ret |-> p.ret]

\* An entry that is not the one of the current header is passed.
LEMMA Passed ==
  ASSUME NEW kind, NEW m, NEW p, NEW entry, m[p.pos].tag # entry.tag
  PROVE  DecodeStep(kind, m, p, entry) = p
BY DEF DecodeStep

\* A loop that goes on after a turn went on before it.
LEMMA Kept ==
  ASSUME NEW kind, NEW m, NEW p, Looping(p), NEW entry
  PROVE  LET q == DecodeStep(kind, m, p, entry)
         IN  Looping(q) /\ (q.ret => p.ret)
<1>. DEFINE q == DecodeStep(kind, m, p, entry)
<1>1. CASE ~p.ret \/ m[p.pos].tag # entry.tag
  BY <1>1 DEF DecodeStep
<1>2. CASE p.ret /\ m[p.pos].tag = entry.tag /\ ExtractOk(m[p.pos])
  <2>1. q = Extracted(kind, m, p)
    BY <1>2 DEF DecodeStep
  <2>. QED  BY <1>2, <2>1 DEF Looping, Extracted
<1>3. CASE p.ret /\ m[p.pos].tag = entry.tag /\ ~ExtractOk(m[p.pos])
  <2>1. q = [asso |-> p.asso, pos |-> p.pos, ret |-> FALSE]
    BY <1>3 DEF DecodeStep, Refused, Looping
  <2>. QED  BY <2>1 DEF Looping
<1>. QED  BY <1>1, <1>2, <1>3

\* The entry of the current header: its contents were accepted and stored if
\* the loop goes on.
LEMMA Taken ==
  ASSUME NEW kind, NEW m, NEW p, Looping(p), NEW entry, m[p.pos].tag = entry.tag,
         DecodeStep(kind, m, p, entry).ret
  PROVE  LET q == DecodeStep(kind, m, p, entry)
         IN  /\ p.ret /\ ExtractOk(m[p.pos])
             /\ q.asso = Extract(p.asso, m[p.pos]) /\ q.pos = p.pos + 1
<1>. DEFINE q == DecodeStep(kind, m, p, entry)
<1>1. p.ret
  BY Kept
<1>2. ExtractOk(m[p.pos])
  <2>1. SUFFICES ASSUME ~ExtractOk(m[p.pos])
                 PROVE  FALSE
    OBVIOUS
  <2>2. q = [asso |-> p.asso, pos |-> p.pos, ret |-> FALSE]
    BY <1>1, <2>1 DEF DecodeStep, Refused, Looping
  <2>. QED  BY <2>2
<1>3. q = Extracted(kind, m, p)
  BY <1>1, <1>2 DEF DecodeStep
<1>. QED  BY <1>1, <1>2, <1>3 DEF Extracted

\* Five turns in which no entry is the one of the current header.
LEMMA PassedFive ==
  ASSUME NEW kind, NEW m, NEW p, NEW chain, NEW i,
         \A e \in {chain[i], chain[i + 1], chain[i + 2], chain[i + 3], chain[i + 4]} :
            m[p.pos].tag # e.tag
  PROVE  Decode5(kind, m, p, chain, i) = p
BY Passed DEF Decode5

LEMMA KeptFive ==
  ASSUME NEW kind, NEW m, NEW p, Looping(p), NEW chain, NEW i
  PROVE  LET q == Decode5(kind, m, p, chain, i)
         IN  Looping(q) /\ (q.ret => p.ret)
<1>. DEFINE p1 == DecodeStep(kind, m, p, chain[i])
            p2 == DecodeStep(kind, m, p1, chain[i + 1])
            p3 == DecodeStep(kind, m, p2, chain[i + 2])
            p4 == DecodeStep(kind, m, p3, chain[i + 3])
            p5 == DecodeStep(kind, m, p4, chain[i + 4])
<1>1. Looping(p1) /\ (p1.ret => p.ret)
  BY Kept
<1>. HIDE DEF p1
<1>2. Looping(p2) /\ (p2.ret => p1.ret)
  BY <1>1, Kept
<1>. HIDE DEF p2
<1>3. Looping(p3) /\ (p3.ret => p2.ret)
  BY <1>2, Kept
<1>. HIDE DEF p3
<1>4. Looping(p4) /\ (p4.ret => p3.ret)
  BY <1>3, Kept
<1>. HIDE DEF p4
<1>5. Looping(p5) /\ (p5.ret => p4.ret)
  BY <1>4, Kept
<1>6. Decode5(kind, m, p, chain, i) = p5
  BY DEF Decode5, p1, p2, p3, p4
<1>. QED  BY <1>1, <1>2, <1>3, <1>4, <1>5, <1>6

-----------------------------------------------------------------------------
(* What the extractors store of the headers that this stack encodes         *)

Plain == {"APP_CONTEXT", "ACSE_REQU", "RESP_ACSE_REQ", "USER_INFO"}

LEMMA HeaderFields ==
  \A tag : /\ Hdr(tag).tag = tag
           /\ \A arc, id : /\ Oid(tag, arc, id).tag = tag /\ Oid(tag, arc, id).name = arc
                           /\ Oid(tag, arc, id).id = id
           /\ \A id : Int(tag, id).tag = tag /\ Int(tag, id).id = id /\ Int(tag, id).ok
           /\ \A d : Bytes(tag, d).tag = tag /\ Bytes(tag, d).data = d
           /\ \A d : AuthValue(tag, d).tag = tag /\ AuthValue(tag, d).data = d
BY DEF Hdr, Oid, Int, Bytes, AuthValue

LEMMA ExtractPlain ==
  ASSUME NEW s, NEW tag \in Plain
  PROVE  Extract(s, Hdr(tag)) = s
BY HeaderFields DEF Extract, Plain, OidTags

LEMMA ExtractContext ==
  ASSUME NEW s, NEW tag \in OidTags, NEW id
  PROVE  Extract(s, Oid(tag, 1, id)) = [s EXCEPT !.ref = id]
BY HeaderFields DEF Extract, OidTags

LEMMA ExtractMechanism ==
  ASSUME NEW s, NEW tag \in OidTags, NEW id
  PROVE  Extract(s, Oid(tag, 2, id)) = [s EXCEPT !.auth = id]
BY HeaderFields DEF Extract, OidTags

LEMMA ExtractResult ==
  ASSUME NEW s, NEW id
  PROVE  Extract(s, Int("RESULT", id)) = [s EXCEPT !.accepted = (id = 0)]
BY HeaderFields DEF Extract, OidTags

LEMMA ExtractReason ==
  ASSUME NEW s, NEW id
  PROVE  Extract(s, Int("SRC_DIAG", id)) = [s EXCEPT !.result = id]
BY HeaderFields DEF Extract, OidTags

LEMMA ExtractTitle ==
  ASSUME NEW s, NEW d
  PROVE  Extract(s, Bytes("RESP_AP_TITLE", d)) = [s EXCEPT !.stitle = d.head]
BY HeaderFields DEF Extract, OidTags

LEMMA ExtractStoc ==
  ASSUME NEW s, NEW d
  PROVE  Extract(s, AuthValue("RESP_AUTH", d)) = [s EXCEPT !.stoc = Overwrite(s.stoc, d)]
BY HeaderFields DEF Extract, OidTags

LEMMA ExtractCtos ==
  ASSUME NEW s, NEW d
  PROVE  Extract(s, AuthValue("CALLING_AUTH", d)) = [s EXCEPT !.ctos = Overwrite(s.ctos, d)]
BY HeaderFields DEF Extract, OidTags

-----------------------------------------------------------------------------
(* The headers that this stack encodes are headers                          *)

LEMMA PlainHeader ==
  ASSUME NEW tag \in Tags
  PROVE  Hdr(tag) \in Header
BY ZeroAssumption DEF Hdr, Header, NoChallenge, Challenge, Results

LEMMA OidHeader ==
  ASSUME NEW s \in AssoState, NEW tag \in Tags
  PROVE  Oid(tag, 1, s.ref) \in Header /\ Oid(tag, 2, s.auth) \in Header
<1>1. s.ref \in Results /\ s.auth \in Results
  BY DEF AssoState, Refs, AuthLevels, Results
<1>2. Hdr(tag) \in Header /\ 1 \in 0..2 /\ 2 \in 0..2
  BY PlainHeader
<1>3. Oid(tag, 1, s.ref) \in Header
  BY <1>1, <1>2 DEF Oid, Header
<1>4. Oid(tag, 2, s.auth) \in Header
  BY <1>1, <1>2 DEF Oid, Header
<1>. QED  BY <1>3, <1>4

LEMMA IntHeader ==
  ASSUME NEW tag \in Tags, NEW n \in Results
  PROVE  Int(tag, n) \in Header
BY PlainHeader DEF Int, Header

LEMMA BytesHeader ==
  ASSUME NEW tag \in Tags, NEW d \in Challenge
  PROVE  Bytes(tag, d) \in Header
BY PlainHeader DEF Bytes, Header

LEMMA AuthHeader ==
  ASSUME NEW tag \in Tags, NEW d \in Challenge
  PROVE  AuthValue(tag, d) \in Header
<1>. DEFINE long == d.size >= 8
<1>1. long \in BOOLEAN
  OBVIOUS
<1>2. AuthValue(tag, d) = [Bytes(tag, d) EXCEPT !.ok = long]
  BY DEF AuthValue
<1>. HIDE DEF long
<1>. QED  BY <1>1, <1>2, BytesHeader DEF Header

-----------------------------------------------------------------------------
(* An AARE of this stack                                                    *)

TitleValue(title) == [size |-> 8, head |-> title, tail |-> Zero]

\* The elements of the sequences that an encoder appends.
LEMMA Appended5 ==
  ASSUME NEW a, NEW b, NEW c, NEW d, NEW e
  PROVE  LET m == << a, b, c, d >> \o << >> \o << e >>
         IN  m # << >> /\ m[1] = a /\ m[2] = b /\ m[3] = c /\ m[4] = d /\ m[5] = e
<1>. DEFINE x == << a, b, c, d >> \o << >>
            m == x \o << e >>
<1>1. Len(x) = 4 /\ x[1] = a /\ x[2] = b /\ x[3] = c /\ x[4] = d
  OBVIOUS
<1>2. Len(m) = 5 /\ m[1] = a /\ m[2] = b /\ m[3] = c /\ m[4] = d /\ m[5] = e
  OBVIOUS
<1>. QED  BY <1>2

LEMMA Appended9 ==
  ASSUME NEW a, NEW b, NEW c, NEW d, NEW e, NEW f, NEW g, NEW h, NEW k
  PROVE  LET m == << a, b, c, d >> \o << e, f, g, h >> \o << k >>
         IN  /\ m # << >> /\ m[1] = a /\ m[2] = b /\ m[3] = c /\ m[4] = d
             /\ m[5] = e /\ m[6] = f /\ m[7] = g /\ m[8] = h /\ m[9] = k
<1>. DEFINE m == << a, b, c, d >> \o << e, f, g, h >> \o << k >>
<1>1. Len(m) = 9
  OBVIOUS
<1>2. m[1] = a /\ m[2] = b /\ m[3] = c /\ m[4] = d
  OBVIOUS
<1>3. m[5] = e /\ m[6] = f /\ m[7] = g /\ m[8] = h /\ m[9] = k
  OBVIOUS
<1>. QED  BY <1>1, <1>2, <1>3

\* Its headers, without mechanism and with one.
LEMMA AareHeaders ==
  ASSUME NEW s, NEW title
  PROVE  LET m == AareOf(s, title)
         IN  /\ m # << >>
             /\ m[1] = Hdr("APP_CONTEXT") /\ m[2] = Oid("OID", 1, s.ref)
             /\ m[3] = Int("RESULT", ResultOf(s)) /\ m[4] = Int("SRC_DIAG", s.result)
             /\ s.auth = LOWEST => m[5] = UserInfo
             /\ s.auth # LOWEST => /\ m[5] = Bytes("RESP_AP_TITLE", TitleValue(title))
                                   /\ m[6] = Hdr("RESP_ACSE_REQ")
                                   /\ m[7] = Oid("RESP_MECHANISM", 2, s.auth)
                                   /\ m[8] = AuthValue("RESP_AUTH", s.stoc)
                                   /\ m[9] = UserInfo
<1>. DEFINE m == AareOf(s, title)
<1>1. CASE s.auth = LOWEST
  <2>1. m = << Hdr("APP_CONTEXT"), Oid("OID", 1, s.ref),
               Int("RESULT", ResultOf(s)), Int("SRC_DIAG", s.result) >> \o << >> \o << UserInfo >>
    BY <1>1 DEF AareOf
  <2>. QED  BY <1>1, <2>1, Appended5
<1>2. CASE s.auth # LOWEST
  <2>1. m = << Hdr("APP_CONTEXT"), Oid("OID", 1, s.ref),
               Int("RESULT", ResultOf(s)), Int("SRC_DIAG", s.result) >>
            \o << Bytes("RESP_AP_TITLE", TitleValue(title)), Hdr("RESP_ACSE_REQ"),
                  Oid("RESP_MECHANISM", 2, s.auth), AuthValue("RESP_AUTH", s.stoc) >>
            \o << UserInfo >>
    BY <1>2 DEF AareOf, TitleValue
  <2>. QED  BY <1>2, <2>1, Appended9
<1>. QED  BY <1>1, <1>2

LEMMA HeaderTags ==
  \A tag : /\ Hdr(tag).tag = tag
           /\ \A arc, id : Oid(tag, arc, id).tag = tag
           /\ \A id : Int(tag, id).tag = tag
           /\ \A d : Bytes(tag, d).tag = tag /\ AuthValue(tag, d).tag = tag
BY DEF Hdr, Oid, Int, Bytes, AuthValue

\* The state c of a client that was told all about the state s of the server.
Told(c, s, title) ==
    LET a == [c EXCEPT !.ref = s.ref, !.accepted = (ResultOf(s) = 0), !.result = s.result]
    IN  IF s.auth = LOWEST THEN a
        ELSE [a EXCEPT !.stitle = title, !.auth = s.auth, !.stoc = Overwrite(a.stoc, s.stoc)]

\* What an AARE that is decoded to its end leaves in the association.
LEMMA DecodedAare ==
  ASSUME NEW c, NEW s, NEW title, DecodeAare(c, AareOf(s, title)).ret
  PROVE  DecodeAare(c, AareOf(s, title)).asso = Told(c, s, title)
<1>. DEFINE m == AareOf(s, title)
            a2 == [c EXCEPT !.ref = s.ref]
            a3 == [a2 EXCEPT !.accepted = (ResultOf(s) = 0)]
            a4 == [a3 EXCEPT !.result = s.result]
            p0 == DecodeStart(c, m)
            Turn(p, i) == DecodeStep("AARE", m, p, AareChain[i])
            p1 == Turn(p0, 1)
            p2 == Turn(p1, 2)
            p3 == Turn(p2, 3)
            p4 == Turn(p3, 4)
            p5 == Turn(p4, 5)
            p6 == Turn(p5, 6)
            p7 == Turn(p6, 7)
            p8 == Turn(p7, 8)
            p9 == Turn(p8, 9)
            p10 == Turn(p9, 10)
<1>1. DecodeAare(c, m) = p10
  BY DEF DecodeAare, Decode5
<1>2. /\ AareChain[1].tag = "PROTO_VER" /\ AareChain[2].tag = "APP_CONTEXT"
      /\ AareChain[3].tag = "OID" /\ AareChain[4].tag = "RESULT"
      /\ AareChain[5].tag = "SRC_DIAG" /\ AareChain[6].tag = "RESP_AP_TITLE"
      /\ AareChain[7].tag = "RESP_ACSE_REQ" /\ AareChain[8].tag = "RESP_MECHANISM"
      /\ AareChain[9].tag = "RESP_AUTH" /\ AareChain[10].tag = "USER_INFO"
  BY DEF AareChain, Field
<1>3. \A p, i : Looping(p) => Looping(Turn(p, i)) /\ (Turn(p, i).ret => p.ret)
  BY Kept
<1>4. \A p, i : m[p.pos].tag # AareChain[i].tag => Turn(p, i) = p
  BY Passed
<1>5. \A p, i : Looping(p) /\ m[p.pos].tag = AareChain[i].tag /\ Turn(p, i).ret =>
         Turn(p, i).asso = Extract(p.asso, m[p.pos]) /\ Turn(p, i).pos = p.pos + 1
  BY Taken
<1>6. Looping(p0) /\ p0.asso = c /\ p0.pos = 1
  BY DEF DecodeStart, Looping
<1>7. /\ m[1] = Hdr("APP_CONTEXT") /\ m[2] = Oid("OID", 1, s.ref)
      /\ m[3] = Int("RESULT", ResultOf(s)) /\ m[4] = Int("SRC_DIAG", s.result)
      /\ s.auth = LOWEST => m[5] = UserInfo
      /\ s.auth # LOWEST => /\ m[5] = Bytes("RESP_AP_TITLE", TitleValue(title))
                            /\ m[6] = Hdr("RESP_ACSE_REQ")
                            /\ m[7] = Oid("RESP_MECHANISM", 2, s.auth)
                            /\ m[8] = AuthValue("RESP_AUTH", s.stoc)
                            /\ m[9] = UserInfo
  BY AareHeaders
<1>8. p10.ret
  BY <1>1
<1>. HIDE DEF m, Turn, p0
<1>9. /\ Looping(p1) /\ Looping(p2) /\ Looping(p3) /\ Looping(p4) /\ Looping(p5)
      /\ Looping(p6) /\ Looping(p7) /\ Looping(p8) /\ Looping(p9)
  BY <1>3, <1>6
<1>10. /\ p9.ret /\ p8.ret /\ p7.ret /\ p6.ret /\ p5.ret /\ p4.ret /\ p3.ret /\ p2.ret
  BY <1>3, <1>6, <1>8, <1>9
<1>. HIDE DEF p1, p2, p3, p4, p5, p6, p7, p8, p9, p10, a2, a3, a4
<1>11. p1 = p0
  BY <1>2, <1>4, <1>6, <1>7, HeaderTags DEF p1
<1>12. p2.asso = c /\ p2.pos = 2
  <2>1. p2.asso = Extract(c, Hdr("APP_CONTEXT")) /\ p2.pos = 1 + 1
    BY <1>2, <1>5, <1>6, <1>7, <1>10, <1>11, HeaderTags DEF p2
  <2>. QED  BY <2>1, ExtractPlain DEF Plain
<1>19. "OID" \in OidTags /\ "RESP_MECHANISM" \in OidTags
  BY DEF OidTags
<1>13. p3.asso = a2 /\ p3.pos = 3
  <2>1. p3.asso = Extract(c, Oid("OID", 1, s.ref)) /\ p3.pos = 2 + 1
    BY <1>2, <1>5, <1>7, <1>9, <1>10, <1>12, HeaderTags DEF p3
  <2>2. Extract(c, Oid("OID", 1, s.ref)) = [c EXCEPT !.ref = s.ref]
    BY <1>19, ExtractContext
  <2>. QED  BY <2>1, <2>2 DEF a2
<1>14. p4.asso = a3 /\ p4.pos = 4
  <2>1. p4.asso = Extract(a2, Int("RESULT", ResultOf(s))) /\ p4.pos = 3 + 1
    BY <1>2, <1>5, <1>7, <1>9, <1>10, <1>13, HeaderTags DEF p4
  <2>2. Extract(a2, Int("RESULT", ResultOf(s))) = [a2 EXCEPT !.accepted = (ResultOf(s) = 0)]
    BY <1>19, ExtractResult
  <2>. QED  BY <2>1, <2>2 DEF a3
<1>15. p5.asso = a4 /\ p5.pos = 5
  <2>1. p5.asso = Extract(a3, Int("SRC_DIAG", s.result)) /\ p5.pos = 4 + 1
    BY <1>2, <1>5, <1>7, <1>9, <1>10, <1>14, HeaderTags DEF p5
  <2>2. Extract(a3, Int("SRC_DIAG", s.result)) = [a3 EXCEPT !.result = s.result]
    BY <1>19, ExtractReason
  <2>. QED  BY <2>1, <2>2 DEF a4
<1>16. a4 = [c EXCEPT !.ref = s.ref, !.accepted = (ResultOf(s) = 0), !.result = s.result]
  BY DEF a2, a3, a4
<1>17. CASE s.auth = LOWEST
  <2>1. m[5] = Hdr("USER_INFO")
    BY <1>7, <1>17 DEF UserInfo
  <2>2. p6 = p5 /\ p7 = p5 /\ p8 = p5 /\ p9 = p5
    BY <1>2, <1>4, <1>15, <2>1, HeaderTags DEF p6, p7, p8, p9
  <2>3. p10.asso = Extract(a4, Hdr("USER_INFO"))
    BY <1>2, <1>5, <1>8, <1>9, <1>15, <2>1, <2>2, HeaderTags DEF p10
  <2>4. p10.asso = a4
    BY <2>3, ExtractPlain DEF Plain
  <2>. QED  BY <1>1, <1>16, <1>17, <2>4 DEF m, Told
<1>18. CASE s.auth # LOWEST
  <2>. DEFINE a6 == [a4 EXCEPT !.stitle = TitleValue(title).head]
              a8 == [a6 EXCEPT !.auth = s.auth]
              a9 == [a8 EXCEPT !.stoc = Overwrite(a8.stoc, s.stoc)]
  <2>. HIDE DEF a6, a8, a9
  <2>1. p6.asso = a6 /\ p6.pos = 6
    <3>1. p6.asso = Extract(a4, Bytes("RESP_AP_TITLE", TitleValue(title))) /\ p6.pos = 5 + 1
      BY <1>2, <1>5, <1>7, <1>9, <1>10, <1>15, <1>18, HeaderTags DEF p6
    <3>2. Extract(a4, Bytes("RESP_AP_TITLE", TitleValue(title))) = [a4 EXCEPT !.stitle = TitleValue(title).head]
      BY <1>19, ExtractTitle
    <3>. QED  BY <3>1, <3>2 DEF a6
  <2>2. p7.asso = a6 /\ p7.pos = 7
    <3>1. p7.asso = Extract(a6, Hdr("RESP_ACSE_REQ")) /\ p7.pos = 6 + 1
      BY <1>2, <1>5, <1>7, <1>9, <1>10, <1>18, <2>1, HeaderTags DEF p7
    <3>. QED  BY <3>1, ExtractPlain DEF Plain
  <2>3. p8.asso = a8 /\ p8.pos = 8
    <3>1. p8.asso = Extract(a6, Oid("RESP_MECHANISM", 2, s.auth)) /\ p8.pos = 7 + 1
      BY <1>2, <1>5, <1>7, <1>9, <1>10, <1>18, <2>2, HeaderTags DEF p8
    <3>2. Extract(a6, Oid("RESP_MECHANISM", 2, s.auth)) = [a6 EXCEPT !.auth = s.auth]
      BY <1>19, ExtractMechanism
    <3>. QED  BY <3>1, <3>2 DEF a8
  <2>4. p9.asso = a9 /\ p9.pos = 9
    <3>1. p9.asso = Extract(a8, AuthValue("RESP_AUTH", s.stoc)) /\ p9.pos = 8 + 1
      BY <1>2, <1>5, <1>7, <1>9, <1>10, <1>18, <2>3, HeaderTags DEF p9
    <3>2. Extract(a8, AuthValue("RESP_AUTH", s.stoc)) = [a8 EXCEPT !.stoc = Overwrite(a8.stoc, s.stoc)]
      BY <1>19, ExtractStoc
    <3>. QED  BY <3>1, <3>2 DEF a9
  <2>5. p10.asso = a9
    <3>1. m[9] = Hdr("USER_INFO")
      BY <1>7, <1>18 DEF UserInfo
    <3>2. p10.asso = Extract(a9, Hdr("USER_INFO"))
      BY <1>2, <1>5, <1>8, <1>9, <2>4, <3>1, HeaderTags DEF p10
    <3>. QED  BY <3>2, ExtractPlain DEF Plain
  <2>6. a9 = [a4 EXCEPT !.stitle = title, !.auth = s.auth, !.stoc = Overwrite(a4.stoc, s.stoc)]
    BY DEF a6, a8, a9, TitleValue
  <2>. QED  BY <1>1, <1>16, <1>18, <2>5, <2>6 DEF m, Told
<1>. QED  BY <1>17, <1>18

-----------------------------------------------------------------------------
(* An AARQ of this stack                                                    *)

LEMMA Appended ==
  ASSUME NEW S, NEW x \in Seq(S), NEW y \in Seq(S)
  PROVE  /\ x \o y \in Seq(S) /\ Len(x \o y) = Len(x) + Len(y)
         /\ \A i \in 1..Len(x) : (x \o y)[i] = x[i]
OBVIOUS

\* Its headers, when the client asks for a mechanism and whatever follows.
LEMMA AarqHeaders ==
  ASSUME NEW c \in AssoState, NEW tail \in Seq(Header), c.auth # LOWEST
  PROVE  LET m == AarqOf(c) \o tail
         IN  /\ m \in Seq(Header) /\ m # << >>
             /\ m[1] = Hdr("APP_CONTEXT") /\ m[2] = Oid("OID", 1, c.ref)
             /\ m[3] = Hdr("ACSE_REQU") /\ m[4] = Oid("MECHANISM", 2, c.auth)
             /\ m[5] = AuthValue("CALLING_AUTH", c.ctos) /\ m[6] = UserInfo
<1>. DEFINE h1 == Hdr("APP_CONTEXT")
            h2 == Oid("OID", 1, c.ref)
            h3 == Hdr("ACSE_REQU")
            h4 == Oid("MECHANISM", 2, c.auth)
            h5 == AuthValue("CALLING_AUTH", c.ctos)
            h6 == UserInfo
            x == << h1, h2 >> \o << h3, h4, h5 >> \o << h6 >>
<1>1. h1 \in Header /\ h3 \in Header /\ h6 \in Header
  BY PlainHeader DEF UserInfo, Tags
<1>2. h2 \in Header /\ h4 \in Header
  BY OidHeader DEF Tags
<1>3. h5 \in Header
  BY AuthHeader DEF AssoState, Tags
<1>4. AarqOf(c) = x
  BY DEF AarqOf
<1>. HIDE DEF h1, h2, h3, h4, h5, h6
<1>5. x \in Seq(Header) /\ Len(x) = 6
  BY <1>1, <1>2, <1>3
<1>6. x[1] = h1 /\ x[2] = h2 /\ x[3] = h3 /\ x[4] = h4 /\ x[5] = h5 /\ x[6] = h6
  OBVIOUS
<1>. HIDE DEF x
<1>7. /\ x \o tail \in Seq(Header) /\ Len(x \o tail) = 6 + Len(tail)
      /\ \A i \in 1..6 : (x \o tail)[i] = x[i]
  <2>1. /\ x \o tail \in Seq(Header) /\ Len(x \o tail) = Len(x) + Len(tail)
        /\ \A i \in 1..Len(x) : (x \o tail)[i] = x[i]
    BY <1>5, Appended, Zenon
  <2>. QED  BY <1>5, <2>1
<1>8. x \o tail # << >>
  BY <1>7
<1>9. /\ (x \o tail)[1] = h1 /\ (x \o tail)[2] = h2 /\ (x \o tail)[3] = h3
      /\ (x \o tail)[4] = h4 /\ (x \o tail)[5] = h5 /\ (x \o tail)[6] = h6
  BY <1>6, <1>7
<1>. QED  BY <1>4, <1>7, <1>8, <1>9 DEF h1, h2, h3, h4, h5, h6

\* An authentication value that is accepted is not too short.
LEMMA LongEnough ==
  ASSUME NEW tag \in {"CALLING_AUTH", "RESP_AUTH"}, NEW d, ExtractOk(AuthValue(tag, d))
  PROVE  d.size >= 8
<1>. DEFINE long == d.size >= 8
            h == AuthValue(tag, d)
<1>1. h = [Bytes(tag, d) EXCEPT !.ok = long]
  BY DEF AuthValue
<1>2. h.ok
  BY HeaderTags DEF ExtractOk, SkipTags, OidTags
<1>. HIDE DEF long
<1>3. h.ok = long
  BY <1>1 DEF Bytes, Hdr
<1>. QED  BY <1>2, <1>3 DEF long

\* What an AARQ that asks for a mechanism leaves in the association of the
\* server when it is decoded to its end.
LEMMA DecodedAarq ==
  ASSUME NEW s \in AssoState, NEW c \in AssoState, NEW tail \in Seq(Header),
         c.auth # LOWEST, DecodeAarq(s, AarqOf(c) \o tail).ret
  PROVE  LET q == DecodeAarq(s, AarqOf(c) \o tail).asso
         IN  q.auth = c.auth /\ q.ctos = Overwrite(s.ctos, c.ctos) /\ c.ctos.size >= 8
<1>. DEFINE m == AarqOf(c) \o tail
            a3 == [s EXCEPT !.ref = c.ref]
            a17 == [a3 EXCEPT !.auth = c.auth]
            a18 == [a17 EXCEPT !.ctos = Overwrite(a17.ctos, c.ctos)]
            p0 == DecodeStart(s, m)
            Turn(p, i) == DecodeStep("AARQ", m, p, AarqChain[i])
            Five(p, i) == Decode5("AARQ", m, p, AarqChain, i)
            p1 == Turn(p0, 1)
            p2 == Turn(p1, 2)
            p3 == Turn(p2, 3)
            p4 == Turn(p3, 4)
            p5 == Turn(p4, 5)
            p10 == Five(p5, 6)
            p15 == Five(p10, 11)
            p16 == Turn(p15, 16)
            p17 == Turn(p16, 17)
            p18 == Turn(p17, 18)
            p19 == Turn(p18, 19)
            p20 == Turn(p19, 20)
<1>1. DecodeAarq(s, m) = p20
  BY DEF DecodeAarq, Decode5
<1>2. /\ AarqChain[1].tag = "PROTO_VER" /\ AarqChain[2].tag = "APP_CONTEXT"
      /\ AarqChain[3].tag = "OID" /\ AarqChain[4].tag = "CALLED_AP_TITLE"
      /\ AarqChain[5].tag = "CALLED_AE_QUAL"
      /\ \A i \in 6..15 : AarqChain[i].tag # "ACSE_REQU"
      /\ AarqChain[16].tag = "ACSE_REQU" /\ AarqChain[17].tag = "MECHANISM"
      /\ AarqChain[18].tag = "CALLING_AUTH" /\ AarqChain[19].tag = "IMPL_INFO"
      /\ AarqChain[20].tag = "USER_INFO"
  BY DEF AarqChain, Field
<1>6. Looping(p0) /\ p0.asso = s /\ p0.pos = 1
  BY DEF DecodeStart, Looping
<1>7. /\ m[1] = Hdr("APP_CONTEXT") /\ m[2] = Oid("OID", 1, c.ref)
      /\ m[3] = Hdr("ACSE_REQU") /\ m[4] = Oid("MECHANISM", 2, c.auth)
      /\ m[5] = AuthValue("CALLING_AUTH", c.ctos) /\ m[6] = UserInfo
  BY AarqHeaders
<1>8. p20.ret
  BY <1>1
<1>. HIDE DEF m
<1>3. \A p, i : Looping(p) => Looping(Turn(p, i)) /\ (Turn(p, i).ret => p.ret)
  BY Kept
<1>4. \A p, i : m[p.pos].tag # AarqChain[i].tag => Turn(p, i) = p
  BY Passed
<1>5. \A p, i : Looping(p) /\ m[p.pos].tag = AarqChain[i].tag /\ Turn(p, i).ret =>
         /\ ExtractOk(m[p.pos])
         /\ Turn(p, i).asso = Extract(p.asso, m[p.pos]) /\ Turn(p, i).pos = p.pos + 1
  BY Taken
<1>9. \A p : m[p.pos].tag = "ACSE_REQU" => Five(p, 6) = p /\ Five(p, 11) = p
  <2>1. SUFFICES ASSUME NEW p, m[p.pos].tag = "ACSE_REQU"
                 PROVE  Five(p, 6) = p /\ Five(p, 11) = p
    OBVIOUS
  <2>2. \A i \in 6..15 : m[p.pos].tag # AarqChain[i].tag
    BY <1>2, <2>1
  <2>3. Five(p, 6) = p
    BY <2>2, PassedFive
  <2>4. Five(p, 11) = p
    BY <2>2, PassedFive
  <2>. QED  BY <2>3, <2>4
<1>19. \A p, i : Looping(p) => Looping(Five(p, i)) /\ (Five(p, i).ret => p.ret)
  BY KeptFive
<1>. HIDE DEF Turn, Five, p0
<1>10. /\ Looping(p1) /\ Looping(p2) /\ Looping(p3) /\ Looping(p4) /\ Looping(p5)
       /\ Looping(p10) /\ Looping(p15) /\ Looping(p16) /\ Looping(p17) /\ Looping(p18)
       /\ Looping(p19)
  BY <1>3, <1>6, <1>19
<1>20. /\ p19.ret /\ p18.ret /\ p17.ret /\ p16.ret /\ p15.ret /\ p10.ret
       /\ p5.ret /\ p4.ret /\ p3.ret /\ p2.ret
  BY <1>3, <1>8, <1>10, <1>19
<1>11. "OID" \in OidTags /\ "MECHANISM" \in OidTags
  BY DEF OidTags
<1>. HIDE DEF p1, p2, p3, p4, p5, p10, p15, p16, p17, p18, p19, p20, a3, a17, a18
<1>12. p1 = p0
  <2>1. m[1].tag = "APP_CONTEXT"
    BY <1>7, HeaderTags
  <2>. QED  BY <1>2, <1>4, <1>6, <2>1 DEF p1
<1>13. p2.asso = s /\ p2.pos = 2
  <2>1. p2.asso = Extract(s, Hdr("APP_CONTEXT")) /\ p2.pos = 1 + 1
    <3>1. m[p1.pos] = Hdr("APP_CONTEXT") /\ m[p1.pos].tag = "APP_CONTEXT" /\ p1.asso = s /\ p1.pos = 1
      BY <1>6, <1>7, <1>12, HeaderTags
    <3>2. Looping(p1) /\ m[p1.pos].tag = AarqChain[2].tag /\ Turn(p1, 2).ret
      BY <1>2, <1>10, <1>20, <3>1 DEF p2
    <3>3. Turn(p1, 2).asso = Extract(p1.asso, m[p1.pos]) /\ Turn(p1, 2).pos = p1.pos + 1
      BY <1>5, <3>2, Zenon
    <3>. QED  BY <3>1, <3>3 DEF p2
  <2>. QED  BY <2>1, ExtractPlain DEF Plain
<1>14. p3.asso = a3 /\ p3.pos = 3
  <2>1. p3.asso = Extract(s, Oid("OID", 1, c.ref)) /\ p3.pos = 2 + 1
    <3>1. m[p2.pos] = Oid("OID", 1, c.ref) /\ m[p2.pos].tag = "OID" /\ p2.asso = s /\ p2.pos = 2
      BY <1>7, <1>13, HeaderTags
    <3>2. Looping(p2) /\ m[p2.pos].tag = AarqChain[3].tag /\ Turn(p2, 3).ret
      BY <1>2, <1>10, <1>20, <3>1 DEF p3
    <3>3. Turn(p2, 3).asso = Extract(p2.asso, m[p2.pos]) /\ Turn(p2, 3).pos = p2.pos + 1
      BY <1>5, <3>2, Zenon
    <3>. QED  BY <3>1, <3>3 DEF p3
  <2>2. Extract(s, Oid("OID", 1, c.ref)) = [s EXCEPT !.ref = c.ref]
    BY <1>11, ExtractContext
  <2>. QED  BY <2>1, <2>2 DEF a3
<1>15. p15 = p3
  <2>1. m[3].tag = "ACSE_REQU"
    BY <1>7, HeaderTags
  <2>2. p4 = p3 /\ p5 = p3
    BY <1>2, <1>4, <1>14, <2>1 DEF p4, p5
  <2>3. p10 = p3
    BY <1>9, <1>14, <2>1, <2>2 DEF p10
  <2>. QED  BY <1>9, <1>14, <2>1, <2>3 DEF p15
<1>16. p16.asso = a3 /\ p16.pos = 4
  <2>1. p16.asso = Extract(a3, Hdr("ACSE_REQU")) /\ p16.pos = 3 + 1
    <3>1. m[p15.pos] = Hdr("ACSE_REQU") /\ m[p15.pos].tag = "ACSE_REQU" /\ p15.asso = a3 /\ p15.pos = 3
      BY <1>7, <1>14, <1>15, HeaderTags
    <3>2. Looping(p15) /\ m[p15.pos].tag = AarqChain[16].tag /\ Turn(p15, 16).ret
      BY <1>2, <1>10, <1>20, <3>1 DEF p16
    <3>3. Turn(p15, 16).asso = Extract(p15.asso, m[p15.pos]) /\ Turn(p15, 16).pos = p15.pos + 1
      BY <1>5, <3>2, Zenon
    <3>. QED  BY <3>1, <3>3 DEF p16
  <2>. QED  BY <2>1, ExtractPlain DEF Plain
<1>17. p17.asso = a17 /\ p17.pos = 5
  <2>1. p17.asso = Extract(a3, Oid("MECHANISM", 2, c.auth)) /\ p17.pos = 4 + 1
    <3>1. m[p16.pos] = Oid("MECHANISM", 2, c.auth) /\ m[p16.pos].tag = "MECHANISM" /\ p16.asso = a3 /\ p16.pos = 4
      BY <1>7, <1>16, HeaderTags
    <3>2. Looping(p16) /\ m[p16.pos].tag = AarqChain[17].tag /\ Turn(p16, 17).ret
      BY <1>2, <1>10, <1>20, <3>1 DEF p17
    <3>3. Turn(p16, 17).asso = Extract(p16.asso, m[p16.pos]) /\ Turn(p16, 17).pos = p16.pos + 1
      BY <1>5, <3>2, Zenon
    <3>. QED  BY <3>1, <3>3 DEF p17
  <2>2. Extract(a3, Oid("MECHANISM", 2, c.auth)) = [a3 EXCEPT !.auth = c.auth]
    BY <1>11, ExtractMechanism
  <2>. QED  BY <2>1, <2>2 DEF a17
<1>18. p18.asso = a18 /\ p18.pos = 6 /\ ExtractOk(AuthValue("CALLING_AUTH", c.ctos))
  <2>1. /\ p18.asso = Extract(a17, AuthValue("CALLING_AUTH", c.ctos)) /\ p18.pos = 5 + 1
        /\ ExtractOk(AuthValue("CALLING_AUTH", c.ctos))
    <3>1. m[p17.pos] = AuthValue("CALLING_AUTH", c.ctos) /\ m[p17.pos].tag = "CALLING_AUTH" /\ p17.asso = a17 /\ p17.pos = 5
      BY <1>7, <1>17, HeaderTags
    <3>2. Looping(p17) /\ m[p17.pos].tag = AarqChain[18].tag /\ Turn(p17, 18).ret
      BY <1>2, <1>10, <1>20, <3>1 DEF p18
    <3>3. ExtractOk(m[p17.pos]) /\ Turn(p17, 18).asso = Extract(p17.asso, m[p17.pos]) /\ Turn(p17, 18).pos = p17.pos + 1
      BY <1>5, <3>2, Zenon
    <3>. QED  BY <3>1, <3>3 DEF p18
  <2>2. Extract(a17, AuthValue("CALLING_AUTH", c.ctos)) = [a17 EXCEPT !.ctos = Overwrite(a17.ctos, c.ctos)]
    BY ExtractCtos
  <2>. QED  BY <2>1, <2>2 DEF a18
<1>21. p20.asso = a18
  <2>1. m[6] = Hdr("USER_INFO")
    BY <1>7 DEF UserInfo
  <2>2. p19 = p18
    BY <1>2, <1>4, <1>18, <2>1, HeaderTags DEF p19
  <2>3. p20.asso = Extract(a18, Hdr("USER_INFO"))
    <3>1. m[p19.pos] = Hdr("USER_INFO") /\ m[p19.pos].tag = "USER_INFO" /\ p19.asso = a18 /\ p19.pos = 6
      BY <1>18, <2>1, <2>2, HeaderTags
    <3>2. Looping(p19) /\ m[p19.pos].tag = AarqChain[20].tag /\ Turn(p19, 20).ret
      BY <1>2, <1>8, <1>10, <3>1 DEF p20
    <3>3. Turn(p19, 20).asso = Extract(p19.asso, m[p19.pos]) /\ Turn(p19, 20).pos = p19.pos + 1
      BY <1>5, <3>2, Zenon
    <3>. QED  BY <3>1, <3>3 DEF p20
  <2>. QED  BY <2>3, ExtractPlain DEF Plain
<1>22. a18.auth = c.auth /\ a18.ctos = Overwrite(s.ctos, c.ctos)
  BY DEF a3, a17, a18, AssoState
<1>23. c.ctos.size >= 8
  BY <1>18, LongEnough
<1>. QED  BY <1>1, <1>21, <1>22, <1>23 DEF m

-----------------------------------------------------------------------------
(* Both ends stay well typed                                                *)

\* The loop of an AARE is the one of an AARQ up to the user information.
LEMMA SameTurn ==
  ASSUME NEW m, NEW p, Looping(p), NEW entry
  PROVE  LET q == DecodeStep("AARE", m, p, entry)
             r == DecodeStep("AARQ", m, p, entry)
         IN  q.asso = r.asso /\ (entry.tag # "USER_INFO" => q = r)
<1>1. CASE p.ret /\ m[p.pos].tag = entry.tag /\ ExtractOk(m[p.pos])
  <2>1. /\ DecodeStep("AARE", m, p, entry) = Extracted("AARE", m, p)
        /\ DecodeStep("AARQ", m, p, entry) = Extracted("AARQ", m, p)
    BY <1>1 DEF DecodeStep
  <2>2. Extracted("AARE", m, p).asso = Extracted("AARQ", m, p).asso
    BY DEF Extracted
  <2>3. entry.tag # "USER_INFO" =>
          LeavesHeader("AARE", m[p.pos]) = LeavesHeader("AARQ", m[p.pos])
    BY <1>1 DEF LeavesHeader
  <2>4. entry.tag # "USER_INFO" => Extracted("AARE", m, p) = Extracted("AARQ", m, p)
    BY <2>3 DEF Extracted
  <2>. QED  BY <2>1, <2>2, <2>4
<1>2. CASE ~(p.ret /\ m[p.pos].tag = entry.tag /\ ExtractOk(m[p.pos]))
  <2>1. DecodeStep("AARE", m, p, entry) = DecodeStep("AARQ", m, p, entry)
    BY <1>2 DEF DecodeStep
  <2>. QED  BY <2>1
<1>. QED  BY <1>1, <1>2

LEMMA DecodeAareType ==
  ASSUME NEW s \in AssoState, NEW m \in Seq(Header)
  PROVE  DecodeAare(s, m).asso \in AssoState
<1>. DEFINE p0 == DecodeStart(s, m)
            Turn(p, i) == DecodeStep("AARE", m, p, AareChain[i])
            p1 == Turn(p0, 1)
            p2 == Turn(p1, 2)
            p3 == Turn(p2, 3)
            p4 == Turn(p3, 4)
            p5 == Turn(p4, 5)
            p6 == Turn(p5, 6)
            p7 == Turn(p6, 7)
            p8 == Turn(p7, 8)
            p9 == Turn(p8, 9)
            p10 == Turn(p9, 10)
<1>1. DecodeAare(s, m) = p10
  BY DEF DecodeAare, Decode5
<1>2. AarqLoop(m, p0)
  <2>1. m # << >> => 1 \in 1..Len(m)
    OBVIOUS
  <2>. QED  BY <2>1 DEF DecodeStart, AarqLoop
<1>3. \A p : AarqLoop(m, p) => Looping(p)
  BY DEF AarqLoop, Looping
<1>4. \A p, i : AarqLoop(m, p) => Turn(p, i).asso \in AssoState
  <2>1. SUFFICES ASSUME NEW p, NEW i, AarqLoop(m, p)
                 PROVE  Turn(p, i).asso \in AssoState
    OBVIOUS
  <2>2. AarqLoop(m, DecodeStep("AARQ", m, p, AareChain[i]))
    BY <2>1, DecodeStepType
  <2>3. Turn(p, i).asso = DecodeStep("AARQ", m, p, AareChain[i]).asso
    BY <1>3, <2>1, SameTurn
  <2>. QED  BY <2>2, <2>3 DEF AarqLoop
<1>5. \A p : \A i \in 1..9 : AarqLoop(m, p) => AarqLoop(m, Turn(p, i))
  <2>1. SUFFICES ASSUME NEW p, NEW i \in 1..9, AarqLoop(m, p)
                 PROVE  AarqLoop(m, Turn(p, i))
    OBVIOUS
  <2>2. AareChain[i].tag # "USER_INFO"
    BY DEF AareChain, Field
  <2>3. Turn(p, i) = DecodeStep("AARQ", m, p, AareChain[i])
    BY <1>3, <2>1, <2>2, SameTurn
  <2>. QED  BY <2>1, <2>3, DecodeStepType
<1>. HIDE DEF Turn, p0
<1>6. AarqLoop(m, p9)
  BY <1>2, <1>5
<1>. QED  BY <1>1, <1>4, <1>6

LEMMA AareType ==
  ASSUME NEW s \in AssoState
  PROVE  AareOf(s, Title) \in Seq(Header)
<1>. DEFINE h1 == Hdr("APP_CONTEXT")
            h2 == Oid("OID", 1, s.ref)
            h3 == Int("RESULT", ResultOf(s))
            h4 == Int("SRC_DIAG", s.result)
            h5 == Bytes("RESP_AP_TITLE", TitleValue(Title))
            h6 == Hdr("RESP_ACSE_REQ")
            h7 == Oid("RESP_MECHANISM", 2, s.auth)
            h8 == AuthValue("RESP_AUTH", s.stoc)
            h9 == UserInfo
<1>1. h1 \in Header /\ h6 \in Header /\ h9 \in Header
  BY PlainHeader DEF UserInfo, Tags
<1>2. h2 \in Header /\ h7 \in Header
  BY OidHeader DEF Tags
<1>3. h3 \in Header /\ h4 \in Header
  <2>1. ResultOf(s) \in Results /\ s.result \in Results
    BY DEF ResultOf, Results, AssoState
  <2>. QED  BY <2>1, IntHeader DEF Tags
<1>4. h5 \in Header
  <2>1. TitleValue(Title) \in Challenge
    BY ExchangeAssumption, ZeroAssumption DEF TitleValue, Challenge
  <2>. QED  BY <2>1, BytesHeader DEF Tags
<1>5. h8 \in Header
  BY AuthHeader DEF AssoState, Tags
<1>6. AareOf(s, Title) =
        << h1, h2, h3, h4 >>
        \o (IF s.auth = LOWEST THEN << >> ELSE << h5, h6, h7, h8 >>) \o << h9 >>
  BY DEF AareOf, TitleValue
<1>. HIDE DEF h1, h2, h3, h4, h5, h6, h7, h8, h9
<1>7. << h1, h2, h3, h4 >> \in Seq(Header) /\ << h5, h6, h7, h8 >> \in Seq(Header)
      /\ << h9 >> \in Seq(Header) /\ << >> \in Seq(Header)
  BY <1>1, <1>2, <1>3, <1>4, <1>5
<1>. QED  BY <1>6, <1>7

LEMMA DrawCtosFacts ==
  ASSUME NEW s \in AssoState, NEW password \in Blocks, NEW rnd \in Challenge
  PROVE  LET d == DrawCtos(s, password, rnd)
         IN  d \in AssoState /\ d.auth = s.auth
<1>. DEFINE pwd == [size |-> 8, head |-> password, tail |-> Zero]
            x == Overwrite(s.ctos, pwd)
            y == Overwrite(s.ctos, rnd)
<1>1. pwd \in Challenge /\ s.ctos \in Challenge
  BY ZeroAssumption DEF AssoState, Challenge
<1>. HIDE DEF pwd
<1>2. x \in Challenge /\ y \in Challenge
  BY <1>1, OverwriteType
<1>3. DrawCtos(s, password, rnd) \in {s, [s EXCEPT !.ctos = x], [s EXCEPT !.ctos = y]}
  BY DEF DrawCtos, pwd
<1>. HIDE DEF x, y
<1>. QED  BY <1>2, <1>3 DEF AssoState

LEMMA AarqType ==
  ASSUME NEW c \in AssoState, NEW tail \in Seq(Header)
  PROVE  AarqOf(c) \o tail \in Seq(Header)
<1>1. CASE c.auth # LOWEST
  BY <1>1, AarqHeaders
<1>2. CASE c.auth = LOWEST
  <2>. DEFINE h1 == Hdr("APP_CONTEXT")
              h2 == Oid("OID", 1, c.ref)
              h3 == UserInfo
  <2>1. h1 \in Header /\ h3 \in Header
    BY PlainHeader DEF UserInfo, Tags
  <2>2. h2 \in Header
    BY OidHeader DEF Tags
  <2>3. AarqOf(c) = << h1, h2 >> \o << >> \o << h3 >>
    BY <1>2 DEF AarqOf
  <2>. HIDE DEF h1, h2, h3
  <2>4. << h1, h2 >> \in Seq(Header) /\ << >> \in Seq(Header) /\ << h3 >> \in Seq(Header)
    BY <2>1, <2>2
  <2>. QED  BY <2>3, <2>4
<1>. QED  BY <1>1, <1>2

-----------------------------------------------------------------------------
(* The inductive invariant                                                  *)

ExchangeTypes ==
    /\ client \in AssoState /\ server \in AssoState /\ answered \in AssoState
    /\ net.body \in Seq(Header)

\* The mechanisms that authenticate somebody.
Mechanisms == AuthLevels \ {LOWEST}

\* An exchange that is under way has no verdict.
NoVerdictYet == net.kind # "NONE" => verdict = "NONE"

\* An AARQ under way is the one the client encoded from its present state.
RequestIsTheClients ==
    net.kind = "AARQ" /\ asked \in Mechanisms =>
        /\ client.auth = asked
        /\ \E tail \in Seq(Header) : net.body = AarqOf(client) \o tail

\* Client and server of the present exchange hold one mechanism and challenge.
SameRequest ==
    /\ answered.auth = asked
    /\ client.ctos.size >= 8 /\ SameValue(client.ctos, answered.ctos)

\* An AARE under way is the one of the server for the request of the client.
AnswerIsTheServers ==
    net.kind = "AARE" =>
        /\ net.body = AareOf(answered, Title)
        /\ asked \in Mechanisms => SameRequest

\* The server is open, or waits for a challenge, only for those who sent the password or, as
\* csm_asso_is_granted has it, no value at all.
GrantedKnows ==
    answered.cf # "IDLE" /\ answered.auth = LLS => Knows(answered, Password)

ExchangeInv ==
    /\ ExchangeTypes /\ NoVerdictYet
    /\ RequestIsTheClients /\ AnswerIsTheServers /\ GrantedKnows
    /\ AgreeOnOutcome /\ AgreeOnSession /\ AcceptedKnowsPassword

\* What the client holds does not change while it has no verdict.
LEMMA NoVerdictAgrees ==
  ASSUME verdict # "OK"
  PROVE  AgreeOnOutcome /\ AgreeOnSession /\ AcceptedKnowsPassword
BY DEF AgreeOnOutcome, AgreeOnSession, AcceptedKnowsPassword

LEMMA ReinitType ==
  ASSUME NEW s \in AssoState
  PROVE  Reinit(s) \in AssoState
<1>1. "IDLE" \in CfStates /\ LOWEST \in AuthLevels /\ 0 \in Refs /\ ERR_NULL \in Results
  BY DEF CfStates, LOWEST, AuthLevels, Refs, ERR_NULL, Results
<1>. QED  BY <1>1 DEF Reinit, AssoState

LEMMA RequestType ==
  ASSUME NEW s \in AssoState, NEW level \in AuthLevels
  PROVE  LET c == [s EXCEPT !.auth = level, !.ref = 1]
         IN  c \in AssoState /\ c.auth = level
<1>1. 1 \in Refs
  BY DEF Refs
<1>. QED  BY <1>1 DEF AssoState

LEMMA InitExchange == Init => ExchangeInv
<1>. SUFFICES ASSUME Init
              PROVE  ExchangeInv
  OBVIOUS
<1>1. AssoInit \in AssoState
  BY ZeroAssumption DEF AssoInit, AssoState, CfStates, AuthLevels, LOWEST, Refs, Results,
     ERR_NULL, NoChallenge, Challenge
<1>2. ExchangeTypes
  BY <1>1 DEF Init, ExchangeTypes, NoMessage
<1>3. NoVerdictYet /\ RequestIsTheClients /\ AnswerIsTheServers
  BY DEF Init, NoMessage, NoVerdictYet, RequestIsTheClients, AnswerIsTheServers
<1>4. GrantedKnows
  BY DEF Init, AssoInit, GrantedKnows
<1>. QED  BY <1>2, <1>3, <1>4, NoVerdictAgrees DEF Init, ExchangeInv

LEMMA ClientRequestsKeeps ==
  ASSUME ExchangeInv, NEW level \in Levels, NEW password \in ClientPasswords,
         NEW rnd \in Draws, NEW tail \in Tails, ClientRequests(level, password, rnd, tail)
  PROVE  ExchangeInv'
<1>. DEFINE c0 == [Reinit(client) EXCEPT !.auth = level, !.ref = 1]
            c == DrawCtos(c0, password, rnd)
<1>1. /\ client' = c /\ asked' = level /\ verdict' = "NONE"
      /\ net' = [kind |-> "AARQ", body |-> AarqOf(c) \o tail, fits |-> TRUE]
      /\ UNCHANGED <<server, answered>>
  BY DEF ClientRequests
<1>2. /\ level \in AuthLevels /\ password \in Blocks /\ rnd \in Challenge
      /\ tail \in Seq(Header)
  BY ExchangeAssumption
<1>3. c0 \in AssoState /\ c0.auth = level
  BY <1>2, ReinitType, RequestType DEF ExchangeInv, ExchangeTypes
<1>. HIDE DEF c0
<1>4. c \in AssoState /\ c.auth = level
  BY <1>2, <1>3, DrawCtosFacts
<1>. HIDE DEF c
<1>5. AarqOf(c) \o tail \in Seq(Header)
  BY <1>2, <1>4, AarqType
<1>6. ExchangeTypes'
  BY <1>1, <1>4, <1>5 DEF ExchangeInv, ExchangeTypes
<1>7. (NoVerdictYet /\ RequestIsTheClients /\ AnswerIsTheServers)'
  BY <1>1, <1>2, <1>4 DEF NoVerdictYet, RequestIsTheClients, AnswerIsTheServers
<1>8. GrantedKnows'
  BY <1>1 DEF ExchangeInv, GrantedKnows
<1>9. (AgreeOnOutcome /\ AgreeOnSession /\ AcceptedKnowsPassword)'
  BY <1>1 DEF AgreeOnOutcome, AgreeOnSession, AcceptedKnowsPassword
<1>. QED  BY <1>6, <1>7, <1>8, <1>9 DEF ExchangeInv

LEMMA ForeignRequestsKeeps ==
  ASSUME ExchangeInv, NEW m \in Foreign, ForeignRequests(m)
  PROVE  ExchangeInv'
<1>1. /\ client' = Reinit(client) /\ asked' = OTHER_CLIENT /\ verdict' = "NONE"
      /\ net' = [kind |-> "AARQ", body |-> m, fits |-> TRUE]
      /\ UNCHANGED <<server, answered>>
  BY DEF ForeignRequests
<1>2. Reinit(client) \in AssoState
  BY ReinitType DEF ExchangeInv, ExchangeTypes
<1>3. ExchangeTypes'
  BY <1>1, <1>2, ExchangeAssumption DEF ExchangeInv, ExchangeTypes
<1>4. (NoVerdictYet /\ RequestIsTheClients /\ AnswerIsTheServers)'
  BY <1>1 DEF NoVerdictYet, RequestIsTheClients, AnswerIsTheServers, Mechanisms, AuthLevels,
     OTHER_CLIENT
<1>5. GrantedKnows'
  BY <1>1 DEF ExchangeInv, GrantedKnows
<1>6. (AgreeOnOutcome /\ AgreeOnSession /\ AcceptedKnowsPassword)'
  BY <1>1 DEF AgreeOnOutcome, AgreeOnSession, AcceptedKnowsPassword
<1>. QED  BY <1>3, <1>4, <1>5, <1>6 DEF ExchangeInv

\* Messages that are dropped, and closing the server, leave the client alone.
LEMMA DropKeeps ==
  ASSUME ExchangeInv, net' = NoMessage \/ net' = net,
         server' \in AssoState, UNCHANGED <<client, verdict, asked, answered>>
  PROVE  ExchangeInv'
<1>1. ExchangeTypes'
  <2>1. << >> \in Seq(Header)
    OBVIOUS
  <2>2. net'.body \in {<< >>, net.body}
    BY DEF NoMessage
  <2>. QED  BY <2>1, <2>2 DEF ExchangeInv, ExchangeTypes
<1>2. (NoVerdictYet /\ RequestIsTheClients /\ AnswerIsTheServers /\ GrantedKnows)'
  <2>1. GrantedKnows'
    BY DEF ExchangeInv, GrantedKnows
  <2>2. CASE net' = net
    BY <2>1, <2>2 DEF ExchangeInv, NoVerdictYet, RequestIsTheClients, AnswerIsTheServers, SameRequest
  <2>3. CASE net' = NoMessage
    <3>1. net'.kind = "NONE"
      BY <2>3 DEF NoMessage
    <3>. QED  BY <2>1, <3>1 DEF NoVerdictYet, RequestIsTheClients, AnswerIsTheServers
  <2>. QED  BY <2>2, <2>3
<1>3. (AgreeOnOutcome /\ AgreeOnSession /\ AcceptedKnowsPassword)'
  BY DEF ExchangeInv, AgreeOnOutcome, AgreeOnSession, AcceptedKnowsPassword
<1>. QED  BY <1>1, <1>2, <1>3 DEF ExchangeInv

\* An overwritten challenge is the one that was received.
LEMMA OverwriteSame ==
  ASSUME NEW old \in Challenge, NEW new \in Challenge, new.size >= 8
  PROVE  SameValue(new, Overwrite(old, new)) /\ SameValue(Overwrite(old, new), new)
BY DEF SameValue, SameBytes, Overwrite, Challenge

\* The server answers, refuses to, or ignores what comes while it is open.
LEMMA ServerExecuteKeeps ==
  ASSUME ExchangeInv, NEW rnd \in Draws, ServerExecute(rnd)
  PROVE  ExchangeInv'
<1>. DEFINE p == DecodeAarq(server, net.body)
            g == Grant(p.asso, Password)
            s == DrawStoc(g, rnd)
<1>1. /\ p.asso \in AssoState /\ p.asso.cf = server.cf
  BY DecodeAarqType DEF ExchangeInv, ExchangeTypes
<1>2. /\ net.kind = "AARQ" /\ verdict = "NONE" /\ UNCHANGED <<client, asked>>
  BY DEF ServerExecute, ExchangeInv, NoVerdictYet
<1>3. CASE server.cf = "IDLE" /\ p.ret
  <2>1. /\ server' = s /\ answered' = s /\ verdict' = verdict
        /\ net' = [kind |-> "AARE", body |-> AareOf(s, Title), fits |-> LengthFits(s)]
    BY <1>3 DEF ServerExecute
  <2>2. rnd \in Challenge /\ Password \in Blocks
    BY ExchangeAssumption
  <2>. DEFINE q == p.asso
  <2>3. q \in AssoState /\ q.cf = "IDLE"
    BY <1>1, <1>3
  <2>4. asked \in Mechanisms =>
          /\ q.auth = asked /\ q.ctos = Overwrite(server.ctos, client.ctos)
          /\ client.ctos.size >= 8
    <3>1. SUFFICES ASSUME asked \in Mechanisms
                   PROVE  /\ q.auth = asked /\ q.ctos = Overwrite(server.ctos, client.ctos)
                          /\ client.ctos.size >= 8
      OBVIOUS
    <3>2. PICK tail \in Seq(Header) : net.body = AarqOf(client) \o tail
      BY <1>2, <3>1 DEF ExchangeInv, RequestIsTheClients
    <3>3. client.auth = asked /\ client.auth # LOWEST
      BY <1>2, <3>1 DEF ExchangeInv, RequestIsTheClients, Mechanisms
    <3>4. DecodeAarq(server, AarqOf(client) \o tail).ret
      BY <1>3, <3>2
    <3>. QED  BY <3>2, <3>3, <3>4, DecodedAarq DEF ExchangeInv, ExchangeTypes
  <2>. HIDE DEF p, q
  <2>5. /\ g \in AssoState /\ g.auth = q.auth /\ g.ctos = q.ctos
        /\ g.cf = "ASSOCIATED" => g.auth = LOWEST \/ (g.auth = LLS /\ Knows(g, Password))
        /\ g.cf = "PENDING" => g.auth = GMAC
    BY <2>2, <2>3, GrantFacts DEF q
  <2>. HIDE DEF g
  <2>6. /\ s \in AssoState /\ s.cf = g.cf /\ s.auth = g.auth /\ s.ctos = g.ctos
    BY <2>2, <2>5, DrawStocFacts
  <2>. HIDE DEF s
  <2>7. AareOf(s, Title) \in Seq(Header)
    BY <2>6, AareType
  <2>8. ExchangeTypes'
    BY <1>2, <2>1, <2>6, <2>7 DEF ExchangeInv, ExchangeTypes
  <2>9. GrantedKnows'
    <3>1. s.cf # "IDLE" /\ s.auth = LLS => g.cf = "ASSOCIATED" /\ g.auth = LLS
      BY <2>5, <2>6 DEF AssoState, CfStates, LLS, GMAC
    <3>2. s.cf # "IDLE" /\ s.auth = LLS => Knows(s, Password)
      BY <2>5, <2>6, <3>1 DEF Knows, LLS, LOWEST
    <3>. QED  BY <2>1, <3>2 DEF GrantedKnows
  <2>10. asked \in Mechanisms => SameValue(client.ctos, s.ctos)
    BY <2>4, <2>5, <2>6, OverwriteSame DEF ExchangeInv, ExchangeTypes, AssoState
  <2>11. (NoVerdictYet /\ RequestIsTheClients /\ AnswerIsTheServers)'
    BY <1>2, <2>1, <2>4, <2>5, <2>6, <2>10
       DEF NoVerdictYet, RequestIsTheClients, AnswerIsTheServers, SameRequest
  <2>12. (AgreeOnOutcome /\ AgreeOnSession /\ AcceptedKnowsPassword)'
    BY <1>2, <2>1 DEF AgreeOnOutcome, AgreeOnSession, AcceptedKnowsPassword
  <2>. QED  BY <2>8, <2>9, <2>11, <2>12 DEF ExchangeInv
<1>4. CASE server.cf = "IDLE" /\ ~p.ret
  <2>1. /\ server' = p.asso /\ net' = NoMessage /\ verdict' = "NOREPLY" /\ answered' = answered
    BY <1>4 DEF ServerExecute
  <2>. HIDE DEF p
  <2>2. << >> \in Seq(Header)
    OBVIOUS
  <2>3. ExchangeTypes'
    BY <1>1, <1>2, <2>1, <2>2 DEF ExchangeInv, ExchangeTypes, NoMessage
  <2>4. (NoVerdictYet /\ RequestIsTheClients /\ AnswerIsTheServers)'
    BY <2>1 DEF NoMessage, NoVerdictYet, RequestIsTheClients, AnswerIsTheServers
  <2>5. GrantedKnows'
    BY <2>1 DEF ExchangeInv, GrantedKnows
  <2>6. (AgreeOnOutcome /\ AgreeOnSession /\ AcceptedKnowsPassword)'
    BY <2>1 DEF AgreeOnOutcome, AgreeOnSession, AcceptedKnowsPassword
  <2>. QED  BY <2>3, <2>4, <2>5, <2>6 DEF ExchangeInv
<1>5. CASE server.cf # "IDLE"
  <2>1. net' = NoMessage /\ UNCHANGED <<server, answered, verdict>>
    BY <1>5 DEF ServerExecute
  <2>. QED  BY <1>2, <2>1, DropKeeps DEF ExchangeInv, ExchangeTypes
<1>. QED  BY <1>3, <1>4, <1>5

\* The client takes the answer over, or not.
LEMMA ClientDecodesKeeps ==
  ASSUME ExchangeInv, ClientDecodes
  PROVE  ExchangeInv'
<1>. DEFINE p == DecodeAare(client, AareOf(answered, Title))
            q == p.asso
<1>1. /\ net.kind = "AARE" /\ net.body = AareOf(answered, Title) /\ net' = NoMessage
      /\ UNCHANGED <<server, asked, answered>>
  BY DEF ClientDecodes, ExchangeInv, AnswerIsTheServers
<1>2. /\ client' \in {client, q} /\ (verdict' = "OK" => client' = q /\ p.ret)
  BY <1>1 DEF ClientDecodes
<1>3. q \in AssoState
  BY <1>1, DecodeAareType DEF ExchangeInv, ExchangeTypes
<1>. HIDE DEF q
<1>4. << >> \in Seq(Header)
  OBVIOUS
<1>5. ExchangeTypes'
  BY <1>1, <1>2, <1>3, <1>4 DEF ExchangeInv, ExchangeTypes, NoMessage
<1>6. (NoVerdictYet /\ RequestIsTheClients /\ AnswerIsTheServers)'
  BY <1>1 DEF NoMessage, NoVerdictYet, RequestIsTheClients, AnswerIsTheServers
<1>7. GrantedKnows'
  BY <1>1 DEF ExchangeInv, GrantedKnows
<1>8. (AgreeOnOutcome /\ AgreeOnSession /\ AcceptedKnowsPassword)'
  <2>1. CASE verdict' # "OK"
    BY <2>1 DEF AgreeOnOutcome, AgreeOnSession, AcceptedKnowsPassword
  <2>2. CASE verdict' = "OK"
    <3>1. client' = q /\ p.ret
      BY <1>2, <2>2
    <3>. DEFINE yes == ResultOf(answered) = 0
                a == [client EXCEPT !.ref = answered.ref, !.accepted = yes,
                                    !.result = answered.result]
                z == Overwrite(a.stoc, answered.stoc)
    <3>2. q = IF answered.auth = LOWEST THEN a
              ELSE [a EXCEPT !.stitle = Title, !.auth = answered.auth, !.stoc = z]
      <4>1. q = Told(client, answered, Title)
        BY <3>1, DecodedAare DEF q
      <4>. QED  BY <4>1 DEF Told
    <3>3. yes \in BOOLEAN /\ (yes <=> answered.cf # "IDLE")
      BY DEF ResultOf
    <3>. HIDE DEF yes
    <3>4. /\ a \in AssoState /\ a.ref = answered.ref /\ a.result = answered.result
          /\ a.accepted = yes /\ a.ctos = client.ctos
      BY <3>3 DEF ExchangeInv, ExchangeTypes, AssoState
    <3>. HIDE DEF a, z
    <3>5. /\ q.ref = a.ref /\ q.result = a.result /\ q.accepted = a.accepted /\ q.ctos = a.ctos
          /\ answered.auth # LOWEST => q.stitle = Title /\ q.auth = answered.auth /\ q.stoc = z
      BY <3>2, <3>4 DEF AssoState
    <3>6. AgreeOnOutcome'
      <4>1. client'.accepted = (answered'.cf # "IDLE")
        BY <1>1, <3>1, <3>3, <3>4, <3>5
      <4>2. client'.result = answered'.result /\ client'.ref = answered'.ref
        BY <1>1, <3>1, <3>4, <3>5
      <4>. QED  BY <4>1, <4>2 DEF AgreeOnOutcome
    <3>7. asked \in Mechanisms => SameRequest
      BY <1>1 DEF ExchangeInv, AnswerIsTheServers
    <3>8. AgreeOnSession'
      <4>1. SUFFICES ASSUME asked \in Mechanisms
                     PROVE  /\ answered.auth = asked /\ q.auth = asked
                            /\ q.stitle = Title /\ SameValue(q.ctos, answered.ctos)
                            /\ SameValue(q.stoc, answered.stoc)
        BY <1>1, <3>1 DEF AgreeOnSession, Mechanisms
      <4>2. answered.auth = asked /\ answered.auth # LOWEST
        BY <3>7, <4>1 DEF SameRequest, Mechanisms
      <4>3. SameValue(q.ctos, answered.ctos)
        BY <3>4, <3>5, <3>7, <4>1 DEF SameRequest
      <4>4. SameValue(z, answered.stoc)
        <5>1. a.stoc \in Challenge /\ answered.stoc \in Challenge
          BY <3>4 DEF ExchangeInv, ExchangeTypes, AssoState
        <5>. QED  BY <5>1 DEF z, SameValue, SameBytes, Overwrite, Challenge
      <4>. QED  BY <3>5, <4>2, <4>3, <4>4
    <3>9. AcceptedKnowsPassword'
      <4>1. SUFFICES ASSUME asked = LLS, q.accepted
                     PROVE  q.ctos.head = Password
        BY <1>1, <3>1 DEF AcceptedKnowsPassword
      <4>2. SameRequest
        BY <3>7, <4>1 DEF Mechanisms, AuthLevels, LLS, LOWEST
      <4>3. Knows(answered, Password)
        BY <3>3, <3>4, <3>5, <4>1, <4>2 DEF ExchangeInv, GrantedKnows, SameRequest
      <4>. QED  BY <3>4, <3>5, <4>2, <4>3 DEF Knows, SameRequest, SameValue, SameBytes
    <3>. QED  BY <3>6, <3>8, <3>9
  <2>. QED  BY <2>1, <2>2
<1>. QED  BY <1>5, <1>6, <1>7, <1>8 DEF ExchangeInv

\* Every step of an exchange keeps the invariant.
LEMMA NextExchange == ExchangeInv /\ [Next]_vars => ExchangeInv'
<1>. SUFFICES ASSUME ExchangeInv, [Next]_vars
              PROVE  ExchangeInv'
  OBVIOUS
<1>1. ASSUME NEW level \in Levels, NEW password \in ClientPasswords, NEW rnd \in Draws,
             NEW tail \in Tails, ClientRequests(level, password, rnd, tail)
      PROVE  ExchangeInv'
  BY <1>1, ClientRequestsKeeps
<1>2. ASSUME NEW m \in Foreign, ForeignRequests(m)
      PROVE  ExchangeInv'
  BY <1>2, ForeignRequestsKeeps
<1>3. ASSUME NEW rnd \in Draws, ServerExecute(rnd)
      PROVE  ExchangeInv'
  BY <1>3, ServerExecuteKeeps
<1>4. CASE ClientDecodes
  BY <1>4, ClientDecodesKeeps
<1>5. CASE Lose
  BY <1>5, DropKeeps DEF Lose, ExchangeInv, ExchangeTypes
<1>6. CASE ServerCloses
  <2>1. server' = [server EXCEPT !.cf = "IDLE"] /\ UNCHANGED <<client, net, verdict, asked, answered>>
    BY <1>6 DEF ServerCloses
  <2>2. server' \in AssoState
    BY <2>1 DEF ExchangeInv, ExchangeTypes, AssoState, CfStates
  <2>. QED  BY <2>1, <2>2, DropKeeps
<1>7. CASE UNCHANGED vars
  BY <1>7, DropKeeps DEF vars, ExchangeInv, ExchangeTypes
<1>. QED  BY <1>1, <1>2, <1>3, <1>4, <1>5, <1>6, <1>7 DEF Next

\* For any bytes behind a message, losses, foreign clients and earlier exchanges,
\* csm_asso_decoder makes the client believe of the outcome what the server decided.
THEOREM OutcomeAgreed == Spec => []AgreeOnOutcome
<1>1. ExchangeInv => AgreeOnOutcome
  BY DEF ExchangeInv
<1>. QED  BY <1>1, InitExchange, NextExchange, PTL DEF Spec

\* A client that asked for a mechanism and decoded the AARE shares the mechanism,
\* the title and both challenges with the server.
THEOREM SessionAgreed == Spec => []AgreeOnSession
<1>1. ExchangeInv => AgreeOnSession
  BY DEF ExchangeInv
<1>. QED  BY <1>1, InitExchange, NextExchange, PTL DEF Spec

\* Only the password of this exchange gets a client accepted at level LLS.
THEOREM PasswordKnown == Spec => []AcceptedKnowsPassword
<1>1. ExchangeInv => AcceptedKnowsPassword
  BY DEF ExchangeInv
<1>. QED  BY <1>1, InitExchange, NextExchange, PTL DEF Spec
=============================================================================
