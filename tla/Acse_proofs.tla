----------------------------- MODULE Acse_proofs -----------------------------
(***************************************************************************)
(* Facts about the codec of Acse, for every message and every association  *)
(* state: they hold for any blocks of bytes.                               *)
(***************************************************************************)
EXTENDS Acse, TLAPS

\* A state of the decoding loop over an AARQ m: the current header exists as
\* long as the loop runs.
AarqLoop(m, p) ==
    /\ p \in [asso: AssoState, pos: Nat, ret: BOOLEAN]
    /\ p.ret => p.pos \in 1..Len(m)

\* A challenge that is copied over a buffer leaves a challenge in it.
LEMMA OverwriteType ==
  ASSUME NEW old \in Challenge, NEW new \in Challenge
  PROVE  Overwrite(old, new) \in Challenge
  BY DEF Overwrite, Challenge

\* An extractor that accepts a header stores well-typed values and leaves the
\* state of the control function alone.
LEMMA ExtractType ==
  ASSUME NEW s \in AssoState, NEW h \in Header, ExtractOk(h)
  PROVE  /\ Extract(s, h) \in AssoState
         /\ Extract(s, h).cf = s.cf
<1>1. CASE h.tag \in OidTags /\ h.name = 1
  <2>1. h.id \in Refs
    BY <1>1 DEF ExtractOk, SkipTags, OidTags, Refs
  <2>2. Extract(s, h) = [s EXCEPT !.ref = h.id]
    BY <1>1 DEF Extract, OidTags
  <2>. QED  BY <2>1, <2>2 DEF AssoState
<1>2. CASE h.tag \in OidTags /\ h.name = 2
  <2>1. h.id \in AuthLevels
    BY <1>2 DEF ExtractOk, SkipTags, OidTags, AuthLevels
  <2>2. Extract(s, h) = [s EXCEPT !.auth = h.id]
    BY <1>2 DEF Extract, OidTags
  <2>. QED  BY <2>1, <2>2 DEF AssoState
<1>3. CASE h.tag \in OidTags /\ h.name = 0
  BY <1>3 DEF ExtractOk, SkipTags, OidTags
<1>4. CASE h.tag \notin OidTags
  <2>1. Overwrite(s.ctos, h.data) \in Challenge /\ Overwrite(s.stoc, h.data) \in Challenge
    BY OverwriteType DEF AssoState, Header
  <2>2. h.data.head \in Blocks /\ h.id \in Results /\ h.ok \in BOOLEAN
    BY DEF Header, Challenge
  <2>. QED  BY <1>4, <2>1, <2>2 DEF Extract, AssoState
<1>. QED  BY <1>1, <1>2, <1>3, <1>4 DEF Header

\* One turn of the loop keeps it a loop over m, and the control function in
\* the state it is in.
LEMMA DecodeStepType ==
  ASSUME NEW m \in Seq(Header), NEW p, AarqLoop(m, p), NEW entry
  PROVE  LET q == DecodeStep("AARQ", m, p, entry)
         IN  AarqLoop(m, q) /\ q.asso.cf = p.asso.cf
<1>. DEFINE q == DecodeStep("AARQ", m, p, entry)
            h == m[p.pos]
<1>1. CASE ~p.ret \/ h.tag # entry.tag
  <2>1. q = p  BY <1>1 DEF DecodeStep
  <2>. QED  BY <2>1
<1>2. CASE p.ret /\ h.tag = entry.tag /\ ~ExtractOk(h)
  <2>1. q = Refused(p)  BY <1>2 DEF DecodeStep
  <2>2. AarqLoop(m, Refused(p)) /\ Refused(p).asso.cf = p.asso.cf
    BY DEF AarqLoop, Refused
  <2>. QED  BY <2>1, <2>2
<1>3. CASE p.ret /\ h.tag = entry.tag /\ ExtractOk(h)
  <2>1. h \in Header /\ p.asso \in AssoState /\ p.pos \in 1..Len(m)
    BY <1>3 DEF AarqLoop
  <2>2. Extract(p.asso, h) \in AssoState /\ Extract(p.asso, h).cf = p.asso.cf
    BY <1>3, <2>1, ExtractType
  <2>3. q = Extracted("AARQ", m, p)  BY <1>3 DEF DecodeStep
  <2>4. ~LeavesHeader("AARQ", h)  BY DEF LeavesHeader
  <2>. DEFINE more == p.pos < Len(m) \/ LeavesHeader("AARQ", h)
              x == Extract(p.asso, h)
  <2>5. more \in BOOLEAN /\ (more => p.pos + 1 \in 1..Len(m)) /\ p.pos + 1 \in Nat
    BY <2>1, <2>4
  <2>6. Extracted("AARQ", m, p) = [asso |-> x, pos |-> p.pos + 1, ret |-> more]
    BY Zenon DEF Extracted
  <2>. HIDE DEF more, x
  <2>7. /\ Extracted("AARQ", m, p) \in [asso: AssoState, pos: Nat, ret: BOOLEAN]
        /\ Extracted("AARQ", m, p).asso.cf = p.asso.cf
        /\ Extracted("AARQ", m, p).ret = more
        /\ Extracted("AARQ", m, p).pos = p.pos + 1
    <3>1. x \in AssoState /\ x.cf = p.asso.cf  BY <2>2 DEF x
    <3>. QED  BY <2>5, <2>6, <3>1
  <2>. QED  BY <2>3, <2>5, <2>7 DEF AarqLoop
<1>. QED
  <2>1. p.ret \in BOOLEAN  BY DEF AarqLoop
  <2>. QED  BY <1>1, <1>2, <1>3, <2>1

LEMMA Decode5Type ==
  ASSUME NEW m \in Seq(Header), NEW p, AarqLoop(m, p), NEW chain, NEW i
  PROVE  LET q == Decode5("AARQ", m, p, chain, i)
         IN  AarqLoop(m, q) /\ q.asso.cf = p.asso.cf
<1>. DEFINE p1 == DecodeStep("AARQ", m, p, chain[i])
            p2 == DecodeStep("AARQ", m, p1, chain[i + 1])
            p3 == DecodeStep("AARQ", m, p2, chain[i + 2])
            p4 == DecodeStep("AARQ", m, p3, chain[i + 3])
            p5 == DecodeStep("AARQ", m, p4, chain[i + 4])
<1>1. AarqLoop(m, p1) /\ p1.asso.cf = p.asso.cf   BY DecodeStepType
<1>. HIDE DEF p1
<1>2. AarqLoop(m, p2) /\ p2.asso.cf = p1.asso.cf  BY <1>1, DecodeStepType
<1>. HIDE DEF p2
<1>3. AarqLoop(m, p3) /\ p3.asso.cf = p2.asso.cf  BY <1>2, DecodeStepType
<1>. HIDE DEF p3
<1>4. AarqLoop(m, p4) /\ p4.asso.cf = p3.asso.cf  BY <1>3, DecodeStepType
<1>. HIDE DEF p4
<1>5. AarqLoop(m, p5) /\ p5.asso.cf = p4.asso.cf  BY <1>4, DecodeStepType
<1>6. p5 = Decode5("AARQ", m, p, chain, i)        BY DEF Decode5, p1, p2, p3, p4
<1>. QED  BY <1>1, <1>2, <1>3, <1>4, <1>5, <1>6

\* Whatever an AARQ holds, decoding it leaves a well-typed association whose
\* control function has not moved, when it fails half way too.
LEMMA DecodeAarqType ==
  ASSUME NEW s \in AssoState, NEW m \in Seq(Header)
  PROVE  /\ DecodeAarq(s, m).asso \in AssoState
         /\ DecodeAarq(s, m).asso.cf = s.cf
         /\ DecodeAarq(s, m).ret \in BOOLEAN
<1>. DEFINE p0 == DecodeStart(s, m)
            p1 == Decode5("AARQ", m, p0, AarqChain, 1)
            p2 == Decode5("AARQ", m, p1, AarqChain, 6)
            p3 == Decode5("AARQ", m, p2, AarqChain, 11)
            p4 == Decode5("AARQ", m, p3, AarqChain, 16)
<1>0. AarqLoop(m, p0) /\ p0.asso.cf = s.cf
  <2>1. m # << >> => 1 \in 1..Len(m)  OBVIOUS
  <2>. QED  BY <2>1 DEF DecodeStart, AarqLoop
<1>. HIDE DEF p0
<1>1. AarqLoop(m, p1) /\ p1.asso.cf = p0.asso.cf  BY <1>0, Decode5Type
<1>. HIDE DEF p1
<1>2. AarqLoop(m, p2) /\ p2.asso.cf = p1.asso.cf  BY <1>1, Decode5Type
<1>. HIDE DEF p2
<1>3. AarqLoop(m, p3) /\ p3.asso.cf = p2.asso.cf  BY <1>2, Decode5Type
<1>. HIDE DEF p3
<1>4. AarqLoop(m, p4) /\ p4.asso.cf = p3.asso.cf  BY <1>3, Decode5Type
<1>5. p4 = DecodeAarq(s, m)  BY DEF DecodeAarq, p0, p1, p2, p3
<1>. QED  BY <1>0, <1>1, <1>2, <1>3, <1>4, <1>5 DEF AarqLoop

\* The password of the access point is the beginning of the received value,
\* if eight bytes were received at all.
Knows(s, password) == s.ctos.size >= 8 => s.ctos.head = password

\* The values a decision writes.
LEMMA ResultConstants ==
  /\ ERR_NULL \in Results /\ AUTH_NOT_RECOGNIZED \in Results
  /\ ERR_AUTH_FAILURE \in Results /\ AUTH_REQUIRED \in Results
  /\ "PENDING" \in CfStates /\ "ASSOCIATED" \in CfStates
  BY DEF Results, CfStates, ERR_NULL, AUTH_NOT_RECOGNIZED, ERR_AUTH_FAILURE, AUTH_REQUIRED

\* The grant decision, on a closed association: it opens without authentication
\* or, with LLS, with the password or a value of fewer than eight bytes, it stays
\* pending for a challenge, and it keeps what the AARQ set.
LEMMA GrantFacts ==
  ASSUME NEW s \in AssoState, NEW password \in Blocks, s.cf = "IDLE"
  PROVE  LET g == Grant(s, password)
         IN  /\ g \in AssoState
             /\ g.cf = "ASSOCIATED" => g.auth = LOWEST \/ (g.auth = LLS /\ Knows(g, password))
             /\ g.cf = "PENDING" => g.auth = GMAC
             /\ g.auth = s.auth /\ g.ref = s.ref /\ g.ctos = s.ctos
<1>. DEFINE g == Grant(s, password)
            w == [s EXCEPT !.stoc.head = password]
<1>0. /\ w \in AssoState /\ w.cf = "IDLE" /\ w.auth = s.auth /\ w.ref = s.ref
      /\ w.ctos = s.ctos /\ w.stoc.head = password
  BY DEF AssoState, Challenge
<1>. HIDE DEF w
<1>. USE ResultConstants
<1>1. CASE s.auth = LOWEST
  <2>1. g = [s EXCEPT !.cf = "ASSOCIATED", !.result = ERR_NULL]
    BY <1>1 DEF Grant, LOWEST, LLS, GMAC
  <2>. HIDE DEF g
  <2>2. /\ g \in AssoState /\ g.cf = "ASSOCIATED"
        /\ g.auth = s.auth /\ g.ref = s.ref /\ g.ctos = s.ctos
    BY <2>1 DEF AssoState
  <2>. QED  BY <1>1, <2>2 DEF g
<1>2. CASE s.auth = LLS /\ SameBytes(w.stoc, s.ctos)
  <2>1. g = [w EXCEPT !.cf = "ASSOCIATED", !.result = ERR_NULL]
    BY <1>2 DEF Grant, LOWEST, LLS, GMAC, w
  <2>. HIDE DEF g
  <2>2. /\ g \in AssoState /\ g.cf = "ASSOCIATED"
        /\ g.auth = s.auth /\ g.ref = s.ref /\ g.ctos = s.ctos
    BY <1>0, <2>1 DEF AssoState
  <2>3. Knows(g, password)
    BY <1>0, <1>2, <2>2 DEF SameBytes, Knows
  <2>. QED  BY <1>2, <2>2, <2>3 DEF g
<1>3. CASE s.auth = LLS /\ ~SameBytes(w.stoc, s.ctos)
  <2>1. g = [w EXCEPT !.result = ERR_AUTH_FAILURE]
    BY <1>3 DEF Grant, LOWEST, LLS, GMAC, w
  <2>. HIDE DEF g
  <2>2. /\ g \in AssoState /\ g.cf = "IDLE"
        /\ g.auth = s.auth /\ g.ref = s.ref /\ g.ctos = s.ctos
    BY <1>0, <2>1 DEF AssoState
  <2>. QED  BY <2>2 DEF g
<1>4. CASE s.auth = GMAC
  <2>1. g = [s EXCEPT !.cf = "PENDING", !.result = AUTH_REQUIRED]
    BY <1>4 DEF Grant, LOWEST, LLS, GMAC
  <2>. HIDE DEF g
  <2>2. /\ g \in AssoState /\ g.cf = "PENDING"
        /\ g.auth = s.auth /\ g.ref = s.ref /\ g.ctos = s.ctos
    BY <2>1 DEF AssoState
  <2>. QED  BY <1>4, <2>2 DEF g
<1>5. CASE s.auth \notin {LOWEST, LLS, GMAC}
  <2>1. g = [s EXCEPT !.result = AUTH_NOT_RECOGNIZED]
    BY <1>5 DEF Grant, LOWEST, LLS, GMAC
  <2>. HIDE DEF g
  <2>2. /\ g \in AssoState /\ g.cf = "IDLE"
        /\ g.auth = s.auth /\ g.ref = s.ref /\ g.ctos = s.ctos
    BY <2>1 DEF AssoState
  <2>. QED  BY <2>2 DEF g
<1>. QED  BY <1>1, <1>2, <1>3, <1>4, <1>5

\* Drawing the challenge of the server changes that challenge only.
LEMMA DrawStocFacts ==
  ASSUME NEW s \in AssoState, NEW rnd \in Challenge
  PROVE  LET d == DrawStoc(s, rnd)
         IN  /\ d \in AssoState
             /\ d.cf = s.cf /\ d.auth = s.auth /\ d.ref = s.ref /\ d.ctos = s.ctos
<1>. DEFINE drawn == [rnd EXCEPT !.size = s.ctos.size]
            x == Overwrite(s.stoc, drawn)
<1>1. drawn \in Challenge /\ s.stoc \in Challenge
  BY DEF AssoState, Challenge
<1>2. x \in Challenge
  BY <1>1, OverwriteType
<1>3. DrawStoc(s, rnd) \in {s, [s EXCEPT !.stoc = x]}
  BY DEF DrawStoc
<1>. HIDE DEF x
<1>. QED  BY <1>2, <1>3 DEF AssoState

=============================================================================
