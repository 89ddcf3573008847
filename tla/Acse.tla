-------------------------------- MODULE Acse --------------------------------
(***************************************************************************)
(* The association control codec and decision of csm_association.c: the    *)
(* table driven decoder and encoder of the AARQ and AARE APDUs, and the    *)
(* grant decision.                                                         *)
(*                                                                         *)
(* An APDU is the sequence of BER headers its decoder meets, in order.  A  *)
(* header carries what the extraction of its contents tells apart:         *)
(*   tag   the field (the context tag or universal type of the header)     *)
(*   ok    the contents have the length and format the extractor asks for  *)
(*   name  for an object identifier, its arc (1 context, 2 mechanism)      *)
(*   id    for an object identifier or an integer, its value               *)
(*   data  for an authentication value or a title, its bytes               *)
(*                                                                         *)
(* A byte string of the handshake is two blocks: its first 8 bytes, which  *)
(* is the size of a password and of a title, and the 56 bytes after them.  *)
(* Its size is abstracted to 0 (never received), 8 and 64, the bounds of   *)
(* acse_auth_value_decoder.                                                *)
(***************************************************************************)
EXTENDS Naturals, Sequences

CONSTANTS
    Blocks,     \* values of a block of bytes
    Zero        \* the block of a buffer that was never written

ASSUME ZeroAssumption == Zero \in Blocks

-----------------------------------------------------------------------------
(* Data                                                                     *)

CfStates == {"IDLE", "PENDING", "ASSOCIATED"}

LOWEST == 0
LLS    == 1
GMAC   == 5
AuthLevels == 0..6
Refs       == 0..4      \* NO_REF, LN_REF, SN_REF and the two ciphered ones

\* enum csm_asso_result, as far as the code produces it.
ERR_NULL            == 0
AUTH_NOT_RECOGNIZED == 11
ERR_AUTH_FAILURE    == 13
AUTH_REQUIRED       == 14
Results == 0..14

Challenge == [size: {0, 8, 64}, head: Blocks, tail: Blocks]

NoChallenge == [size |-> 0, head |-> Zero, tail |-> Zero]

AssoState ==
    [cf: CfStates, auth: AuthLevels, ref: Refs, result: Results,
     accepted: BOOLEAN, ctitle: Blocks, stitle: Blocks,
     ctos: Challenge, stoc: Challenge]

\* Storage of an association before csm_asso_init, which is zeroed by the
\* loader, and after it: csm_asso_init writes cf, auth, ref and result only.
AssoInit ==
    [cf |-> "IDLE", auth |-> LOWEST, ref |-> 0, result |-> ERR_NULL,
     accepted |-> FALSE, ctitle |-> Zero, stitle |-> Zero,
     ctos |-> NoChallenge, stoc |-> NoChallenge]

Tags ==
    {"PROTO_VER", "APP_CONTEXT", "OID", "CALLED_AP_TITLE", "CALLED_AE_QUAL",
     "CALLED_AP_INVOC", "INTEGER", "CALLED_AE_INVOC", "CALLING_AP_TITLE",
     "CALLING_AE_QUAL", "CALLING_AP_INVOC", "CALLING_AE_INVOC", "ACSE_REQU",
     "MECHANISM", "CALLING_AUTH", "IMPL_INFO", "USER_INFO", "RESULT",
     "SRC_DIAG", "RESP_AP_TITLE", "RESP_ACSE_REQ", "RESP_MECHANISM",
     "RESP_AUTH", "OTHER"}

Header == [tag: Tags, ok: BOOLEAN, name: 0..2, id: Results, data: Challenge]

Hdr(tag)          == [tag |-> tag, ok |-> TRUE, name |-> 0, id |-> 0,
                      data |-> NoChallenge]
Bad(tag)          == [Hdr(tag) EXCEPT !.ok = FALSE]
Oid(tag, arc, id) == [Hdr(tag) EXCEPT !.name = arc, !.id = id]
Int(tag, n)       == [Hdr(tag) EXCEPT !.id = n]
Bytes(tag, d)     == [Hdr(tag) EXCEPT !.data = d]

-----------------------------------------------------------------------------
(* The decoder                                                              *)

\* An entry of a chain.
Field(tag, context) == [tag |-> tag, context |-> context]

\* aarq_decoder_chain
AarqChain ==
    << Field("PROTO_VER", "OPT"),          Field("APP_CONTEXT", "ALWAYS"),
       Field("OID", "ALWAYS"),             Field("CALLED_AP_TITLE", "SKIP"),
       Field("CALLED_AE_QUAL", "SKIP"),    Field("CALLED_AP_INVOC", "SKIP"),
       Field("INTEGER", "SKIP"),           Field("CALLED_AE_INVOC", "SKIP"),
       Field("INTEGER", "SKIP"),           Field("CALLING_AP_TITLE", "OPT"),
       Field("CALLING_AE_QUAL", "SKIP"),   Field("CALLING_AP_INVOC", "SKIP"),
       Field("INTEGER", "SKIP"),           Field("CALLING_AE_INVOC", "SKIP"),
       Field("INTEGER", "SKIP"),           Field("ACSE_REQU", "OPT"),
       Field("MECHANISM", "OPT"),          Field("CALLING_AUTH", "OPT"),
       Field("IMPL_INFO", "OPT"),          Field("USER_INFO", "OPT") >>

\* aare_decoder_chain
AareChain ==
    << Field("PROTO_VER", "OPT"),          Field("APP_CONTEXT", "ALWAYS"),
       Field("OID", "ALWAYS"),             Field("RESULT", "ALWAYS"),
       Field("SRC_DIAG", "ALWAYS"),        Field("RESP_AP_TITLE", "SEC"),
       Field("RESP_ACSE_REQ", "SEC"),      Field("RESP_MECHANISM", "SEC"),
       Field("RESP_AUTH", "SEC"),          Field("USER_INFO", "ALWAYS") >>

OidTags   == {"OID", "MECHANISM", "RESP_MECHANISM"}

\* acse_skip_decoder: contents of a primitive field are jumped over; those of
\* a constructed one are not, they are the next headers of the APDU.
SkipTags  == {"CALLED_AP_TITLE", "CALLED_AE_QUAL", "CALLED_AP_INVOC",
              "INTEGER", "CALLED_AE_INVOC", "CALLING_AE_QUAL",
              "CALLING_AP_INVOC", "CALLING_AE_INVOC", "IMPL_INFO"}

\* The extractor of a field accepts its contents.  acse_result_decoder takes
\* a result it could not read for an acceptance, so it never fails.
ExtractOk(h) ==
    \/ h.tag \in SkipTags \cup {"RESULT"}
    \/ /\ h.tag \notin OidTags
       /\ h.ok
    \/ /\ h.tag \in OidTags
       /\ h.ok
       /\ \/ h.name = 1 /\ h.id \in Refs \ {0}
          \/ h.name = 2 /\ h.id \in AuthLevels \ {LOWEST}

\* Copy of size bytes over a buffer: what is beyond them stays.
Overwrite(old, new) ==
    [size |-> new.size,
     head |-> IF new.size = 0 THEN old.head ELSE new.head,
     tail |-> IF new.size = 64 THEN new.tail ELSE old.tail]

\* Variant: an authentication value is stored whatever its direction.
ExtractOneWay(s, h) ==
    CASE h.tag \in OidTags /\ h.name = 1 -> [s EXCEPT !.ref = h.id]
      [] h.tag \in OidTags /\ h.name = 2 -> [s EXCEPT !.auth = h.id]
      [] h.tag = "CALLING_AP_TITLE" -> [s EXCEPT !.ctitle = h.data.head]
      [] h.tag = "RESP_AP_TITLE"    -> [s EXCEPT !.stitle = h.data.head]
      [] h.tag \in {"CALLING_AUTH", "RESP_AUTH"} ->
            [s EXCEPT !.ctos = Overwrite(s.ctos, h.data)]
      [] h.tag = "RESULT"           -> [s EXCEPT !.accepted = ~h.ok \/ h.id = 0]
      [] h.tag = "SRC_DIAG"         -> [s EXCEPT !.result = h.id]
      [] OTHER -> s

\* What the extractor of a field stores in the association.
Extract(s, h) ==
    CASE h.tag \in OidTags /\ h.name = 1 -> [s EXCEPT !.ref = h.id]
      [] h.tag \in OidTags /\ h.name = 2 -> [s EXCEPT !.auth = h.id]
      [] h.tag = "CALLING_AP_TITLE" -> [s EXCEPT !.ctitle = h.data.head]
      [] h.tag = "RESP_AP_TITLE"    -> [s EXCEPT !.stitle = h.data.head]
      [] h.tag = "CALLING_AUTH"     -> [s EXCEPT !.ctos = Overwrite(s.ctos, h.data)]
      [] h.tag = "RESP_AUTH"        -> [s EXCEPT !.stoc = Overwrite(s.stoc, h.data)]
      [] h.tag = "RESULT"           -> [s EXCEPT !.accepted = ~h.ok \/ h.id = 0]
      [] h.tag = "SRC_DIAG"         -> [s EXCEPT !.result = h.id]
      [] OTHER -> s

\* The conformance block decoder stops one byte short, so the user
\* information leaves bytes behind it: one in an AARQ, too few for a header,
\* and three in an AARE, which read as a header.  (With short names they do not, and the
\* client refuses the AARE; here it decodes that one too.)
LeavesHeader(kind, h) == kind = "AARE" /\ h.tag = "USER_INFO"

\* A header is refused, or extracted and the next one read.
Refused(p) == [p EXCEPT !.ret = FALSE]

Extracted(kind, m, p) ==
    [asso |-> Extract(p.asso, m[p.pos]),
     pos  |-> p.pos + 1,
     ret  |-> p.pos < Len(m) \/ LeavesHeader(kind, m[p.pos])]

\* One turn of the decoding loop, for one entry of the chain.  The next
\* header is read after every field that was extracted, the last included; an
\* entry that is not the one of the current header is passed whatever its
\* context is.
DecodeStep(kind, m, p, entry) ==
    IF ~p.ret \/ m[p.pos].tag # entry.tag THEN p
    ELSE IF ExtractOk(m[p.pos]) THEN Extracted(kind, m, p)
    ELSE Refused(p)

\* Five turns of the loop, from entry i of the chain.
Decode5(kind, m, p, chain, i) ==
    DecodeStep(kind, m,
        DecodeStep(kind, m,
            DecodeStep(kind, m,
                DecodeStep(kind, m,
                    DecodeStep(kind, m, p, chain[i]),
                    chain[i + 1]),
                chain[i + 2]),
            chain[i + 3]),
        chain[i + 4])

DecodeStart(s, m) == [asso |-> s, pos |-> 1, ret |-> m # << >>]

\* csm_asso_decoder, once the header of the APDU itself is found right.  What
\* was stored stays stored when a later field is refused.
DecodeAarq(s, m) ==
    LET k == "AARQ" c == AarqChain
    IN  Decode5(k, m, Decode5(k, m, Decode5(k, m, Decode5(k, m,
            DecodeStart(s, m), c, 1), c, 6), c, 11), c, 16)

DecodeAare(s, m) ==
    LET k == "AARE" c == AareChain
    IN  Decode5(k, m, Decode5(k, m, DecodeStart(s, m), c, 1), c, 6)

-----------------------------------------------------------------------------
(* The grant decision                                                       *)

\* memcmp over the size of the second string.
SameBytes(buf, received) ==
    /\ received.size >= 8 => buf.head = received.head
    /\ received.size = 64 => buf.tail = received.tail

\* Variant: the outcome of the comparison is ignored.
GrantUnread(s, password) ==
    LET withPwd == [s EXCEPT !.stoc.head = password]
    IN  CASE s.cf # "IDLE" -> s
          [] s.cf = "IDLE" /\ s.auth \in {LOWEST, LLS} ->
                [withPwd EXCEPT !.cf = "ASSOCIATED", !.result = ERR_NULL]
          [] s.cf = "IDLE" /\ s.auth = GMAC ->
                [s EXCEPT !.cf = "PENDING", !.result = AUTH_REQUIRED]
          [] OTHER -> [s EXCEPT !.result = AUTH_NOT_RECOGNIZED]

\* csm_asso_is_granted, for the state after it; the password of the server
\* access point is first copied over the beginning of the StoC buffer.
Grant(s, password) ==
    LET withPwd == [s EXCEPT !.stoc.head = password]
    IN  CASE s.cf # "IDLE" -> s
          [] s.cf = "IDLE" /\ s.auth = LOWEST ->
                [s EXCEPT !.cf = "ASSOCIATED", !.result = ERR_NULL]
          [] s.cf = "IDLE" /\ s.auth = LLS ->
                IF SameBytes(withPwd.stoc, s.ctos)
                THEN [withPwd EXCEPT !.cf = "ASSOCIATED", !.result = ERR_NULL]
                ELSE [withPwd EXCEPT !.result = ERR_AUTH_FAILURE]
          [] s.cf = "IDLE" /\ s.auth = GMAC ->
                [s EXCEPT !.cf = "PENDING", !.result = AUTH_REQUIRED]
          [] OTHER -> [s EXCEPT !.result = AUTH_NOT_RECOGNIZED]

-----------------------------------------------------------------------------
(* The encoders                                                             *)

\* acse_responder_auth_value_encoder: a StoC challenge of the size of the CtoS
\* one, drawn (rnd) into the handshake and the APDU; only when a mechanism is
\* in use.
DrawStoc(s, rnd) ==
    IF s.auth = LOWEST
    THEN s
    ELSE [s EXCEPT !.stoc = Overwrite(s.stoc, [rnd EXCEPT !.size = s.ctos.size])]

\* An authentication value of the handshake, as the encoder serialises it: the
\* decoder of the other side asks for 8 bytes at least.
AuthValue(tag, c) == [Bytes(tag, c) EXCEPT !.ok = c.size >= 8]

\* Variant: only an open association is reported as accepted.
ResultOfOpen(s) == IF s.cf = "ASSOCIATED" THEN 0 ELSE 1

\* Variant: the decision is reported as it was before it was taken.
ResultOfCode(s) == IF s.result = ERR_NULL THEN 0 ELSE 1

\* acse_result_encoder
ResultOf(s) == IF s.cf = "IDLE" THEN 1 ELSE 0

\* acse_user_info_encoder: the initiate request or response.  Of its bytes only the
\* number counts (AareSize).
UserInfo == Hdr("USER_INFO")

\* csm_asso_encoder for an AARE, from the state after DrawStoc.
AareOf(s, title) ==
    << Hdr("APP_CONTEXT"), Oid("OID", 1, s.ref),
       Int("RESULT", ResultOf(s)), Int("SRC_DIAG", s.result) >>
    \o (IF s.auth = LOWEST THEN << >>
        ELSE << Bytes("RESP_AP_TITLE", [size |-> 8, head |-> title, tail |-> Zero]),
                Hdr("RESP_ACSE_REQ"), Oid("RESP_MECHANISM", 2, s.auth),
                AuthValue("RESP_AUTH", s.stoc) >>)
    \o << UserInfo >>

\* Bytes of that AARE after its tag and length.  The length is written in one
\* byte, which the decoder reads as it is up to 127; beyond, as the size of a
\* longer length, and the APDU is refused for its size.
AareSize(s) == IF s.auth = LOWEST THEN 41 ELSE 70 + s.stoc.size

LengthFits(s) == AareSize(s) <= 127

\* acse_aarq_auth_value_encoder: the password of access point 0, or a random
\* challenge.
DrawCtos(s, password, rnd) ==
    IF s.auth = LOWEST THEN s
    ELSE IF s.auth = LLS
    THEN [s EXCEPT !.ctos = Overwrite(s.ctos, [size |-> 8, head |-> password, tail |-> Zero])]
    ELSE [s EXCEPT !.ctos = Overwrite(s.ctos, rnd)]

\* csm_asso_encoder for an AARQ, from the state after DrawCtos.
AarqOf(s) ==
    << Hdr("APP_CONTEXT"), Oid("OID", 1, s.ref) >>
    \o (IF s.auth = LOWEST THEN << >>
        ELSE << Hdr("ACSE_REQU"), Oid("MECHANISM", 2, s.auth),
                AuthValue("CALLING_AUTH", s.ctos) >>)
    \o << UserInfo >>

=============================================================================
