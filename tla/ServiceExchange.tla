---------------------------- MODULE ServiceExchange ----------------------------
(***************************************************************************)
(* The two ends of csm_services.c: the requests that a client encodes,     *)
(* what the server of this stack makes of them, and what the client        *)
(* decodes, from this server or from another one that answers by blocks.   *)
(*                                                                         *)
(* An APDU is the sequence of its fields; the name of an object and a      *)
(* block number are one field each, the encoded data is a sequence of      *)
(* bytes.  The application that uses the client, the database and the      *)
(* other server are not in the repository.  The application initialises    *)
(* its response, asks for the next block as long as                        *)
(* csm_client_has_more_data says so, and gives up when an answer does not  *)
(* decode; a next request never reaches the server of this stack, which    *)
(* sends no blocks.  The codes of an exception are left out.  Buffers are  *)
(* large enough.                                                           *)
(***************************************************************************)
EXTENDS Naturals, Sequences

CONSTANTS
    Objs,       \* logical names
    Invokes,    \* invoke identifiers
    Datas,      \* encoded data, the first byte of which is its tag
    NBlocks,    \* blocks of the object of the other server
    Answers,    \* its other answers, any APDU
    MaxStrays   \* stray answers that it gives to one request

\* AXDR tags
GET_REQUEST        == 192
SET_REQUEST        == 193
ACTION_REQUEST     == 195
GET_RESPONSE       == 196
SET_RESPONSE       == 197
ACTION_RESPONSE    == 199
EXCEPTION_RESPONSE == 216
TAG_NULL           == 0

Services == {"GET", "SET", "ACTION"}

RequestTag(svc) ==
    IF svc = "GET" THEN GET_REQUEST ELSE IF svc = "SET" THEN SET_REQUEST ELSE ACTION_REQUEST

\* csm_client_decode
ResponseService ==
    [t \in {GET_RESPONSE, SET_RESPONSE, ACTION_RESPONSE} |->
        CASE t = GET_RESPONSE -> "GET" [] t = SET_RESPONSE -> "SET" [] OTHER -> "ACTION"]

\* An answer that decodes although it is no normal response, type 1, nor a block of
\* the object: a response of an unknown type, or a block that nobody asked for.
Stray(m) ==
    /\ Len(m) >= 3 /\ m[1] \in DOMAIN ResponseService
    /\ m[2] # 1
    /\ m[2] = 2 => Len(m) >= 5

ASSUME ServiceAssumption ==
    /\ Objs \cup Invokes \subseteq Nat
    /\ Datas \subseteq Seq(Nat) \ {<< >>}
    /\ NBlocks \in Nat \ {0}
    /\ Answers \subseteq Seq(Nat)
    /\ MaxStrays \in Nat

\* csm_data_access_result and csm_action_result
SUCCESS       == 0
OTHER_REASON  == 250
NOT_SET       == 255
ActionResults == {0, 1, 2, 3, 4, 9, 11, 12, 13, 14, 15, 16, OTHER_REASON}
AccessResults == ActionResults \cup {17, 18, 19}

Codes == {"OK", "OK_BLOCK", "ERR"}     \* csm_db_code, errors taken together

VARIABLES
    phase,      \* idle, request or answer on the way, or a next block to ask for
    peer,       \* the server: of this stack, or another one
    req,        \* csm_request of the client
    apdu,       \* the APDU on the way
    rsp,        \* csm_response of the client
    ret,        \* what csm_client_decode returned last
    rest,       \* what it left to read
    got,        \* the data that the application collected for this request
    sreq,       \* csm_request of the server
    db,         \* the call of the database for it
    pos,        \* the last block that the other server sent
    strays      \* stray answers since the client asked for the object

vars == <<phase, peer, req, apdu, rsp, ret, rest, got, sreq, db, pos, strays>>

\* csm_request; block is the block number of a next request.
Q(svc, type, invoke, obj, sel, enable, data, block) ==
    [svc |-> svc, type |-> type, invoke |-> invoke, obj |-> obj, sel |-> sel,
     enable |-> enable, data |-> data, block |-> block]

NoRequest == Q("GET", "NORMAL", 0, 0, 0, 0, << >>, 0)

\* csm_client_init; the fields that it does not set are unknown before the first use.
ClientInit(r) ==
    [r EXCEPT !.type = "NORMAL", !.block = 0, !.invoke = 0, !.last = 0]

\* csm_response before its first use.
NoResponse == [service |-> "UNKNOWN", type |-> "NORMAL", invoke |-> 0, access |-> NOT_SET,
               action |-> NOT_SET, last |-> 0, block |-> 0, has_data |-> FALSE]

NoCall == [called |-> FALSE, data |-> << >>, code |-> "OK", out |-> << >>]

Init ==
    /\ phase = "idle"
    /\ peer \in {"own", "other"}
    /\ req = NoRequest /\ sreq = NoRequest
    /\ rsp = ClientInit(NoResponse)
    /\ ret = FALSE
    /\ apdu = << >> /\ rest = << >> /\ got = << >>
    /\ db = NoCall
    /\ pos = 0 /\ strays = 0

-----------------------------------------------------------------------------
(* The client asks                                                          *)

SELECTOR == 1       \* the parameters of a selective access

\* csm_get_request_type, svc_is_normal_response and svc_is_data_block_response.
RequestType(q)    == IF q.type = "NORMAL" THEN 1 ELSE 2
IsNormal(type)    == type = 1
IsDataBlock(type) == type = 2

When(cond, field) == IF cond THEN field ELSE << >>

\* Variant: the data is sent although it is not enabled.
EncodeNormalAllData(q) ==
    << RequestTag(q.svc), RequestType(q), q.invoke, q.obj >>
    \o When(q.svc # "ACTION", << q.sel >> \o When(q.sel = 1, << SELECTOR >>))
    \o When(q.svc = "ACTION", << q.enable >>)
    \o When(q.svc # "GET", q.data)
    \o When(q.svc = "SET" /\ q.data = << >>, << TAG_NULL >>)

\* svc_request_encoder, for a normal request and for the next block.
EncodeNormal(q) ==
    << RequestTag(q.svc), RequestType(q), q.invoke, q.obj >>
    \o When(q.svc # "ACTION", << q.sel >> \o When(q.sel = 1, << SELECTOR >>))
    \o When(q.svc = "ACTION", << q.enable >>)
    \o When(q.svc # "GET" /\ q.enable = 1, q.data)
    \o When(q.svc = "SET" /\ (q.enable = 0 \/ q.data = << >>), << TAG_NULL >>)

EncodeNext(q) == << RequestTag(q.svc), RequestType(q), q.invoke, q.block >>

ClientAsks(q) ==
    /\ phase = "idle"
    /\ phase' = "asked"
    /\ req' = q
    /\ apdu' = EncodeNormal(q)
    /\ rsp' = ClientInit(rsp)
    /\ got' = << >>
    /\ db' = NoCall
    /\ pos' = 0 /\ strays' = 0
    /\ UNCHANGED <<peer, ret, rest, sreq>>

\* The application asks for the block after the one that it received.
ClientAsksNext ==
    /\ phase = "more"
    /\ phase' = "asked"
    /\ req' = [req EXCEPT !.type = "NEXT", !.block = rsp.block]
    /\ apdu' = EncodeNext(req')
    /\ UNCHANGED <<peer, rsp, ret, rest, got, sreq, db, pos, strays>>

-----------------------------------------------------------------------------
(* The server of this stack                                                 *)

\* The fields that follow the name of the object, from position i of m.
SkipSelector(m, i) == IF m[i] # 0 THEN i + 2 ELSE i + 1

\* svc_decode_request for a normal request: what it stores, and what is left for
\* the database to read.
DecodeRequest(s, m) ==
    LET svc    == CHOOSE v \in Services : RequestTag(v) = m[1]
        flagAt == IF svc = "ACTION" THEN 5 ELSE SkipSelector(m, 5)
        next   == IF svc = "GET" THEN flagAt ELSE flagAt + 1
    IN  [req  |-> [s EXCEPT !.svc = svc, !.invoke = m[3], !.obj = m[4],
                            !.sel = IF svc = "ACTION" THEN @ ELSE m[5],
                            !.enable = IF svc = "GET" THEN @ ELSE m[flagAt]],
         data |-> SubSeq(m, next, Len(m))]

\* svc_data_access_result_encoder
ResultOf(code) == IF code = "OK" THEN SUCCESS ELSE OTHER_REASON

Exception == << EXCEPTION_RESPONSE, 1, 1 >>

\* Variant: the parameters of an action are announced when there are none.
ReplyAlwaysData(q, code, out) ==
    CASE q.svc = "GET"    -> IF code = "OK"
                             THEN << GET_RESPONSE, 1, q.invoke, 0 >> \o out
                             ELSE Exception
      [] q.svc = "SET"    -> << SET_RESPONSE, 1, q.invoke, ResultOf(code) >>
      [] q.svc = "ACTION" -> << ACTION_RESPONSE, 1, q.invoke, ResultOf(code), 1, 0 >> \o out

\* svc_get_request_decoder and svc_set_or_action_decoder
Reply(q, code, out) ==
    CASE q.svc = "GET"    -> IF code = "OK"
                             THEN << GET_RESPONSE, 1, q.invoke, 0 >> \o out
                             ELSE Exception
      [] q.svc = "SET"    -> << SET_RESPONSE, 1, q.invoke, ResultOf(code) >>
      [] q.svc = "ACTION" -> << ACTION_RESPONSE, 1, q.invoke, ResultOf(code) >>
                             \o IF out = << >> THEN << 0 >> ELSE << 1, 0 >> \o out

\* csm_server_services_execute; the database answers with any code and data.
ServerExecutes(code, out) ==
    /\ phase = "asked" /\ peer = "own"
    /\ phase' = "answered"
    /\ LET d == DecodeRequest(sreq, apdu)
       IN  /\ sreq' = d.req
           /\ db' = [called |-> TRUE, data |-> d.data, code |-> code, out |-> out]
           /\ apdu' = Reply(d.req, code, out)
    /\ UNCHANGED <<peer, req, rsp, ret, rest, got, pos, strays>>

-----------------------------------------------------------------------------
(* The other server                                                         *)

\* It sends the object in blocks to whom asks for the one after the last it sent;
\* the data of a block is its number.
OtherSendsBlock ==
    /\ phase = "asked" /\ peer = "other"
    /\ req.svc = "GET"
    /\ pos < NBlocks
    /\ req.type = "NEXT" => req.block = pos
    /\ phase' = "answered"
    /\ pos' = pos + 1
    /\ apdu' = << GET_RESPONSE, 2, req.invoke, IF pos' = NBlocks THEN 1 ELSE 0, pos', pos' >>
    /\ UNCHANGED <<peer, req, rsp, ret, rest, got, sreq, db, strays>>

\* It answers otherwise, and may abort the transfer.
OtherAnswers(m) ==
    /\ phase = "asked" /\ peer = "other"
    /\ Stray(m) => strays < MaxStrays
    /\ strays' = IF Stray(m) THEN strays + 1 ELSE strays
    /\ phase' = "answered"
    /\ apdu' = m
    /\ pos' \in {0, pos}
    /\ UNCHANGED <<peer, req, rsp, ret, rest, got, sreq, db>>

-----------------------------------------------------------------------------
(* The client decodes                                                       *)

Drop(m, n) == SubSeq(m, n + 1, Len(m))
Out(r, valid, m) == [rsp |-> r, ret |-> valid, rest |-> m]

\* svc_result_decoder, after the fields it presets.  An action has a result and
\* then, if announced, its parameters: data, or the result of an access, of
\* which the choice is taken for the code.
ActionResult(r, b) ==
    LET q == [r EXCEPT !.action = b[1]]
        c == [q EXCEPT !.access = 1]
    IN  IF b = << >> \/ b[1] \notin ActionResults THEN Out(r, FALSE, Drop(b, 1))
        ELSE IF Len(b) < 2 THEN Out(q, FALSE, << >>)
        ELSE IF b[2] = 0   THEN Out(q, TRUE, Drop(b, 2))
        ELSE IF b[2] > 1   THEN Out(q, FALSE, Drop(b, 2))
        ELSE IF Len(b) < 3 THEN Out(c, FALSE, << >>)
        ELSE IF b[3] = 1   THEN Out(c, TRUE, Drop(b, 3))
        ELSE IF b[3] = 0
             THEN Out([q EXCEPT !.has_data = TRUE, !.access = SUCCESS], TRUE, Drop(b, 3))
             ELSE Out(q, FALSE, Drop(b, 3))

AccessResult(r, b) ==
    IF b # << >> /\ b[1] \in AccessResults
    THEN Out([r EXCEPT !.access = b[1]], TRUE, Drop(b, 1))
    ELSE Out(r, FALSE, Drop(b, 1))

DecodeResult(r, b) ==
    LET q == [r EXCEPT !.has_data = FALSE, !.access = NOT_SET]
    IN  IF r.service = "ACTION" THEN ActionResult(q, b) ELSE AccessResult(q, b)

DecodeBlock(r, b) ==
    IF b = << >>       THEN Out(r, FALSE, << >>)
    ELSE IF Len(b) = 1 THEN Out([r EXCEPT !.last = b[1]], FALSE, << >>)
    ELSE Out([r EXCEPT !.last = b[1], !.block = b[2], !.access = SUCCESS], TRUE, Drop(b, 2))

\* svc_response_decoder: m begins with the type.
DecodeResponse(r, m) ==
    LET q == [r EXCEPT !.invoke = m[2]]
    IN  IF Len(m) < 2          THEN Out(r, FALSE, << >>)
        ELSE IF IsNormal(m[1]) THEN DecodeResult([q EXCEPT !.type = "NORMAL"], Drop(m, 2))
        ELSE IF IsDataBlock(m[1])
             THEN DecodeBlock([q EXCEPT !.type = "DATABLOCK"], Drop(m, 2))
             ELSE Out(q, TRUE, Drop(m, 2))

\* svc_exception_decoder
DecodeException(r, m) == Out([r EXCEPT !.service = "EXCEPTION"], Len(m) >= 2, Drop(m, 2))

\* csm_client_decode
Decode(r, m) ==
    IF m = << >> THEN Out([r EXCEPT !.service = "UNKNOWN"], FALSE, << >>)
    ELSE IF m[1] \in DOMAIN ResponseService
         THEN DecodeResponse([r EXCEPT !.service = ResponseService[m[1]]], Drop(m, 1))
    ELSE IF m[1] = EXCEPTION_RESPONSE
         THEN DecodeException(r, Drop(m, 1))
         ELSE Out([r EXCEPT !.service = "UNKNOWN"], FALSE, Drop(m, 1))

\* Variant: the flag of the last block is read the wrong way round.
HasMoreInverted(r) == r.type = "DATABLOCK" /\ r.last # 0

\* csm_client_has_more_data
HasMore(r) == r.type = "DATABLOCK" /\ r.last = 0

\* The application decodes, keeps the data of a block of its object, and looks
\* whether there is more.
ClientDecodes ==
    /\ phase = "answered"
    /\ LET d == Decode(rsp, apdu)
           block == d.ret /\ d.rsp.service = "GET" /\ d.rsp.type = "DATABLOCK"
       IN  /\ rsp' = d.rsp /\ ret' = d.ret /\ rest' = d.rest
           /\ got' = IF block THEN got \o d.rest ELSE got
           /\ phase' = IF d.ret /\ HasMore(d.rsp) THEN "more" ELSE "idle"
    /\ UNCHANGED <<peer, req, apdu, sreq, db, pos, strays>>

-----------------------------------------------------------------------------

\* What an application may ask: a get has no data, the others may enable it.  The
\* buffers of what is enabled are set, without which nothing is encoded.
Asked ==
    {Q("GET", "NORMAL", i, o, sel, 0, << >>, 0) : i \in Invokes, o \in Objs, sel \in {0, 1}}
    \cup
    {Q(svc, "NORMAL", i, o, sel, en, d, 0) :
        svc \in {"SET", "ACTION"}, i \in Invokes, o \in Objs, sel \in {0, 1},
        en \in {0, 1}, d \in Datas \cup {<< >>}}

Next ==
    \/ \E q \in Asked : ClientAsks(q)
    \/ ClientAsksNext
    \/ \E code \in Codes, out \in Datas \cup {<< >>} : ServerExecutes(code, out)
    \/ OtherSendsBlock
    \/ \E m \in Answers : OtherAnswers(m)
    \/ ClientDecodes

Spec == Init /\ [][Next]_vars

-----------------------------------------------------------------------------
(* Properties                                                               *)

\* The database is called for the object and the invocation that the client
\* asked for, with the data that the client enabled.  The data of a SET is left
\* to SetCarriesItsData.
ServedAsAsked ==
    db.called =>
        /\ sreq.svc = req.svc /\ sreq.invoke = req.invoke /\ sreq.obj = req.obj
        /\ req.svc # "ACTION" => sreq.sel = req.sel
        /\ req.svc = "GET" => db.data = << >>
        /\ req.svc = "ACTION" =>
              sreq.enable = req.enable /\ db.data = When(req.enable = 1, req.data)

\* Once the client decoded an answer of the server of this stack, it reports a
\* success exactly when the database did, and is left with the data that the
\* database wrote.
Succeeds(r) ==
    CASE r.service = "ACTION"    -> r.action = SUCCESS
      [] r.service = "EXCEPTION" -> FALSE
      [] OTHER                   -> r.access = SUCCESS

AgreeOnResult ==
    phase = "idle" /\ db.called =>
        /\ ret
        /\ Succeeds(rsp) <=> db.code = "OK"
        /\ rsp.service \in {req.svc, "EXCEPTION"}
        /\ rsp.service # "EXCEPTION" => rsp.invoke = req.invoke
        /\ rsp.service = "ACTION" => rsp.has_data = (db.out # << >>) /\ rest = db.out
        /\ rsp.service = "GET" => rest = db.out

\* An object that the application takes for complete has all its blocks, each once
\* and in order, although the server may refuse, cut its answer or send that of
\* another service in the middle, unless a stray answer came: the decoder accepts a
\* response of an unknown type and leaves the type of the answer before it, and no
\* one compares the number of a block with the one that was asked for.
ObjectIsWhole ==
    strays = 0 /\ phase = "idle" /\ ret /\ rsp.service = "GET" /\ rsp.type = "DATABLOCK"
        => got = [i \in 1..NBlocks |-> i]

-----------------------------------------------------------------------------
(* What the documentation says, and the code does not do                    *)

\* README.md:28 lists "Set request normal" as working: the database finds the
\* data that the client sent.  The server takes its first byte for a flag that
\* only an action has.
SetCarriesItsData ==
    db.called /\ req.svc = "SET" /\ req.enable = 1 => db.data = req.data

=============================================================================
