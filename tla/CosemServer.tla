----------------------------- MODULE CosemServer -----------------------------
(***************************************************************************)
(* The server side of the stack: the channel table and the dispatch of     *)
(* csm_channel.c, the association control of csm_association.c and the     *)
(* service decoders of csm_services.c, one action per call of the          *)
(* transport glue.                                                         *)
(*                                                                         *)
(* The glue (which owns the arrays, reads the addresses of a frame into    *)
(* request.llc and calls csm_channel_xxx), the clients and the object      *)
(* database are not part of the repository: the glue hands over whole      *)
(* packets of connected peers, clients send any APDU of Aarqs and Pdus,    *)
(* the database answers with any code.  The APDU buffer is large enough.   *)
(***************************************************************************)
EXTENDS Acse

CONSTANTS
    NChan,      \* channel_list_size
    Assos,      \* the configured associations, each named by its addresses
    NoAsso,     \* a null association, addresses that no association has
    Password,   \* csm_hal_get_lls_password, per association
    Draws,      \* challenges the random source may produce
    Aarqs,      \* header sequences of the AARQ APDUs that clients send
    Pdus,       \* service APDUs that clients send
    Objs,       \* objects of the database
    AssoObj,    \* the current association object among them
    NoObj,      \* logical_name before any request
    Mixed,      \* logical_name with a part of the last request in it
    Invokes,    \* invoke identifiers
    MultiSap    \* the glue may change the addresses of an open channel

ASSUME ServerAssumption ==
    /\ NChan \in Nat \ {0}
    /\ NoAsso \notin Assos
    /\ Password \in [Assos -> Blocks]
    /\ Draws \subseteq Challenge
    /\ Aarqs \subseteq Seq(Header)
    /\ AssoObj \in Objs
    /\ NoObj \notin Objs /\ Mixed \notin Objs
    /\ MultiSap \in BOOLEAN

Chan     == 0..NChan - 1
Llcs     == Assos \cup {NoAsso}
Services == {"GET", "SET", "ACTION"}
ObjNames == Objs \cup {NoObj, Mixed}
Codes    == {"OK", "OK_BLOCK", "ERR"}   \* csm_db_code, errors taken together

\* A service APDU.  short: it ends before the invoke identifier; cut: it ends
\* inside the fields that follow.
Pdu == [svc: Services \cup {"OTHER"}, type: 1..3, invoke: Invokes, obj: Objs,
        len: {"full", "short", "cut"}]

ASSUME PduAssumption == Pdus \subseteq Pdu

\* csm_request: what the services keep from one request to the next.
Request == [svc: Services \cup {"UNKNOWN"}, invoke: Invokes \cup {0}, obj: ObjNames]

NoRequest == [svc |-> "UNKNOWN", invoke |-> 0, obj |-> NoObj]

\* What a call leaves for the peer, and the call of the database it made.
Replies == [to: Chan,
            kind: {"NONE", "CHANNEL", "AARE", "RLRE", "EXC"} \cup Services,
            invoke: Invokes \cup {0}, result: 0..NChan \cup {0, 1, 250}]
DbCalls == [asso: Llcs, req: Request, code: Codes, checked: Llcs]

Channel == [id: 0..NChan, asso: Llcs, llc: Llcs, req: Request]

VARIABLES
    chans,      \* channel_list
    assos,      \* asso_list
    out,        \* what the last call returned and left in the packet
    db          \* the database call the last call made, if any

vars == <<chans, assos, out, db>>

Reply(c, kind, invoke, result) ==
    [to |-> c, kind |-> kind, invoke |-> invoke, result |-> result]

Silence(c) == Reply(c, "NONE", 0, 0)

NoCall == [asso |-> NoAsso, req |-> NoRequest, code |-> "OK", checked |-> NoAsso]

TypeOK ==
    /\ chans \in [Chan -> Channel]
    /\ \A c \in Chan : chans[c].id \in {0, c + 1}
    /\ assos \in [Assos -> AssoState]
    /\ out \in Replies
    /\ db \in DbCalls

\* csm_channel_init
Init ==
    /\ chans = [c \in Chan |-> [id |-> 0, asso |-> NoAsso, llc |-> NoAsso,
                                req |-> NoRequest]]
    /\ assos = [a \in Assos |-> AssoInit]
    /\ out = Silence(0)
    /\ db = NoCall

-----------------------------------------------------------------------------
(* Channels                                                                 *)

\* Variant: the identifier is one too high.
NewChannelOffByOne(l) ==
    \E c \in Chan :
        /\ chans[c].id = 0
        /\ \A d \in 0..c - 1 : chans[d].id # 0
        /\ chans' = [chans EXCEPT ![c].id = c + 2, ![c].llc = l]
        /\ out' = Reply(c, "CHANNEL", 0, c + 2)
        /\ db' = NoCall
        /\ UNCHANGED assos

\* csm_channel_new grants the first free channel; the glue then knows the
\* addresses the peer uses.
NewChannel(l) ==
    \E c \in Chan :
        /\ chans[c].id = 0
        /\ \A d \in 0..c - 1 : chans[d].id # 0
        /\ chans' = [chans EXCEPT ![c].id = c + 1, ![c].llc = l]
        /\ out' = Reply(c, "CHANNEL", 0, c + 1)
        /\ db' = NoCall
        /\ UNCHANGED assos

NoChannelLeft ==
    /\ \A c \in Chan : chans[c].id # 0
    /\ out' = Reply(0, "CHANNEL", 0, 0)
    /\ db' = NoCall
    /\ UNCHANGED <<chans, assos>>

\* Variant: the association pointer is cleared before it is used.
DisconnectClearsFirst(c) ==
    /\ chans[c].id # 0
    /\ chans' = [chans EXCEPT ![c].id = 0, ![c].asso = NoAsso]
    /\ out' = Silence(c)
    /\ db' = NoCall
    /\ UNCHANGED assos

\* csm_channel_disconnect; the channel keeps its association pointer.
Disconnect(c) ==
    /\ chans[c].id # 0
    /\ chans' = [chans EXCEPT ![c].id = 0]
    /\ IF chans[c].asso = NoAsso
       THEN UNCHANGED assos
       ELSE assos' = [assos EXCEPT ![chans[c].asso].cf = "IDLE"]
    /\ out' = Silence(c)
    /\ db' = NoCall

-----------------------------------------------------------------------------
(* csm_channel_execute                                                      *)

\* A packet of an open channel, for the addresses l.
Packet(c, l) ==
    /\ chans[c].id # 0
    /\ MultiSap \/ l = chans[c].llc

\* The association of the addresses is linked to the channel.
Linked(c, a) == [chans EXCEPT ![c].llc = a, ![c].asso = a]

UnknownSap(c) ==
    /\ Packet(c, NoAsso)
    /\ chans' = [chans EXCEPT ![c].llc = NoAsso]
    /\ out' = Silence(c)
    /\ db' = NoCall
    /\ UNCHANGED assos

\* Variant: the AARQ is decoded before the state is looked at.
RecvAarqDecodesFirst(c, a, m, rnd) ==
    /\ Packet(c, a)
    /\ LET p == DecodeAarq(assos[a], m)
           s == DrawStoc(Grant(p.asso, Password[a]), rnd)
           granted == assos[a].cf = "IDLE" /\ p.ret
       IN  /\ assos' = [assos EXCEPT ![a] = IF granted THEN s ELSE p.asso]
           /\ out' = IF granted THEN Reply(c, "AARE", 0, ResultOf(s)) ELSE Silence(c)
    /\ chans' = Linked(c, a)
    /\ db' = NoCall

\* csm_asso_server_execute in CF_IDLE, for an AARQ.
RecvAarq(c, a, m, rnd) ==
    /\ Packet(c, a)
    /\ assos[a].cf = "IDLE"
    /\ LET p == DecodeAarq(assos[a], m)
           s == DrawStoc(Grant(p.asso, Password[a]), rnd)
       IN  \/ /\ p.ret
              /\ assos' = [assos EXCEPT ![a] = s]
              /\ out' = Reply(c, "AARE", 0, ResultOf(s))
           \/ /\ ~p.ret
              /\ assos' = [assos EXCEPT ![a] = p.asso]
              /\ out' = Silence(c)
    /\ chans' = Linked(c, a)
    /\ db' = NoCall

\* Variant: an RLRQ is taken in CF_ASSOCIATION_PENDING too.
RecvRlrqAlways(c, a) ==
    /\ Packet(c, a)
    /\ assos[a].cf # "IDLE"
    /\ assos' = [assos EXCEPT ![a].cf = "IDLE"]
    /\ out' = Reply(c, "RLRE", 0, 0)
    /\ chans' = Linked(c, a)
    /\ db' = NoCall

\* csm_asso_server_execute in CF_ASSOCIATED, for an RLRQ.
RecvRlrq(c, a) ==
    /\ Packet(c, a)
    /\ assos[a].cf = "ASSOCIATED"
    /\ assos' = [assos EXCEPT ![a].cf = "IDLE"]
    /\ out' = Reply(c, "RLRE", 0, 0)
    /\ chans' = Linked(c, a)
    /\ db' = NoCall

\* The APDUs that get no answer: any control APDU in CF_ASSOCIATION_PENDING,
\* all but an AARQ in CF_IDLE and all but an RLRQ in CF_ASSOCIATED; a service
\* on a closed association; a service that has no decoder.
RecvIgnored(c, a, tag) ==
    /\ Packet(c, a)
    /\ \/ tag \in {"AARE", "RLRE"}
       \/ tag = "AARQ" /\ assos[a].cf # "IDLE"
       \/ tag = "RLRQ" /\ assos[a].cf # "ASSOCIATED"
       \/ tag \in Services /\ assos[a].cf = "IDLE"
       \/ tag = "OTHER"
    /\ chans' = Linked(c, a)
    /\ out' = Silence(c)
    /\ db' = NoCall
    /\ UNCHANGED assos

\* svc_decode_request: the fields it stores.  A request that is neither
\* normal nor next leaves the object of the request before.
DecodedRequest(req, p) ==
    LET r == [req EXCEPT !.svc = p.svc]
    IN  IF p.len = "short" THEN r
        ELSE IF p.type # 1 THEN [r EXCEPT !.invoke = p.invoke]
        ELSE [r EXCEPT !.invoke = p.invoke,
                       !.obj = IF p.len = "full" THEN p.obj ELSE Mixed]

\* svc_decode_request: what it returns.
RequestValid(p) ==
    \/ p.len = "full"
    \/ p.len = "cut" /\ (p.type = 3 \/ (p.type = 2 /\ p.svc = "ACTION"))

\* The reply of svc_get_request_decoder and svc_set_or_action_decoder, for
\* the code of the database.
ServiceReply(c, req, code) ==
    IF req.svc = "GET"
    THEN IF code = "OK" THEN Reply(c, "GET", req.invoke, 0)
                        ELSE Reply(c, "EXC", 0, 0)
    ELSE Reply(c, req.svc, req.invoke, IF code = "OK" THEN 0 ELSE 250)

\* The association whose StoC challenge csm_channel_hls_pass3 verifies, for an
\* action on the association object: it is found by the channel identifier.
CheckedAsso(req, id, table) ==
    IF req.svc = "ACTION" /\ req.obj = AssoObj THEN table[id - 1].asso ELSE NoAsso

\* Variant: the association is linked to the channel after the services.
RecvServiceLinksLate(c, a, p, code) ==
    /\ Packet(c, a)
    /\ assos[a].cf # "IDLE"
    /\ p.svc \in Services
    /\ LET req == DecodedRequest(chans[c].req, p)
       IN  /\ chans' = [Linked(c, a) EXCEPT ![c].req = req]
           /\ \/ /\ RequestValid(p)
                 /\ out' = ServiceReply(c, req, code)
                 /\ db' = [asso |-> a, req |-> req, code |-> code,
                           checked |-> CheckedAsso(req, chans[c].id, chans)]
              \/ /\ ~RequestValid(p)
                 /\ out' = Reply(c, "EXC", 0, 0)
                 /\ db' = NoCall
    /\ UNCHANGED assos

\* csm_server_services_execute, also reached through csm_services_hls_execute.
RecvService(c, a, p, code) ==
    /\ Packet(c, a)
    /\ assos[a].cf # "IDLE"
    /\ p.svc \in Services
    /\ LET req   == DecodedRequest(chans[c].req, p)
           table == [Linked(c, a) EXCEPT ![c].req = req]
       IN  /\ chans' = table
           /\ \/ /\ RequestValid(p)
                 /\ out' = ServiceReply(c, req, code)
                 /\ db' = [asso |-> a, req |-> req, code |-> code,
                           checked |-> CheckedAsso(req, chans[c].id, table)]
              \/ /\ ~RequestValid(p)
                 /\ out' = Reply(c, "EXC", 0, 0)
                 /\ db' = NoCall
    /\ UNCHANGED assos

-----------------------------------------------------------------------------

Next ==
    \/ \E l \in Llcs : NewChannel(l)
    \/ NoChannelLeft
    \/ \E c \in Chan :
        \/ Disconnect(c)
        \/ UnknownSap(c)
        \/ \E a \in Assos :
            \/ \E m \in Aarqs, rnd \in Draws : RecvAarq(c, a, m, rnd)
            \/ RecvRlrq(c, a)
            \/ \E tag \in {"AARQ", "AARE", "RLRQ", "RLRE", "OTHER"} \cup Services :
                    RecvIgnored(c, a, tag)
            \/ \E p \in Pdus, code \in Codes : RecvService(c, a, p, code)

Spec == Init /\ [][Next]_vars

-----------------------------------------------------------------------------
(* Properties                                                               *)

Open(a) == assos[a].cf # "IDLE"

\* Channel c is open and both speaks to and is linked with association a.
Holds(c, a) == chans[c].id # 0 /\ chans[c].asso = a /\ chans[c].llc = a

\* As long as a connection keeps its addresses, an association that is open is
\* held by an open channel: no sequence of connections, disconnections and
\* reuse of channels and associations leaves one open with nobody to close it.
OpenIsHeld == ~MultiSap => \A a \in Assos : Open(a) => \E c \in Chan : Holds(c, a)

\* HLS pass 3 finds the challenge to verify through the channel identifier of
\* the request: it is the one of the association that executes the request,
\* whatever channels were granted and freed before.
Pass3ChecksOwnChallenge == db.checked \in {NoAsso, db.asso}

\* An association opens in the step that answers the AARQ with an acceptance on
\* a channel linked with it, and in no other; and an acceptance is sent only
\* when the association opens: client and server never disagree on that.
AcceptedOn(a) == out.kind = "AARE" /\ out.result = 0 /\ chans[out.to].asso = a

OpenedIffAccepted ==
    [][ \A a \in Assos : ~Open(a) => (Open(a)' <=> AcceptedOn(a)') ]_vars

\* An open association closes by an RLRQ, which is answered and never accepted
\* while the challenge is pending, or with the channel it is linked with: no
\* request, refused AARQ or activity of another channel closes it.
ClosedByItsChannel ==
    [][ \A a \in Assos :
          Open(a) /\ ~Open(a)' =>
            \/ /\ assos[a].cf = "ASSOCIATED"
               /\ out'.kind = "RLRE" /\ chans'[out'.to].asso = a
            \/ \E c \in Chan : /\ chans[c].id # 0 /\ chans'[c].id = 0
                               /\ chans[c].asso = a ]_vars

-----------------------------------------------------------------------------
(* The control function implements AssociationCF: the session of an open    *)
(* association is what the handshake left in its state.                     *)

Session ==
    [auth: AuthLevels, ref: Refs, ctitle: Blocks, ctos: Challenge, stoc: Challenge]

NoSession == [auth |-> 7]

SessionOf(s) ==
    IF s.cf = "IDLE" THEN NoSession
    ELSE [auth |-> s.auth, ref |-> s.ref, ctitle |-> s.ctitle,
          ctos |-> s.ctos, stoc |-> s.stoc]

\* A session that opens at once asks for no authentication, or the value that the
\* handshake holds begins with the password of the association.
ImmediateSessions(a) ==
    {s \in Session :
        \/ s.auth = LOWEST
        \/ s.auth = LLS /\ s.ctos.size >= 8 /\ s.ctos.head = Password[a]}

\* csm_asso_is_granted compares as many bytes as the client sent: an AARQ that asks
\* for LLS and has no authentication value opens a session without the password.
UnprovenSessions == {s \in Session : s.auth = LLS /\ s.ctos.size = 0}

ChallengedSessions == {s \in Session : s.auth = GMAC}

CF == INSTANCE AssociationCF WITH
        Immediate  <- [a \in Assos |-> ImmediateSessions(a)],
        Challenged <- [a \in Assos |-> ChallengedSessions],
        Unproven   <- [a \in Assos |-> UnprovenSessions],
        None       <- NoSession,
        state      <- [a \in Assos |-> assos[a].cf],
        session    <- [a \in Assos |-> SessionOf(assos[a])]

\* Every association behaves as the control function: an LLS session opens only
\* with the password or, the exception named above, without any value, and nothing
\* that a client, another channel or the database does changes the mechanism, the
\* titles and the challenges of a handshake while it is pending or in use.  The
\* value may be left from the handshake before, when the AARQ brings none.
ImplementsCF == CF!CfSpec

-----------------------------------------------------------------------------
(* What the documentation says, and the code does not do                    *)

\* csm_channel.h:24 calls the association of a channel the "Association used
\* for that channel": an association that closes was used by the connection
\* whose end or release closes it.
ClosedByItsUser ==
    [][ \A a \in Assos : Open(a) /\ ~Open(a)' => chans[out'.to].llc = a ]_vars

=============================================================================
