----------------------------- MODULE AcseExchange -----------------------------
(***************************************************************************)
(* A client and a server of this stack that open an association: the       *)
(* client encodes an AARQ with csm_asso_encoder, the server runs           *)
(* csm_asso_server_execute, the client decodes the AARE with               *)
(* csm_asso_decoder.  Both keep their association state from one exchange  *)
(* to the next.                                                            *)
(*                                                                         *)
(* The glue of the client is not part of the repository: it initialises    *)
(* the association, sets the mechanism and the application context, and    *)
(* may use another encoder (Foreign).  Messages may be lost; the transport *)
(* may append bytes that the length of the AARQ counts (Tails).            *)
(***************************************************************************)
EXTENDS Acse

CONSTANTS
    Levels,         \* mechanisms the client asks for
    ClientPasswords,\* csm_hal_get_lls_password of the client, access point 0
    Password,       \* csm_hal_get_lls_password of the server
    Title,          \* csm_sys_get_system_title of the server
    Draws,          \* challenges the random sources may produce
    Tails,          \* headers after the fields of an AARQ
    Foreign         \* AARQs of other client implementations

ASSUME ExchangeAssumption ==
    /\ Levels \subseteq AuthLevels
    /\ ClientPasswords \cup {Password, Title} \subseteq Blocks
    /\ Draws \subseteq Challenge
    /\ Tails \cup Foreign \subseteq Seq(Header)

OTHER_CLIENT == 7

VARIABLES
    client,     \* csm_asso_state of the client
    server,     \* csm_asso_state of the server
    net,        \* the message under way
    verdict,    \* how the last exchange ended for the client
    asked,      \* mechanism that the client asked for in it
    answered    \* state of the server when it last encoded an AARE

vars == <<client, server, net, verdict, asked, answered>>

NoMessage == [kind |-> "NONE", body |-> << >>, fits |-> TRUE]

Init ==
    /\ client = AssoInit /\ server = AssoInit /\ answered = AssoInit
    /\ net = NoMessage
    /\ verdict = "NONE"
    /\ asked = LOWEST

\* csm_asso_init on an association that was used before.
Reinit(s) ==
    [s EXCEPT !.cf = "IDLE", !.auth = LOWEST, !.ref = 0, !.result = ERR_NULL]

ClientRequests(level, password, rnd, tail) ==
    /\ net.kind = "NONE"
    /\ LET c == DrawCtos([Reinit(client) EXCEPT !.auth = level, !.ref = 1],
                         password, rnd)
       IN  /\ client' = c
           /\ net' = [kind |-> "AARQ", body |-> AarqOf(c) \o tail, fits |-> TRUE]
    /\ asked' = level
    /\ verdict' = "NONE"
    /\ UNCHANGED <<server, answered>>

ForeignRequests(m) ==
    /\ net.kind = "NONE"
    /\ client' = Reinit(client)
    /\ net' = [kind |-> "AARQ", body |-> m, fits |-> TRUE]
    /\ asked' = OTHER_CLIENT
    /\ verdict' = "NONE"
    /\ UNCHANGED <<server, answered>>

\* csm_asso_server_execute for the AARQ.
ServerExecute(rnd) ==
    /\ net.kind = "AARQ"
    /\ LET p == DecodeAarq(server, net.body)
           s == DrawStoc(Grant(p.asso, Password), rnd)
       IN  \/ /\ server.cf = "IDLE" /\ p.ret
              /\ server' = s /\ answered' = s
              /\ net' = [kind |-> "AARE", body |-> AareOf(s, Title), fits |-> LengthFits(s)]
              /\ UNCHANGED verdict
           \/ /\ server.cf = "IDLE" /\ ~p.ret
              /\ server' = p.asso
              /\ net' = NoMessage
              /\ verdict' = "NOREPLY"
              /\ UNCHANGED answered
           \/ /\ server.cf # "IDLE"
              /\ net' = NoMessage
              /\ UNCHANGED <<server, answered, verdict>>
    /\ UNCHANGED <<client, asked>>

\* csm_asso_decoder for the AARE.
ClientDecodes ==
    /\ net.kind = "AARE"
    /\ LET p == DecodeAare(client, net.body)
       IN  IF net.fits
           THEN /\ client' = p.asso
                /\ verdict' = IF p.ret THEN "OK" ELSE "FAIL"
           ELSE /\ verdict' = "FAIL"
                /\ UNCHANGED client
    /\ net' = NoMessage
    /\ UNCHANGED <<server, asked, answered>>

Lose ==
    /\ net.kind # "NONE"
    /\ net' = NoMessage
    /\ UNCHANGED <<client, server, verdict, asked, answered>>

\* An RLRQ, or the end of the connection.
ServerCloses ==
    /\ server.cf # "IDLE"
    /\ server' = [server EXCEPT !.cf = "IDLE"]
    /\ UNCHANGED <<client, net, verdict, asked, answered>>

Next ==
    \/ \E level \in Levels, password \in ClientPasswords, rnd \in Draws, tail \in Tails :
            ClientRequests(level, password, rnd, tail)
    \/ \E m \in Foreign : ForeignRequests(m)
    \/ \E rnd \in Draws : ServerExecute(rnd)
    \/ ClientDecodes
    \/ Lose
    \/ ServerCloses

Spec == Init /\ [][Next]_vars

-----------------------------------------------------------------------------
(* Properties                                                               *)

\* A client that decoded the AARE to its end believes of the outcome, of its
\* reason and of the application context what the server decided, whatever the
\* exchanges before left in its state.
AgreeOnOutcome ==
    verdict = "OK" =>
        /\ client.accepted = (answered.cf # "IDLE")
        /\ client.result = answered.result
        /\ client.ref = answered.ref

SameValue(x, y) == x.size = y.size /\ SameBytes(x, y)

\* A client that asked for a mechanism and decoded the AARE has the session of
\* the server: mechanism, title and both challenges, which HLS authenticates.
AgreeOnSession ==
    verdict = "OK" /\ asked \in AuthLevels \ {LOWEST} =>
        /\ answered.auth = asked /\ client.auth = asked
        /\ client.stitle = Title
        /\ SameValue(client.ctos, answered.ctos)
        /\ SameValue(client.stoc, answered.stoc)

\* A client is only ever accepted with a password if the one it sent in this
\* exchange is the one of the server, whatever was accepted before.
AcceptedKnowsPassword ==
    verdict = "OK" /\ asked = LLS /\ client.accepted => client.ctos.head = Password

-----------------------------------------------------------------------------
(* What the documentation says, and the code does not do                    *)

\* README.md:25 lists the association coders and decoders as working: an AARQ
\* that the coder produced is answered by an idle server.
AarqIsAnswered == verdict # "NOREPLY"

=============================================================================
