-------------------------- MODULE CosemServer_proofs --------------------------
(***************************************************************************)
(* Safety of CosemServer for any number of channels, associations, clients *)
(* and objects.                                                            *)
(***************************************************************************)
EXTENDS CosemServer, Acse_proofs

USE ServerAssumption, PduAssumption

\* Replies have the type of the result of a call.
LEMMA ReplyType ==
  ASSUME NEW c \in Chan, NEW i \in Invokes \cup {0}, NEW r \in 0..NChan \cup {0, 1, 250},
         NEW k \in {"NONE", "CHANNEL", "AARE", "RLRE", "EXC"} \cup Services
  PROVE  Reply(c, k, i, r) \in Replies
  BY DEF Reply, Replies

LEMMA SilenceType ==
  ASSUME NEW c \in Chan
  PROVE  Silence(c) \in Replies /\ NoCall \in DbCalls
<1>1. NoRequest \in Request  BY DEF NoRequest, Request, ObjNames
<1>. QED  BY <1>1, ReplyType DEF Silence, NoCall, Llcs, Codes, DbCalls

\* A packet for the addresses of an association links it and touches nothing
\* else in the table.
LEMMA LinkedFacts ==
  ASSUME TypeOK, NEW c \in Chan, NEW a \in Assos
  PROVE  LET t == Linked(c, a)
         IN  /\ t \in [Chan -> Channel]
             /\ \A d \in Chan : t[d].id = chans[d].id /\ t[d].req = chans[d].req
             /\ t[c].asso = a /\ t[c].llc = a
             /\ \A d \in Chan \ {c} : t[d] = chans[d]
<1>. DEFINE r == [[chans[c] EXCEPT !.llc = a] EXCEPT !.asso = a]
<1>1. chans \in [Chan -> Channel] /\ chans[c] \in Channel /\ a \in Llcs
  BY DEF TypeOK, Llcs
<1>2. /\ r \in Channel /\ r.asso = a /\ r.llc = a
      /\ r.id = chans[c].id /\ r.req = chans[c].req
  BY <1>1 DEF Channel
<1>3. Linked(c, a) = [chans EXCEPT ![c] = r]
  BY <1>1 DEF Linked
<1>. HIDE DEF r
<1>. QED  BY <1>1, <1>2, <1>3

LEMMA DecodedRequestType ==
  ASSUME NEW req \in Request, NEW p \in Pdus, p.svc \in Services
  PROVE  DecodedRequest(req, p) \in Request /\ DecodedRequest(req, p).svc = p.svc
<1>. DEFINE r == [req EXCEPT !.svc = p.svc]
            o == IF p.len = "full" THEN p.obj ELSE Mixed
<1>1. p.invoke \in Invokes \cup {0} /\ o \in ObjNames
  BY DEF Pdu, ObjNames
<1>2. r \in Request /\ r.svc = p.svc
  BY DEF Request
<1>3. DecodedRequest(req, p) \in
        {r, [r EXCEPT !.invoke = p.invoke], [r EXCEPT !.invoke = p.invoke, !.obj = o]}
  BY DEF DecodedRequest
<1>. HIDE DEF r, o
<1>. QED  BY <1>1, <1>2, <1>3 DEF Request

\* Every step of an AARQ: what the association becomes.
LEMMA AarqFacts ==
  ASSUME TypeOK, NEW a \in Assos, NEW m \in Aarqs, NEW rnd \in Draws, assos[a].cf = "IDLE"
  PROVE  LET p == DecodeAarq(assos[a], m)
             s == DrawStoc(Grant(p.asso, Password[a]), rnd)
         IN  /\ p.ret \in BOOLEAN
             /\ p.asso \in AssoState /\ p.asso.cf = "IDLE"
             /\ s \in AssoState
             /\ s.cf = "ASSOCIATED" =>
                  s.auth = LOWEST \/ (s.auth = LLS /\ Knows(s, Password[a]))
             /\ s.cf = "PENDING" => s.auth = GMAC
<1>. DEFINE p == DecodeAarq(assos[a], m)
            g == Grant(p.asso, Password[a])
            s == DrawStoc(g, rnd)
<1>1. p.ret \in BOOLEAN /\ p.asso \in AssoState /\ p.asso.cf = "IDLE"
  <2>1. assos[a] \in AssoState /\ m \in Seq(Header)  BY DEF TypeOK
  <2>. QED  BY <2>1, DecodeAarqType
<1>. HIDE DEF p
<1>2. /\ g \in AssoState
      /\ g.cf = "ASSOCIATED" => g.auth = LOWEST \/ (g.auth = LLS /\ Knows(g, Password[a]))
      /\ g.cf = "PENDING" => g.auth = GMAC
  <2>1. Password[a] \in Blocks  OBVIOUS
  <2>. QED  BY <1>1, <2>1, GrantFacts
<1>. HIDE DEF g
<1>3. /\ s \in AssoState
      /\ s.cf = g.cf /\ s.auth = g.auth /\ s.ctos = g.ctos
  <2>1. rnd \in Challenge  OBVIOUS
  <2>. QED  BY <1>2, <2>1, DrawStocFacts
<1>. HIDE DEF s
<1>4. Knows(g, Password[a]) => Knows(s, Password[a])
  BY <1>3 DEF Knows
<1>. QED  BY <1>1, <1>2, <1>3, <1>4 DEF p, g, s

-----------------------------------------------------------------------------
(* Type correctness                                                         *)

\* The calls for a packet of association a leave a table of the right type.
LEMMA PacketType ==
  ASSUME TypeOK, NEW c \in Chan, NEW a \in Assos, chans' = Linked(c, a)
  PROVE  chans' \in [Chan -> Channel] /\ \A d \in Chan : chans'[d].id \in {0, d + 1}
  BY LinkedFacts DEF TypeOK

LEMMA ServiceFacts ==
  ASSUME TypeOK, NEW c \in Chan, NEW a \in Assos, NEW p \in Pdus, NEW code \in Codes,
         RecvService(c, a, p, code)
  PROVE  /\ chans' \in [Chan -> Channel]
         /\ \A d \in Chan : chans'[d].id = chans[d].id
         /\ chans'[c].asso = a /\ chans'[c].llc = a
         /\ \A d \in Chan \ {c} : chans'[d] = chans[d]
         /\ out' \in Replies
         /\ db' \in DbCalls
         /\ db'.checked \in {NoAsso, db'.asso}
         /\ out'.kind \in {"EXC"} \cup Services
<1>. DEFINE t == Linked(c, a)
            req == DecodedRequest(chans[c].req, p)
            table == [t EXCEPT ![c].req = req]
            row == [t[c] EXCEPT !.req = req]
<1>1. /\ t \in [Chan -> Channel] /\ t[c].asso = a /\ t[c].llc = a
      /\ \A d \in Chan : t[d].id = chans[d].id
      /\ \A d \in Chan \ {c} : t[d] = chans[d]
  BY LinkedFacts
<1>2. req \in Request /\ req.svc = p.svc /\ p.svc \in Services
  <2>1. chans[c].req \in Request  BY DEF TypeOK, Channel
  <2>2. p.svc \in Services        BY DEF RecvService
  <2>. QED  BY <2>1, <2>2, DecodedRequestType
<1>3. chans' = table
  BY DEF RecvService
<1>4. chans[c].id = c + 1
  BY DEF RecvService, Packet, TypeOK
<1>5. /\ out' \in {ServiceReply(c, req, code), Reply(c, "EXC", 0, 0)}
      /\ db' \in {[asso |-> a, req |-> req, code |-> code,
                   checked |-> CheckedAsso(req, chans[c].id, table)], NoCall}
  BY DEF RecvService
<1>. HIDE DEF t, req
<1>6. row \in Channel /\ row.asso = a /\ row.llc = a /\ row.id = t[c].id
  BY <1>1, <1>2 DEF Channel
<1>7. table = [t EXCEPT ![c] = row]
  BY <1>1
<1>. HIDE DEF row
<1>8. /\ table \in [Chan -> Channel] /\ table[c] = row
      /\ \A d \in Chan \ {c} : table[d] = t[d]
  BY <1>1, <1>6, <1>7
<1>. HIDE DEF table
<1>9. CheckedAsso(req, chans[c].id, table) \in {NoAsso, a}
  <2>1. chans[c].id - 1 = c  BY <1>4 DEF Chan
  <2>. QED  BY <2>1, <1>6, <1>8 DEF CheckedAsso
<1>10. /\ Reply(c, "EXC", 0, 0) \in Replies
       /\ Reply(c, "EXC", 0, 0).kind = "EXC"
       /\ ServiceReply(c, req, code) \in Replies
       /\ ServiceReply(c, req, code).kind \in {"EXC"} \cup Services
  <2>1. req.invoke \in Invokes \cup {0} /\ req.svc \in Services
    BY <1>2 DEF Request
  <2>2. /\ Reply(c, "EXC", 0, 0) \in Replies
        /\ Reply(c, "GET", req.invoke, 0) \in Replies
        /\ Reply(c, req.svc, req.invoke, 0) \in Replies
        /\ Reply(c, req.svc, req.invoke, 250) \in Replies
    <3>1. "GET" \in Services  BY DEF Services
    <3>2. /\ 0 \in 0..NChan \cup {0, 1, 250} /\ 250 \in 0..NChan \cup {0, 1, 250}
          /\ 0 \in Invokes \cup {0}
      OBVIOUS
    <3>3. Reply(c, "EXC", 0, 0) \in Replies             BY <3>2, ReplyType
    <3>4. ASSUME NEW k \in Services, NEW r \in {0, 250}
          PROVE  Reply(c, k, req.invoke, r) \in Replies
      <4>. DEFINE i == req.invoke
      <4>1. i \in Invokes \cup {0}  BY <2>1
      <4>2. r \in 0..NChan \cup {0, 1, 250}  BY <3>2
      <4>. HIDE DEF i
      <4>3. Reply(c, k, i, r) \in Replies  BY <4>1, <4>2, ReplyType
      <4>. QED  BY <4>3 DEF i
    <3>5. Reply(c, "GET", req.invoke, 0) \in Replies      BY <3>1, <3>4
    <3>6. /\ Reply(c, req.svc, req.invoke, 0) \in Replies
          /\ Reply(c, req.svc, req.invoke, 250) \in Replies
      BY <2>1, <3>4
    <3>. QED  BY <3>3, <3>4, <3>5, <3>6
  <2>3. \/ ServiceReply(c, req, code) = Reply(c, "EXC", 0, 0)
        \/ ServiceReply(c, req, code) = Reply(c, "GET", req.invoke, 0)
        \/ ServiceReply(c, req, code) = Reply(c, req.svc, req.invoke, 0)
        \/ ServiceReply(c, req, code) = Reply(c, req.svc, req.invoke, 250)
    BY DEF ServiceReply
  <2>. QED  BY <2>1, <2>2, <2>3 DEF Reply, Services
<1>11. out' \in Replies /\ out'.kind \in {"EXC"} \cup Services
  BY <1>5, <1>10
<1>12. db' \in DbCalls /\ db'.checked \in {NoAsso, db'.asso}
  <2>1. NoCall \in DbCalls /\ NoCall.checked = NoAsso
    BY SilenceType DEF NoCall
  <2>. QED  BY <1>2, <1>5, <1>9, <2>1 DEF DbCalls, Llcs
<1>. QED  BY <1>1, <1>3, <1>6, <1>8, <1>11, <1>12

\* The types of the variables, with the identifier of an open channel being its
\* rank: what csm_channel_hls_pass3 relies on to find its association.
IInv == TypeOK /\ Pass3ChecksOwnChallenge

LEMMA InitInv == Init => IInv
<1>. SUFFICES ASSUME Init PROVE IInv
  OBVIOUS
<1>1. 0 \in Chan  BY DEF Chan
<1>2. NoRequest \in Request  BY DEF NoRequest, Request, ObjNames
<1>3. out \in Replies /\ db \in DbCalls /\ db.checked = NoAsso
  BY <1>1, SilenceType DEF Init, NoCall
<1>4. NoChallenge \in Challenge
  BY ZeroAssumption DEF NoChallenge, Challenge
<1>5. AssoInit \in AssoState
  BY ZeroAssumption, <1>4 DEF AssoInit, AssoState, CfStates, AuthLevels, Refs, Results, LOWEST, ERR_NULL
<1>. QED  BY <1>2, <1>3, <1>5 DEF IInv, TypeOK, Init, Pass3ChecksOwnChallenge, Channel, Llcs

LEMMA NextInv == IInv /\ [Next]_vars => IInv'
<1>. SUFFICES ASSUME IInv, [Next]_vars PROVE IInv'
  OBVIOUS
<1>. USE DEF IInv
<1>0. NoCall \in DbCalls /\ NoCall.checked = NoAsso
  <2>1. 0 \in Chan  BY DEF Chan
  <2>. QED  BY <2>1, SilenceType DEF NoCall
<1>1. ASSUME NEW l \in Llcs, NewChannel(l) PROVE IInv'
  <2>. PICK c \in Chan : /\ chans' = [chans EXCEPT ![c].id = c + 1, ![c].llc = l]
                         /\ out' = Reply(c, "CHANNEL", 0, c + 1)
    BY <1>1 DEF NewChannel
  <2>. DEFINE r == [[chans[c] EXCEPT !.id = c + 1] EXCEPT !.llc = l]
  <2>1. c + 1 \in 0..NChan  BY DEF Chan
  <2>2. r \in Channel /\ r.id = c + 1
    <3>1. chans[c] \in Channel  BY DEF TypeOK
    <3>. QED  BY <2>1, <3>1 DEF Channel
  <2>3. chans' = [chans EXCEPT ![c] = r]
    BY DEF TypeOK
  <2>4. out' \in Replies
    BY <2>1, ReplyType
  <2>. HIDE DEF r
  <2>5. assos' = assos /\ db' = NoCall
    BY <1>1 DEF NewChannel
  <2>6. /\ chans' \in [Chan -> Channel]
        /\ \A x \in Chan : chans'[x].id \in {0, x + 1}
    BY <2>2, <2>3 DEF TypeOK
  <2>7. TypeOK'
    BY <1>0, <2>4, <2>5, <2>6 DEF TypeOK
  <2>8. Pass3ChecksOwnChallenge'
    BY <1>0, <2>5 DEF Pass3ChecksOwnChallenge
  <2>. QED  BY <2>7, <2>8
<1>2. ASSUME NoChannelLeft PROVE IInv'
  <2>1. Reply(0, "CHANNEL", 0, 0) \in Replies
    <3>1. 0 \in Chan  BY DEF Chan
    <3>. QED  BY <3>1, ReplyType
  <2>. QED  BY <1>0, <1>2, <2>1 DEF NoChannelLeft, TypeOK, Pass3ChecksOwnChallenge
<1>3. ASSUME NEW c \in Chan, Disconnect(c) PROVE IInv'
  <2>. DEFINE r == [chans[c] EXCEPT !.id = 0]
              a == chans[c].asso
  <2>1. r \in Channel /\ r.id = 0
    BY DEF TypeOK, Channel
  <2>2. chans' = [chans EXCEPT ![c] = r]
    BY <1>3 DEF Disconnect, TypeOK
  <2>3. assos' \in [Assos -> AssoState]
    <3>1. CASE a = NoAsso  BY <1>3, <3>1 DEF Disconnect, TypeOK
    <3>2. CASE a # NoAsso
      <4>1. a \in Assos  BY <3>2 DEF TypeOK, Channel, Llcs
      <4>2. [assos[a] EXCEPT !.cf = "IDLE"] \in AssoState
        BY <4>1 DEF TypeOK, AssoState, CfStates
      <4>3. assos' = [assos EXCEPT ![a] = [assos[a] EXCEPT !.cf = "IDLE"]]
        BY <1>3, <3>2, <4>1 DEF Disconnect, TypeOK
      <4>. QED  BY <4>1, <4>2, <4>3 DEF TypeOK
    <3>. QED  BY <3>1, <3>2
  <2>4. out' \in Replies
    BY <1>3, SilenceType DEF Disconnect
  <2>. HIDE DEF r
  <2>. QED  BY <1>0, <1>3, <2>1, <2>2, <2>3, <2>4 DEF Disconnect, TypeOK, Pass3ChecksOwnChallenge
<1>4. ASSUME NEW c \in Chan, UnknownSap(c) PROVE IInv'
  <2>. DEFINE r == [chans[c] EXCEPT !.llc = NoAsso]
  <2>1. r \in Channel /\ r.id = chans[c].id
    BY DEF TypeOK, Channel, Llcs
  <2>2. chans' = [chans EXCEPT ![c] = r]
    BY <1>4 DEF UnknownSap, TypeOK
  <2>3. out' \in Replies
    BY <1>4, SilenceType DEF UnknownSap
  <2>. HIDE DEF r
  <2>. QED  BY <1>0, <1>4, <2>1, <2>2, <2>3 DEF UnknownSap, TypeOK, Pass3ChecksOwnChallenge
<1>5. ASSUME NEW c \in Chan, NEW a \in Assos, NEW m \in Aarqs, NEW rnd \in Draws,
             RecvAarq(c, a, m, rnd)
      PROVE  IInv'
  <2>. DEFINE p == DecodeAarq(assos[a], m)
              s == DrawStoc(Grant(p.asso, Password[a]), rnd)
  <2>1. p.asso \in AssoState /\ s \in AssoState
    BY <1>5, AarqFacts DEF RecvAarq
  <2>2. /\ assos' \in {[assos EXCEPT ![a] = s], [assos EXCEPT ![a] = p.asso]}
        /\ out' \in {Reply(c, "AARE", 0, ResultOf(s)), Silence(c)}
    BY <1>5 DEF RecvAarq
  <2>. HIDE DEF p, s
  <2>3. assos' \in [Assos -> AssoState]
    BY <2>1, <2>2 DEF TypeOK
  <2>4. out' \in Replies
    <3>1. ResultOf(s) \in 0..NChan \cup {0, 1, 250} /\ 0 \in Invokes \cup {0}
      BY DEF ResultOf
    <3>2. Reply(c, "AARE", 0, ResultOf(s)) \in Replies  BY <3>1, ReplyType
    <3>3. Silence(c) \in Replies                        BY SilenceType
    <3>. QED  BY <2>2, <3>2, <3>3
  <2>5. chans' = Linked(c, a) /\ db' = NoCall
    BY <1>5 DEF RecvAarq
  <2>6. chans' \in [Chan -> Channel] /\ \A d \in Chan : chans'[d].id \in {0, d + 1}
    BY <2>5, PacketType
  <2>. QED  BY <1>0, <2>3, <2>4, <2>5, <2>6 DEF TypeOK, Pass3ChecksOwnChallenge
<1>6. ASSUME NEW c \in Chan, NEW a \in Assos, RecvRlrq(c, a) PROVE IInv'
  <2>1. [assos[a] EXCEPT !.cf = "IDLE"] \in AssoState
    BY DEF TypeOK, AssoState, CfStates
  <2>2. assos' = [assos EXCEPT ![a] = [assos[a] EXCEPT !.cf = "IDLE"]]
    BY <1>6 DEF RecvRlrq, TypeOK
  <2>3. assos' \in [Assos -> AssoState]
    BY <2>1, <2>2 DEF TypeOK
  <2>4. out' \in Replies
    BY <1>6, ReplyType DEF RecvRlrq
  <2>5. chans' = Linked(c, a) /\ db' = NoCall
    BY <1>6 DEF RecvRlrq
  <2>6. chans' \in [Chan -> Channel] /\ \A d \in Chan : chans'[d].id \in {0, d + 1}
    BY <2>5, PacketType
  <2>. QED  BY <1>0, <2>3, <2>4, <2>5, <2>6 DEF TypeOK, Pass3ChecksOwnChallenge
<1>7. ASSUME NEW c \in Chan, NEW a \in Assos, NEW tag, RecvIgnored(c, a, tag) PROVE IInv'
  <2>1. chans' = Linked(c, a) /\ db' = NoCall /\ out' = Silence(c) /\ assos' = assos
    BY <1>7 DEF RecvIgnored
  <2>2. chans' \in [Chan -> Channel] /\ \A d \in Chan : chans'[d].id \in {0, d + 1}
    BY <2>1, PacketType
  <2>3. out' \in Replies
    BY <2>1, SilenceType
  <2>. QED  BY <1>0, <2>1, <2>2, <2>3 DEF TypeOK, Pass3ChecksOwnChallenge
<1>8. ASSUME NEW c \in Chan, NEW a \in Assos, NEW p \in Pdus, NEW code \in Codes,
             RecvService(c, a, p, code)
      PROVE  IInv'
  <2>1. assos' = assos  BY <1>8 DEF RecvService
  <2>. QED  BY <1>8, <2>1, ServiceFacts DEF TypeOK, Pass3ChecksOwnChallenge
<1>9. CASE UNCHANGED vars
  BY <1>9 DEF vars, TypeOK, Pass3ChecksOwnChallenge
<1>. QED  BY <1>1, <1>2, <1>3, <1>4, <1>5, <1>6, <1>7, <1>8, <1>9 DEF Next

\* The variables keep their types, and the identifier of a channel is 0 or its
\* rank from 1, whatever calls the glue makes.
THEOREM TypeCorrect == Spec => []TypeOK
<1>1. IInv => TypeOK  BY DEF IInv
<1>. QED  BY <1>1, InitInv, NextInv, PTL DEF Spec

\* HLS pass 3 verifies the challenge of the association that executes the
\* request.
THEOREM Pass3Own == Spec => []Pass3ChecksOwnChallenge
<1>1. IInv => Pass3ChecksOwnChallenge  BY DEF IInv
<1>. QED  BY <1>1, InitInv, NextInv, PTL DEF Spec

-----------------------------------------------------------------------------
(* What opens and closes an association: CosemServer implements             *)
(* AssociationCF and keeps its three properties of opening and closing.     *)

\* An association record that the control function admits for a: closed, or
\* open with a session of a.
Admitted(a, s) ==
    /\ s \in AssoState
    /\ s.cf = "ASSOCIATED" => s.auth = LOWEST \/ (s.auth = LLS /\ Knows(s, Password[a]))
    /\ s.cf = "PENDING" => s.auth = GMAC

\* The three things a step does to the associations.
Untouched  == assos' = assos
Decided(a) == /\ assos[a].cf = "IDLE"
              /\ \E s : Admitted(a, s) /\ assos' = [assos EXCEPT ![a] = s]
Closed(a)  == \E s \in AssoState : s.cf = "IDLE" /\ assos' = [assos EXCEPT ![a] = s]

\* Closing writes the state of the control function and nothing else.
LEMMA CloseFacts ==
  ASSUME TypeOK, NEW a \in Assos, assos' = [assos EXCEPT ![a].cf = "IDLE"]
  PROVE  Closed(a)
<1>1. [assos[a] EXCEPT !.cf = "IDLE"] \in AssoState
  BY DEF TypeOK, AssoState, CfStates
<1>2. assos' = [assos EXCEPT ![a] = [assos[a] EXCEPT !.cf = "IDLE"]]
  BY DEF TypeOK
<1>3. [assos[a] EXCEPT !.cf = "IDLE"].cf = "IDLE"
  BY DEF TypeOK, AssoState
<1>. QED  BY <1>1, <1>2, <1>3 DEF Closed

\* An AARQ decides on its association, and the answer tells what was decided.
LEMMA AarqDecides ==
  ASSUME TypeOK, NEW c \in Chan, NEW a \in Assos, NEW m \in Aarqs, NEW rnd \in Draws,
         RecvAarq(c, a, m, rnd)
  PROVE  /\ Decided(a)
         /\ out'.to = c
         /\ assos'[a].cf # "IDLE" <=> (out'.kind = "AARE" /\ out'.result = 0)
<1>. DEFINE p == DecodeAarq(assos[a], m)
            s == DrawStoc(Grant(p.asso, Password[a]), rnd)
<1>1. assos[a].cf = "IDLE"
  BY DEF RecvAarq
<1>2. p.asso.cf = "IDLE" /\ Admitted(a, p.asso) /\ Admitted(a, s)
  BY <1>1, AarqFacts DEF Admitted
<1>3. \/ /\ assos' = [assos EXCEPT ![a] = s]
         /\ out' = Reply(c, "AARE", 0, ResultOf(s))
      \/ /\ assos' = [assos EXCEPT ![a] = p.asso]
         /\ out' = Silence(c)
  BY DEF RecvAarq
<1>. HIDE DEF p, s
<1>4. Decided(a)
  BY <1>1, <1>2, <1>3 DEF Decided
<1>5. a \in DOMAIN assos
  BY DEF TypeOK
<1>6. CASE assos' = [assos EXCEPT ![a] = s] /\ out' = Reply(c, "AARE", 0, ResultOf(s))
  <2>1. assos'[a] = s /\ out'.kind = "AARE" /\ out'.result = ResultOf(s) /\ out'.to = c
    BY <1>5, <1>6 DEF Reply
  <2>. QED  BY <1>4, <2>1 DEF ResultOf
<1>7. CASE assos' = [assos EXCEPT ![a] = p.asso] /\ out' = Silence(c)
  <2>1. assos'[a] = p.asso /\ out'.kind = "NONE" /\ out'.to = c
    BY <1>5, <1>7 DEF Silence, Reply
  <2>. QED  BY <1>2, <1>4, <2>1
<1>. QED  BY <1>3, <1>6, <1>7

\* The steps that leave the associations alone.
LEMMA IdleSteps ==
  /\ \A l \in Llcs : NewChannel(l) => Untouched
  /\ NoChannelLeft => Untouched
  /\ \A c \in Chan : UnknownSap(c) => Untouched
  /\ \A c \in Chan, a \in Assos :
       /\ \A tag \in {"AARQ", "AARE", "RLRQ", "RLRE", "OTHER"} \cup Services :
            RecvIgnored(c, a, tag) => Untouched
       /\ \A p \in Pdus, code \in Codes : RecvService(c, a, p, code) => Untouched
<1>1. ASSUME NEW l \in Llcs, NewChannel(l) PROVE Untouched
  BY <1>1 DEF NewChannel, Untouched
<1>2. ASSUME NoChannelLeft PROVE Untouched
  BY <1>2 DEF NoChannelLeft, Untouched
<1>3. ASSUME NEW c \in Chan, UnknownSap(c) PROVE Untouched
  BY <1>3 DEF UnknownSap, Untouched
<1>4. ASSUME NEW c \in Chan, NEW a \in Assos, NEW tag, RecvIgnored(c, a, tag)
      PROVE  Untouched
  BY <1>4 DEF RecvIgnored, Untouched
<1>5. ASSUME NEW c \in Chan, NEW a \in Assos, NEW p \in Pdus, NEW code \in Codes,
             RecvService(c, a, p, code)
      PROVE  Untouched
  BY <1>5 DEF RecvService, Untouched
<1>. QED  BY <1>1, <1>2, <1>3, <1>4, <1>5

\* Every step leaves the associations alone, decides an AARQ, or closes one.
LEMMA StepKinds ==
  ASSUME Next
  PROVE  \/ Untouched
         \/ \E c \in Chan : Disconnect(c)
         \/ \E c \in Chan, a \in Assos : RecvRlrq(c, a)
         \/ \E c \in Chan, a \in Assos, m \in Aarqs, rnd \in Draws : RecvAarq(c, a, m, rnd)
  BY IdleSteps, Zenon DEF Next

\* Every other step opens nothing: it leaves the associations alone or closes
\* one.
LEMMA OthersClose ==
  ASSUME TypeOK, Next,
         ~\E c \in Chan, a \in Assos, m \in Aarqs, rnd \in Draws : RecvAarq(c, a, m, rnd)
  PROVE  Untouched \/ \E a \in Assos : Closed(a)
<1>1. ASSUME NEW c \in Chan, Disconnect(c)
      PROVE  Untouched \/ \E a \in Assos : Closed(a)
  <2>1. CASE chans[c].asso = NoAsso
    BY <1>1, <2>1 DEF Disconnect, Untouched
  <2>2. CASE chans[c].asso # NoAsso
    <3>1. chans[c].asso \in Assos  BY <2>2 DEF TypeOK, Channel, Llcs
    <3>2. assos' = [assos EXCEPT ![chans[c].asso].cf = "IDLE"]
      BY <1>1, <2>2 DEF Disconnect
    <3>. QED  BY <3>1, <3>2, CloseFacts
  <2>. QED  BY <2>1, <2>2
<1>2. ASSUME NEW c \in Chan, NEW a \in Assos, RecvRlrq(c, a) PROVE Closed(a)
  BY <1>2, CloseFacts DEF RecvRlrq
<1>. QED  BY <1>1, <1>2, StepKinds

\* What every step does to the associations.
LEMMA StepShape ==
  ASSUME TypeOK, [Next]_vars
  PROVE  Untouched \/ \E a \in Assos : Decided(a) \/ Closed(a)
<1>1. CASE UNCHANGED vars
  BY <1>1 DEF vars, Untouched
<1>. QED  BY <1>1, AarqDecides, OthersClose

-----------------------------------------------------------------------------
(* The refinement                                                           *)

\* An admitted record holds a session that the abstract association admits.
LEMMA SessionFacts ==
  ASSUME NEW a \in Assos, NEW s, Admitted(a, s)
  PROVE  /\ s.cf = "IDLE" => SessionOf(s) = NoSession
         /\ s.cf = "ASSOCIATED" => SessionOf(s) \in ImmediateSessions(a) \cup UnprovenSessions
         /\ s.cf = "PENDING" => SessionOf(s) \in ChallengedSessions
         /\ s.cf \in CfStates
<1>1. s \in AssoState /\ s.cf \in CfStates
  BY DEF Admitted, AssoState
<1>2. CASE s.cf = "IDLE"
  BY <1>1, <1>2 DEF SessionOf
<1>3. CASE s.cf # "IDLE"
  <2>. DEFINE x == [auth |-> s.auth, ref |-> s.ref, ctitle |-> s.ctitle,
                    ctos |-> s.ctos, stoc |-> s.stoc]
  <2>1. SessionOf(s) = x  BY <1>3 DEF SessionOf
  <2>2. x \in Session /\ x.auth = s.auth /\ x.ctos = s.ctos
    BY <1>1 DEF AssoState, Session
  <2>. HIDE DEF x
  <2>3. CASE s.cf = "ASSOCIATED"
    <3>1. s.ctos.size >= 8 \/ s.ctos.size = 0
      BY <1>1 DEF AssoState, Challenge
    <3>. QED  BY <1>1, <2>1, <2>2, <2>3, <3>1 DEF Admitted, Knows, ImmediateSessions, UnprovenSessions
  <2>4. CASE s.cf = "PENDING"
    BY <1>1, <2>1, <2>2, <2>4 DEF Admitted, ChallengedSessions
  <2>. QED  BY <1>1, <1>3, <2>3, <2>4 DEF CfStates
<1>. QED  BY <1>2, <1>3

\* The refinement mapping.
CfState == [a \in Assos |-> assos[a].cf]
CfSession == [a \in Assos |-> SessionOf(assos[a])]

\* The mapping before and after a step, point by point.
LEMMA CfValues ==
  /\ CfState = [x \in Assos |-> CfState[x]]
  /\ CfState' = [x \in Assos |-> CfState'[x]]
  /\ \A x \in Assos : CfState[x] = assos[x].cf /\ CfState'[x] = assos'[x].cf
  /\ CfSession = [x \in Assos |-> CfSession[x]]
  /\ CfSession' = [x \in Assos |-> CfSession'[x]]
  /\ \A x \in Assos : /\ CfSession[x] = SessionOf(assos[x])
                      /\ CfSession'[x] = SessionOf(assos'[x])
<1>1. \A x \in Assos : SessionOf(assos[x])' = SessionOf(assos'[x])
  BY DEF SessionOf
<1>2. /\ CfState = [x \in Assos |-> assos[x].cf]
      /\ CfState' = [x \in Assos |-> assos'[x].cf]
      /\ CfSession = [x \in Assos |-> SessionOf(assos[x])]
      /\ CfSession' = [x \in Assos |-> SessionOf(assos'[x])]
  BY <1>1 DEF CfState, CfSession
<1>. QED  BY <1>2

\* A function that changes at one point.
LEMMA OnePoint ==
  ASSUME NEW S, NEW f, NEW g, NEW a \in S,
         f = [x \in S |-> f[x]], g = [x \in S |-> g[x]],
         \A x \in S \ {a} : g[x] = f[x]
  PROVE  g = [f EXCEPT ![a] = g[a]]
<1>. DEFINE h == [f EXCEPT ![a] = g[a]]
<1>1. h = [x \in S |-> h[x]]  OBVIOUS
<1>2. \A x \in S : h[x] = g[x]  OBVIOUS
<1>. QED  BY <1>1, <1>2

\* Every step of the server is a step of the control function or a stutter.
LEMMA StepCF ==
  ASSUME TypeOK, [Next]_vars
  PROVE  [CF!CfNext]_(CF!cfVars)
<1>0. ASSUME NEW a \in Assos, NEW s, assos' = [assos EXCEPT ![a] = s]
      PROVE  /\ assos'[a] = s
             /\ CfState' = [CfState EXCEPT ![a] = s.cf]
             /\ CfSession' = [CfSession EXCEPT ![a] = SessionOf(s)]
             /\ CfState'[a] = s.cf /\ CfSession'[a] = SessionOf(s)
  <2>1. assos'[a] = s /\ \A b \in Assos \ {a} : assos'[b] = assos[b]
    BY <1>0 DEF TypeOK
  <2>2. /\ CfState'[a] = s.cf /\ CfSession'[a] = SessionOf(s)
        /\ \A b \in Assos \ {a} : CfState'[b] = CfState[b] /\ CfSession'[b] = CfSession[b]
    BY <2>1, CfValues
  <2>3. CfState' = [CfState EXCEPT ![a] = CfState'[a]]
    BY <2>2, CfValues, OnePoint
  <2>4. CfSession' = [CfSession EXCEPT ![a] = CfSession'[a]]
    BY <2>2, CfValues, OnePoint
  <2>. QED  BY <2>1, <2>2, <2>3, <2>4
<1>1. CASE CfState' = CfState /\ CfSession' = CfSession
  BY <1>1 DEF CF!cfVars, CfState, CfSession
<1>2. CASE Untouched
  <2>1. CfState' = CfState /\ CfSession' = CfSession
    BY <1>2, CfValues DEF Untouched
  <2>. QED  BY <2>1, <1>1
<1>3. ASSUME NEW a \in Assos, Decided(a)
      PROVE  [CF!CfNext]_(CF!cfVars)
  <2>. PICK s : Admitted(a, s) /\ assos' = [assos EXCEPT ![a] = s]
    BY <1>3 DEF Decided
  <2>1. /\ CfState[a] = "IDLE" /\ CfSession[a] = NoSession
        /\ CfState = [x \in Assos |-> CfState[x]]
        /\ CfSession = [x \in Assos |-> CfSession[x]]
    BY <1>3, CfValues DEF Decided, SessionOf
  <2>2. /\ CfState' = [CfState EXCEPT ![a] = s.cf]
        /\ CfSession' = [CfSession EXCEPT ![a] = SessionOf(s)]
        /\ CfSession'[a] = SessionOf(s)
    BY <1>0
  <2>3. CASE s.cf = "IDLE"
    <3>1. SessionOf(s) = NoSession  BY <2>3 DEF SessionOf
    <3>2. CfState' = CfState /\ CfSession' = CfSession
      BY <2>1, <2>2, <2>3, <3>1
    <3>. QED  BY <3>2, <1>1
  <2>4. CASE s.cf # "IDLE"
    <3>1. \/ s.cf = "ASSOCIATED" /\ SessionOf(s) \in ImmediateSessions(a) \cup UnprovenSessions
          \/ s.cf = "PENDING" /\ SessionOf(s) \in ChallengedSessions
      BY <2>4, SessionFacts DEF CfStates
    <3>2. CF!Open(a) <=>
            /\ CfState[a] = "IDLE"
            /\ \/ /\ CfSession'[a] \in ImmediateSessions(a) \cup UnprovenSessions
                  /\ CfState' = [CfState EXCEPT ![a] = "ASSOCIATED"]
               \/ /\ CfSession'[a] \in ChallengedSessions
                  /\ CfState' = [CfState EXCEPT ![a] = "PENDING"]
            /\ CfSession' = [CfSession EXCEPT ![a] = CfSession'[a]]
      BY DEF CF!Open, CfState, CfSession
    <3>3. CF!Open(a)
      BY <2>1, <2>2, <3>1, <3>2
    <3>. QED  BY <3>3 DEF CF!CfNext
  <2>. QED  BY <2>3, <2>4
<1>4. ASSUME NEW a \in Assos, Closed(a)
      PROVE  [CF!CfNext]_(CF!cfVars)
  <2>. PICK s \in AssoState : s.cf = "IDLE" /\ assos' = [assos EXCEPT ![a] = s]
    BY <1>4 DEF Closed
  <2>1. SessionOf(s) = NoSession  BY DEF SessionOf
  <2>2. /\ CfState' = [CfState EXCEPT ![a] = "IDLE"]
        /\ CfSession' = [CfSession EXCEPT ![a] = NoSession]
    BY <1>0, <2>1
  <2>3. CASE CfState[a] = "IDLE"
    <3>1. CfSession[a] = NoSession  BY <2>3, CfValues DEF SessionOf
    <3>2. CfState' = CfState /\ CfSession' = CfSession
      BY <2>2, <2>3, <3>1, CfValues
    <3>. QED  BY <3>2, <1>1
  <2>4. CASE CfState[a] # "IDLE"
    <3>1. CF!Close(a) <=>
            /\ CfState[a] # "IDLE"
            /\ CfState' = [CfState EXCEPT ![a] = "IDLE"]
            /\ CfSession' = [CfSession EXCEPT ![a] = NoSession]
      BY DEF CF!Close, CfState, CfSession
    <3>. QED  BY <2>2, <2>4, <3>1 DEF CF!CfNext
  <2>. QED  BY <2>3, <2>4
<1>. QED  BY <1>2, <1>3, <1>4, StepShape

\* Every association behaves as the control function of AssociationCF: it opens without a
\* mechanism, with the password, to wait for a challenge, or with LLS and no value at all, and
\* its session stays as it is until it closes (csm_asso_is_granted).
THEOREM Refinement == Spec => ImplementsCF
<1>1. Init => CF!CfInit
  <2>1. AssoInit.cf = "IDLE" /\ SessionOf(AssoInit) = NoSession
    BY DEF AssoInit, SessionOf
  <2>. QED  BY <2>1 DEF Init, CF!CfInit
<1>2. TypeOK /\ [Next]_vars => [CF!CfNext]_(CF!cfVars)
  BY StepCF
<1>. QED  BY <1>1, <1>2, TypeCorrect, PTL DEF Spec, ImplementsCF, CF!CfSpec

-----------------------------------------------------------------------------
(* Opening and closing                                                      *)

\* The parts of a step that the next properties look at: the answer, the
\* channel it is for, and who is closed.
LEMMA OnlyAarqAccepts ==
  ASSUME TypeOK, Next, out'.kind = "AARE"
  PROVE  \E c \in Chan, a \in Assos, m \in Aarqs, rnd \in Draws : RecvAarq(c, a, m, rnd)
<1>1. ASSUME NEW l \in Llcs, NewChannel(l) PROVE FALSE
  BY <1>1 DEF NewChannel, Reply
<1>2. CASE NoChannelLeft
  BY <1>2 DEF NoChannelLeft, Reply
<1>3. ASSUME NEW c \in Chan, Disconnect(c) PROVE FALSE
  BY <1>3 DEF Disconnect, Silence, Reply
<1>4. ASSUME NEW c \in Chan, UnknownSap(c) PROVE FALSE
  BY <1>4 DEF UnknownSap, Silence, Reply
<1>6. ASSUME NEW c \in Chan, NEW a \in Assos, RecvRlrq(c, a) PROVE FALSE
  BY <1>6 DEF RecvRlrq, Reply
<1>7. ASSUME NEW c \in Chan, NEW a \in Assos, NEW tag, RecvIgnored(c, a, tag) PROVE FALSE
  BY <1>7 DEF RecvIgnored, Silence, Reply
<1>8. ASSUME NEW c \in Chan, NEW a \in Assos, NEW p \in Pdus, NEW code \in Codes,
             RecvService(c, a, p, code)
      PROVE  FALSE
  BY <1>8, ServiceFacts DEF Services
<1>. QED  BY <1>1, <1>2, <1>3, <1>4, <1>6, <1>7, <1>8 DEF Next

\* An association opens exactly when its acceptance is sent.
LEMMA StepOpened ==
  ASSUME TypeOK, Next, NEW a \in Assos, ~Open(a)
  PROVE  Open(a)' <=> AcceptedOn(a)'
<1>1. ASSUME NEW c \in Chan, NEW b \in Assos, NEW m \in Aarqs, NEW rnd \in Draws,
             RecvAarq(c, b, m, rnd)
      PROVE  Open(a)' <=> AcceptedOn(a)'
  <2>1. /\ Decided(b) /\ out'.to = c
        /\ assos'[b].cf # "IDLE" <=> (out'.kind = "AARE" /\ out'.result = 0)
    BY <1>1, AarqDecides
  <2>2. chans'[c].asso = b
    BY <1>1, LinkedFacts DEF RecvAarq
  <2>3. CASE a = b
    BY <2>1, <2>2, <2>3 DEF Open, AcceptedOn
  <2>4. CASE a # b
    <3>1. assos'[a] = assos[a]  BY <2>1, <2>4 DEF Decided, TypeOK
    <3>. QED  BY <2>1, <2>2, <2>4, <3>1 DEF Open, AcceptedOn
  <2>. QED  BY <2>3, <2>4
<1>2. CASE ~\E c \in Chan, b \in Assos, m \in Aarqs, rnd \in Draws : RecvAarq(c, b, m, rnd)
  <2>1. out'.kind # "AARE"
    BY <1>2, OnlyAarqAccepts
  <2>2. Untouched \/ \E b \in Assos : Closed(b)
    BY <1>2, OthersClose
  <2>3. ~Open(a)'
    BY <2>2 DEF Open, Untouched, Closed, TypeOK
  <2>. QED  BY <2>1, <2>3 DEF AcceptedOn
<1>. QED  BY <1>1, <1>2

\* Client and server agree on whether an association is open.
THEOREM OpenedAccepted == Spec => OpenedIffAccepted
<1>1. TypeOK /\ [Next]_vars =>
        [\A a \in Assos : ~Open(a) => (Open(a)' <=> AcceptedOn(a)')]_vars
  BY StepOpened
<1>. QED  BY <1>1, TypeCorrect, PTL DEF Spec, OpenedIffAccepted

\* An association closes by an answered RLRQ or with its channel.
LEMMA StepClosed ==
  ASSUME TypeOK, Next, NEW a \in Assos, Open(a), ~Open(a)'
  PROVE  \/ /\ assos[a].cf = "ASSOCIATED"
            /\ out'.kind = "RLRE" /\ chans'[out'.to].asso = a
         \/ \E c \in Chan : /\ chans[c].id # 0 /\ chans'[c].id = 0
                            /\ chans[c].asso = a
<1>0. assos'[a] # assos[a]
  BY DEF Open
<1>1. ASSUME NEW c \in Chan, Disconnect(c)
      PROVE  chans[c].id # 0 /\ chans'[c].id = 0 /\ chans[c].asso = a
  <2>1. chans[c].id # 0 /\ chans'[c].id = 0
    BY <1>1 DEF Disconnect, TypeOK, Channel
  <2>2. chans[c].asso = a
    BY <1>0, <1>1 DEF Disconnect, TypeOK
  <2>. QED  BY <2>1, <2>2
<1>2. ASSUME NEW c \in Chan, NEW b \in Assos, RecvRlrq(c, b)
      PROVE  /\ assos[a].cf = "ASSOCIATED"
             /\ out'.kind = "RLRE" /\ chans'[out'.to].asso = a
  <2>1. a = b
    BY <1>0, <1>2 DEF RecvRlrq, TypeOK
  <2>2. assos[b].cf = "ASSOCIATED" /\ out' = Reply(c, "RLRE", 0, 0)
    BY <1>2 DEF RecvRlrq
  <2>3. chans'[c].asso = b
    BY <1>2, LinkedFacts DEF RecvRlrq
  <2>. QED  BY <2>1, <2>2, <2>3 DEF Reply
<1>3. ASSUME NEW c \in Chan, NEW b \in Assos, NEW m \in Aarqs, NEW rnd \in Draws,
             RecvAarq(c, b, m, rnd)
      PROVE  FALSE
  <2>1. assos[b].cf = "IDLE" /\ Decided(b)
    BY <1>3, AarqDecides DEF Decided
  <2>2. a # b  BY <2>1 DEF Open
  <2>. QED  BY <1>0, <2>1, <2>2 DEF Decided, TypeOK
<1>4. ~Untouched
  BY <1>0 DEF Untouched
<1>. QED  BY <1>1, <1>2, <1>3, <1>4, StepKinds

\* Nothing but a release or its own channel closes an association.
THEOREM ClosedByChannel == Spec => ClosedByItsChannel
<1>1. TypeOK /\ [Next]_vars =>
        [\A a \in Assos :
          Open(a) /\ ~Open(a)' =>
            \/ /\ assos[a].cf = "ASSOCIATED"
               /\ out'.kind = "RLRE" /\ chans'[out'.to].asso = a
            \/ \E c \in Chan : /\ chans[c].id # 0 /\ chans'[c].id = 0
                               /\ chans[c].asso = a]_vars
  BY StepClosed
<1>. QED  BY <1>1, TypeCorrect, PTL DEF Spec, ClosedByItsChannel

-----------------------------------------------------------------------------
(* Who holds an open association                                            *)

\* A packet of association b leaves its channel holding b, and every channel
\* that holds an association keeps it: the addresses of a connection are fixed.
LEMMA PacketHolds ==
  ASSUME TypeOK, ~MultiSap, NEW c \in Chan, NEW b \in Assos, Packet(c, b),
         chans'[c].id = chans[c].id, chans'[c].asso = b, chans'[c].llc = b,
         \A d \in Chan \ {c} : chans'[d] = chans[d]
  PROVE  /\ Holds(c, b)'
         /\ \A a \in Assos, d \in Chan : Holds(d, a) => Holds(d, a)'
<1>1. chans[c].id # 0 /\ chans[c].llc = b
  BY DEF Packet
<1>. QED  BY <1>1 DEF Holds

LEMMA StepHeld ==
  ASSUME TypeOK, OpenIsHeld, [Next]_vars
  PROVE  OpenIsHeld'
<1>. SUFFICES ASSUME ~MultiSap, NEW a \in Assos, Open(a)'
              PROVE  \E d \in Chan : Holds(d, a)'
  BY DEF OpenIsHeld
<1>0. Open(a) => \E d \in Chan : Holds(d, a)
  BY DEF OpenIsHeld
<1>1. ASSUME NEW l \in Llcs, NewChannel(l) PROVE \E d \in Chan : Holds(d, a)'
  <2>1. Open(a)  BY <1>1 DEF NewChannel, Open
  <2>. PICK d \in Chan : Holds(d, a)  BY <2>1, <1>0
  <2>2. chans'[d] = chans[d]
    BY <1>1 DEF NewChannel, Holds, TypeOK
  <2>. QED  BY <2>2 DEF Holds
<1>2. CASE chans' = chans /\ assos' = assos
  BY <1>0, <1>2 DEF Open, Holds
<1>3. ASSUME NEW c \in Chan, Disconnect(c) PROVE \E d \in Chan : Holds(d, a)'
  <2>. DEFINE b == chans[c].asso
  <2>0. b # NoAsso => b \in Assos /\ assos' = [assos EXCEPT ![b].cf = "IDLE"]
    BY <1>3 DEF Disconnect, TypeOK, Channel, Llcs
  <2>1. Open(a) /\ b # a
    <3>1. CASE b = NoAsso
      BY <1>3, <3>1, ServerAssumption DEF Disconnect, Open
    <3>2. CASE b # NoAsso
      <4>1. assos'[b].cf = "IDLE"
        BY <2>0, <3>2 DEF TypeOK, AssoState
      <4>2. \A x \in Assos \ {b} : assos'[x] = assos[x]
        BY <2>0, <3>2 DEF TypeOK
      <4>. QED  BY <4>1, <4>2 DEF Open
    <3>. QED  BY <3>1, <3>2
  <2>. PICK d \in Chan : Holds(d, a)  BY <2>1, <1>0
  <2>2. chans'[d] = chans[d]
    BY <1>3, <2>1 DEF Disconnect, Holds, TypeOK
  <2>. QED  BY <2>2 DEF Holds
<1>4. ASSUME NEW c \in Chan, UnknownSap(c) PROVE \E d \in Chan : Holds(d, a)'
  <2>1. Open(a) /\ chans[c].llc = NoAsso
    BY <1>4 DEF UnknownSap, Packet, Open
  <2>. PICK d \in Chan : Holds(d, a)  BY <2>1, <1>0
  <2>2. d # c  BY <2>1, ServerAssumption DEF Holds
  <2>3. chans'[d] = chans[d]
    BY <1>4, <2>2 DEF UnknownSap, TypeOK
  <2>. QED  BY <2>3 DEF Holds
<1>5. ASSUME NEW c \in Chan, NEW b \in Assos, Packet(c, b),
             chans'[c].id = chans[c].id, chans'[c].asso = b, chans'[c].llc = b,
             \A d \in Chan \ {c} : chans'[d] = chans[d],
             a # b => assos'[a] = assos[a]
      PROVE  \E d \in Chan : Holds(d, a)'
  <2>1. CASE a = b
    BY <1>5, <2>1, PacketHolds
  <2>2. CASE a # b
    <3>1. Open(a)  BY <1>5, <2>2 DEF Open
    <3>. QED  BY <1>0, <1>5, <3>1, PacketHolds
  <2>. QED  BY <2>1, <2>2
<1>6. ASSUME NEW c \in Chan, NEW b \in Assos, Packet(c, b), chans' = Linked(c, b),
             a # b => assos'[a] = assos[a]
      PROVE  \E d \in Chan : Holds(d, a)'
  <2>1. /\ chans'[c].id = chans[c].id /\ chans'[c].asso = b /\ chans'[c].llc = b
        /\ \A d \in Chan \ {c} : chans'[d] = chans[d]
    BY <1>6, LinkedFacts
  <2>. QED  BY <1>5, <1>6, <2>1
<1>7. ASSUME NEW c \in Chan, NEW b \in Assos, NEW m \in Aarqs, NEW rnd \in Draws,
             RecvAarq(c, b, m, rnd)
      PROVE  \E d \in Chan : Holds(d, a)'
  <2>1. a # b => assos'[a] = assos[a]
    BY <1>7, AarqDecides DEF Decided, TypeOK
  <2>. QED  BY <1>6, <1>7, <2>1 DEF RecvAarq
<1>8. ASSUME NEW c \in Chan, NEW b \in Assos, RecvRlrq(c, b)
      PROVE  \E d \in Chan : Holds(d, a)'
  <2>1. a # b => assos'[a] = assos[a]
    BY <1>8 DEF RecvRlrq, TypeOK
  <2>. QED  BY <1>6, <1>8, <2>1 DEF RecvRlrq
<1>9. ASSUME NEW c \in Chan, NEW b \in Assos, NEW tag, RecvIgnored(c, b, tag)
      PROVE  \E d \in Chan : Holds(d, a)'
  BY <1>6, <1>9 DEF RecvIgnored
<1>10. ASSUME NEW c \in Chan, NEW b \in Assos, NEW p \in Pdus, NEW code \in Codes,
              RecvService(c, b, p, code)
       PROVE  \E d \in Chan : Holds(d, a)'
  <2>1. /\ chans'[c].id = chans[c].id /\ chans'[c].asso = b /\ chans'[c].llc = b
        /\ \A d \in Chan \ {c} : chans'[d] = chans[d]
    BY <1>10, ServiceFacts
  <2>2. Packet(c, b) /\ assos' = assos
    BY <1>10 DEF RecvService
  <2>. QED  BY <1>5, <2>1, <2>2
<1>. QED
  BY <1>1, <1>2, <1>3, <1>4, <1>7, <1>8, <1>9, <1>10 DEF Next, NoChannelLeft, vars

\* No association is left open without a channel that holds it.
THEOREM OpenHeld == Spec => []OpenIsHeld
<1>1. Init => OpenIsHeld
  BY DEF Init, OpenIsHeld, Open, AssoInit
<1>2. TypeOK /\ OpenIsHeld /\ [Next]_vars => OpenIsHeld'
  BY StepHeld
<1>. QED  BY <1>1, <1>2, TypeCorrect, PTL DEF Spec

=============================================================================
