--------------------------- MODULE TcpServer_proofs ---------------------------
(***************************************************************************)
(* Safety of the select loop, for any number of peers, channels and        *)
(* descriptors.                                                            *)
(***************************************************************************)
EXTENDS TcpServer, FiniteSetTheorems, TLAPS

-----------------------------------------------------------------------------
(* The inductive invariant                                                  *)

ToRead == {"data", "last", "eof"}

\* The peers of the array have open sockets, each its own.
PeerSockets ==
    /\ \A p \in Connected : peers[p].sock \in Fds /\ stream[peers[p].sock] # "closed"
    /\ \A p, q \in Connected : peers[p].sock = peers[q].sock => p = q

\* What select() found ready still is, until its peer has been served.
ReadySockets ==
    /\ pc = "accept" =>
        /\ \A f \in working \cap Fds : stream[f] \in ToRead
        /\ Listener \in working => pending > 0
    /\ pc = "peers" =>
        \A p \in Connected : p >= i /\ peers[p].sock \in working
                                => stream[peers[p].sock] \in ToRead
    /\ pc = "send" =>
        \A p \in Connected : p > i /\ peers[p].sock \in working
                                => stream[peers[p].sock] \in ToRead

\* The response goes to a peer that is still there.
Answering == pc = "send" => i \in Connected

IInv == TypeOK /\ PeerSockets /\ ReadySockets /\ Answering

LEMMA InitInv == Init => IInv
<1>. SUFFICES ASSUME Init PROVE IInv
  OBVIOUS
<1>1. TypeOK
  BY TcpAssumption DEF Init, TypeOK, Peers, Fds, NoSocket, Streams
<1>2. Connected = {}
  BY DEF Init, Connected
<1>. QED  BY <1>1, <1>2 DEF IInv, PeerSockets, ReadySockets, Answering, Init

\* Clients and kernel change no socket of a peer and leave readable what was.
LEMMA EnvironmentInv == IInv /\ Environment => IInv'
<1>. SUFFICES ASSUME IInv, Environment PROVE IInv'
  OBVIOUS
<1>. USE DEF IInv
<1>1. UNCHANGED <<pc, i, peers, master, working, granted>>
  BY DEF Environment, Connect, Send, HangUp, Reads
<1>2. Connected' = Connected
  BY <1>1 DEF Connected
<1>3. /\ stream' \in [Fds -> Streams]
      /\ \A f \in Fds : /\ stream[f] # "closed" => stream'[f] # "closed"
                        /\ stream[f] \in ToRead => stream'[f] \in ToRead
  BY DEF Environment, Connect, Send, HangUp, Reads, TypeOK, Streams, ToRead
<1>4. pending' \in 0..Backlog /\ pending' >= pending /\ full' \subseteq Fds
  BY TcpAssumption DEF Environment, Connect, Send, HangUp, Reads, TypeOK
<1>5. TypeOK'
  BY <1>1, <1>3, <1>4 DEF TypeOK
<1>6. PeerSockets'
  BY <1>1, <1>2, <1>3 DEF PeerSockets
<1>7. ReadySockets'
  <2>1. pc = "accept" /\ Listener \in working => pending' > 0
    BY <1>4 DEF ReadySockets, TypeOK
  <2>2. pc = "accept" => \A f \in working \cap Fds : stream'[f] \in ToRead
    BY <1>3 DEF ReadySockets
  <2>3. pc = "peers" =>
          \A p \in Connected : p >= i /\ peers[p].sock \in working
                                 => stream'[peers[p].sock] \in ToRead
    BY <1>3 DEF ReadySockets, PeerSockets
  <2>4. pc = "send" =>
          \A p \in Connected : p > i /\ peers[p].sock \in working
                                 => stream'[peers[p].sock] \in ToRead
    BY <1>3 DEF ReadySockets, PeerSockets
  <2>. QED  BY <1>1, <1>2, <2>1, <2>2, <2>3, <2>4 DEF ReadySockets
<1>8. Answering'
  BY <1>1, <1>2 DEF Answering
<1>. QED  BY <1>5, <1>6, <1>7, <1>8

LEMMA SelectInv == IInv /\ Select => IInv'
<1>. SUFFICES ASSUME IInv, Select PROVE IInv'
  OBVIOUS
<1>1. working' \subseteq Readable \cap master
  BY DEF Select
<1>2. /\ pc' = "accept"
      /\ UNCHANGED <<i, peers, master, pending, stream, full, granted>>
  BY DEF Select
<1>3. TypeOK'
  BY <1>1, <1>2 DEF IInv, TypeOK
<1>4. PeerSockets'
  BY <1>2 DEF IInv, PeerSockets, Connected
<1>5. \A f \in working' \cap Fds : stream[f] \in ToRead
  BY <1>1, TcpAssumption DEF Readable, ToRead, Fds, Listener
<1>6. Listener \in working' => pending > 0
  BY <1>1, TcpAssumption DEF Readable, Fds, Listener
<1>. QED  BY <1>2, <1>3, <1>4, <1>5, <1>6 DEF IInv, ReadySockets, Answering

\* The loop goes on to the peers, or starts again, with the array as it was.
LEMMA NoAcceptInv == IInv /\ (NoNewClient \/ AcceptFails \/ Reject) => IInv'
<1>. SUFFICES ASSUME IInv, NoNewClient \/ AcceptFails \/ Reject PROVE IInv'
  OBVIOUS
<1>1. /\ pc = "accept" /\ pc' \in {"select", "peers"}
      /\ i' \in {0, i}
      /\ UNCHANGED <<peers, master, working, stream, full, granted>>
  BY DEF NoNewClient, AcceptFails, Reject
<1>2. pending' \in 0..Backlog
  BY TcpAssumption DEF NoNewClient, AcceptFails, Reject, IInv, TypeOK, ReadySockets
<1>3. TypeOK'
  BY <1>1, <1>2, TcpAssumption DEF IInv, TypeOK, Peers
<1>4. PeerSockets'
  BY <1>1 DEF IInv, PeerSockets, Connected
<1>5. Connected' = Connected
  BY <1>1 DEF Connected
<1>6. \A p \in Connected : peers[p].sock \in working => stream[peers[p].sock] \in ToRead
  BY <1>1 DEF IInv, PeerSockets, ReadySockets
<1>. QED  BY <1>1, <1>3, <1>4, <1>5, <1>6 DEF IInv, ReadySockets, Answering

\* A new peer gets a descriptor that was closed, so it is not one that
\* select() found ready.
LEMMA AcceptInv == IInv /\ Accept => IInv'
<1>. SUFFICES ASSUME IInv, Accept PROVE IInv'
  OBVIOUS
<1>1. PICK f \in Fds, c \in Channels :
        /\ LowestFree(f) /\ FirstChannel(c)
        /\ granted' = granted \cup {c}
        /\ master' = master \cup {f}
        /\ stream' = [stream EXCEPT ![f] = "idle"]
        /\ \/ \E p \in Peers :
                /\ FirstPeer(p)
                /\ peers' = [peers EXCEPT ![p] = [sock |-> f, connected |-> c]]
           \/ /\ Connected = Peers
              /\ UNCHANGED peers
  BY DEF Accept
<1>2. /\ pc = "accept" /\ pc' = "peers" /\ i' = 0
      /\ pending' = pending - 1 /\ UNCHANGED <<working, full>>
      /\ Listener \in working
  BY DEF Accept
<1>3. /\ stream[f] = "closed" /\ f \notin working
      /\ \A p \in Connected : peers[p].sock # f
  BY <1>1, <1>2 DEF LowestFree, FreeFds, IInv, ReadySockets, PeerSockets, ToRead
<1>4. c # 0
  BY <1>1 DEF Channels
<1>5. TypeOK'
  <2>1. pending' \in 0..Backlog
    BY <1>2, TcpAssumption DEF IInv, TypeOK, ReadySockets
  <2>2. peers' \in [Peers -> [sock: Fds \cup {NoSocket}, connected: {0} \cup Channels]]
    BY <1>1 DEF IInv, TypeOK
  <2>3. stream' \in [Fds -> Streams]
    BY <1>1 DEF IInv, TypeOK, Streams
  <2>. QED  BY <1>1, <1>2, <2>1, <2>2, <2>3, TcpAssumption DEF IInv, TypeOK, Peers
<1>6. /\ \A p \in Connected' :
            /\ peers'[p].sock \in Fds /\ stream'[peers'[p].sock] # "closed"
            /\ peers'[p].sock \in working => stream'[peers'[p].sock] \in ToRead
      /\ \A p, q \in Connected' : peers'[p].sock = peers'[q].sock => p = q
  <2>0. \A g \in Fds : stream'[g] = IF g = f THEN "idle" ELSE stream[g]
    BY <1>1 DEF IInv, TypeOK
  <2>1. CASE UNCHANGED peers
    <3>1. Connected' = Connected
      BY <2>1 DEF Connected
    <3>. QED  BY <1>2, <1>3, <2>0, <2>1, <3>1 DEF IInv, PeerSockets, ReadySockets
  <2>2. ASSUME NEW p \in Peers, FirstPeer(p),
               peers' = [peers EXCEPT ![p] = [sock |-> f, connected |-> c]]
        PROVE  <1>6!1 /\ <1>6!2
    <3>1. \A q \in Peers : peers'[q] = IF q = p THEN [sock |-> f, connected |-> c]
                                       ELSE peers[q]
      BY <2>2 DEF IInv, TypeOK
    <3>2. \A q \in Connected' : q \in Connected \/ q = p
      BY <3>1 DEF Connected
    <3>3. \A q \in Connected : q # p /\ q \in Peers
      BY <2>2 DEF FirstPeer, Connected
    <3>. QED  BY <1>2, <1>3, <2>0, <3>1, <3>2, <3>3 DEF IInv, PeerSockets, ReadySockets
  <2>. QED  BY <1>1, <2>1, <2>2
<1>. QED  BY <1>2, <1>5, <1>6 DEF IInv, PeerSockets, ReadySockets, Answering

\* What a turn of the peer loop does to pc and i.
LEMMA NextPeerFacts ==
  ASSUME IInv, NextPeer
  PROVE  /\ i' \in Peers /\ pc' \in {"select", "peers"}
         /\ pc' = "peers" => \A p \in Peers : p >= i' => p > i
BY TcpAssumption DEF IInv, TypeOK, NextPeer, Peers

LEMMA SkipPeerInv == IInv /\ SkipPeer => IInv'
<1>. SUFFICES ASSUME IInv, SkipPeer PROVE IInv'
  OBVIOUS
<1>1. pc = "peers" /\ NextPeer /\ UNCHANGED <<peers, master, working, pending, stream, full, granted>>
  BY DEF SkipPeer
<1>2. /\ i' \in Peers /\ pc' \in {"select", "peers"}
      /\ pc' = "peers" => \A p \in Peers : p >= i' => p > i
  BY <1>1, NextPeerFacts
<1>3. Connected' = Connected /\ Connected \subseteq Peers
  BY <1>1 DEF Connected
<1>4. TypeOK'
  BY <1>1, <1>2 DEF IInv, TypeOK
<1>5. PeerSockets'
  BY <1>1, <1>3 DEF IInv, PeerSockets
<1>6. \A p \in Peers : p > i => p >= i
  BY DEF IInv, TypeOK, Peers
<1>7. ReadySockets'
  BY <1>1, <1>2, <1>3, <1>6 DEF IInv, ReadySockets
<1>. QED  BY <1>2, <1>4, <1>5, <1>7 DEF IInv, Answering

\* The response is sent and the loop goes on to the next peer.
LEMMA AnsweredInv == IInv /\ PeerAnswered => IInv'
<1>. SUFFICES ASSUME IInv, PeerAnswered PROVE IInv'
  OBVIOUS
<1>1. pc = "send" /\ NextPeer /\ UNCHANGED <<peers, master, working, pending, stream, granted>>
  BY DEF PeerAnswered
<1>2. /\ i' \in Peers /\ pc' \in {"select", "peers"}
      /\ pc' = "peers" => \A p \in Peers : p >= i' => p > i
  BY <1>1, NextPeerFacts
<1>3. Connected' = Connected /\ Connected \subseteq Peers
  BY <1>1 DEF Connected
<1>4. full' \subseteq Fds
  BY <1>1 DEF PeerAnswered, IInv, TypeOK, PeerSockets, Answering
<1>5. TypeOK'
  BY <1>1, <1>2, <1>4 DEF IInv, TypeOK
<1>6. PeerSockets'
  BY <1>1, <1>3 DEF IInv, PeerSockets
<1>7. ReadySockets'
  BY <1>1, <1>2, <1>3 DEF IInv, ReadySockets
<1>. QED  BY <1>2, <1>5, <1>6, <1>7 DEF IInv, Answering

\* A peer that is served changes its own socket, which no peer after it has.
LEMMA ServeInv == IInv /\ (PeerTalks \/ PeerLeaves) => IInv'
<1>. SUFFICES ASSUME IInv, PeerTalks \/ PeerLeaves PROVE IInv'
  OBVIOUS
<1>. DEFINE s == peers[i].sock
<1>1. /\ pc = "peers" /\ i \in Connected /\ UNCHANGED <<working, pending>>
      /\ NextPeer \/ (PeerTalks /\ pc' = "send" /\ i' = i)
  BY DEF PeerTalks, PeerLeaves, Talking
<1>2. /\ i' \in Peers /\ pc' \in {"select", "peers", "send"}
      /\ pc' = "peers" => \A p \in Peers : p >= i' => p > i
      /\ pc' = "send" => i' = i /\ PeerTalks
  <2>1. CASE NextPeer
    BY <2>1, NextPeerFacts
  <2>2. CASE PeerTalks /\ pc' = "send" /\ i' = i
    BY <2>2 DEF IInv, TypeOK
  <2>. QED  BY <1>1, <2>1, <2>2
<1>3. s \in Fds /\ Connected \subseteq Peers
  BY <1>1 DEF IInv, PeerSockets, Connected
<1>4. /\ stream' \in [Fds -> Streams]
      /\ \A f \in Fds \ {s} : stream'[f] = stream[f]
      /\ peers' = peers => stream'[s] # "closed"
  <2>1. CASE PeerTalks
    BY <2>1, <1>3 DEF PeerTalks, IInv, TypeOK, Streams
  <2>2. CASE PeerLeaves
    <3>1. peers'[i].connected = 0
      BY <2>2, <1>1, <1>3 DEF PeerLeaves, IInv, TypeOK
    <3>2. peers' # peers
      BY <1>1, <3>1 DEF Connected
    <3>. QED  BY <2>2, <3>2, <1>3 DEF PeerLeaves, IInv, TypeOK, Streams
  <2>. QED  BY <2>1, <2>2
<1>5. /\ peers' \in [Peers -> [sock: Fds \cup {NoSocket}, connected: {0} \cup Channels]]
      /\ Connected' \subseteq Connected
      /\ \A p \in Connected' : peers'[p] = peers[p]
      /\ i \in Connected' => peers' = peers
  BY <1>1, <1>3 DEF PeerTalks, PeerLeaves, Connected, IInv, TypeOK
<1>6. master' \subseteq master /\ granted' \subseteq granted /\ full' \subseteq full
  BY DEF PeerTalks, PeerLeaves
<1>7. TypeOK'
  BY <1>1, <1>2, <1>4, <1>5, <1>6 DEF IInv, TypeOK
<1>8. PeerSockets'
  <2>1. \A p \in Connected' : p # i => peers[p].sock # s
    BY <1>1, <1>5 DEF IInv, PeerSockets
  <2>. QED  BY <1>1, <1>4, <1>5, <2>1 DEF IInv, PeerSockets
<1>9. ReadySockets'
  <2>. SUFFICES ASSUME NEW p \in Connected', peers'[p].sock \in working',
                       (pc' = "peers" /\ p >= i') \/ (pc' = "send" /\ p > i')
                PROVE  stream'[peers'[p].sock] \in ToRead
    BY <1>2 DEF ReadySockets
  <2>1. p \in Peers /\ p \in Connected /\ p > i /\ peers'[p] = peers[p]
    BY <1>2, <1>3, <1>5
  <2>2. p # i /\ p >= i
    BY <2>1 DEF IInv, TypeOK, Peers
  <2>3. peers[p].sock \in Fds \ {s}
    BY <1>1, <2>1, <2>2 DEF IInv, PeerSockets
  <2>. QED  BY <1>1, <1>4, <2>1, <2>2, <2>3 DEF IInv, ReadySockets
<1>10. Answering'
  <2>1. PeerTalks => i \in Connected'
    BY <1>1 DEF PeerTalks, Connected
  <2>. QED  BY <1>2, <2>1 DEF Answering
<1>. QED  BY <1>7, <1>8, <1>9, <1>10 DEF IInv

LEMMA NextInv == IInv /\ [Next]_vars => IInv'
<1>. SUFFICES ASSUME IInv, [Next]_vars PROVE IInv'
  OBVIOUS
<1>1. CASE Environment
  BY <1>1, EnvironmentInv
<1>2. CASE Select
  BY <1>2, SelectInv
<1>3. CASE NoNewClient \/ AcceptFails \/ Reject
  BY <1>3, NoAcceptInv
<1>4. CASE Accept
  BY <1>4, AcceptInv
<1>5. CASE SkipPeer
  BY <1>5, SkipPeerInv
<1>6. CASE PeerTalks \/ PeerLeaves
  BY <1>6, ServeInv
<1>7. CASE PeerAnswered
  BY <1>7, AnsweredInv
<1>8. CASE UNCHANGED vars
  BY <1>8 DEF vars, IInv, TypeOK, PeerSockets, ReadySockets, Answering, Connected
<1>. QED  BY <1>1, <1>2, <1>3, <1>4, <1>5, <1>6, <1>7, <1>8 DEF Next, Loop

LEMMA Invariance == Spec => []IInv
BY InitInv, NextInv, PTL DEF Spec

\* The variables of the loop and of the kernel keep their types, for any number
\* of peers, channels and descriptors.
THEOREM TypeCorrect == Spec => []TypeOK
<1>1. IInv => TypeOK
  BY DEF IInv
<1>. QED  BY <1>1, Invariance, PTL

\* The loop never calls recv() where it could block, even when the application
\* grants more channels than there are peers.
THEOREM NeverBlocks == Spec => []RecvNeverBlocks
<1>1. IInv => RecvNeverBlocks
  BY DEF IInv, TypeOK, ReadySockets, RecvNeverBlocks, Talking, ToRead, Peers
<1>. QED  BY <1>1, Invariance, PTL

-----------------------------------------------------------------------------
(* Ownership, when the application has no more channels than the array has  *)
(* peers                                                                    *)

OInv == IInv /\ SocketsOwned /\ ChannelsOwned

\* A channel that can be granted means that a peer of the array is free: the
\* granted ones are those of the connected peers, each of one peer.
LEMMA PeerFree ==
  ASSUME TypeOK, ChannelsOwned, NChan <= MaxClients,
         NEW c \in Channels, c \notin granted
  PROVE  Connected # Peers
<1>. SUFFICES ASSUME Connected = Peers PROVE FALSE
  OBVIOUS
<1>. DEFINE channelOf == [p \in Peers |-> peers[p].connected]
<1>1. channelOf \in [Peers -> Channels \ {c}]
  BY DEF TypeOK, ChannelsOwned, Connected
<1>2. IsFiniteSet(Peers) /\ Cardinality(Peers) = MaxClients
  BY FS_Interval, TcpAssumption DEF Peers
<1>3. IsFiniteSet(Channels) /\ Cardinality(Channels) = NChan
  BY FS_Interval, TcpAssumption DEF Channels
<1>4. IsFiniteSet(Channels \ {c}) /\ Cardinality(Channels \ {c}) = NChan - 1
  BY <1>3, FS_RemoveElement
<1>5. Cardinality(Channels \ {c}) < Cardinality(Peers)
  BY <1>2, <1>4, TcpAssumption
<1>6. \E p, q \in Peers : p # q /\ channelOf[p] = channelOf[q]
  <2>. HIDE DEF channelOf
  <2>. QED  BY <1>1, <1>2, <1>4, <1>5, FS_PigeonHole
<1>. QED  BY <1>6 DEF ChannelsOwned

LEMMA InitOwned == Init => OInv
<1>. SUFFICES ASSUME Init PROVE OInv
  OBVIOUS
<1>1. Connected = {}
  BY DEF Init, Connected
<1>. QED  BY <1>1, InitInv DEF OInv, SocketsOwned, ChannelsOwned, Init

\* Clients and kernel open and close no descriptor; the loop does so in Accept
\* and in PeerLeaves only.
LEMMA OthersOwned ==
  OInv /\ (Environment \/ Select \/ NoNewClient \/ AcceptFails \/ Reject
             \/ SkipPeer \/ PeerTalks \/ PeerAnswered \/ UNCHANGED vars)
    => (SocketsOwned /\ ChannelsOwned)'
<1>. SUFFICES ASSUME OInv,
                     Environment \/ Select \/ NoNewClient \/ AcceptFails \/ Reject
                       \/ SkipPeer \/ PeerTalks \/ PeerAnswered \/ UNCHANGED vars
              PROVE  (SocketsOwned /\ ChannelsOwned)'
  OBVIOUS
<1>1. UNCHANGED <<peers, master, granted>>
  BY DEF Environment, Connect, Send, HangUp, Reads, Select, NoNewClient, AcceptFails,
         Reject, SkipPeer, PeerTalks, PeerAnswered, vars
<1>2. \A f \in Fds : stream'[f] = "closed" <=> stream[f] = "closed"
  <2>1. CASE Environment
    BY <2>1 DEF Environment, Connect, Send, HangUp, Reads, OInv, IInv, TypeOK
  <2>2. CASE PeerTalks
    BY <2>2 DEF PeerTalks, OInv, IInv, TypeOK
  <2>3. CASE UNCHANGED stream
    BY <2>3
  <2>. QED  BY <2>1, <2>2, <2>3 DEF Select, NoNewClient, AcceptFails, Reject, SkipPeer, PeerAnswered, vars
<1>3. Connected' = Connected
  BY <1>1 DEF Connected
<1>. QED  BY <1>1, <1>2, <1>3 DEF OInv, SocketsOwned, ChannelsOwned

\* The new socket and its channel go to the first free peer.
LEMMA AcceptOwned ==
  ASSUME NChan <= MaxClients
  PROVE  OInv /\ Accept => (SocketsOwned /\ ChannelsOwned)'
<1>. SUFFICES ASSUME OInv, Accept PROVE (SocketsOwned /\ ChannelsOwned)'
  OBVIOUS
<1>1. PICK f \in Fds, c \in Channels :
        /\ LowestFree(f) /\ FirstChannel(c)
        /\ granted' = granted \cup {c}
        /\ master' = master \cup {f}
        /\ stream' = [stream EXCEPT ![f] = "idle"]
        /\ \/ \E p \in Peers :
                /\ FirstPeer(p)
                /\ peers' = [peers EXCEPT ![p] = [sock |-> f, connected |-> c]]
           \/ /\ Connected = Peers
              /\ UNCHANGED peers
  BY DEF Accept
<1>2. c \notin granted /\ c # 0
  BY <1>1 DEF FirstChannel, Channels
<1>3. Connected # Peers
  BY <1>2, PeerFree DEF OInv, IInv
<1>4. PICK p \in Peers :
        /\ p \notin Connected
        /\ peers' = [peers EXCEPT ![p] = [sock |-> f, connected |-> c]]
  BY <1>1, <1>3 DEF FirstPeer
<1>5. \A q \in Peers : peers'[q] = IF q = p THEN [sock |-> f, connected |-> c] ELSE peers[q]
  BY <1>4 DEF OInv, IInv, TypeOK
<1>6. Connected' = Connected \cup {p}
  BY <1>2, <1>5 DEF Connected
<1>7. stream[f] = "closed" /\ f # Listener
  BY <1>1 DEF LowestFree, FreeFds, Fds, Listener
<1>8. {g \in Fds : stream'[g] # "closed"} = {g \in Fds : stream[g] # "closed"} \cup {f}
  BY <1>1 DEF OInv, IInv, TypeOK
<1>9. \A q \in Connected : /\ q # p /\ q \in Peers
                           /\ peers[q].sock # f /\ peers[q].connected # c
  BY <1>2, <1>4, <1>7 DEF OInv, IInv, PeerSockets, ChannelsOwned, Connected
<1>10. SocketsOwned'
  <2>1. {peers'[q].sock : q \in Connected'} = {peers[q].sock : q \in Connected} \cup {f}
    BY <1>5, <1>6, <1>9
  <2>2. master' \ {Listener} = (master \ {Listener}) \cup {f}
    BY <1>1, <1>7
  <2>. QED  BY <1>5, <1>6, <1>8, <1>9, <2>1, <2>2 DEF OInv, SocketsOwned
<1>11. ChannelsOwned'
  <2>1. {peers'[q].connected : q \in Connected'} = {peers[q].connected : q \in Connected} \cup {c}
    BY <1>5, <1>6, <1>9
  <2>. QED  BY <1>1, <1>5, <1>6, <1>9, <2>1 DEF OInv, ChannelsOwned
<1>. QED  BY <1>10, <1>11

\* The socket and the channel of a peer that leaves go with it.
LEMMA LeaveOwned == OInv /\ PeerLeaves => (SocketsOwned /\ ChannelsOwned)'
<1>. SUFFICES ASSUME OInv, PeerLeaves PROVE (SocketsOwned /\ ChannelsOwned)'
  OBVIOUS
<1>. DEFINE s == peers[i].sock
            c == peers[i].connected
<1>1. /\ i \in Connected /\ i \in Peers
      /\ master' = master \ {s} /\ granted' = granted \ {c}
      /\ stream' = [stream EXCEPT ![s] = "closed"]
      /\ peers' = [peers EXCEPT ![i] = [sock |-> NoSocket, connected |-> 0]]
  BY DEF PeerLeaves, Talking, OInv, IInv, TypeOK
<1>2. \A q \in Peers : q # i => peers'[q] = peers[q]
  BY <1>1 DEF OInv, IInv, TypeOK
<1>3. Connected' = Connected \ {i} /\ Connected \subseteq Peers
  BY <1>1, <1>2 DEF Connected, OInv, IInv, TypeOK
<1>4. \A q \in Connected : q # i => peers[q].sock # s /\ peers[q].connected # c
  BY <1>1 DEF OInv, SocketsOwned, ChannelsOwned
<1>5. SocketsOwned'
  <2>1. {peers'[q].sock : q \in Connected'} = {peers[q].sock : q \in Connected} \ {s}
    BY <1>2, <1>3, <1>4
  <2>2. {g \in Fds : stream'[g] # "closed"} = {g \in Fds : stream[g] # "closed"} \ {s}
    BY <1>1 DEF OInv, IInv, TypeOK
  <2>3. master' \ {Listener} = (master \ {Listener}) \ {s}
    BY <1>1
  <2>. QED  BY <1>2, <1>3, <2>1, <2>2, <2>3 DEF OInv, SocketsOwned
<1>6. ChannelsOwned'
  <2>1. {peers'[q].connected : q \in Connected'} = {peers[q].connected : q \in Connected} \ {c}
    BY <1>2, <1>3, <1>4
  <2>. QED  BY <1>1, <1>2, <1>3, <2>1 DEF OInv, ChannelsOwned
<1>. QED  BY <1>5, <1>6

LEMMA NextOwned ==
  ASSUME NChan <= MaxClients
  PROVE  OInv /\ [Next]_vars => OInv'
<1>. SUFFICES ASSUME OInv, [Next]_vars PROVE OInv'
  OBVIOUS
<1>1. IInv'
  BY NextInv DEF OInv
<1>2. CASE Accept
  BY <1>1, <1>2, AcceptOwned DEF OInv
<1>3. CASE PeerLeaves
  BY <1>1, <1>3, LeaveOwned DEF OInv
<1>4. CASE Environment \/ Select \/ NoNewClient \/ AcceptFails \/ Reject
             \/ SkipPeer \/ PeerTalks \/ PeerAnswered \/ UNCHANGED vars
  BY <1>1, <1>4, OthersOwned DEF OInv
<1>. QED  BY <1>2, <1>3, <1>4 DEF Next, Loop

\* Every open socket belongs to one peer of the array, and every peer has one:
\* the server leaks none, however clients come and go.
THEOREM SocketOwners == NChan <= MaxClients => (Spec => []SocketsOwned)
<1>. SUFFICES ASSUME NChan <= MaxClients PROVE Spec => []SocketsOwned
  OBVIOUS
<1>1. OInv /\ [Next]_vars => OInv'
  BY NextOwned
<1>2. OInv => SocketsOwned
  BY DEF OInv
<1>. QED  BY <1>1, <1>2, InitOwned, PTL DEF Spec

\* The channels in use are those of the connected peers, each of one: the
\* application gets each channel back when its connection ends.
THEOREM ChannelOwners == NChan <= MaxClients => (Spec => []ChannelsOwned)
<1>. SUFFICES ASSUME NChan <= MaxClients PROVE Spec => []ChannelsOwned
  OBVIOUS
<1>1. OInv /\ [Next]_vars => OInv'
  BY NextOwned
<1>2. OInv => ChannelsOwned
  BY DEF OInv
<1>. QED  BY <1>1, <1>2, InitOwned, PTL DEF Spec
=============================================================================
