------------------------------ MODULE TcpServer ------------------------------
(***************************************************************************)
(* The select loop of share/ip/tcp_server.c, in the thread that runs       *)
(* app(), with the clients and the kernel around it.                       *)
(*                                                                         *)
(* The application behind conn_func is the channel table of csm_channel.c  *)
(* (csm_channel_new and csm_channel_disconnect); data_func consumes what   *)
(* was read and has a response or none.  The sockets are blocking ones:    *)
(* send() waits for room, so a client that does not read its responses     *)
(* stops the only thread.  The kernel gives the lowest free descriptor, as *)
(* POSIX asks for; a client connects, sends, reads and closes at any       *)
(* moment, or never.                                                       *)
(***************************************************************************)
EXTENDS Naturals, FiniteSets

CONSTANTS
    MaxClients,     \* MAX_CLIENTS
    NChan,          \* channels that the application can grant
    NFds,           \* descriptors that the process can open
    Backlog         \* connections the kernel holds for accept()

ASSUME TcpAssumption ==
    /\ {MaxClients, NChan, NFds, Backlog} \subseteq Nat
    /\ MaxClients > 0 /\ NChan > 0 /\ NFds > 0 /\ Backlog > 0

Listener == 0
Fds      == 1..NFds
Peers    == 0..MaxClients - 1
Channels == 1..NChan
NoSocket == NFds + 1        \* INVALID_SOCKET

\* What the kernel holds for a descriptor: closed, nothing to read, bytes,
\* bytes and then the end of the stream, the end of the stream.
Streams == {"closed", "idle", "data", "last", "eof"}

VARIABLES
    pc,             \* the next part of the loop: "select", "accept", a peer of
                    \* the "peers" loop, or the "send" of its response
    i,              \* index of the peer loop
    peers,          \* the array of peers
    master,         \* master_set
    working,        \* working_set
    pending,        \* connections that accept() would return
    stream,         \* what the kernel holds for each descriptor
    full,           \* descriptors with no room for what is sent next
    granted         \* identifiers of the channels in use

vars == <<pc, i, peers, master, working, pending, stream, full, granted>>

TypeOK ==
    /\ pc \in {"select", "accept", "peers", "send"}
    /\ i \in Peers
    /\ peers \in [Peers -> [sock: Fds \cup {NoSocket}, connected: {0} \cup Channels]]
    /\ master \subseteq Fds \cup {Listener}
    /\ working \subseteq Fds \cup {Listener}
    /\ pending \in 0..Backlog
    /\ stream \in [Fds -> Streams]
    /\ full \subseteq Fds
    /\ granted \subseteq Channels

\* The sockets of the array are not initialised, but are never read while the
\* peer is not connected.
Init ==
    /\ pc = "select" /\ i = 0
    /\ peers = [p \in Peers |-> [sock |-> NoSocket, connected |-> 0]]
    /\ master = {Listener}
    /\ working = {}
    /\ pending = 0
    /\ stream = [f \in Fds |-> "closed"]
    /\ full = {}
    /\ granted = {}

-----------------------------------------------------------------------------
(* Clients and kernel                                                       *)

Connect ==
    /\ pending < Backlog
    /\ pending' = pending + 1
    /\ UNCHANGED <<pc, i, peers, master, working, stream, full, granted>>

Send(f) ==
    /\ stream[f] = "idle"
    /\ stream' = [stream EXCEPT ![f] = "data"]
    /\ UNCHANGED <<pc, i, peers, master, working, pending, full, granted>>

\* The client closes; an error of the connection reads as an end too.
HangUp(f) ==
    /\ stream[f] \in {"idle", "data"}
    /\ stream' = [stream EXCEPT ![f] = IF @ = "data" THEN "last" ELSE "eof"]
    /\ UNCHANGED <<pc, i, peers, master, working, pending, full, granted>>

\* The client reads what it was sent, or its end of the connection is gone:
\* there is room again, or an error to report.
Reads(f) ==
    /\ f \in full
    /\ full' = full \ {f}
    /\ UNCHANGED <<pc, i, peers, master, working, pending, stream, granted>>

Readable == {f \in Fds : stream[f] \in {"data", "last", "eof"}}
              \cup (IF pending > 0 THEN {Listener} ELSE {})

-----------------------------------------------------------------------------
(* The loop                                                                 *)

Connected == {p \in Peers : peers[p].connected # 0}

\* Variant: the descriptor of the first peer only.
MaxFdFirst ==
    IF Connected = {} THEN Listener
    ELSE peers[CHOOSE p \in Connected : \A q \in Connected : p <= q].sock

\* The number of the highest descriptor of a connected peer.
MaxFd ==
    CHOOSE m \in {Listener} \cup {peers[p].sock : p \in Connected} :
        \A p \in Connected : peers[p].sock <= m

\* Variant: the working set accumulates the descriptors of earlier calls.
SelectKeepsSet ==
    /\ pc = "select"
    /\ LET ready == {f \in Readable \cap master : f <= MaxFd}
       IN  /\ ready # {}
           /\ working' = (working \cap master) \cup ready
    /\ pc' = "accept"
    /\ UNCHANGED <<i, peers, master, pending, stream, full, granted>>

\* select() waits for a descriptor of the master set, up to max.
Select ==
    /\ pc = "select"
    /\ LET ready == {f \in Readable \cap master : f <= MaxFd}
       IN  /\ ready # {}
           /\ working' = ready
    /\ pc' = "accept"
    /\ UNCHANGED <<i, peers, master, pending, stream, full, granted>>

\* Nothing to accept.
NoNewClient ==
    /\ pc = "accept"
    /\ Listener \notin working
    /\ pc' = "peers" /\ i' = 0
    /\ UNCHANGED <<peers, master, working, pending, stream, full, granted>>

FreeFds == {f \in Fds : stream[f] = "closed"}

\* accept() fails: there is no descriptor left, or the kernel reports an error
\* of the connection and drops it.  The loop starts again and looks at no peer.
AcceptFails ==
    /\ pc = "accept"
    /\ Listener \in working
    /\ pending' = IF FreeFds = {} THEN pending ELSE pending - 1
    /\ pc' = "select"
    /\ UNCHANGED <<i, peers, master, working, stream, full, granted>>

\* Accepted: the descriptor and the channel that the application grants.
LowestFree(f)  == f \in FreeFds /\ \A g \in FreeFds : f <= g
FirstChannel(c) == c \in Channels \ granted /\ \A d \in Channels \ granted : c <= d
FirstPeer(p)   == p \in Peers \ Connected /\ \A q \in Peers \ Connected : p <= q

\* Variant: the search for a free peer does not stop at the first one.
AcceptNoBreak ==
    /\ pc = "accept"
    /\ Listener \in working
    /\ \E f \in Fds, c \in Channels :
        /\ LowestFree(f) /\ FirstChannel(c)
        /\ granted' = granted \cup {c}
        /\ master' = master \cup {f}
        /\ stream' = [stream EXCEPT ![f] = "idle"]
        /\ peers' = [p \in Peers |-> IF p \in Connected THEN peers[p]
                                     ELSE [sock |-> f, connected |-> c]]
    /\ pending' = pending - 1
    /\ pc' = "peers" /\ i' = 0
    /\ UNCHANGED <<working, full>>

\* conn_func grants a channel: the peer goes to the first free element of the
\* array; when there is none, the socket and the channel belong to nobody.
Accept ==
    /\ pc = "accept"
    /\ Listener \in working
    /\ \E f \in Fds, c \in Channels :
        /\ LowestFree(f) /\ FirstChannel(c)
        /\ granted' = granted \cup {c}
        /\ master' = master \cup {f}
        /\ stream' = [stream EXCEPT ![f] = "idle"]
        /\ \/ \E p \in Peers :
                /\ FirstPeer(p)
                /\ peers' = [peers EXCEPT ![p] = [sock |-> f, connected |-> c]]
           \/ /\ Connected = Peers
              /\ UNCHANGED peers
    /\ pending' = pending - 1
    /\ pc' = "peers" /\ i' = 0
    /\ UNCHANGED <<working, full>>

\* Variant: the refused socket is not closed.
RejectLeaks ==
    /\ pc = "accept"
    /\ Listener \in working
    /\ granted = Channels
    /\ \E f \in Fds : LowestFree(f) /\ stream' = [stream EXCEPT ![f] = "idle"]
    /\ pending' = pending - 1
    /\ pc' = "peers" /\ i' = 0
    /\ UNCHANGED <<peers, master, working, full, granted>>

\* conn_func refuses: the connection is closed.
Reject ==
    /\ pc = "accept"
    /\ Listener \in working
    /\ FreeFds # {}
    /\ granted = Channels
    /\ pending' = pending - 1
    /\ pc' = "peers" /\ i' = 0
    /\ UNCHANGED <<peers, master, working, stream, full, granted>>

\* Variant: the loop goes one element too far.
NextPeerTooFar ==
    IF i + 1 <= MaxClients THEN pc' = "peers" /\ i' = i + 1
                           ELSE pc' = "select" /\ i' = 0

\* One turn of the peer loop.
NextPeer ==
    IF i + 1 \in Peers THEN pc' = "peers" /\ i' = i + 1
                       ELSE pc' = "select" /\ i' = 0

SkipPeer ==
    /\ pc = "peers"
    /\ i \notin Connected \/ peers[i].sock \notin working
    /\ NextPeer
    /\ UNCHANGED <<peers, master, working, pending, stream, full, granted>>

Talking == pc = "peers" /\ i \in Connected /\ peers[i].sock \in working

\* Variant: one peer is served per call of select().
PeerTalksAlone ==
    /\ Talking
    /\ stream[peers[i].sock] \in {"data", "last"}
    /\ stream' = [stream EXCEPT ![peers[i].sock] = IF @ = "data" THEN "idle" ELSE "eof"]
    /\ pc' = "select" /\ i' = 0
    /\ UNCHANGED <<peers, master, working, pending, full, granted>>

\* read_peer returns bytes: they go to data_func, which may have a response.
PeerTalks ==
    /\ Talking
    /\ stream[peers[i].sock] \in {"data", "last"}
    /\ stream' = [stream EXCEPT ![peers[i].sock] = IF @ = "data" THEN "idle" ELSE "eof"]
    /\ \/ NextPeer
       \/ pc' = "send" /\ i' = i
    /\ UNCHANGED <<peers, master, working, pending, full, granted>>

\* write_peer: send() returns when the socket has room for the response, which
\* may leave none for the next one.
PeerAnswered ==
    /\ pc = "send"
    /\ peers[i].sock \notin full
    /\ full' \in {full, full \cup {peers[i].sock}}
    /\ NextPeer
    /\ UNCHANGED <<peers, master, working, pending, stream, granted>>

\* Variant: the application is not told.
PeerLeavesSilently ==
    /\ Talking
    /\ stream[peers[i].sock] = "eof"
    /\ master' = master \ {peers[i].sock}
    /\ stream' = [stream EXCEPT ![peers[i].sock] = "closed"]
    /\ peers' = [peers EXCEPT ![i] = [sock |-> NoSocket, connected |-> 0]]
    /\ full' = full \ {peers[i].sock}
    /\ NextPeer
    /\ UNCHANGED <<working, pending, granted>>

\* read_peer returns 0: the peer is closed and its channel freed.
PeerLeaves ==
    /\ Talking
    /\ stream[peers[i].sock] = "eof"
    /\ master' = master \ {peers[i].sock}
    /\ stream' = [stream EXCEPT ![peers[i].sock] = "closed"]
    /\ granted' = granted \ {peers[i].connected}
    /\ peers' = [peers EXCEPT ![i] = [sock |-> NoSocket, connected |-> 0]]
    /\ full' = full \ {peers[i].sock}
    /\ NextPeer
    /\ UNCHANGED <<working, pending>>

Loop ==
    \/ Select \/ NoNewClient \/ AcceptFails \/ Accept \/ Reject
    \/ SkipPeer \/ PeerTalks \/ PeerAnswered \/ PeerLeaves

Environment == Connect \/ \E f \in Fds : Send(f) \/ HangUp(f) \/ Reads(f)

Next == Loop \/ Environment

Spec == Init /\ [][Next]_vars

\* The thread runs whenever no call of the kernel holds it: select() with nothing
\* to report and send() with no room disable the loop.  accept() does not fail
\* for ever.  Clients owe nothing, not even to read their responses.
FairSpec == Spec /\ WF_vars(Loop) /\ SF_vars(Accept \/ Reject)

-----------------------------------------------------------------------------
(* Properties                                                               *)

\* Every open socket is watched and belongs to one peer of the array, and every
\* peer has an open socket of its own: none is leaked, read by two peers or
\* read after it was closed.
SocketsOwned ==
    /\ master \ {Listener} = {f \in Fds : stream[f] # "closed"}
    /\ {peers[p].sock : p \in Connected} = master \ {Listener}
    /\ \A p, q \in Connected : peers[p].sock = peers[q].sock => p = q

\* The channels that the application granted are those of the connected peers,
\* each of one peer: a channel is freed with its connection and only then.
ChannelsOwned ==
    /\ granted = {peers[p].connected : p \in Connected}
    /\ \A p, q \in Connected : peers[p].connected = peers[q].connected => p = q

\* recv() is only called on a descriptor that has something to read: the loop,
\* which serves all the peers, never waits in recv() for one, although sockets
\* are closed and descriptors reused between the call of select() and the use of
\* its set.  (It may wait in send(), below.)
RecvNeverBlocks == Talking => stream[peers[i].sock] \in {"data", "last", "eof"}

\* The thread is in send(), for a client that has not read its responses.
Blocked == pc = "send" /\ peers[i].sock \in full

\* No client leaves the thread in send() for ever.  The code does not see to it:
\* there is one thread, the sockets are blocking and have no timeout, so one
\* client that never reads stops the service of all of them.
SendsReturn == []<>~Blocked

Unread(f) == stream[f] \in {"data", "last"}

\* If every send() returns, what a client sends is read, whatever the other
\* clients and accept() do.
DataIsRead == SendsReturn => \A f \in Fds : Unread(f) ~> ~Unread(f)

\* If every send() returns, a connection that ended is closed.
EndIsSeen == SendsReturn => \A f \in Fds : stream[f] = "eof" ~> stream[f] = "closed"

\* If every send() returns, a client that waits is taken out of the queue.
QueueMoves == SendsReturn => (pending = Backlog ~> pending < Backlog)

=============================================================================
