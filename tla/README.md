# Verification of cosemlib

TLA+ models of cosemlib (a DLMS/COSEM stack in C), checked with TLC on small
instances, and theorems about them checked with TLAPS for every value of the
constants. Paths such as `csm_channel.c:48` are below `src/` or `share/` of the
repository.

## 1. Inventory

| Component | State it keeps | Operations | Module |
|---|---|---|---|
| Channel table and dispatch (`src/csm_channel.c`) | `channel_list` (identifier, association pointer, last request), the lists of associations and configurations | `csm_channel_init`, `csm_channel_new`, `csm_channel_disconnect`, `csm_channel_execute`, `csm_channel_hls_pass3`, `csm_channel_hls_pass4` | `CosemServer`, `HlsPasses` |
| Association control (`src/csm_association.c`) | `csm_asso_state`: control function, mechanism, context, titles, both challenges, result | `csm_asso_init`, `csm_asso_server_execute`, `csm_asso_encoder`, `csm_asso_decoder`, `csm_asso_is_granted` | `Acse`, `AssociationCF`, `CosemServer`, `AcseExchange` |
| Services, server side (`src/csm_services.c`) | the request of the channel, from one APDU to the next | `svc_decode_request`, the GET, SET and ACTION decoders, the exception response | `CosemServer`, `ServiceExchange`, `HlsPasses` |
| Services, client side (same file) | the response, from one block to the next | request encoder, response decoders, `csm_client_decode`, block transfer | `ServiceExchange` |
| TCP server (`share/ip/tcp_server.c`) | two descriptor sets, an array of ten peers | the `select()` loop of `app()` | `TcpServer` |
| TCP client (`share/ip/tcp_client.c`) | none | a stub | none |
| Byte arrays (`src/csm_array.c`) | offset, read and write index over a buffer | read, write, jump, get, set | `CsmArray` |
| BER, A-XDR (`src/csm_ber.c`, `src/csm_axdr_codec.c`) | none | tags, lengths, integers, data types, the walk by tags | `Codec`; whole headers in `Acse` |
| Security layer (`src/csm_security.c`) | none | `csm_sec_auth_decrypt`, `csm_sec_auth_encrypt` over the buffer of the caller | `HlsPasses` |
| HDLC framing (`hdlc/hdlc.c`) | the frame description `hdlc_t` | encode, decode, negotiate | `HdlcFrame`, `HdlcLink` |
| Clock (`share/util/clock.c`) | none | calendar, Unix time, summer time, sums of times, COSEM date-time | `Clock` |
| Bit fields (`share/util/bitfield.c`) | a bit array | init, set, clear, test, first zero | `Bitfield` |
| Digests and CMAC (`share/crypto/md5.c`, `sha1.c`, `sha256.c`, `cmac.c`) | block buffer, count, state | start, update, finish | `HashStream` |
| GCM (`share/crypto/gcm.c`) | counter, hash, length | start, update, finish, one-shot | `GcmStream` |
| Block ciphers, the other modes, serial port, OS utilities (`share/crypto`, `share/serial`, `share/util/os_util.c`) | none, or third party | arithmetic, I/O, printing | not modelled |

How they interact. The transport (`tcp_server.c`) accepts a connection, asks the
application for a channel through `conn_func` (`csm_channel_new`), hands what it
reads to `data_func` and frees the channel with `conn_func`
(`csm_channel_disconnect`). The glue, which is not in the repository, fills in
the addresses of the request and calls `csm_channel_execute`, which looks the
association of those addresses up, links it to the channel, and runs the
association control or the services on it. The services call the object
database (not in the repository either); an action on the current association
object makes it call `csm_channel_hls_pass3`, which goes back from the
channel identifier of the request to the association, through the table, and lays
the packet that the security layer authenticates into the buffer of the request.
The association control uses the BER codec, the services A-XDR, both over byte arrays.
HDLC framing is used by an application in the place of TCP, below `csm_channel_execute`.

What is hard. There is one thread; nothing here is a data race. The hard
behaviours come from state that outlives what it describes:

- an association is shared by all the channels with its addresses, and a channel
  keeps the pointer to its association after it is freed;
- the mechanism, the context and the challenges of an exchange that was refused or
  released are still there when the next AARQ is decoded field by field;
- the request of a channel is kept from one APDU to the next and is filled in field
  by field until the decoder fails;
- the answer is encoded after the association opened, and may be lost or refused by
  the client;
- the loop of the TCP server uses the set that `select()` returned after it
  accepted and closed sockets, whose descriptors are reused at once, and its only thread
  waits in `send()` for a client that does not read;
- the array of peers, the table of channels, the descriptors and the queue of the
  kernel are full at different moments;
- the passes of HLS work in place: the offset of the array is moved before the request, by
  sizes that the peer chose, and additional data is written over what was just read;
- a frame comes in pieces into a buffer that still holds an older one, damaged or not, and its
  description is filled in before the tests that may refuse it;
- a message is hashed or ciphered in pieces of any length, with counts that carry.

What makes each part correct: an association opens exactly when it is accepted, for
credentials of this exchange, and closes only by its user; it is never open
with nobody to close it; what client and server authenticate is the same
session; pass 3 verifies the challenge of the association that asked; every socket
and every channel has one owner; the loop never waits in `recv()` for a client and
serves them all as long as they read what they are sent; cursors stay in their buffer, and what is read was written; a response is what the
database answered to the request of the client; a frame that is accepted was sent; what is encoded, a frame, a value, a date or a
message in pieces, is decoded back.

## 2. Modules

- `Acse` - the data of an association and the codec of the AARQ and the AARE. An
  APDU is the sequence of BER headers that its decoder meets. `DecodeStep` is one
  turn of the table driven loop of `csm_asso_decoder`, `AarqChain` and
  `AareChain` are its tables, `ExtractOk` and `Extract` the extractors, `Grant` is
  `csm_asso_is_granted`, `AareOf` and `AarqOf` are the encoder chains and
  `AareSize` the length that the encoder writes in one byte. Byte strings are two
  blocks, the first eight bytes and the rest, because the password and the
  titles have eight bytes and `memcmp` runs over the size of one of the strings; the
  sizes are 0, 8 and 64, the bounds of `acse_auth_value_decoder`. A buffer keeps what a
  shorter string does not overwrite (`Overwrite`).
- `AssociationCF` - the abstract specification of the control function: closed, or
  open with a session that decides whether the association is pending, and that never
  changes until it closes. `Immediate` are the sessions that may open at once, `Challenged` those that
  wait, and `Unproven` those that should not open and do: for the server, LLS without any
  authentication value (`csm_association.c:1022`).
- `CosemServer` - the server. `chans` is `channel_list` with the last request of
  each channel, `assos` is `asso_list`, `out` is what the last call left in the
  packet, `db` the call of the database it made. `NewChannel`, `NoChannelLeft` are
  `csm_channel_new`; `Disconnect` is `csm_channel_disconnect`; every other action is a
  whole call of `csm_channel_execute`: unknown addresses (`UnknownSap`), an AARQ that
  is decided (`RecvAarq`: decode, grant, draw, encode), an RLRQ (`RecvRlrq`), what gets
  no answer (`RecvIgnored`), a service (`RecvService`: decode, database, response).
- `AcseExchange` - a client and a server of this stack that run the same codec, with a
  transport that loses messages or appends bytes, other client implementations, and
  associations that are used again and again.
- `ServiceExchange` - the client of the services and the server of this stack, or another server
  that sends an object in blocks and refuses when it likes. An APDU is the sequence of its fields,
  because the two ends agree on positions only. The other server gives any answer at any moment; `Stray` are those that
  the client takes although they are none to its request, and `strays` counts them. `EncodeNormal`, `EncodeNext` are `svc_request_encoder`,
  `DecodeRequest` is `svc_decode_request`, `Reply` what the server encodes, `Decode` is
  `csm_client_decode` with the decoders below it, `HasMore` is `csm_client_has_more_data`. `CosemServer` has the
  same server with requests that are cut, of other types and on several channels; here it only gets what this
  client encodes.
- `TcpServer` - the `select()` loop. `pc` and `i` say where it stands, `peers`,
  `master` and `working` are the variables of the code, `stream`, `pending` and `full` are the
  kernel, `granted` the channels of the application. `PeerTalks` is `recv()` and `data_func`, `PeerAnswered` the
  `send()` of a response, which waits while the socket is in `full`: until the client reads (`Reads`), which it may never do.
- `CsmArray` - the array that every layer reads and writes in place. `arr` is
  `csm_array` without its pointer, `acc` the bytes of the buffer that the last call
  touched; the indices wrap as `uint32_t` does (`Wrap` is its number of values), because the
  reader jumps over lengths that the peer sent. One action per function; `Rewind` is how
  the services and the association turn the request into the buffer of the answer.
- `HlsPasses` - one ACTION that carries pass 3, from the request to the response. `buf` is the working
  buffer, byte by byte, `in` and `out` the two arrays over it (`CsmArray` is instantiated for the index arithmetic),
  `touched` every index that was read or written. `Pass3`, `Pass4` are the functions of `csm_channel.c`, with
  `AuthDecrypt` and `AuthEncrypt` of `csm_security.c` inside; `Respond` is the end of
  `svc_set_or_action_decoder`. A byte is a cell that says what it is, a tag is the term that it
  authenticates.
- `HdlcFrame` - the codec of `hdlc.c`, over bytes, with `fcstab` computed from its polynomial. `Encode`, `Decode`, `Applied`,
  `ReadOption` are the functions; a result has the frame description as far as the decoder came.
- `HdlcLink` - a station that sends frames, a line that cuts them into pieces and damages or loses one
  byte, and a receiver that calls `hdlc_decode` on what it has, then
  `hdlc_decode_info_field`, one option per step (`Negotiate`, `NextOption`). `SendOther` puts frames on the line that
  this library does not write: their length and check sequence are right, and the decoder refuses their
  addresses, their control field or their header check, or accepts them. The line, the
  buffer and the search of the next flag are the caller's and not in the repository; they are what
  `frame_size` and `HDLC_ERR_SIZE` are for.
- `Clock` - the formulas of `clock.c`, and a calendar that is turned day by day (`NextDay`) to compare them with. `add_time` has
  its refusals, and its number of days is an unsigned word (`DayValues`).
- `Codec` - `csm_ber.c` and `csm_axdr_codec.c` over bytes. An action appends what one encoder writes
  to a message; the properties decode it, whole and cut at every byte.
- `Bitfield` - `bitfield.c`: the bits of each byte, and the set of bits that the calls ask for.
- `HashStream` - the contexts of MD5, SHA-1, SHA-256 and CMAC. A byte is its place in the message and the state is the
  sequence of blocks that were processed, so what is checked is the cut, the padding, the count and the masks.
- `GcmStream` - two GCM contexts with one key, each with pieces of its own. A byte is the set of
  what was xored into it, a counter block is a value of its own.
- `Library` - the six parts above that share nothing with one another, one of them used in a behaviour, so that one run
  checks them.
- `MCCosemServer`, `MCAcseExchange`, `MCServiceExchange`, `MCHdlcLink`, `MCLibrary` - the messages, blocks, requests, stations
  and spans of the runs. `TcpServer` and `HlsPasses` need no module of their own: their constants are numbers.
- `Acse_proofs`, `AcseExchange_proofs`, `CosemServer_proofs`, `ServiceExchange_proofs`, `TcpServer_proofs`,
  `HlsPasses_proofs`, `HdlcLink_proofs`, and `Library_proofs` for the six parts of `Library` - the theorems.

Definitions under a comment that starts with "Variant" are wrong forms of the definition
after them. They are part of no specification: they are there to show that each
property fails when the code has that error.

## 3. Runs

| Run | Question | Instance |
|---|---|---|
| `server` | Do opening, refusing, releasing, disconnecting and every shape of request keep one association right while two connections share it? | 2 channels, 1 association, 9 AARQs, 6 requests |
| `server_multi` | Does the same hold when each packet of a connection may go to another association? | 2 channels, 2 associations, 3 AARQs, pass 3 |
| `exchange` | Do client and server agree after any history? | 4 mechanisms, challenges of 8 and 64 bytes, a right and a wrong password, 4 foreign AARQs, losses |
| `services` | Does the database get what the client asked, and the client what the database answered? Is a block transfer whole? | 2 objects, 2 invocations, 2 data, 3 blocks, 18 other answers, 4 of them strays |
| `tcp` | Is nothing leaked or shared, does the loop never block in `recv()`, and is everybody served if every `send()` returns? | 3 peers, 3 channels, 4 descriptors, queue of 2 |
| `hdlc` | Is only accepted what was sent, and each frame when it is whole? Does the negotiation end in agreement? | 3 stations, 5 frames of others, 2 frames sent, pieces of 8 bytes or all, one fault at any byte |
| `hls` | Do the passes stay in the buffer, verify the right tag only, and leave a whole response? | 5 offsets, 3 rooms, 2 headers, challenges of 0, 4, 8 and 64 bytes, the real layout |
| `library` | Do the parts below the protocol compute what they should after any calls? | see below |
| `server_link`, `services_set`, `exchange_aarq`, `clock_leap` | Where the code does not do what is said of it (section 6) | as small as shows it |

What the properties say:

- `OpenIsHeld` - an open association is held by an open channel, so it can be closed.
- `ClosedByItsChannel` - it closes only by an answered RLRQ or with a channel linked to it.
- `OpenedIffAccepted` - it opens in the step that sends its acceptance, and in no other.
- `Pass3ChecksOwnChallenge` - pass 3 finds the challenge of the association that asked.
- `ImplementsCF` - every association is an `AssociationCF`: nothing changes a session in
  use, GMAC always waits, and LLS opens with a value that begins with the password or, which is `Unproven`,
  when the handshake holds no value. So it does not say that LLS opens only with the password: the code does not
  see to that (section 6). The value may be one that an earlier AARQ left.
- `AgreeOnOutcome`, `AgreeOnSession`, `AcceptedKnowsPassword` - a client that decoded the
  AARE knows the decision, has the mechanism, title and challenges of the
  server, and was not accepted on a password of an earlier exchange.
- `ServedAsAsked`, `AgreeOnResult` - what one end encodes by position the other end decodes: the object,
  the data, the success and the data of the answer.
- `ObjectIsWhole` - an object received in blocks has them all, in order, although the server refuses, cuts
  its answer or answers for another service in between. An object behind a stray answer is left out (`strays = 0`): the decoder
  accepts a response of an unknown type and compares the number of a block with nothing, so such an object may be anything (section 6).
- `SocketsOwned`, `ChannelsOwned` - sockets, peers and channels correspond one to one.
- `RecvNeverBlocks` - `recv()` is called only where there is something to read. It says nothing of `send()`, which may block.
- `CursorsInBuffer`, `AccessInBuffer` - indices and accesses stay in the buffer, although
  a jump of the reader may wrap its index to before the offset; the copy of
  `csm_array_read_buff` that fails is left out of the second, because the code copies before it
  looks at the size.
- `WordsWereWritten` - a word is read from between the offset and the write index.
- `AcceptedIsSent`, `WholeIsAccepted` - a frame that the decoder accepts was sent, field by field, whatever was damaged and
  whatever older bytes follow in the buffer; undamaged, it is accepted exactly when it is whole, or refused then, if another
  implementation wrote it.
- `RefusedKeepsPeer` - a refusal never touches the information (`data_index`, `data_size`); it changes the addresses, the type
  and the numbers only when a frame of another implementation is there whole and unharmed. A part of a frame, a damaged one or old
  bytes change nothing. That such a whole frame does change them is what the code does (section 6); the property bounds it.
- `NegotiationAgrees`, `NegotiationEnds` - with the four options in any order the loop ends at the end
  of the field with the values of the sender.
- `TouchedInBuffer` - no pass reads or writes a byte outside the buffer.
- `Pass3Verifies` - with authentication only, pass 3 succeeds for the tag over the challenge of the server and for
  no other; so the additional data, the challenge and the tag are where GCM looks for them.
- `ResponseIsWhole` - after a successful pass 4 the response is complete and its tag is the one over the
  challenge of the client, or else it is an exception.
- `CalendarAgrees`, `DstTurns`, `AddTimeAgrees`, `CosemAgrees` - the formulas of the clock against a calendar; a sum
  of times loses no second, and is in the ranges of `clock.c:279-281` but for the 60s and the 24 that the property names; summer time
  begins on one of the first seven days of April and ends on one of the last seven of October, once each; a date-time is read back. The
  day of the week on which summer time changes is left open: it is not the one that the comment of the code states (section 6).
- `ReadBack` - a message decodes to what was encoded, up to the first length above 127, whose string or block is refused and never taken
  for another one; cut anywhere, it gives a beginning.
- `WalkedAsWritten` - the walk calls back for the values up to the first that has the tag of another type, a length above 127, or a
  number of bits or elements beyond the bytes that follow; cut anywhere, a message of tagged values gives a beginning.
- `BitsAsHeld` - a bit is set exactly when the last call on it set it, and the first zero is the least one of the field.
- `DigestOfWhole`, `PiecesAreOneMessage`, `CounterIsFresh` - a message in pieces is the message; the receiver gets
  the plain text and the tag of the sender, and nothing for a changed byte; no counter block serves twice.
- `DataIsRead`, `EndIsSeen`, `QueueMoves` - the loop serves every peer and the queue, if every `send()` returns (`SendsReturn`). The
  hypothesis is part of the three formulas, because nothing in the code guarantees it.

Bounds. Two channels are enough for two connections to interfere, and for a channel to
be freed and granted again while another one uses its association; two associations
are enough to take one for the other. The messages are one of each kind that the
decoder tells apart: without mechanism, with a right password, a wrong one and none, with a
challenge, with a mechanism that is not managed, cut, with and without bytes after the last
field. The states of an association are finite without a bound, so no counter is
capped. In `tcp`, three peers let one be accepted, one be read and one be closed in the
same turn of the loop; the fourth descriptor is what lets `accept()` succeed when all channels
are taken. `Backlog` caps the queue of the kernel, as `listen()` does.

In `services`, two objects and two invocations tell a request from the one before, one block is neither the
first nor the last, and the data begins with a zero tag or another, because the decoders test a byte for zero. The other
answers have one for each branch of the decoders, of unknown types and unasked blocks too. `MaxStrays` caps those: after one of
them `ObjectIsWhole` says nothing until the next object, so one is as good as many.

In `hdlc`, two frames are enough for old bytes to lie behind a new frame and for a damaged length to reach from one frame
into the next; pieces of eight bytes cut a frame in its header, its information and its check sequences. The
information that is sent contains the flag and the format of a frame. One fault per behaviour, because two can
defeat a check sequence of sixteen bits. The five frames of others are refused at
their destination, their source, their control field and their header check, and one is accepted. `MaxFrames`, `Capacity` and
the set `Fills` bound the instance.

In `hls`, the sizes are those of the code; 80, 81 and 90 are around the room that `csm_channel.c` asks for. The
buffer is small enough for the index not to wrap by its length; it does wrap by subtraction.

In `library`, arrays have up to six bytes and indices of four bits, enough for an index to wrap in one jump and for a word that
just fits. The calendar turns thirty years from 1, 1896 and 1996, so it meets a century that is leap, one that is not, and every
first day of the week. The day count of a sum has 16 values (`DayValues`) and the spans go from two days below zero to one above,
so that it wraps. Messages are written by up to two calls, of which one writes four
values, with sizes of 0, 1, 12, 127 and 128 bytes, the last one beyond the short form of a length; that is enough for a value to be read
or walked behind any other, and the theorems are about any number of calls.
Digests have blocks of 6 with a length of 2 and words of 24, so that every distance to the end of a block occurs and the count
carries; GCM has blocks of 2 and 8 counters, so that the counter wraps and the longest message is reached. `MaxWrites`,
`MaxMessage` and `Turns` are bounds.

The runs `hdlc`, `hls` and `library` disable the deadlock check, because what they model ends: all frames are consumed, the
response is laid, the calendar or the message is at its bound. No other run does: clients may always connect or send.

Fairness (`FairSpec` of `TcpServer`). `WF_vars(Loop)`: the thread runs whenever the kernel does not hold it. The sockets are
blocking and `Loop` is disabled in `select()` with nothing to report and in `send()` to a socket without room (`tcp_server.c:263`,
140); how long a `send()` takes is up to its client, so fairness says nothing of it and the properties assume `SendsReturn`.
`SF_vars(Accept \/ Reject)`: `accept()` does not fail each time it is called; without it nobody is served, because the loop starts
again after a failure (`tcp_server.c:206`). The clients and the kernel have no fairness. `QueueMoves` and the others also need a
descriptor to spare (`NFds > NChan` in the cfg): without one `accept()` fails for as long as the clients stay. In `HdlcLink` only
the loop of the negotiation is fair (`WF_vars(Negotiate \/ NextOption)`): it is a loop in one function, which runs until it ends.

## 4. Proofs

Assumptions (TLC evaluates them in each run):

- `ZeroAssumption`, `ServerAssumption`, `PduAssumption`, `ExchangeAssumption` and `TcpAssumption` type the constants,
  and `FieldsAssumption` says that a bit field has a bit.
- `ServiceAssumption` types the objects, invocations, data and answers. The answers of the other server are any APDUs: cut, repeated, of
  another service, of an unknown type.
- `ArrayAssumption` and `HlsAssumption` say that a buffer, with what is written into it at once and two packets of the
  security layer, is far smaller than the range of the indices, and that a challenge has at most the 64 bytes of its array.
- `ClockAssumption`: the years fit the 16 bits that hold them, and so does a deviation; the word of a day count has a value.
- `SpanAssumption`: the parts of a span are within two thousand million, so that their sums fit the `int` of `add_time`, which has no
  value for them otherwise.
- `CodecAssumption`: a length fits the `uint16_t` of `csm_ber_write_len`.
- `LinkAssumption`: the addresses are those that `hdlc_set_addr` keeps (of an upper address of two or four bytes the low byte has
  six bits), an information field has at most the 128 bytes of a station before the negotiation, an option has a value of its
  width that fits the field of `hdlc_t`. A frame of another implementation has its flags, the format, a length that says where it
  ends, a right check sequence, and no more bytes than the longest frame of a station; its addresses, control field and header
  check are any. `SnrmAssumption`: the bytes of `snrm_nego` are those of its four options.
- `HashAssumption`: the length field is smaller than a block, a word of the count is a number of whole blocks, and a call has fewer
  bytes than such a word counts.
- `GcmAssumption`: there are two counters at least, so that the longest message is not negative, and a first counter is one of them.

Nothing bounds the number of channels, associations, messages, frames, bits, pieces, blocks, years or objects.

- `Acse_proofs` - facts about the codec for every message: an extractor that accepts keeps the
  types and does not touch the control function (`ExtractType`), the loop never reads
  a header that is not there (`DecodeStepType`, `Decode5Type`, `DecodeAarqType`), the decision
  changes only an idle association, and opens it pending exactly for GMAC
  (`GrantFacts`).
- `TypeCorrect`, `Pass3Own` - the inductive invariant is `IInv == TypeOK /\
  Pass3ChecksOwnChallenge`. The part of `TypeOK` that matters is that a channel in use has its
  rank plus one as its identifier: pass 3 subtracts one to find it again.
- `Refinement` - `Spec => ImplementsCF`. The state of `AssociationCF` is the control
  function of each association; its session is what is in the handshake while the association
  is open, and nothing while it is closed, which hides the fields that refused
  exchanges leave. Each action of the server moves at most one association (`StepShape`), and that
  one opens with an admitted session or closes (`StepCF`). What the theorem says of LLS is what `ImplementsCF` says: the password, or, by name, no
  value at all.
- `OpenedAccepted`, `ClosedByChannel` - the action properties, from `TypeOK` and the shape of a step.
- `OpenHeld` - `OpenIsHeld` is inductive with `TypeOK`: while the addresses of a connection stay
  the same, the association that a channel holds is the one it speaks to, so no packet
  takes it away, and the end of the channel closes it.

- `TcpServer_proofs` - `TypeCorrect` and `NeverBlocks` for any constants, from
  `IInv == TypeOK /\ PeerSockets /\ ReadySockets`: what `select()` found ready stays ready until its
  peer is served, because a descriptor is reused only after it was closed, hence never for a new peer
  while it is still in the set. `SocketOwners` and `ChannelOwners` for `NChan <= MaxClients`: the
  two correspondences are inductive with `IInv`, and the pigeonhole principle gives a free peer whenever
  there is a free channel (`PeerFree`). Section 6 says what happens without the hypothesis.

- `Library_proofs`, arrays - `TypeCorrect`, `CursorsStay`, `AccessStays` and `WordsWritten`, from an
  invariant that is stronger for the writer than for the reader: `GoodArray` says that the write index
  is in the buffer as a number, and the read index only modulo the width. A read needs
  `wr > rd`, which brings the read index back below the write index before it is used
  (`GoodFacts`).

- `AcseExchange_proofs` - `OutcomeAgreed`, `SessionAgreed` and `PasswordKnown`. A turn of the decoding loop passes an entry or takes
  a header (`Passed`, `Taken`), and a loop that ends well went on in every turn (`Kept`); followed along both chains, this
  says what an AARE (`DecodedAare`) and an AARQ with a mechanism (`DecodedAarq`) of this stack leave in the other side when they are decoded
  to their end, whatever is behind them. `ExchangeInv` adds what is under way to the three properties: an AARQ is the one of
  the present state of the client, an AARE the one of the present state of the server, for the mechanism and challenge of the
  client; and the server is open at level LLS only for its password, from `GrantFacts`.
- `ServiceExchange_proofs` - `DatabaseAsAsked`, `ResultAsAnswered` and `WholeObject`. The decoders are functions of the position
  where they read, so the lemmas say for each encoder what the decoder at the other end takes from every place of what it wrote, with
  any bytes of data behind. `ExchangeInv` adds to the three properties what is under way: with the server of this stack,
  the request is the encoded one of the client and the answer the one to it (`OwnExchange`); with another server either a stray
  answer came, of which nothing is promised, or nothing came yet, or all the blocks up to the last one that came, and the client asks for
  the next (`OtherExchange`). That a refused request does not disturb a transfer is that an answer which is neither a block nor a stray
  leaves the number and the flag of the last block alone.
- `HlsPasses_proofs` - `BufferOnly`, `ChallengeVerified` and `WholeResponse`. The reads, writes and jumps of the arrays are put in terms
  of rows of cells that are laid in a buffer (`IsMem`), where one that lies elsewhere stays as it was. `HlsInv` says that both
  arrays are over the same buffer (`Arrays`), that only a request with room before it and with a tag passes (`Passed`), and that the
  octet string of pass 4 is whole in the output before the header is laid in front of it (`Answered`). The packet laid before the
  data needs `MAX_HLS_SIZE` bytes, which is what pass 3 asks for, so it cannot begin before the buffer.
- `Library_proofs`, bit fields - `FieldHolds`. The invariant (`FieldInv`) says of each bit of the field that its place in the bytes is set
  exactly when it is held; two bits never share a place (`Place`). The first zero is a least element twice, of the bytes and of the
  bits of one; that there is one (`Least`) comes from the well-founded ordering of finite sets.
- `Library_proofs`, clock - `CalendarRight`, `SumsRight`, `DateTimesRight` and `SummerTurns`, from `ClockInv`: the date is one
  (`Dated`), its number, its weekday and its week are those of the formulas (`Numbered`), and the time is one of the day (`Timed`). A step
  is a case each for a next day, a next month and a next year; a leap day more in a year is one element more in
  the set of leap years that the number counts. For the inverse, `scalar_to_ymd`, the first guess of the year is at most two too
  small (`YearBounds`), so the search ends at the year (`YearOfDay`). The quotients and remainders by 7, 12, 60, 146097 and the others are lemmas.
  `SumsRight` is about the ranges of the code's comment with the exceptions that the property names, and about a number of days modulo the
  values of its word. `SummerTurns` leaves the day of the week open.
- `Library_proofs`, digests - `DigestsRight`. After any pieces, the state has the whole blocks of the message and the buffer its rest
  (`Taken`); for CMAC the last block is kept back, because it is masked at the end (`KeptLast`). Each case of an update -
  nothing, a part, a buffer that is filled, blocks that are processed where they are, a rest - keeps this (`UpdatedTakes`,
  `CmacTakes`), and the padding adds as many zeros as make the length end a block, and no more (`PaddingIs`).
- `Library_proofs`, GCM - `MessagesSealed`. With `SealedGcm` both contexts have hashed the cipher text up to where they are, the wire holds
  the plain text masked once, and what the receiver got is masked twice, which is the plain text again. Two tags are equal exactly when
  the hashed text, its start and its length are (`EqualTags`), so a byte or an additional datum that was changed shows.
- `Library_proofs`, counters - `FreshCounters`. The counters that a context has used are those that follow its first one (`UpTo`), as many as
  the blocks of its message, and `Bump` walks a circle without meeting itself as long as the message is no longer than is
  accepted (`Circle`, `FewBlocks`). Division is not linear, so its facts are lemmas of their own (`Division`, `Divided`, `MoreBlocks`).
- `Library_proofs`, codec - `MessagesReadBack` and `WalksFollow`. The functions that go over a message (`Written`, `Values`, `Walk`) are
  defined at every length, which is a least counterexample each, and from then on they are used by their equations only. `CodecInv` types the
  items and says that each is one that its writer makes. The bytes of a message are those of its items, one behind the other, so
  reading goes forward from item to item, while the walk is followed from the last item back, because its calls are those of one turn before
  those of what is left. Where a message is cut inside an item, the item before the cut is read as it is and the reader of the cut one fails; the
  exception that `ReadBack` names is proved to be the only one. A length above 127 is written in two bytes of which the reader takes
  a size of 2^15 or more, so what it announces does not fit a shorter message and is refused. The walk is followed up to the first item that is not
  `Tagged` or does not fit (`SizeFits`); a message with a boolean of `csm_axdr_wr_boolean` is followed up to it.
- `HdlcLink_proofs` - `NegotiatedAsSent`, `CleanAccepted`, `WholeAccepted` and `CleanKeepsPeer`. Of the check sequence they use
  only that it is two bytes which depend on the bytes before it, so that the receiver computes what the sender did. `IsWire` says
  where a frame of a station has its length, addresses, control field, check sequences and information (`IsOwn`); of one of
  another implementation only its length, its flags and its check sequence are known (`IsOther`). From it follows what `Decode`
  does with a frame that is there in part (`DecodePart`: it asks for more, whatever is behind it in the buffer) and with a whole
  one (`DecodeWhole`: it takes every field; `OtherWhole`: it decides on the contents, and touches the information only when it
  accepts them). `CleanInv` says that without a fault the bytes of the buffer and of the line are the wires of the frames that
  were not passed, one behind the other from the first byte of the buffer on, and that the receiver waits only while the oldest is
  not whole; so the search of the next flag is never needed. A frame that is refused is passed by its `frame_size`, and the next
  one begins there (`Passes`). So `CleanKeepsPeer` is about refusals at every place of the contents, after the addresses and the
  control field were stored.
- `NegotiatedAsSent` holds with any faults. `NegoInv` follows the loop over the options: wherever the frame that was accepted and describes one that
  was sent came from, the information in the buffer is the option field of that one, the index is where an option of it begins, and every option
  passed is in its field of `hdlc_t`.

Where a fact is about every length, it is not proved by induction over data, which the provers cannot instantiate, but with a
least counterexample (`Least`): the smallest number for which it fails has a predecessor for which it holds.

Model-checked only:

- `DataIsRead`, `EndIsSeen`, `QueueMoves` (each if every `send()` returns) and `NegotiationEnds`: liveness under fairness, out of
  the reach of the prover.
- `AcceptedIsSent` and `RefusedKeepsPeer` once a byte was damaged or lost. They then rest on what a check sequence of 16 bits
  detects in the frames that are sent. It does not detect everything, and the properties do not hold for every payload: the
  receiver searches the next flag after a frame that it refuses, so a payload that is itself an encoded frame would be accepted.
  The run shows them for its payloads, with a fault at any byte; the theorems are about all payloads, without a fault. In
  `CleanAccepted` this is the hypothesis `~hurt` of each state, in `CleanKeepsPeer` that of the behaviour.

## 5. Left out

- Data nobody decides on: conformance, PDU sizes, the bytes of values.
- The size of the working buffer in `CosemServer` and `ServiceExchange`: every response fits. What a write that does not fit does is in
  `CsmArray`, and what becomes of a response of an ACTION in `HlsPasses`.
- The rounds of the digests and ciphers, the products of GCM, the tables of AES, the modes that nothing calls,
  and the random source: a challenge is any value of `Draws`, a tag is a term. Whether
  pass 3 succeeds is part of the answer of the database in `CosemServer`, and decided in `HlsPasses`.
- Frames of 256 bytes and more: the code does not read back what it writes (section 6).
- Sums of times beyond the range of `int`, which have no value in C (`SpanAssumption`).
- What the bytes behind the user information of an AARE are: with long names they read as a header (`LeavesHeader`); with short names they
  are 0xFA00, whose length is none, and the client refuses an AARE that the model lets it decode. So the agreement of `AcseExchange`
  is shown for more AAREs than the code decodes.
- Digests of pieces of exactly 2^32 bytes, whose count of the low word does not show the carry; the pieces of the model are shorter.
- `moonphase`, whose product needs more bits than the integers of TLC have (and more than the 32 of its
  variable: it wraps for dates of our time); printing and dumping functions; the names of packet types.
- The TCP client, a stub; the serial port, which is I/O; the OS utilities, which keep no state.
- The glue, the database and the platform functions are not in the repository; they are nondeterministic.
  `data_func` gets channel 0 for every peer (`tcp_server.c:260`); what the application makes of it is not modelled.
- A signal of `send()` to a closed connection (the default action of `SIGPIPE`), and a failure of `select()`, which end the process; a
  `send()` that takes only a part of the response, whose rest is lost.

## 6. Where the code and what is said of it differ

- `server_link`: a channel that was granted again still points to the association of the connection
  before, and closes it when it ends although it sent nothing, while another connection uses it.
- `services_set`: the server reads a flag before the data of a SET, which only an ACTION has; the first byte of
  the data of a SET is lost to the database.
- `exchange_aarq`: the decoder wants a header after the last field, so the AARQ of the encoder of this
  stack is not answered, unless bytes follow it.
- `clock_leap`: `scalar_to_ymd` compares with 61 where the inverse of `ymd_to_scalar` needs 62, so the 29th of February of
  every leap year comes back as the 30th, from `clk_to_datetime` too.

Seen as well, and not the subject of a run of its own:

- Association: LLS compares as many bytes as the handshake holds (`csm_association.c:1022`), so an AARQ that names LLS and brings
  no authentication value opens a session without the password, where the comment says "Test the password if required"
  (`csm_association.c:1010`); after an AARQ that brought the password, one that brings no value is decided with that one.
  `ImplementsCF` names both, and the run `server` has such an AARQ. Nothing resets the mechanism between two associations, so an
  AARQ that names none is decided with that of an earlier AARQ. The AARE with a challenge of 58 bytes or more is longer than the
  127 bytes that its one-byte length can say (`csm_association.c:1182`), and the client refuses it. Nothing moves an association
  out of `CF_ASSOCIATION_PENDING` after pass 3 (`csm_channel.c:96`), so an RLRQ is never taken and the association closes only
  with its channel. The entries that the decoder chain marks as always present are passed like the optional ones when they are
  missing.
- Services: a response of a type that is neither normal nor a block is reported as decoded, with the type of the response before
  (`csm_services.c:692-698`), so in a transfer it is taken for the block before; the number of a block is compared with nothing,
  so a block that nobody asked for is taken too (`ObjectIsWhole` leaves both out, as strays); a request of an unknown type is
  served on the object of the request before (`csm_services.c:114`); the client takes the choice of a result for its code, so an
  access that failed is a hardware fault whatever the code (`csm_services.c:620`, and the result of a GET), and after an exception
  in the middle of a transfer it still has more data; the database may ask for a block transfer, and the server answers with an
  exception.
- TCP server: the sockets are blocking and have no timeout, and `send()` is called by the only thread (`tcp_server.c:263`, 140),
  so one client that does not read its responses stops the service of all clients for as long as it likes. When the application
  has more channels than the array has peers, a socket is granted a channel and belongs to nobody: it is not read, not closed, and
  its channel is not freed.
- Arrays: `csm_array_write_u16` and `csm_array_write_u32` store a word that fills the buffer and report a failure, as the jumps do
  when they end at the last byte; `csm_array_read_buff` copies before it looks at the size.
- HDLC: a frame with a right check sequence that is refused for its addresses, its control field or its header check has already
  replaced what was known of the peer: `logical_device`, `phy_address`, `client_addr`, `addr_len` (`hdlc.c:661-662`, 697-698),
  then `rrr`, `sss` and perhaps the type (706, 342-345). `RefusedKeepsPeer` allows exactly these. The encoder puts the high bits
  of the length three places lower than the decoder takes them from, so frames of 256 bytes and more are never accepted; bit 6 of
  an upper address is lost in addresses of two and four bytes; `data_size` and `data_index` keep the values of an earlier frame
  when a frame has no information; the decoder reads the length whatever the size; the loop over the options reads beyond the
  field, and need not end, when one of the four is missing; a window of 256 becomes 0.
- Security: the tag is compared only when the control byte says authentication without encryption; authentication with
  encryption loses the last 12 bytes of its information.
- BER and A-XDR: a length above 127 is not read back: `csm_ber_write_len` loses a bit of it and announces a two byte form that the
  reader takes for 2^15 or more (`csm_ber.c:89-97`), so the value behind is refused, but the length alone is read as another one;
  an integer of another tag or length is reported as read, with the variable unset; `csm_axdr_size` does not look at the result of
  the length; `csm_axdr_decode_tags` returns false always, compares the number of bits of a bit string and of elements of a
  structure with the bytes left, and calls back once more after a size that does not fit; a boolean is written with the tag of an
  octet string.
- Clock: `scalar_to_ymd` multiplies a day number by 400 as a `long` (`clock.c:57`), so it needs one of 64 bits for dates after
  14699; `clk_last_dow` uses 28 days for February of a leap year; a sum of times that is a negative number of whole minutes, hours
  or days keeps a 60 or a 24, where `clock.c:279-281` says 0 to 59 and 0 to 23; its days are an unsigned word (`clock.c:304`,
  343), so the "negative number of days" of `clock.c:289-290` is a large positive one; summer time changes on a Saturday, because
  the number of a day is taken for its day of the week, where `clock.c:349-358` states the rules of the U.S., a Sunday; a year may
  have a week 53, where `clock.c:233` says 0 to 52.
- Bit fields: a field of no bits has an array size that wraps.

## 7. Plan

Done: the modules of section 2, with the proofs of section 4.

Next, in order:

1. An abstract remote call that `ServiceExchange` implements, and its proof.
2. `TcpServer` composed with `CosemServer`: the channel a request runs on, once the glue is part of the repository.
3. The padding modes of `cipher.c`, if the stack comes to use them.

The runs of section 6 are there for as long as the code and what is said of it differ; a new module may take the
place of one of them in the list of runs, and what it shows then stays in section 6.
