------------------------------ MODULE HlsPasses ------------------------------
(***************************************************************************)
(* Passes 3 and 4 of the high level security, done in place on the buffer  *)
(* of the request: csm_channel_hls_pass3 and csm_channel_hls_pass4 of      *)
(* csm_channel.c over csm_sec_auth_decrypt and csm_sec_auth_encrypt of     *)
(* csm_security.c.                                                         *)
(*                                                                         *)
(* Both move the offset of the array back, lay a packet SC, IC,            *)
(* information, tag before the place of the tag, and overwrite its header  *)
(* and what comes before with the additional data SC, AK of GCM.  The room *)
(* is what the glue reserves before the request, and the sizes are the     *)
(* real ones.  Where each byte lands is the whole question, so a byte is a *)
(* cell that says what it is, and a tag is the term it authenticates: GCM  *)
(* itself is the platform's.                                               *)
(***************************************************************************)
EXTENDS Integers, Sequences

CONSTANTS
    Wrap,           \* number of values of a uint32_t
    Offsets,        \* where a request begins in the buffer
    Rooms,          \* bytes of the buffer after the end of the request
    Headers,        \* bytes of the request before the data of pass 3
    Extras,         \* bytes of that data over its header
    Challenges      \* sizes of a challenge, at most CSM_DEF_CHALLENGE_SIZE

MAX_HLS_SIZE == 1 + 16 + 64     \* CSM_DEF_MAX_HLS_SIZE
SEC_HDR_SIZE == 5               \* SC and IC
TAG_SIZE     == 12
AK_SIZE      == 16

\* gResponseNormalHeaderSize
RESPONSE_HEADER == 6

ASSUME HlsAssumption ==
    /\ Wrap \in Nat
    /\ Offsets \cup Rooms \cup Headers \cup Extras \subseteq Nat
    /\ Challenges \subseteq 0..64
    /\ \A o \in Offsets, r \in Rooms, h \in Headers, e \in Extras :
          o + h + SEC_HDR_SIZE + e + r + 2 * MAX_HLS_SIZE < Wrap

VARIABLES
    buf,        \* the buffer
    in,         \* the array of the request
    out,        \* the array of its response, an array over the same buffer
    peer,       \* what the request holds and the association knows
    touched,    \* indices of the buffer that the passes read or wrote
    pass3, pass4,   \* "none" before, then what the function returned
    phase

vars == <<buf, in, out, peer, touched, pass3, pass4, phase>>

A == INSTANCE CsmArray WITH Sizes <- {}, Lengths <- {}, Jumps <- {}, arr <- in, acc <- out

-----------------------------------------------------------------------------
(* Cells                                                                    *)

Cell(name) == << name >>
Blank == Cell("blank")
Ak(i)    == << "ak", i >>
AkCells  == [i \in 1..AK_SIZE |-> Ak(i)]
ScCell(sc)    == << "sc", sc >>
IcCells(ic)   == [i \in 1..4 |-> << "ic", ic, i >>]
Challenge(whose, n) == [i \in 1..n |-> << whose, i >>]

\* The tag for an initialisation vector, made of a title and a counter, additional data
\* and a ciphertext; tags of different terms are different.
Tag(title, ic, aad, text) == [title |-> title, ic |-> ic, aad |-> aad, text |-> text]
TagCells(tag) == [i \in 1..TAG_SIZE |-> << "tag", tag, i >>]

\* Control bytes: authentication and encryption.
Controls == [auth: BOOLEAN, enc: BOOLEAN]
AuthOnly == [auth |-> TRUE, enc |-> FALSE]

Results == {"none", "true", "false"}
Result(valid) == IF valid THEN "true" ELSE "false"

-----------------------------------------------------------------------------
(* The buffer with the array that is at work, and the bytes touched         *)

Cells(m, at, n) ==
    [i \in 1..n |-> IF at + i - 1 \in DOMAIN m.buf THEN m.buf[at + i - 1] ELSE Blank]

Touch(m, at, n) == [m EXCEPT !.touched = @ \cup (at..at + n - 1)]

Put(m, at, cells) ==
    [Touch(m, at, Len(cells)) EXCEPT
        !.buf = [i \in DOMAIN @ |-> IF i \in at..at + Len(cells) - 1 THEN cells[i - at + 1]
                                    ELSE @[i]]]

Written(m, cells) ==
    [Put(m, A!WrIndex(m.arr), cells) EXCEPT !.arr.wr = A!Add(@, Len(cells))]

\* csm_array_write_u8 and csm_array_write_buff, and csm_array_write_u32.
WriteBuff(m, cells) ==
    IF A!Add(A!WrIndex(m.arr), Len(cells)) > m.arr.size THEN m ELSE Written(m, cells)

\* As many bytes as fit, one by one.
WriteBytes(m, cells) ==
    LET free == A!FreeSize(m.arr)
        n    == IF Len(cells) < free THEN Len(cells) ELSE free
    IN  Written(m, SubSeq(cells, 1, n))

WriteWord(m, cells) ==
    IF A!FreeSize(m.arr) < 4 THEN m
    ELSE [Put(m, A!WrIndex(m.arr), cells) EXCEPT !.arr = A!WriterAt(@, 4)]

WriterJump(m, n) == [m EXCEPT !.arr = A!WriterAt(@, n)]

\* csm_array_read_u8 and csm_array_read_u32 of the security header.
ReadHeader(m) ==
    LET b == IF A!Unread(m.arr) < 1 THEN m
             ELSE [Touch(m, A!RdIndex(m.arr), 1) EXCEPT !.arr.rd = A!Add(@, 1)]
    IN  IF A!Unread(b.arr) < 4 THEN b
        ELSE [Touch(b, A!RdIndex(b.arr), 4) EXCEPT !.arr = A!ReaderAt(@, 4)]

\* SC and AK go before the data, over the header that was read.
PutAad(m, data, sc) == Put(m, data - (1 + AK_SIZE), << ScCell(sc) >> \o AkCells)

-----------------------------------------------------------------------------
(* csm_security.c                                                           *)

\* What GCM works on: the n bytes at data, changed in place when there are any, and the
\* aad bytes at the additional data.
Gcm(m, title, ic, data, n, aad) ==
    LET a == data - (1 + AK_SIZE)
        t == Touch(Touch(m, a, aad), data, n)
    IN  [m |-> Put(t, data, [i \in 1..n |-> Blank]),
         tag |-> Tag(title, ic, Cells(m, a, aad), Cells(m, data, n))]

\* Bytes to cipher, and bytes of additional data over info bytes of information.  A packet
\* that is too small is ciphered all the same.
TextSize(sc, unread, small) ==
    CASE ~sc.enc -> 0
      [] sc.enc /\ sc.auth /\ ~small -> unread - TAG_SIZE
      [] OTHER -> unread

AadSize(sc, info, small) ==
    CASE ~sc.auth \/ small -> 0
      [] sc.auth /\ ~small /\ sc.enc -> 1 + AK_SIZE
      [] OTHER -> 1 + AK_SIZE + info

\* csm_sec_auth_decrypt: the tag is compared when there is only authentication.
AuthDecrypt(m, title, sc, ic) ==
    LET r      == ReadHeader(m)
        data   == A!RdIndex(r.arr)
        unread == A!Unread(r.arr)
        small  == sc.auth /\ (IF sc.enc THEN unread <= TAG_SIZE ELSE unread < TAG_SIZE)
        g      == Gcm(PutAad(r, data, sc), title, ic, data, TextSize(sc, unread, small),
                      AadSize(sc, unread - TAG_SIZE, small))
        at     == data + unread - TAG_SIZE
    IN  IF sc = AuthOnly /\ ~small
        THEN [m |-> Touch(g.m, at, TAG_SIZE), ok |-> Cells(g.m, at, TAG_SIZE) = TagCells(g.tag)]
        ELSE [m |-> g.m, ok |-> ~small]

\* csm_sec_auth_encrypt: the tag is written after the information, if there is one.
AuthEncrypt(m, title, sc, ic) ==
    LET data   == A!RdIndex(m.arr)
        unread == A!Unread(m.arr)
        small  == sc.auth /\ (IF sc.enc THEN unread <= TAG_SIZE ELSE unread = 0)
        text   == TextSize(sc, unread, small)
        g      == Gcm(PutAad(m, data, sc), title, ic, data, text, AadSize(sc, unread, small))
        j      == WriterJump(g.m, text)
    IN  [m |-> IF sc.auth /\ ~small THEN WriteBuff(j, TagCells(g.tag)) ELSE j, ok |-> ~small]

-----------------------------------------------------------------------------
(* csm_channel.c                                                            *)

\* A request with the data of pass 3: its offset, what comes before the data, and a tag of
\* the peer, over the challenge or over something else.  The octet string is SC, IC and
\* the tag; a wrong size is one byte less or more.
RightTag(sc, ic, n) ==
    Tag("client", ic, << ScCell(sc) >> \o AkCells \o Challenge("stoc", n), << >>)

PeerTags(sc, ic, n) ==
    { RightTag(sc, ic, n),
      Tag("client", "other ic", << ScCell(sc) >> \o AkCells \o Challenge("stoc", n), << >>),
      Tag("client", ic, << ScCell(sc) >> \o AkCells \o Challenge("ctos", n), << >>) }

Init ==
    \E offset \in Offsets, room \in Rooms, header \in Headers, extra \in Extras :
    \E stoc, ctos \in Challenges, sc \in Controls :
    \E tag \in PeerTags(sc, "ic", stoc) :
        LET data == << ScCell(sc) >> \o IcCells("ic")
                        \o SubSeq(TagCells(tag) \o [i \in 1..extra |-> Blank], 1, extra)
            size == offset + header + Len(data) + room
        IN
        /\ buf = [i \in 0..size - 1 |->
                    IF i \in offset + header..offset + header + Len(data) - 1
                    THEN data[i - offset - header + 1] ELSE Blank]
        /\ in = [rd |-> header, wr |-> header + Len(data), offset |-> offset, size |-> size]
        /\ out = [rd |-> 0, wr |-> 0, offset |-> offset + RESPONSE_HEADER, size |-> size]
        /\ peer = [sc |-> sc, tag |-> tag, stoc |-> stoc, ctos |-> ctos, extra |-> extra]
        /\ touched = {} /\ pass3 = "none" /\ pass4 = "none" /\ phase = "request"

\* Variant: the room is compared with the offset of a smaller packet.
RoomForHlsLess(a) == a.offset >= MAX_HLS_SIZE - (1 + AK_SIZE) - SEC_HDR_SIZE

RoomForHls(a) == a.offset >= MAX_HLS_SIZE

Memory(a) == [buf |-> buf, arr |-> a, touched |-> touched]

\* Variant: the length of the header is forgotten.
Moved3NoHeader(a, stoc) ==
    [a EXCEPT !.offset = A!Sub(A!Add(@, a.rd), stoc), !.rd = 0, !.wr = 0]

\* The array as pass 3 moves it: the packet ends where the tag is.
Moved3(a, stoc) ==
    [a EXCEPT !.offset = A!Sub(A!Add(@, a.rd), SEC_HDR_SIZE + stoc), !.rd = 0, !.wr = 0]

\* The original offset of array b is restored.
Restored(a, b) == [a EXCEPT !.offset = b.offset]

\* csm_channel_hls_pass3; it leaves the array at the indices of the packet.
Pass3 ==
    LET r == ReadHeader(Memory(in))
        p == [r EXCEPT !.arr = Moved3(@, peer.stoc)]
        h == WriteWord(WriteBuff(p, << ScCell(peer.sc) >>), IcCells("ic"))
        s == WriterJump(WriteBuff(h, Challenge("stoc", peer.stoc)), TAG_SIZE)
        d == AuthDecrypt(s, "client", peer.sc, "ic")
        tried == A!Unread(r.arr) = TAG_SIZE /\ RoomForHls(r.arr)
    IN
    /\ phase = "request"
    /\ pass3' = Result(tried /\ d.ok)
    /\ IF tried
       THEN /\ buf' = d.m.buf /\ touched' = d.m.touched
            /\ in' = Restored(d.m.arr, in)
       ELSE /\ in' = r.arr /\ touched' = r.touched
            /\ UNCHANGED buf
    /\ phase' = "passed"
    /\ UNCHANGED <<out, peer, pass4>>

\* Variant: the challenge is laid before the offset.
Moved4Before(a, ctos) == [a EXCEPT !.offset = A!Sub(@, ctos)]

\* The array as pass 4 moves it: the challenge ends where the tag of the octet string
\* is; for a challenge of less than 7 bytes the offset moves forward.
Moved4(a, ctos) == [a EXCEPT !.offset = A!Sub(@, A!Sub(ctos, SEC_HDR_SIZE + 2))]

\* csm_channel_hls_pass4: the header of the octet string is written last, and the tag is
\* only jumped over, for it is already there.
Pass4 ==
    LET p == [Memory(out) EXCEPT !.arr = Moved4(@, peer.ctos)]
        e == AuthEncrypt(WriteBuff(p, Challenge("ctos", peer.ctos)), "server", AuthOnly, "own ic")
        w == [e.m EXCEPT !.arr = [Restored(@, out) EXCEPT !.wr = 0]]
        l == WriteBuff(WriteBuff(w, << Cell("octet string") >>), << Cell("17") >>)
        h == WriteWord(WriteBuff(l, << ScCell(AuthOnly) >>), IcCells("own ic"))
        j == IF A!FreeSize(w.arr) >= 7 THEN WriterJump(h, TAG_SIZE) ELSE h
    IN
    /\ phase = "passed" /\ pass3 = "true"
    /\ IF RoomForHls(out)
       THEN /\ pass4' = Result(/\ e.ok
                               /\ A!FreeSize(w.arr) >= 7 /\ A!WriterFits(h.arr, TAG_SIZE))
            /\ buf' = j.buf /\ out' = j.arr /\ touched' = j.touched
       ELSE /\ pass4' = "false"
            /\ UNCHANGED <<buf, out, touched>>
    /\ phase' = "answered"
    /\ UNCHANGED <<in, peer, pass3>>

\* The end of the method in svc_set_or_action_decoder: the header of the response is
\* written before what the passes left in the output array, which is jumped over; when
\* they do not fit, the response is an exception.  The handler of the database runs pass 4
\* when pass 3 succeeds.
Respond ==
    LET size   == out.wr
        first  == IF size > 0 THEN << Cell("data"), Cell("data") >> ELSE << Cell("no data") >>
        header == << Cell("tag"), Cell("normal"), Cell("id"), Cell("result") >> \o first
        o == [Memory(out) EXCEPT !.arr.offset = A!Sub(@, RESPONSE_HEADER), !.arr.wr = 0]
        h == WriteBytes(o, header)
        valid == /\ A!FreeSize(o.arr) >= Len(header)
                 /\ size > 0 => A!WriterFits(h.arr, size)
        d == IF A!FreeSize(o.arr) >= Len(header) /\ size > 0 THEN WriterJump(h, size) ELSE h
        x == WriteBytes([d EXCEPT !.arr.wr = 0], [i \in 1..3 |-> Cell("exception")])
        r == IF valid THEN d ELSE x
    IN
    /\ phase = "answered" \/ (phase = "passed" /\ pass3 = "false")
    /\ buf' = r.buf /\ touched' = r.touched
    /\ in' = [in EXCEPT !.wr = r.arr.wr]
    /\ phase' = "responded"
    /\ UNCHANGED <<out, peer, pass3, pass4>>

Next == Pass3 \/ Pass4 \/ Respond

Spec == Init /\ [][Next]_vars

-----------------------------------------------------------------------------
(* Properties                                                               *)

\* Every byte that the passes read or write is in the buffer, for any sizes of the
\* challenges and wherever the request begins: the packet that they lay, with its
\* additional data, never begins before the buffer nor ends after it.
TouchedInBuffer == touched \subseteq DOMAIN buf

\* With authentication only, pass 3 succeeds for the tag over the challenge that the
\* server sent, and for no other: the additional data, laid over the header, ends where the
\* challenge begins, and the challenge where the tag is.
Pass3Verifies ==
    phase # "request" /\ peer.sc = AuthOnly =>
        (pass3 = "true" <=>
            /\ in.offset >= MAX_HLS_SIZE /\ peer.extra = TAG_SIZE
            /\ peer.tag = RightTag(peer.sc, "ic", peer.stoc))

\* The response that follows a successful pass 4 is whole: its header, the header of the
\* octet string, and the tag of the server over the challenge of the client, in place
\* although the tag was computed for a packet of another layout.
ResponseIsWhole ==
    phase = "responded" /\ pass4 = "true" =>
        /\ in.wr = RESPONSE_HEADER + 2 + SEC_HDR_SIZE + TAG_SIZE
        /\ Cells([buf |-> buf], in.offset, in.wr) =
              << Cell("tag"), Cell("normal"), Cell("id"), Cell("result"), Cell("data"), Cell("data"),
                 Cell("octet string"), Cell("17"), ScCell(AuthOnly) >> \o IcCells("own ic") \o
              TagCells(Tag("server", "own ic", << ScCell(AuthOnly) >> \o AkCells \o
                                               Challenge("ctos", peer.ctos), << >>))
=============================================================================
