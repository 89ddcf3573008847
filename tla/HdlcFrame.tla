------------------------------ MODULE HdlcFrame ------------------------------
(***************************************************************************)
(* The frame codec of hdlc.c: frames of type 3 with their addresses, the   *)
(* control field, the two check sequences, and the options that an SNRM    *)
(* and its UA negotiate.  Frames are bytes: what the decoder accepts       *)
(* depends on all of them.  A buffer is a sequence of bytes that may hold  *)
(* more than the size handed to the decoder.                               *)
(*                                                                         *)
(* A result is a record of the code returned, ret, and of the frame        *)
(* description, h, that the decoder filled as far as it came.              *)
(***************************************************************************)
LOCAL INSTANCE Naturals
LOCAL INSTANCE Sequences

Byte == 0..255

CLIENT == 0
SERVER == 1

FLAG   == 126       \* 0x7E
FORMAT == 160       \* 0xA0, HDLC_FORMAT_TYPE

\* A byte under a mask: that of all bits but bit 4, or of the low bits.
Masked(cf, mask) == IF mask = 239 THEN cf - 16 * ((cf \div 16) % 2) ELSE cf % (mask + 1)

\* cPACKET_TYPES: a control field is of a type when it has its value under its mask.
PacketTypes ==
    { [type |-> "I",    mask |-> 1,   value |-> 0],
      [type |-> "RR",   mask |-> 15,  value |-> 1],
      [type |-> "RNR",  mask |-> 15,  value |-> 5],
      [type |-> "SNRM", mask |-> 239, value |-> 131],
      [type |-> "DISC", mask |-> 239, value |-> 67],
      [type |-> "UA",   mask |-> 239, value |-> 99],
      [type |-> "DM",   mask |-> 239, value |-> 15],
      [type |-> "FRMR", mask |-> 239, value |-> 135],
      [type |-> "UI",   mask |-> 239, value |-> 3] }

\* hdlc_init; cmd_resp is written here only.
HdlcInit ==
    [data_index |-> 0, data_size |-> 0, frame_size |-> 0,
     logical_device |-> 0, phy_address |-> 0, client_addr |-> 0, addr_len |-> 4,
     max_info_field_tx |-> 128, max_info_field_rx |-> 128,
     window_tx |-> 1, window_rx |-> 1, segmentation |-> 0, poll_final |-> 0,
     rrr |-> 0, sss |-> 0, type |-> "BAD", sender |-> SERVER]

Result(ret, h) == [ret |-> ret, h |-> h]

-----------------------------------------------------------------------------
(* Check sequences                                                          *)

\* The operator ^ of C, for bytes in a table and for two of them.
Xor ==
    LET Bit(x, y, p) == p * ((x \div p + y \div p) % 2)
    IN  [x \in Byte |-> [y \in Byte |->
            Bit(x, y, 1) + Bit(x, y, 2) + Bit(x, y, 4) + Bit(x, y, 8)
                + Bit(x, y, 16) + Bit(x, y, 32) + Bit(x, y, 64) + Bit(x, y, 128)]]
Xor16(x, y) == 256 * Xor[x \div 256][y \div 256] + Xor[x % 256][y % 256]

\* fcstab: the remainders of a byte by the polynomial 0x8408, low bit first.
Divide(v) == IF v % 2 = 1 THEN Xor16(v \div 2, 33800) ELSE v \div 2
FcsTab ==
    [b \in Byte |-> Divide(Divide(Divide(Divide(Divide(Divide(Divide(Divide(b))))))))]

NextFcs(fcs, b) == Xor16(fcs \div 256, FcsTab[Xor[fcs % 256][b]])

\* pppfcs16
Pppfcs16(bytes) ==
    LET fcs[i \in 0..Len(bytes)] == IF i = 0 THEN 65535 ELSE NextFcs(fcs[i - 1], bytes[i])
    IN  fcs[Len(bytes)]

\* The sequence that is sent, low byte first (hdlc_set_uint16_low_first).
CheckSequence(bytes) ==
    LET fcs == 65535 - Pppfcs16(bytes) IN << fcs % 256, fcs \div 256 >>

\* hdlc_check_fcs and hdlc_check_hcs: the sequence that follows byte last is that of
\* the bytes after the opening flag.
Checks(buf, last) ==
    << buf[last + 1], buf[last + 2] >> = CheckSequence(SubSeq(buf, 2, last))

-----------------------------------------------------------------------------
(* Addresses                                                                *)

\* hdlc_set_addr; only the last byte of an address may be odd.
SetAddr(size, upper, lower) ==
    CASE size = 1 -> << 2 * (upper % 128) + 1 >>
      [] size = 2 -> << 2 * (upper % 64), 2 * (lower % 128) + 1 >>
      [] size = 4 -> << 2 * ((upper \div 256) % 64), 2 * (upper % 64),
                        2 * ((lower \div 256) % 64), 2 * (lower % 128) + 1 >>

Lowest(set) == CHOOSE n \in set : \A k \in set : n <= k

\* hdlc_decode_addr_size: up to the first odd byte, and at most four.
AddrSize(buf, at, size) ==
    LET max == IF size < 4 THEN size ELSE 4
        odd == {n \in 1..max : buf[at + n - 1] % 2 = 1}
    IN  IF odd = {} THEN max ELSE Lowest(odd)

\* hdlc_getuint16_addr
Addr16(buf, at) == 256 * (buf[at] \div 2) + buf[at + 1] \div 2

\* hdlc_get_addr for the address of the server; an address of one byte leaves the
\* physical device as it was.
ServerAddr(h, buf, at, size) ==
    LET g == [h EXCEPT !.addr_len = size]
    IN  CASE size = 1 -> Result("OK", [g EXCEPT !.logical_device = buf[at] \div 2])
          [] size = 2 -> Result("OK", [g EXCEPT !.logical_device = buf[at] \div 2,
                                                !.phy_address = buf[at + 1] \div 2])
          [] size = 4 -> Result("OK", [g EXCEPT !.logical_device = Addr16(buf, at),
                                                !.phy_address = Addr16(buf, at + 2)])
          [] OTHER    -> Result("ERR_ADDR", g)

\* The address of the client has one byte.
ClientAddr(h, buf, at, size) ==
    IF size = 1 THEN Result("OK", [h EXCEPT !.client_addr = buf[at] \div 2])
                ELSE Result("ERR_ADDR", h)

-----------------------------------------------------------------------------
(* Encoder                                                                  *)

Addresses(h) ==
    LET server == SetAddr(h.addr_len, h.logical_device, h.phy_address)
        client == SetAddr(1, h.client_addr, 0)
    IN  IF h.sender = SERVER THEN client \o server ELSE server \o client

\* hdlc_encode: the length counts all but the flags; a header check sequence comes
\* with an information field only.
Encode(h, cf, data) ==
    LET addr == Addresses(h)
        size == Len(addr) + 5 + (IF data = << >> THEN 0 ELSE 2 + Len(data))
        head == << FLAG, FORMAT + ((size \div 256) % 8), size % 256 >> \o addr \o << cf >>
        body == IF data = << >> THEN head
                ELSE head \o CheckSequence(Tail(head)) \o data
    IN  body \o CheckSequence(Tail(body)) \o << FLAG >>

\* Control fields of hdlc_encode_data, hdlc_encode_rr and hdlc_encode_snrm.
InfoField(rrr, sss) == 32 * rrr + 2 * sss + 16
ReadyField(rrr)     == 32 * rrr + 17
SnrmField           == 147

\* snrm_nego
SnrmNego == << 129, 128, 18, 5, 1, 128, 6, 1, 128, 7, 4, 0, 0, 0, 1, 8, 4, 0, 0, 0, 7 >>

-----------------------------------------------------------------------------
(* Decoder                                                                  *)

\* Both bits of HDLC_FORMAT_TYPE are set.
HasFormat(b) == b >= 128 /\ (b \div 32) % 2 = 1

\* hdlc_get_len, with the flags: of the three high bits of the length two are kept, and
\* moved three places too far.
FrameSize(buf) == 2048 * (buf[2] % 4) + buf[3] + 2

\* hdlc_decode_control_field; the masks are disjoint on their values.
ControlField(h, cf) ==
    LET kinds == {p \in PacketTypes : Masked(cf, p.mask) = p.value}
        g == [h EXCEPT !.poll_final = (cf \div 16) % 2,
                       !.rrr = cf \div 32, !.sss = (cf \div 2) % 8]
    IN  IF kinds = {} THEN Result("ERR", g)
        ELSE Result("OK", [g EXCEPT !.type = (CHOOSE p \in kinds : TRUE).type])

\* What is left between the control field, at cf, and the closing flag decides whether
\* there is an information field, after a header check sequence.
Information(h, buf, cf) ==
    LET remaining == (h.frame_size - 3 + 65536 - cf) % 65536
    IN  IF remaining < 2 THEN Result("OK", h)
        ELSE IF ~Checks(buf, cf) THEN Result("ERR_HCS", h)
        ELSE Result("OK", [h EXCEPT !.data_index = cf + 2, !.data_size = remaining - 2])

\* The destination, the source, the control field and the information, in this order; the
\* first to fail ends the decoding.
Contents(h, buf) ==
    LET dest == AddrSize(buf, 4, h.frame_size)
        src  == AddrSize(buf, 4 + dest, h.frame_size)
        cf   == 4 + dest + src
        d    == IF h.sender = CLIENT THEN ServerAddr(h, buf, 4, dest)
                                     ELSE ClientAddr(h, buf, 4, dest)
        s    == IF h.sender = CLIENT THEN ClientAddr(d.h, buf, 4 + dest, src)
                                     ELSE ServerAddr(d.h, buf, 4 + dest, src)
        c    == ControlField(s.h, buf[cf])
    IN  CASE d.ret # "OK" -> d
          [] d.ret = "OK" /\ s.ret # "OK" -> s
          [] d.ret = "OK" /\ s.ret = "OK" /\ c.ret # "OK" -> c
          [] OTHER -> Information(c.h, buf, cf)

\* Variant: the check sequence of the frame is looked at last.
DecodeChecksLast(h, buf, size) ==
    LET f == [h EXCEPT !.segmentation = (buf[2] \div 8) % 2, !.frame_size = FrameSize(buf)]
        r == Contents(f, buf)
    IN  CASE buf[1] # FLAG -> Result("ERR_7E", h)
          [] buf[1] = FLAG /\ ~HasFormat(buf[2]) -> Result("ERR_FORMAT", h)
          [] OTHER ->
                IF f.frame_size > size \/ buf[f.frame_size] # FLAG THEN Result("ERR_SIZE", f)
                ELSE IF ~Checks(buf, f.frame_size - 3) THEN Result("ERR_FCS", r.h)
                ELSE r

\* Variant: the check sequence of the frame is not looked at.
DecodeUnchecked(h, buf, size) ==
    LET f == [h EXCEPT !.segmentation = (buf[2] \div 8) % 2, !.frame_size = FrameSize(buf)]
    IN  CASE buf[1] # FLAG -> Result("ERR_7E", h)
          [] buf[1] = FLAG /\ ~HasFormat(buf[2]) -> Result("ERR_FORMAT", h)
          [] OTHER ->
                IF f.frame_size > size \/ buf[f.frame_size] # FLAG THEN Result("ERR_SIZE", f)
                ELSE Contents(f, buf)

\* Variant: the frame may end anywhere in the buffer, in what was received or behind it.
DecodeAnySize(h, buf, size) ==
    LET f == [h EXCEPT !.segmentation = (buf[2] \div 8) % 2, !.frame_size = FrameSize(buf)]
    IN  CASE buf[1] # FLAG -> Result("ERR_7E", h)
          [] buf[1] = FLAG /\ ~HasFormat(buf[2]) -> Result("ERR_FORMAT", h)
          [] OTHER ->
                IF f.frame_size \notin DOMAIN buf \/ buf[f.frame_size] # FLAG
                THEN Result("ERR_SIZE", f)
                ELSE IF ~Checks(buf, f.frame_size - 3) THEN Result("ERR_FCS", f)
                ELSE Contents(f, buf)

\* hdlc_decode of the size first bytes of a buffer; the bytes of the length are read
\* whatever the size.
Decode(h, buf, size) ==
    LET f == [h EXCEPT !.segmentation = (buf[2] \div 8) % 2, !.frame_size = FrameSize(buf)]
    IN  CASE buf[1] # FLAG -> Result("ERR_7E", h)
          [] buf[1] = FLAG /\ ~HasFormat(buf[2]) -> Result("ERR_FORMAT", h)
          [] OTHER ->
                IF f.frame_size > size \/ buf[f.frame_size] # FLAG THEN Result("ERR_SIZE", f)
                ELSE IF ~Checks(buf, f.frame_size - 3) THEN Result("ERR_FCS", f)
                ELSE Contents(f, buf)

-----------------------------------------------------------------------------
(* Negotiation: hdlc_decode_info_field, one option per step of its loop     *)

\* hdlc_read_option, over the memory from the field on; the high byte of four is zero in the values modelled.
ReadOption(mem, at, size) ==
    CASE size = 1 -> mem[at]
      [] size = 2 -> 256 * mem[at] + mem[at + 1]
      [] size = 4 -> 65536 * mem[at + 1] + 256 * mem[at + 2] + mem[at + 3]
      [] OTHER    -> 0

\* The header of the options, and their length, which is that of the field.
OptionsHeld(mem, size) == mem[0] = 129 /\ mem[1] = 128 /\ mem[2] + 3 = size

Known == 5..8

\* Variant: the options of the two directions are swapped.
AppliedSwapped(h, tag, opt) ==
    CASE tag = 5 -> [h EXCEPT !.max_info_field_rx = opt % 65536]
      [] tag = 6 -> [h EXCEPT !.max_info_field_tx = opt % 65536]
      [] tag = 7 -> [h EXCEPT !.window_tx = opt % 256]
      [] tag = 8 -> [h EXCEPT !.window_rx = opt % 256]

\* The option with this tag is stored in its field, cut to the width of the field.
Applied(h, tag, opt) ==
    CASE tag = 5 -> [h EXCEPT !.max_info_field_tx = opt % 65536]
      [] tag = 6 -> [h EXCEPT !.max_info_field_rx = opt % 65536]
      [] tag = 7 -> [h EXCEPT !.window_tx = opt % 256]
      [] tag = 8 -> [h EXCEPT !.window_rx = opt % 256]
=============================================================================
