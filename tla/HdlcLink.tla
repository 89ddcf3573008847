------------------------------- MODULE HdlcLink -------------------------------
(***************************************************************************)
(* One direction of an HDLC link that uses the codec of hdlc.c: a station  *)
(* sends frames, the line delivers their bytes in pieces and may damage or *)
(* lose one, and the receiver runs hdlc_decode on what it has, moves on by *)
(* the frame size when a frame is complete, and searches the next flag     *)
(* when the decoder finds no frame in what it has.  After an SNRM or a UA  *)
(* it runs hdlc_decode_info_field, one option per step.  Frames that the   *)
(* library does not write come on the same line: their length and check    *)
(* sequence are right, and the decoder may accept or refuse the contents.  *)
(*                                                                         *)
(* The line, the buffer and the search are not in the repository: they are *)
(* what the codec expects of its caller (frame_size is the index to the    *)
(* next frame, HDLC_ERR_SIZE asks for more bytes).  Bytes that a shift of  *)
(* the buffer leaves behind stay where they are, and the memory after the  *)
(* buffer holds one value.  The sender and the line move while the         *)
(* receiver waits: its other steps read nothing that they change.          *)
(***************************************************************************)
EXTENDS Naturals, Sequences, HdlcFrame

CONSTANTS
    Stations,       \* addresses and role of the sender
    Payloads,       \* information fields of I frames
    OptionLists,    \* options a server answers with, sequences of tag, width, value
    Others,         \* frames that other implementations write, as bytes
    Chunks,         \* how many bytes arrive at once
    Faults,         \* what a fault adds to a byte
    MaxFrames,      \* bound: frames that are sent
    Capacity,       \* bound: bytes of the buffer
    Fills           \* what the buffer and the memory after it hold at the start

VARIABLES
    tx,         \* hdlc_t of the sender
    sent,       \* frames sent that the receiver has not passed yet
    budget,     \* bound: frames still to send
    line,       \* bytes on their way
    hurt,       \* the line damaged or lost a byte
    rx,         \* hdlc_t of the receiver
    buf,        \* its buffer
    size,       \* bytes received
    fill,       \* memory after the buffer
    phase,      \* waiting, decoding, accepted, negotiating or negotiated
    last,       \* code of the last call of the codec
    loop        \* index and number_of_tags of hdlc_decode_info_field

vars == <<tx, sent, budget, line, hurt, rx, buf, size, fill, phase, last, loop>>
sender   == <<tx, sent, budget>>
receiver == <<rx, buf, size, fill, phase, last, loop>>

-----------------------------------------------------------------------------
(* The sender                                                               *)

\* An option with its value, high byte first.
OptionBytes(o) ==
    << o.tag, o.width >> \o
    CASE o.width = 1 -> << o.value >>
      [] o.width = 2 -> << o.value \div 256, o.value % 256 >>
      [] o.width = 4 -> << 0, 0, o.value \div 256, o.value % 256 >>

OptionField(opts) ==
    LET upto[n \in 0..Len(opts)] == IF n = 0 THEN << >> ELSE upto[n - 1] \o OptionBytes(opts[n])
        all == upto[Len(opts)]
    IN  IF opts = << >> THEN << >> ELSE << 129, 128, Len(all) >> \o all

\* The options of hdlc_encode_snrm.
Option(tag, width, value) == [tag |-> tag, width |-> width, value |-> value]
SnrmOptions ==
    << Option(5, 1, 128), Option(6, 1, 128), Option(7, 4, 1), Option(8, 4, 7) >>

ASSUME SnrmAssumption == OptionField(SnrmOptions) = SnrmNego

\* Addresses that hdlc_set_addr keeps: of an address of four bytes the low byte of the
\* logical device has six bits.
StationFits(s) ==
    /\ s.sender \in {CLIENT, SERVER} /\ s.client_addr \in 0..127
    /\ \/ s.addr_len = 1 /\ s.logical_device \in 0..127
       \/ s.addr_len = 2 /\ s.logical_device \in 0..63 /\ s.phy_address \in 0..127
       \/ /\ s.addr_len = 4
          /\ \E h, l \in 0..63 : s.logical_device = 256 * h + l
          /\ \E h \in 0..63, l \in 0..127 : s.phy_address = 256 * h + l

Options == [tag: Byte, width: {1, 2, 4}, value: Nat]

\* A value that its width can carry and the field of hdlc_t holds.
OptionFits(o) ==
    /\ o.value <= 65535
    /\ o.width = 1 \/ o.tag \in {7, 8} => o.value <= 255

\* The information field of a station before the negotiation.
MaxInfo == 128

\* A frame with its flags, a length that hdlc_get_len reads, and a right check sequence;
\* not longer than those of a station.
OtherFits(frame) ==
    /\ frame \in Seq(Byte) /\ Len(frame) \in 9..MaxInfo + 14
    /\ frame[1] = FLAG /\ HasFormat(frame[2]) /\ FrameSize(frame) = Len(frame)
    /\ Checks(frame, Len(frame) - 3) /\ frame[Len(frame)] = FLAG

ASSUME LinkAssumption ==
    /\ \A s \in Stations : StationFits(s)
    /\ \A info \in Payloads : info \in Seq(Byte) /\ Len(info) <= MaxInfo
    /\ \A opts \in OptionLists :
          /\ opts \in Seq(Options)
          /\ \A i \in DOMAIN opts : OptionFits(opts[i])
          /\ Len(OptionField(opts)) <= MaxInfo
    /\ \A frame \in Others : OtherFits(frame)
    /\ Chunks \subseteq Nat /\ Faults \subseteq Nat /\ Fills \subseteq Byte
    /\ MaxFrames \in Nat /\ Capacity \in Nat

Init ==
    /\ \E s \in Stations :
          /\ tx = [HdlcInit EXCEPT !.sender = s.sender, !.addr_len = s.addr_len,
                     !.logical_device = s.logical_device,
                     !.phy_address = s.phy_address, !.client_addr = s.client_addr]
          /\ rx = [HdlcInit EXCEPT !.sender = s.sender]
    /\ fill \in Fills
    /\ buf = [i \in 1..Capacity |-> fill]
    /\ sent = << >> /\ line = << >> /\ budget = MaxFrames /\ hurt = FALSE
    /\ size = 0 /\ phase = "waiting" /\ last = "OK"
    /\ loop = [index |-> 0, tags |-> 0]

\* A frame of a type, with a control field and an information field, is written to
\* the line.
Send(type, cf, info, opts, h) ==
    LET frame == Encode(h, cf, info) IN
    /\ phase = "waiting" /\ budget > 0
    /\ budget' = budget - 1
    /\ tx' = [h EXCEPT !.type = type]
    /\ sent' = Append(sent, [own |-> TRUE, h |-> tx', info |-> info, opts |-> opts,
                            len |-> Len(frame)])
    /\ line' = line \o frame
    /\ UNCHANGED <<receiver, hurt>>

\* The application numbers its frames.
Numbered == [tx EXCEPT !.sss = (MaxFrames - budget) % 8, !.rrr = 7 - ((budget - 1) % 8)]

SendData ==
    \E info \in Payloads : Send("I", InfoField(Numbered.rrr, Numbered.sss), info, << >>, Numbered)

SendReady == Send("RR", ReadyField(Numbered.rrr), << >>, << >>, [Numbered EXCEPT !.sss = 0])

SendSnrm ==
    /\ tx.sender = CLIENT
    /\ Send("SNRM", SnrmField, SnrmNego, SnrmOptions, tx)

\* The server calls hdlc_encode with the control field of a UA.
SendUa ==
    /\ tx.sender = SERVER
    /\ \E opts \in OptionLists : Send("UA", 115, OptionField(opts), opts, tx)

\* A frame that the library does not write.
SendOther ==
    /\ phase = "waiting" /\ budget > 0
    /\ budget' = budget - 1
    /\ \E frame \in Others :
          /\ sent' = Append(sent, [own |-> FALSE, h |-> tx, info |-> frame, opts |-> << >>,
                                  len |-> Len(frame)])
          /\ line' = line \o frame
    /\ UNCHANGED <<tx, receiver, hurt>>

-----------------------------------------------------------------------------
(* The line                                                                 *)

Damage ==
    /\ phase = "waiting" /\ ~hurt
    /\ hurt' = TRUE
    /\ \/ \E i \in DOMAIN line, p \in Faults :
             line' = [line EXCEPT ![i] = (@ + p) % 256]
       \/ \E i \in DOMAIN line : line' = SubSeq(line, 1, i - 1) \o SubSeq(line, i + 1, Len(line))
    /\ UNCHANGED <<sender, receiver>>

Deliver(most) ==
    LET n == IF Len(line) < most THEN Len(line) ELSE most IN
    /\ phase = "waiting"
    /\ n > 0 /\ size + n <= Capacity
    /\ buf' = [i \in 1..Capacity |-> IF i \in size + 1..size + n THEN line[i - size] ELSE buf[i]]
    /\ size' = size + n
    /\ line' = SubSeq(line, n + 1, Len(line))
    /\ phase' = "decoding"
    /\ UNCHANGED <<sender, hurt, rx, fill, last, loop>>

-----------------------------------------------------------------------------
(* The receiver                                                             *)

\* The n first bytes leave the buffer; the memory behind them keeps its contents.
Shifted(n) == [i \in 1..Capacity |-> IF i + n <= size THEN buf[i + n] ELSE buf[i]]

\* The decoder reads the length, so the caller waits for it.
Wait ==
    /\ phase = "decoding" /\ size < 3
    /\ phase' = "waiting"
    /\ UNCHANGED <<sender, line, hurt, rx, buf, size, fill, last, loop>>

\* Up to the next flag, or to the end of what was received.
NextFlag ==
    LET flags == {i \in 2..size : buf[i] = FLAG}
    IN  IF flags = {} THEN size ELSE Lowest(flags) - 1

\* Frames of others that the n first bytes of the buffer are.
AtFront(n) == {k \in DOMAIN sent : ~sent[k].own /\ sent[k].info = SubSeq(buf, 1, n)}

\* The frames after the oldest of these.
After(frames) == IF frames = {} THEN sent ELSE SubSeq(sent, Lowest(frames) + 1, Len(sent))

\* The decoder refuses the contents of a frame whose check sequence is right.
Refusals == {"ERR_ADDR", "ERR", "ERR_HCS"}

\* hdlc_decode on the buffer; the caller moves on behind a frame that is refused.
Receive ==
    LET r == Decode(rx, buf, size) IN
    /\ phase = "decoding" /\ size >= 3
    /\ rx' = r.h
    /\ last' = r.ret
    /\ CASE r.ret = "OK"       -> phase' = "accepted" /\ UNCHANGED <<sent, buf, size>>
         [] r.ret = "ERR_SIZE" -> phase' = "waiting"  /\ UNCHANGED <<sent, buf, size>>
         [] r.ret \in Refusals -> /\ phase' = phase
                                  /\ buf' = Shifted(r.h.frame_size)
                                  /\ size' = size - r.h.frame_size
                                  /\ sent' = After(AtFront(r.h.frame_size))
         [] OTHER -> /\ phase' = phase
                     /\ buf' = Shifted(NextFlag)
                     /\ size' = size - NextFlag
                     /\ UNCHANGED sent
    /\ UNCHANGED <<tx, budget, line, hurt, fill, loop>>

\* Nothing came for a while after a frame that is not complete.
GiveUp ==
    /\ phase = "waiting" /\ line = << >> /\ size > 0
    /\ buf' = Shifted(NextFlag)
    /\ size' = size - NextFlag
    /\ phase' = "decoding"
    /\ UNCHANGED <<sender, line, hurt, rx, fill, last, loop>>

\* The memory from the information field on, as far as a byte index and an option reach.
Mem == [k \in 0..258 |-> IF rx.data_index + k < Capacity THEN buf[rx.data_index + k + 1] ELSE fill]

Negotiates == rx.type \in {"SNRM", "UA"} /\ rx.data_size > 0

\* hdlc_decode_info_field up to its loop; the size is that of the last information field.
Negotiate ==
    /\ phase = "accepted" /\ Negotiates
    /\ IF OptionsHeld(Mem, rx.data_size)
       THEN phase' = "negotiating" /\ last' = "OK"
       ELSE phase' = "negotiated" /\ last' = "ERR_NEGO"
    /\ loop' = [index |-> 3, tags |-> 0]
    /\ UNCHANGED <<sender, line, hurt, rx, buf, size, fill>>

\* Variant: the loop waits for a fifth option.
EnoughTooMany(tags) == tags > 4

Enough(tags) == tags >= 4

\* One turn of the loop: an option that is not known is passed with its header only, and
\* the loop ends at the fourth option or at one without value.
NextOption ==
    LET tag == Mem[loop.index]
        width == Mem[(loop.index + 1) % 256]
        at  == (loop.index + 2) % 256
        opt == ReadOption(Mem, at, width)
    IN
    /\ phase = "negotiating"
    /\ \/ /\ tag \notin Known
          /\ loop' = [loop EXCEPT !.index = at]
          /\ UNCHANGED <<rx, phase, last>>
       \/ /\ tag \in Known /\ opt = 0
          /\ last' = "ERR_NEGO" /\ phase' = "negotiated"
          /\ loop' = [loop EXCEPT !.index = at]
          /\ UNCHANGED rx
       \/ /\ tag \in Known /\ opt # 0
          /\ rx' = Applied(rx, tag, opt)
          /\ loop' = [index |-> (at + width) % 256, tags |-> loop.tags + 1]
          /\ phase' = IF Enough(loop'.tags) THEN "negotiated" ELSE phase
          /\ UNCHANGED last
    /\ UNCHANGED <<sender, line, hurt, buf, size, fill>>

\* The description holds what the sender put into a frame.
Describes(h, f) ==
    /\ h.type = f.h.type /\ h.frame_size = f.len
    /\ h.client_addr = f.h.client_addr /\ h.addr_len = f.h.addr_len
    /\ h.logical_device = f.h.logical_device
    /\ h.addr_len > 1 => h.phy_address = f.h.phy_address
    /\ h.type \in {"I", "RR"} => h.rrr = f.h.rrr /\ h.sss = f.h.sss
    /\ f.info # << >> => /\ h.data_size = Len(f.info)
                         /\ SubSeq(buf, h.data_index + 1, h.data_index + h.data_size) = f.info

\* What was accepted is one of these frames.
Found == {k \in DOMAIN sent : sent[k].own /\ Describes(rx, sent[k])} \cup AtFront(rx.frame_size)
Oldest == Lowest(Found)

\* The caller moves on to the next frame.
Consume ==
    /\ phase = "negotiated" \/ (phase = "accepted" /\ ~Negotiates)
    /\ buf' = Shifted(rx.frame_size)
    /\ size' = size - rx.frame_size
    /\ phase' = "decoding"
    /\ sent' = After(Found)
    /\ UNCHANGED <<tx, budget, line, hurt, rx, fill, last, loop>>

Next ==
    \/ SendData \/ SendReady \/ SendSnrm \/ SendUa \/ SendOther
    \/ Damage
    \/ \E n \in Chunks : Deliver(n)
    \/ Wait \/ Receive \/ GiveUp \/ Negotiate \/ NextOption \/ Consume

\* The loop runs to its end; the line and the sender owe nothing.
Spec == Init /\ [][Next]_vars /\ WF_vars(Negotiate \/ NextOption)

-----------------------------------------------------------------------------
(* Properties                                                               *)

\* A frame that the decoder accepts is one that was sent, with its type, addresses,
\* sequence numbers, information and size (with its bytes, when another implementation wrote
\* it), whatever the pieces it came in, whatever the buffer held before, and with a damaged
\* or a lost byte anywhere; without a fault it is the oldest one.
AcceptedIsSent ==
    phase = "accepted" => Found # {} /\ (~hurt => Oldest = 1)

\* The next step is that of Receive.
Receives == phase = "decoding" /\ size >= 3

\* Without a fault the decoder asks for more bytes until the frame is whole, and then accepts
\* it, or decides on the contents of one that another implementation wrote: old bytes of the
\* buffer never complete a frame, nor spoil one, nor does a refused frame spoil the next.
WholeIsAccepted ==
    [][ Receives /\ ~hurt /\ sent # << >> =>
          /\ size < Head(sent).len => last' = "ERR_SIZE"
          /\ size >= Head(sent).len =>
                last' \in {"OK"} \cup (IF Head(sent).own THEN {} ELSE Refusals) ]_vars

\* Addresses, type and numbers: what the receiver knows of its peer.
Peer(h) == <<h.logical_device, h.phy_address, h.client_addr, h.addr_len, h.type, h.rrr, h.sss>>

\* What the decoder refuses never touches the last information.  It changes what is known of
\* the peer only when a frame of another implementation has arrived whole and unharmed: then
\* the addresses and the numbers read before the refusal stay in hdlc_t.  Neither a part of
\* a frame nor a damaged one gets as far, as the check sequence comes before the contents.
RefusedKeepsPeer ==
    [][ Receives /\ last' # "OK" =>
          /\ rx'.data_index = rx.data_index /\ rx'.data_size = rx.data_size
          /\ Peer(rx') # Peer(rx) => rx'.frame_size <= size /\ AtFront(rx'.frame_size) # {} ]_vars

\* Options with which the loop of hdlc_decode_info_field ends where the field ends.
Complete(opts) ==
    /\ Len(opts) = 4
    /\ {opts[i].tag : i \in 1..4} = Known
    /\ \A i \in 1..4 : opts[i].value # 0

ValueOf(opts, tag) == (CHOOSE o \in {opts[i] : i \in DOMAIN opts} : o.tag = tag).value

\* After the four options, in any order and of any width, the receiver has the values of
\* the sender, and read the field to its end and no further.
NegotiationAgrees ==
    phase = "negotiated" /\ Found # {} /\ Complete(sent[Oldest].opts) =>
        LET opts == sent[Oldest].opts IN
        /\ last = "OK"
        /\ rx.max_info_field_tx = ValueOf(opts, 5) /\ rx.max_info_field_rx = ValueOf(opts, 6)
        /\ rx.window_tx = ValueOf(opts, 7) /\ rx.window_rx = ValueOf(opts, 8)
        /\ loop.index = rx.data_size

\* With the four options the loop ends.  (It has no other bound: without one of
\* them it reads on, and may never end.)
NegotiationEnds ==
    (phase = "negotiating" /\ Found # {} /\ Complete(sent[Oldest].opts)) ~> (phase = "negotiated")
=============================================================================
