-------------------------------- MODULE Codec --------------------------------
(***************************************************************************)
(* The encoders and decoders of csm_ber.c and csm_axdr_codec.c, and        *)
(* messages made of what they encode.  A reader knows what comes next and  *)
(* calls its decoder; a walk goes by the tags (csm_axdr_decode_tags).      *)
(*                                                                         *)
(* An array is the sequence of its unread bytes.  A decoder returns        *)
(* whether it succeeds, the value, and what is left unread.                *)
(***************************************************************************)
LOCAL INSTANCE Naturals
LOCAL INSTANCE Sequences

CONSTANTS
    ItemSizes,      \* numbers of bytes, elements or bits of a value
    MaxWrites   \* bound: how many calls make a message

\* csm_ber_write_len takes a uint16_t.
ASSUME CodecAssumption ==
    /\ \A n \in ItemSizes : n \in Nat /\ n < 65536
    /\ MaxWrites \in Nat

VARIABLE msg    \* what it is for, its items with tag, size and bytes, and the calls left

-----------------------------------------------------------------------------
(* csm_ber.c                                                                *)

Failure(rest) == [ok |-> FALSE, val |-> 0, rest |-> rest]
Result(val, rest) == [ok |-> TRUE, val |-> val, rest |-> rest]

csm_array_read_u8(a) == IF a = <<>> THEN Failure(a) ELSE Result(Head(a), Tail(a))

\* csm_array_reader_jump, which stops at the end.
Jump(a, n) == SubSeq(a, n + 1, Len(a))

\* Above 127 the second byte of a length has LEN_XTND too, and bit 7 is lost.
csm_ber_write_len(n) ==
    IF n <= 127 THEN << n >> ELSE << 130, ((n \div 256) % 128) + 128, n % 128 >>

\* The value of a length that fails is what was read of it.
csm_ber_read_len(a) ==
    LET first  == csm_array_read_u8(a)
        octets == first.val % 128
        second == csm_array_read_u8(first.rest)
        third  == csm_array_read_u8(second.rest)
    IN  IF first.val < 128 \/ octets \notin {1, 2}
        THEN [first EXCEPT !.ok = @ /\ first.val < 128, !.val = IF @ < 128 THEN @ ELSE 0]
        ELSE IF octets = 1 \/ ~second.ok THEN second
        ELSE [third EXCEPT !.val = IF third.ok THEN 256 * second.val + @ ELSE second.val]

\* Tags of one byte, and of a second one that extends it.
csm_ber_read_tag(a) ==
    LET b == csm_array_read_u8(a)
        x == csm_array_read_u8(b.rest)
        Tag(ext) == [cls |-> b.val \div 64, isPrimitive |-> (b.val \div 32) % 2 = 0,
                     tag |-> b.val, ext |-> ext]
    IN  IF ~b.ok THEN b
        ELSE IF b.val % 32 # 31 THEN Result(Tag(0), b.rest)
        ELSE IF x.ok THEN Result(Tag(x.val % 128), x.rest) ELSE x

csm_ber_decode(a) ==
    LET t == csm_ber_read_tag(a)
        n == csm_ber_read_len(t.rest)
    IN  IF t.ok /\ n.ok THEN Result([tag |-> t.val.tag, length |-> n.val], n.rest)
        ELSE Failure(<<>>)

INTEGER == 2

csm_ber_write_u8(v) == << INTEGER, 1, v >>

\* Another tag or length is no failure, and leaves the value as it was.
Unset == 256
csm_ber_read_u8(a) ==
    LET ber == csm_ber_decode(a)
    IN  IF ber.ok /\ ber.val = [tag |-> INTEGER, length |-> 1]
        THEN csm_array_read_u8(ber.rest)
        ELSE [ber EXCEPT !.val = Unset]

\* The header of COSEM; its name and id follow.  The test of seven bytes is made of the
\* array, and a reader that has less fails at the name or the id.
OidHeader == << 96, 133, 116, 5, 8 >>
csm_ber_decode_object_identifier(a) ==
    IF Len(a) >= 7 /\ SubSeq(a, 1, 5) = OidHeader
    THEN Result(<< a[6], a[7] >>, Jump(a, 7))
    ELSE Failure(a)

-----------------------------------------------------------------------------
(* csm_axdr_codec.c                                                         *)

NULL == 0
ARRAY == 1
STRUCTURE == 2
BOOL == 3
BITSTRING == 4
OCTETSTRING == 9
INTEGER8 == 15
UNSIGNED16 == 18

IsStruct(tag) == tag \in {ARRAY, STRUCTURE}

\* The table of tags: those whose size is in the message, and the sizes of the others.
Coded == {ARRAY, STRUCTURE, BITSTRING, OCTETSTRING, 10, 12}
Fixed == {<<NULL, 0>>, <<BOOL, 1>>, <<5, 4>>, <<6, 4>>, <<13, 1>>, <<INTEGER8, 1>>, <<16, 2>>,
          <<17, 1>>, <<UNSIGNED16, 2>>, <<20, 8>>, <<21, 8>>, <<22, 1>>}
FixedTags == {f[1] : f \in Fixed}
FixedSize(tag) == (CHOOSE f \in Fixed : f[1] = tag)[2]

\* AXDR_SIZE_CODED, the size that is left when that of the message is impossible.
SIZE_CODED == 9

BITFIELD_BYTES(bits) == (bits - 1) \div 8 + 1

csm_axdr_rd_null(a) ==
    LET b == csm_array_read_u8(a) IN [b EXCEPT !.ok = @ /\ b.val = NULL]

\* Variant: the size is not compared with what is unread.
csm_axdr_sizeUnchecked(a) == LET n == csm_ber_read_len(a) IN Result(n.val, n.rest)

\* The outcome of csm_ber_read_len is not looked at.
csm_axdr_size(a) ==
    LET n == csm_ber_read_len(a)
    IN  [n EXCEPT !.ok = n.val <= Len(n.rest)]

\* A byte, and a size of what follows: csm_axdr_rd_octetstring and csm_axdr_decode_block.
Sized(a, byte) ==
    LET b == csm_array_read_u8(a)
    IN  IF b.ok /\ b.val = byte THEN csm_axdr_size(b.rest) ELSE Failure(b.rest)

csm_axdr_rd_octetstring(a) == Sized(a, OCTETSTRING)
csm_axdr_decode_block(a) == Sized(a, 0)

\* Variant: the elements of a structure are passed over.
BytesOfAll(tag, size) == IF tag = BITSTRING THEN BITFIELD_BYTES(size) ELSE size

\* The bytes of a value that the walk jumps over.
BytesOf(tag, size) ==
    IF IsStruct(tag) \/ size = 0 THEN 0
    ELSE IF tag = BITSTRING THEN BITFIELD_BYTES(size) ELSE size

\* One turn of csm_axdr_decode_tags: the call it makes, if any, with a tag and a size, and
\* what is left for the next turn, nothing after an error.
Turn(a) ==
    LET tag  == Head(a)
        size == IF tag \in Coded THEN csm_axdr_size(Tail(a))
                                 ELSE Result(FixedSize(tag), Tail(a))
    IN  IF tag \notin Coded \cup FixedTags THEN [calls |-> <<>>, rest |-> <<>>]
        ELSE IF ~size.ok THEN [calls |-> << <<tag, SIZE_CODED>> >>, rest |-> <<>>]
        ELSE [calls |-> << <<tag, size.val>> >>, rest |-> Jump(size.rest, BytesOf(tag, size.val))]

\* csm_axdr_decode_tags: the calls it makes while n bytes are unread.
Walk(a) ==
    LET calls[n \in 0..Len(a)] ==
            LET turn == Turn(SubSeq(a, Len(a) - n + 1, Len(a)))
            IN  IF n = 0 THEN <<>> ELSE turn.calls \o calls[Len(turn.rest)]
    IN  calls[Len(a)]

Payload(n) == [i \in 1..n |-> 6]

csm_axdr_wr_octetstring(n) == << OCTETSTRING >> \o csm_ber_write_len(n) \o Payload(n)
csm_axdr_wr_i8(v) == << INTEGER8, v >>
csm_axdr_wr_u16(v) == << UNSIGNED16, v \div 256, v % 256 >>

\* The tag is that of an octet string.
csm_axdr_wr_boolean(v) == << OCTETSTRING, v >>

\* A value of a message: its tag and size, and the bytes that are written for it.
Item(tag, size, bytes) == [tag |-> tag, size |-> size, bytes |-> bytes]

\* A structure and its elements, one after the other.
csm_axdr_wr_capture_object(class, index, data) ==
    << Item(STRUCTURE, 4, << STRUCTURE, 4 >>), Item(UNSIGNED16, 2, csm_axdr_wr_u16(class)),
       Item(OCTETSTRING, 6, csm_axdr_wr_octetstring(6)), Item(INTEGER8, 1, csm_axdr_wr_i8(index)),
       Item(UNSIGNED16, 2, csm_axdr_wr_u16(data)) >>

\* A value of any type, by another encoder.
AnyValue(tag, size) ==
    << tag >> \o (IF tag \in Coded THEN csm_ber_write_len(size) ELSE <<>>)
        \o Payload(BytesOf(tag, size))

-----------------------------------------------------------------------------
(* Messages                                                                 *)

InitCodec == \E way \in {"read", "walk"} :
    msg = [way |-> way, items |-> <<>>, left |-> MaxWrites]

AddItems(way, items) ==
    /\ msg.way = way
    /\ msg.left > 0
    /\ msg' = [msg EXCEPT !.items = @ \o items, !.left = @ - 1]

WriteForReader ==
    \/ \E n \in ItemSizes :
          \/ AddItems("read", << Item("length", n, csm_ber_write_len(n)) >>)
          \/ AddItems("read", << Item("octets", n, csm_axdr_wr_octetstring(n)) >>)
          \/ AddItems("read", << Item("block", n, <<0>> \o csm_ber_write_len(n) \o Payload(n)) >>)
    \/ \E v \in {0, 255} : AddItems("read", << Item("u8", v, csm_ber_write_u8(v)) >>)
    \/ AddItems("read", << Item("oid", << 1, 2 >>, OidHeader \o << 1, 2 >>) >>)
    \/ AddItems("read", << Item("null", NULL, << NULL >>) >>)

WriteForWalk ==
    \/ \E tag \in Coded, n \in ItemSizes : AddItems("walk", << Item(tag, n, AnyValue(tag, n)) >>)
    \/ \E f \in Fixed : AddItems("walk", << Item(f[1], f[2], AnyValue(f[1], f[2])) >>)
    \/ \E v \in {0, 1} : AddItems("walk", << Item(BOOL, 1, csm_axdr_wr_boolean(v)) >>)
    \/ AddItems("walk", csm_axdr_wr_capture_object(7, 2, 258))

WriteItem == WriteForReader \/ WriteForWalk

CodecSpec == InitCodec /\ [][WriteItem]_msg

\* The bytes of the n first items, for each n, and those of all.
Written(items) ==
    LET upto[n \in 0..Len(items)] == IF n = 0 THEN <<>> ELSE upto[n - 1] \o items[n].bytes
    IN  upto

Bytes(items) == Written(items)[Len(items)]

-----------------------------------------------------------------------------
(* Properties                                                               *)

\* The decoder of an item; what a size announces is counted and passed over.
ReadItem(item, a) ==
    LET Passed(r) == [r EXCEPT !.val = IF @ <= Len(r.rest) THEN @ ELSE Len(r.rest),
                               !.rest = Jump(@, r.val)]
    IN  CASE item.tag = "length" -> csm_ber_read_len(a)
          [] item.tag = "octets" -> Passed(csm_axdr_rd_octetstring(a))
          [] item.tag = "block"  -> Passed(csm_axdr_decode_block(a))
          [] item.tag = "u8"     -> csm_ber_read_u8(a)
          [] item.tag = "oid"    -> csm_ber_decode_object_identifier(a)
          [] item.tag = "null"   -> csm_axdr_rd_null(a)

\* The values that the readers of n items get from a, up to a failure, and what they leave.
NextRead(item, read) ==
    LET r == ReadItem(item, read.rest)
    IN  IF read.ok /\ r.ok THEN [ok |-> TRUE, vals |-> Append(read.vals, r.val), rest |-> r.rest]
                           ELSE [read EXCEPT !.ok = FALSE]

Values(items, a) ==
    LET read[n \in 0..Len(items)] ==
            IF n = 0 THEN [ok |-> TRUE, vals |-> <<>>, rest |-> a]
                     ELSE NextRead(items[n], read[n - 1])
    IN  read[Len(items)].vals

IsPrefixOf(s, t) == Len(s) <= Len(t) /\ s = SubSeq(t, 1, Len(s))

\* The long form of a length, above 127, is not read back as it is written.
Short(item) == item.tag \in {"length", "octets", "block"} => item.size <= 127

\* What was encoded is decoded to the same values in the same order, up to the first length
\* of the long form, whatever follows; a message that is cut gives fewer of them, and never a
\* wrong one, but for an empty value of a size that was cut off.  The octet string or block
\* whose length is long is refused, and not taken for another one, unless the message has
\* 2^15 bytes.  (A long length alone is read as another one: csm_ber.c:93 and 97 lose bit 7.)
ReadBack ==
    msg.way = "read" =>
        LET items == msg.items
            bytes == Bytes(items)
            Sent(k) == [i \in 1..k |-> items[i].size]
            Got(k, a) == Values(SubSeq(items, 1, k), a)
        IN  \A k \in 0..Len(items) :
              (\A i \in 1..k : Short(items[i])) /\ (k < Len(items) => ~Short(items[k + 1])) =>
                /\ Got(k, bytes) = Sent(k)
                /\ k < Len(items) /\ items[k + 1].tag # "length" /\ Len(bytes) < 32768
                      => Got(k + 1, bytes) = Sent(k)
                /\ \A n \in 0..Len(bytes) :
                      LET got == Got(k, SubSeq(bytes, 1, n))
                      IN  \/ IsPrefixOf(got, Sent(k))
                          \/ /\ items[Len(got)].tag \in {"octets", "block"}
                             /\ got = [Sent(Len(got)) EXCEPT ![Len(got)] = 0]

\* A value whose encoder writes the tag of its type (that of a boolean writes the tag of an
\* octet string), and whose size is a length of one byte.
Tagged(item) == item.bytes[1] = item.tag /\ (item.tag \in Coded => item.size <= 127)

\* The size in bits of a bit string, and the number of elements of a structure, are compared
\* with the bytes that follow.
SizeFits(items, i) ==
    IsStruct(items[i].tag) \/ items[i].tag = BITSTRING =>
        items[i].size + 2 <= Len(Bytes(items)) - Len(Written(items)[i - 1])

\* A walk calls back with the tag and the size of every value, those of the elements of a
\* structure too, in the order of the message, up to the first that is not tagged or whose
\* size does not fit.  Of a message of tagged values, cut or not, it gives a beginning and
\* nothing else, but for the size of the last.
WalkedAsWritten ==
    msg.way = "walk" =>
        LET items == msg.items
            bytes == Bytes(items)
            calls == [i \in DOMAIN items |-> << items[i].tag, items[i].size >>]
        IN  /\ \A k \in 0..Len(items) :
                  (\A i \in 1..k : Tagged(items[i]) /\ SizeFits(items, i)) =>
                      IsPrefixOf(SubSeq(calls, 1, k), Walk(bytes))
            /\ (\A i \in DOMAIN items : Tagged(items[i])) =>
                  \A n \in 0..Len(bytes) :
                    LET got == Walk(SubSeq(bytes, 1, n))
                        k == Len(got)
                    IN  /\ k <= Len(calls)
                        /\ \A i \in 1..k - 1 : got[i] = calls[i]
                        /\ k > 0 => got[k][1] = calls[k][1]
=============================================================================
