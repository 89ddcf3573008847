------------------------------ MODULE GcmStream ------------------------------
(***************************************************************************)
(* The authenticated encryption of gcm.c, which the platform has for       *)
(* csm_sys_gcm_init, _update and _finish: a sender and a receiver with one *)
(* key, each of whom starts a message and passes it on in pieces.          *)
(*                                                                         *)
(* A byte is the set of what was xored into it; one that is zero is empty. *)
(* The cipher is a byte of its own for every counter block, and the        *)
(* products of GHASH are left out: its value is the sequence of the blocks *)
(* that it took.  GcmBlock stands for 16 and Counters for the 2^32 values  *)
(* of the counter.                                                         *)
(***************************************************************************)
EXTENDS Naturals, Sequences, FiniteSets

CONSTANTS
    GcmBlock, Counters,
    Starts,     \* ways to start: an IV, its first counter when it is hashed, and the
                \* length of the additional data
    GcmPieces      \* lengths of the pieces

\* The longest message is not negative, and a start is an IV, one of the counters and a length.
ASSUME GcmAssumption ==
    /\ GcmBlock \in Nat \ {0}
    /\ Counters \in Nat \ {0, 1}
    /\ GcmPieces \subseteq Nat
    /\ \A start \in Starts :
          /\ start = [iv |-> start.iv, ctr |-> start.ctr, add |-> start.add]
          /\ start.ctr \in 0..Counters - 1 /\ start.add \in Nat

VARIABLE gcm    \* both contexts, the bytes sent and received, and whether pieces were whole

NoByte == {}
Xor(a, b) == (a \ b) \cup (b \ a)

\* A block of a piece, with zeros at its end.
BlockAt(bytes, k) ==
    [i \in 1..GcmBlock |-> IF k * GcmBlock + i <= Len(bytes) THEN bytes[k * GcmBlock + i] ELSE NoByte]
BlocksOf(bytes) == (Len(bytes) + GcmBlock - 1) \div GcmBlock

Absorb(buf, bytes) == buf \o [k \in 1..BlocksOf(bytes) |-> BlockAt(bytes, k - 1)]

\* E of a counter block, one byte of it.
Stream(y, i) == {<< "key", y, i >>}

Additional(n) == [i \in 1..n |-> {<< "add", i >>}]

\* mbedtls_gcm_starts.  An IV of 12 bytes starts at 1, another one anywhere.
mbedtls_gcm_starts(mode, start) ==
    LET y == [iv |-> start.iv, ctr |-> start.ctr]
    IN  [mode |-> mode, y |-> y, base |-> y, len |-> 0, add |-> start.add,
         buf |-> Absorb(<<>>, Additional(start.add)), used |-> {y}]

\* Variant: every counter is used.
LongestMessageLate == Counters * GcmBlock

\* The longest message: two blocks less than there are counters.
LongestMessage == (Counters - 2) * GcmBlock

\* Variant: the counter starts anew with every piece.
BumpFromBase(y, k) == [y EXCEPT !.ctr = (1 + k) % Counters]

Bump(y, k) == [y EXCEPT !.ctr = (@ + k) % Counters]

Fits(ctx, bytes) == ctx.len + Len(bytes) <= LongestMessage

\* What a piece is turned into, and the context after it.
Crypted(ctx, bytes) ==
    [i \in DOMAIN bytes |->
        Xor(bytes[i], Stream(Bump(ctx.y, (i - 1) \div GcmBlock + 1), (i - 1) % GcmBlock))]

\* The cipher text is what is authenticated.
Hashed(ctx, bytes) == IF ctx.mode = "DECRYPT" THEN bytes ELSE Crypted(ctx, bytes)

mbedtls_gcm_update(ctx, bytes) ==
    LET n == BlocksOf(bytes)
    IN  [ctx EXCEPT !.len = @ + Len(bytes),
                    !.y = Bump(@, n),
                    !.buf = Absorb(@, Hashed(ctx, bytes)),
                    !.used = @ \cup {Bump(ctx.y, k) : k \in 1..n}]

\* mbedtls_gcm_finish: the mask alone for a message without anything.
mbedtls_gcm_finish(ctx) ==
    [i \in 1..GcmBlock |->
        Xor(Stream(ctx.base, i - 1),
            IF ctx.len = 0 /\ ctx.add = 0 THEN NoByte
            ELSE {<< "ghash", Append(ctx.buf, << ctx.add, ctx.len >>), i >>})]

\* mbedtls_gcm_crypt_and_tag, of a message that is not too long.
mbedtls_gcm_crypt_and_tag(mode, start, bytes) ==
    LET ctx == mbedtls_gcm_starts(mode, start)
    IN  << Crypted(ctx, bytes), mbedtls_gcm_finish(mbedtls_gcm_update(ctx, bytes)) >>

\* mbedtls_gcm_auth_decrypt: the output is cleared when the tag is another one.
mbedtls_gcm_auth_decrypt(start, bytes, tag) ==
    LET opened == mbedtls_gcm_crypt_and_tag("DECRYPT", start, bytes)
    IN  IF opened[2] = tag THEN << TRUE, opened[1] >>
        ELSE << FALSE, [i \in DOMAIN bytes |-> NoByte] >>

Plain(from, n) == [i \in 1..n |-> {<< "plain", from + i >>}]

StartedGcm(start) ==
    [start |-> start, sender |-> mbedtls_gcm_starts("ENCRYPT", start),
     receiver |-> mbedtls_gcm_starts("DECRYPT", start),
     wire |-> <<>>, got |-> <<>>, sent |-> TRUE, received |-> TRUE]

InitGcm == \E start \in Starts : gcm = StartedGcm(start)

\* A piece is encrypted.  Only the last one may be no multiple of a block.
SendPiece ==
    \E n \in GcmPieces :
        /\ gcm.sent
        /\ Fits(gcm.sender, Plain(0, n))
        /\ LET piece == Plain(Len(gcm.wire), n)
           IN  gcm' = [gcm EXCEPT !.sender = mbedtls_gcm_update(@, piece),
                         !.wire = @ \o Crypted(gcm.sender, piece),
                         !.sent = n % GcmBlock = 0]

\* What came so far is decrypted in pieces of the receiver's own.
ReceivePiece ==
    \E n \in GcmPieces :
        /\ gcm.received
        /\ Len(gcm.got) + n <= Len(gcm.wire)
        /\ LET piece == SubSeq(gcm.wire, Len(gcm.got) + 1, Len(gcm.got) + n)
           IN  gcm' = [gcm EXCEPT !.receiver = mbedtls_gcm_update(@, piece),
                         !.got = @ \o Crypted(gcm.receiver, piece),
                         !.received = n % GcmBlock = 0]

\* A piece that makes the message too long is refused.
SendTooLong ==
    \E n \in GcmPieces : gcm.sent /\ ~Fits(gcm.sender, Plain(0, n)) /\ UNCHANGED gcm

NextGcm == SendPiece \/ ReceivePiece \/ SendTooLong

GcmSpec == InitGcm /\ [][NextGcm]_gcm

-----------------------------------------------------------------------------

\* The pieces of a message are encrypted as the whole of it would be, and what the receiver
\* has, with other pieces, is the beginning of the plain text; when it has all of it, both
\* have the same tag.  The whole is opened in one call too, but not with a changed byte or
\* another start, when nothing is given out.
PiecesAreOneMessage ==
    LET n == Len(gcm.wire) IN
    /\ << gcm.wire, mbedtls_gcm_finish(gcm.sender) >>
           = mbedtls_gcm_crypt_and_tag("ENCRYPT", gcm.start, Plain(0, n))
    /\ gcm.got = Plain(0, Len(gcm.got))
    /\ Len(gcm.got) = n =>
          mbedtls_gcm_finish(gcm.receiver) = mbedtls_gcm_finish(gcm.sender)
    /\ LET Open(start, bytes) ==
               mbedtls_gcm_auth_decrypt(start, bytes, mbedtls_gcm_finish(gcm.sender))
           Cleared == << FALSE, [i \in 1..n |-> NoByte] >>
       IN  /\ Open(gcm.start, gcm.wire) = << TRUE, Plain(0, n) >>
           /\ \A start \in Starts \ {gcm.start} : Open(start, gcm.wire) = Cleared
           /\ \A i \in 1..n :
                 Open(gcm.start, [gcm.wire EXCEPT ![i] = Xor(@, {<< "fault", i >>})]) = Cleared

\* No counter block is used for two blocks of a message, nor is that of the tag, up to the
\* longest message that is accepted and wherever the counter started.
CounterIsFresh ==
    \A ctx \in {gcm.sender, gcm.receiver} :
        Cardinality(ctx.used) = 1 + ((ctx.len + GcmBlock - 1) \div GcmBlock)
=============================================================================
