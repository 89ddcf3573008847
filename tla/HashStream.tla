------------------------------ MODULE HashStream ------------------------------
(***************************************************************************)
(* The contexts of md5.c, sha1.c and sha256.c, which the platform has for  *)
(* csm_hal_md5, csm_hal_sha1 and csm_hal_sha256, and that of cmac.c: a     *)
(* message comes in pieces of any length, is cut into blocks, and is       *)
(* padded at the end.                                                      *)
(*                                                                         *)
(* The rounds of a block are left out: the state of a context is the       *)
(* sequence of the blocks that were processed, and a byte is its place in  *)
(* the message.  HashBlock, LengthField and WordValues scale the 64 bytes  *)
(* of a block, the 8 of the length at the end of the last one, and the     *)
(* 2^32 values of the words of the length, which take one place in the     *)
(* block each.  For CMAC total is unprocessed_len, and a byte that a       *)
(* subkey was xored into says so.                                          *)
(***************************************************************************)
LOCAL INSTANCE Naturals
LOCAL INSTANCE Sequences

CONSTANTS
    HashBlock, LengthField, WordValues,
    HashPieces,     \* lengths of the pieces, below WordValues
    MaxMessage  \* bound: the bytes of a message

\* The length is behind a byte of the padding, and the number of the bytes counts blocks.  A
\* piece has fewer bytes than the word counts: the cast of its size loses nothing.
ASSUME HashAssumption ==
    /\ HashBlock \in Nat /\ LengthField \in 1..HashBlock - 1
    /\ WordValues \in Nat \ {0} /\ WordValues % HashBlock = 0
    /\ HashPieces \subseteq 0..WordValues - 1
    /\ MaxMessage \in Nat

VARIABLE hash       \* the algorithm, the context, and the bytes of the message so far

\* Bytes that no message has.
ZeroByte == 0
Pad80 == MaxMessage + 1
Word(n) == << "length", n >>

\* A call of process for every whole block of the bytes.
Cut(bytes) ==
    [k \in 1..Len(bytes) \div HashBlock |->
        [j \in 1..HashBlock |-> bytes[(k - 1) * HashBlock + j]]]
Processed(state, bytes) == state \o Cut(bytes)

Overwrite(buffer, left, bytes) ==
    [i \in 1..HashBlock |-> IF i \in left + 1..left + Len(bytes) THEN bytes[i - left] ELSE buffer[i]]

\* The number of bytes is counted in two words.
Counted(total, n) ==
    LET low == (total[1] + n) % WordValues
    IN  << low, IF low < n THEN (total[2] + 1) % WordValues ELSE total[2] >>

Fills(left, n) == left > 0 /\ n >= HashBlock - left

Updated(c, input) ==
    LET left  == c.total[1] % HashBlock
        fill  == HashBlock - left
        begun == Fills(left, Len(input))
        whole == Overwrite(c.buffer, left, SubSeq(input, 1, fill))
        rest  == IF begun THEN SubSeq(input, fill + 1, Len(input)) ELSE input
        kept  == SubSeq(rest, Len(rest) - (Len(rest) % HashBlock) + 1, Len(rest))
    IN  IF input = <<>> THEN c
        ELSE [total  |-> Counted(c.total, Len(input)),
              state  |-> Processed(IF begun THEN Append(c.state, whole) ELSE c.state, rest),
              buffer |-> Overwrite(IF begun THEN whole ELSE c.buffer,
                                   IF begun THEN 0 ELSE left, kept)]

mbedtls_md5_update(c, input) == Updated(c, input)
mbedtls_sha1_update(c, input) == Updated(c, input)
mbedtls_sha256_update(c, input) == Updated(c, input)

\* The words of the length in bits.
LengthHigh(total) == ((8 * total[1]) \div WordValues + 8 * total[2]) % WordValues
LengthLow(total)  == (8 * total[1]) % WordValues

\* Variant: a length that would just fit is put into a block of its own.
PaddingLate(total) ==
    LET last == total[1] % HashBlock
    IN  [i \in 1..(IF last + 1 < HashBlock - LengthField THEN HashBlock - LengthField - last
                                              ELSE 2 * HashBlock - LengthField - last)
            |-> IF i = 1 THEN Pad80 ELSE ZeroByte]

Padding(total) ==
    LET last == total[1] % HashBlock
    IN  [i \in 1..(IF last < HashBlock - LengthField THEN HashBlock - LengthField - last
                                          ELSE 2 * HashBlock - LengthField - last)
            |-> IF i = 1 THEN Pad80 ELSE ZeroByte]

\* What is processed at the end, with the low word first in MD5.
mbedtls_md5_finish(c) ==
    mbedtls_md5_update(mbedtls_md5_update(c, Padding(c.total)),
                       << Word(LengthLow(c.total)), Word(LengthHigh(c.total)) >>)
mbedtls_sha1_finish(c) ==
    mbedtls_sha1_update(mbedtls_sha1_update(c, Padding(c.total)),
                        << Word(LengthHigh(c.total)), Word(LengthLow(c.total)) >>)
mbedtls_sha256_finish(c) ==
    mbedtls_sha256_update(mbedtls_sha256_update(c, Padding(c.total)),
                          << Word(LengthHigh(c.total)), Word(LengthLow(c.total)) >>)

-----------------------------------------------------------------------------
(* cmac.c                                                                   *)

\* The last block is kept until it is known to be the last.
mbedtls_cipher_cmac_update(c, input) ==
    LET left   == c.total[1]
        fill   == HashBlock - left
        begun  == left > 0 /\ Len(input) > fill
        whole  == Overwrite(c.buffer, left, SubSeq(input, 1, fill))
        rest   == IF begun THEN SubSeq(input, fill + 1, Len(input)) ELSE input
        blocks == (Len(rest) + HashBlock - 1) \div HashBlock
        n      == IF blocks > 1 THEN (blocks - 1) * HashBlock ELSE 0
        from   == IF begun THEN 0 ELSE left
        kept   == SubSeq(rest, n + 1, Len(rest))
    IN  [total  |-> << from + Len(kept), 0 >>,
         state  |-> Processed(IF begun THEN Append(c.state, whole) ELSE c.state, SubSeq(rest, 1, n)),
         buffer |-> Overwrite(IF begun THEN whole ELSE c.buffer, from, kept)]

\* cmac_xor_block with a subkey.
Masked(subkey, block) == [i \in 1..HashBlock |-> << subkey, i, block[i] >>]

cmac_pad(last, n) ==
    [i \in 1..HashBlock |-> IF i <= n THEN last[i] ELSE IF i = n + 1 THEN Pad80 ELSE ZeroByte]

\* The context is cleared after it.
mbedtls_cipher_cmac_finish(c) ==
    LET n    == c.total[1]
        last == IF n < HashBlock THEN Masked("K2", cmac_pad(c.buffer, n)) ELSE Masked("K1", c.buffer)
    IN  [total |-> << 0, 0 >>, state |-> Append(c.state, last),
         buffer |-> [i \in 1..HashBlock |-> ZeroByte]]

-----------------------------------------------------------------------------

Algorithms == {"md5", "sha1", "sha256", "cmac"}

UpdateOf(c, input) ==
    CASE hash.algorithm = "md5"    -> mbedtls_md5_update(c, input)
      [] hash.algorithm = "sha1"   -> mbedtls_sha1_update(c, input)
      [] hash.algorithm = "sha256" -> mbedtls_sha256_update(c, input)
      [] hash.algorithm = "cmac"   -> mbedtls_cipher_cmac_update(c, input)

FinishOf(c) ==
    CASE hash.algorithm = "md5"    -> mbedtls_md5_finish(c)
      [] hash.algorithm = "sha1"   -> mbedtls_sha1_finish(c)
      [] hash.algorithm = "sha256" -> mbedtls_sha256_finish(c)
      [] hash.algorithm = "cmac"   -> mbedtls_cipher_cmac_finish(c)

\* The context of an algorithm that starts keeps the bytes in its buffer.
Started(c) == [c EXCEPT !.total = << 0, 0 >>, !.state = <<>>]

StartedHash(a) ==
    [algorithm |-> a, size |-> 0,
     ctx |-> [total |-> << 0, 0 >>, state |-> <<>>, buffer |-> [i \in 1..HashBlock |-> ZeroByte]]]

InitHash == \E a \in Algorithms : hash = StartedHash(a)

UpdateHash ==
    \E n \in HashPieces :
        /\ hash.size + n <= MaxMessage
        /\ hash' = [hash EXCEPT !.size = @ + n,
                      !.ctx = UpdateOf(@, [i \in 1..n |-> hash.size + i])]

\* A digest is taken, and the context is used for the next message.
FinishHash ==
    hash' = [hash EXCEPT !.size = 0, !.ctx = Started(FinishOf(@))]

HashSpec == InitHash /\ [][UpdateHash \/ FinishHash]_hash

-----------------------------------------------------------------------------

\* The message with its padding: a mark, the fewest zeros, and its length in bits.
Padded(size) ==
    LET zeros == CHOOSE z \in 0..HashBlock - 1 : (size + 1 + z + LengthField) % HashBlock = 0
        bits  == 8 * size
        words == << Word((bits \div WordValues) % WordValues), Word(bits % WordValues) >>
    IN  [i \in 1..size |-> i] \o << Pad80 >> \o [i \in 1..zeros |-> ZeroByte]
          \o (IF hash.algorithm = "md5" THEN << words[2], words[1] >> ELSE words)

\* The blocks of a message whose last one, whole or padded, is masked; an empty message has a
\* block of padding.
MaskedBlocks(size) ==
    LET whole  == size > 0 /\ size % HashBlock = 0
        before == IF whole THEN size - HashBlock ELSE size - (size % HashBlock)
        last   == [i \in 1..HashBlock |-> IF before + i <= size THEN before + i
                                          ELSE IF before + i = size + 1 THEN Pad80 ELSE ZeroByte]
    IN  Append(Processed(<<>>, [i \in 1..before |-> i]),
               Masked(IF whole THEN "K1" ELSE "K2", last))

\* The blocks that are processed are those of the whole message with its padding, however it
\* was cut into pieces, also those that just fill a block or end where the length begins,
\* whatever the messages before left in the buffer, and when the count of bytes carries; for
\* CMAC the last block is the one that is masked, with K1 when it is whole.
DigestOfWhole ==
    FinishOf(hash.ctx).state =
        IF hash.algorithm = "cmac" THEN MaskedBlocks(hash.size)
                                   ELSE Processed(<<>>, Padded(hash.size))
=============================================================================
