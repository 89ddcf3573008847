------------------------------- MODULE Library -------------------------------
(***************************************************************************)
(* The parts below the protocol that every layer calls and that share      *)
(* nothing with one another: the arrays, the codecs of BER and A-XDR, the  *)
(* clock, the bit fields, and the digests and the authenticated encryption *)
(* that the platform calls.  One of them is used in a behaviour; the       *)
(* others rest in one of their initial states.                             *)
(***************************************************************************)
EXTENDS CsmArray, Clock, Codec, Bitfield, HashStream, GcmStream

VARIABLE used       \* the part that is used

libraryVars == << used, arr, acc, today, msg, bf, hash, gcm >>

\* Of a part that is not used, any one of its initial states.
ArrayAtRest == arr = NewArray(0, 0, 0) /\ acc = Moved(TRUE)
ClockAtRest == today = NewYear(1)
CodecAtRest == msg = [way |-> "read", items |-> <<>>, left |-> 0]
FieldAtRest == bf = [max_bits |-> 1, bits |-> << {} >>, held |-> {}]
HashAtRest  == hash = StartedHash("md5")
GcmAtRest   == gcm = StartedGcm(CHOOSE start \in Starts : TRUE)

LibraryInit ==
    \/ used = "array" /\ Init /\ ClockAtRest /\ CodecAtRest /\ FieldAtRest /\ HashAtRest /\ GcmAtRest
    \/ used = "clock" /\ InitClock /\ ArrayAtRest /\ CodecAtRest /\ FieldAtRest /\ HashAtRest /\ GcmAtRest
    \/ used = "codec" /\ InitCodec /\ ArrayAtRest /\ ClockAtRest /\ FieldAtRest /\ HashAtRest /\ GcmAtRest
    \/ used = "field" /\ InitField /\ ArrayAtRest /\ ClockAtRest /\ CodecAtRest /\ HashAtRest /\ GcmAtRest
    \/ used = "hash" /\ InitHash /\ ArrayAtRest /\ ClockAtRest /\ CodecAtRest /\ FieldAtRest /\ GcmAtRest
    \/ used = "gcm" /\ InitGcm /\ ArrayAtRest /\ ClockAtRest /\ CodecAtRest /\ FieldAtRest /\ HashAtRest

LibraryNext ==
    \/ used = "array" /\ Next /\ UNCHANGED << used, today, msg, bf, hash, gcm >>
    \/ used = "clock" /\ NextDay /\ UNCHANGED << used, arr, acc, msg, bf, hash, gcm >>
    \/ used = "codec" /\ WriteItem /\ UNCHANGED << used, arr, acc, today, bf, hash, gcm >>
    \/ used = "field" /\ NextBit /\ UNCHANGED << used, arr, acc, today, msg, hash, gcm >>
    \/ /\ used = "hash"
       /\ UpdateHash \/ FinishHash
       /\ UNCHANGED << used, arr, acc, today, msg, bf, gcm >>
    \/ used = "gcm" /\ NextGcm /\ UNCHANGED << used, arr, acc, today, msg, bf, hash >>

LibrarySpec == LibraryInit /\ [][LibraryNext]_libraryVars
=============================================================================
