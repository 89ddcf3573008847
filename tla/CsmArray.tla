------------------------------- MODULE CsmArray -------------------------------
(***************************************************************************)
(* The protected array of csm_array.c: a buffer, an offset where its       *)
(* logical beginning is, a read and a write index.  Every layer of the     *)
(* stack works on one array, in place, with the functions modelled here.   *)
(*                                                                         *)
(* An array keeps its offset.  The output of a service, which begins after *)
(* the header of its response, and the buffer of a pass of HLS, which      *)
(* begins before it, are arrays of their own.                              *)
(*                                                                         *)
(* The contents of the buffer are left out: acc tells which of its bytes   *)
(* the last call touched.  Indices are unsigned integers of the code and   *)
(* wrap; the lengths that a reader jumps over come from the peer and may   *)
(* be any of them, those that are written are bounded by the callers.      *)
(***************************************************************************)
EXTENDS Naturals

CONSTANTS
    Wrap,       \* number of values of a uint32_t
    Sizes,      \* sizes of a buffer
    Lengths,    \* lengths that callers write or copy
    Jumps       \* lengths and indices that a peer may ask for

Words == {2, 4}

\* Buffers, and what is written at once, are well below the width.
ASSUME ArrayAssumption ==
    /\ Wrap \in Nat \ {0}
    /\ Sizes \cup Lengths \subseteq Nat
    /\ Jumps \subseteq 0..Wrap - 1
    /\ \A s \in Sizes : s + s < Wrap
    /\ \A s \in Sizes, n \in Lengths \cup Words \cup {1} : s + n < Wrap

Uint == 0..Wrap - 1

\* Unsigned addition and subtraction.
Add(x, y) == IF x + y < Wrap THEN x + y ELSE x + y - Wrap
Sub(x, y) == IF x >= y THEN x - y ELSE x + Wrap - y

VARIABLES
    arr,        \* csm_array, but for its pointer
    acc         \* the last call: its outcome, and the n bytes it touched at an index

vars == <<arr, acc>>

TypeOK ==
    /\ arr \in [rd: Uint, wr: Uint, offset: Uint, size: Uint]
    /\ acc \in [op: {"none", "typed", "get", "copy", "buff"}, ret: BOOLEAN,
                at: Uint, n: Nat]

Call(op, ret, at, n) == [op |-> op, ret |-> ret, at |-> at, n |-> n]
Failed(op) == Call(op, FALSE, 0, 0)
Moved(ret) == Call("none", ret, 0, 0)

\* The macros of csm_array.c
Index(a, i) == Add(i, a.offset)
WrIndex(a)  == Index(a, a.wr)
RdIndex(a)  == Index(a, a.rd)

\* Variant: the unsigned difference of the indices.
UnreadWraps(a) == Sub(a.wr, a.rd)

Unread(a)   == IF a.wr > a.rd THEN a.wr - a.rd ELSE 0
FreeSize(a) == Sub(a.size, WrIndex(a))

\* csm_array_init; the used size is asserted not to be greater than the size.
NewArray(size, used, offset) ==
    [rd |-> 0, offset |-> offset, size |-> size,
     wr |-> IF Add(used, offset) >= size THEN Sub(size, offset) ELSE used]

InitArray ==
    \E size \in Sizes : \E used, offset \in 0..size :
        arr = NewArray(size, used, offset)

Init ==
    /\ InitArray
    /\ acc = Moved(TRUE)

-----------------------------------------------------------------------------
(* Jumps                                                                    *)

WriterFits(a, n) == Index(a, Add(a.wr, n)) < a.size
ReaderFits(a, n) == Index(a, Add(a.rd, n)) < a.size

\* Variant: the writer is not saturated.
WriterAtUnbounded(a, n) == [a EXCEPT !.wr = Add(a.wr, n)]

\* Both jumps saturate one past the last byte.
WriterAt(a, n) ==
    [a EXCEPT !.wr = IF WriterFits(a, n) THEN Add(a.wr, n) ELSE Sub(a.size, a.offset)]

ReaderAt(a, n) ==
    [a EXCEPT !.rd = IF ReaderFits(a, n) THEN Add(a.rd, n) ELSE Sub(a.size, a.offset)]

WriterJump(n) ==
    /\ arr' = WriterAt(arr, n)
    /\ acc' = Moved(WriterFits(arr, n))

ReaderJump(n) ==
    /\ arr' = ReaderAt(arr, n)
    /\ acc' = Moved(ReaderFits(arr, n))

-----------------------------------------------------------------------------
(* Writes                                                                   *)

\* A call that has no room, or nothing to read, changes nothing.
Refuse(op) ==
    /\ acc' = Failed(op)
    /\ UNCHANGED arr

WriteU8 ==
    \/ /\ FreeSize(arr) >= 1
       /\ arr' = [arr EXCEPT !.wr = Add(@, 1)]
       /\ acc' = Call("typed", TRUE, WrIndex(arr), 1)
    \/ /\ FreeSize(arr) < 1
       /\ Refuse("typed")

\* csm_array_write_u16 and csm_array_write_u32; the bytes are stored before the
\* jump decides the outcome, so a word that just fills the buffer is stored and
\* reported as a failure.
WriteWord(n) ==
    \/ /\ FreeSize(arr) >= n
       /\ arr' = WriterAt(arr, n)
       /\ acc' = Call("typed", WriterFits(arr, n), WrIndex(arr), n)
    \/ /\ FreeSize(arr) < n
       /\ Refuse("typed")

\* Variant: the offset is forgotten.
WriteBuffNoOffset(n) ==
    \/ /\ Add(arr.wr, n) <= arr.size
       /\ arr' = [arr EXCEPT !.wr = Add(@, n)]
       /\ acc' = Call("buff", TRUE, WrIndex(arr), n)
    \/ /\ Add(arr.wr, n) > arr.size
       /\ Refuse("buff")

WriteBuff(n) ==
    \/ /\ Add(WrIndex(arr), n) <= arr.size
       /\ arr' = [arr EXCEPT !.wr = Add(@, n)]
       /\ acc' = Call("buff", TRUE, WrIndex(arr), n)
    \/ /\ Add(WrIndex(arr), n) > arr.size
       /\ Refuse("buff")

-----------------------------------------------------------------------------
(* Reads                                                                    *)

ReadU8 ==
    \/ /\ Unread(arr) >= 1
       /\ arr' = [arr EXCEPT !.rd = Add(@, 1)]
       /\ acc' = Call("typed", TRUE, RdIndex(arr), 1)
    \/ /\ Unread(arr) < 1
       /\ Refuse("typed")

ReadWord(n) ==
    \/ /\ Unread(arr) >= n
       /\ arr' = ReaderAt(arr, n)
       /\ acc' = Call("typed", ReaderFits(arr, n), RdIndex(arr), n)
    \/ /\ Unread(arr) < n
       /\ Refuse("typed")

\* csm_array_read_buff copies first, and looks at the size after.
ReadBuff(n) ==
    /\ arr' = ReaderAt(arr, n)
    /\ acc' = Call("copy", ReaderFits(arr, n), RdIndex(arr), n)

\* csm_array_get and csm_array_set
GetOrSet(i) ==
    /\ acc' = IF Index(arr, i) < arr.size THEN Call("get", TRUE, Index(arr, i), 1)
                                          ELSE Failed("get")
    /\ UNCHANGED arr

-----------------------------------------------------------------------------

\* The services and the association write their answer over the request: they
\* set the write index to zero, and for an output array the read index too.
Rewind ==
    /\ arr' \in {[arr EXCEPT !.wr = 0], [arr EXCEPT !.wr = 0, !.rd = 0]}
    /\ acc' = Moved(TRUE)

Next ==
    \/ WriteU8 \/ ReadU8 \/ Rewind
    \/ \E n \in Words : WriteWord(n) \/ ReadWord(n)
    \/ \E n \in Lengths : WriterJump(n) \/ WriteBuff(n) \/ ReadBuff(n)
    \/ \E n \in Jumps : ReaderJump(n) \/ GetOrSet(n)

Spec == Init /\ [][Next]_vars

-----------------------------------------------------------------------------
(* Properties                                                               *)

\* Both indices stay in the buffer or one past its end, whatever a peer makes
\* the reader jump over: the free size, a difference, never wraps to a room
\* that is not there.
CursorsInBuffer == WrIndex(arr) <= arr.size /\ RdIndex(arr) <= arr.size

\* A call that succeeds, and any call but the copy of csm_array_read_buff that
\* fails, touched bytes of the buffer only, although the reader may have
\* jumped past the writer and wrapped to before the offset.
AccessInBuffer ==
    acc.n > 0 /\ (acc.op # "copy" \/ acc.ret) => acc.at + acc.n <= arr.size

\* A word that is read was written or received: no value is made of bytes after
\* the write index.
WordsWereWritten ==
    [][ \A n \in Words : ReadWord(n) /\ acc'.n = n
          => acc'.at >= arr.offset /\ acc'.at + n <= WrIndex(arr) ]_vars

=============================================================================
