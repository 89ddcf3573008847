------------------------------ MODULE Bitfield ------------------------------
(***************************************************************************)
(* The bit fields of bitfield.c: bits kept in bytes, the last of which has *)
(* bits beyond the field.  An empty field has no array (its size wraps).   *)
(***************************************************************************)
LOCAL INSTANCE Naturals
LOCAL INSTANCE Sequences

CONSTANT Fields     \* sizes of a bit field, in bits

ASSUME FieldsAssumption == Fields \subseteq Nat \ {0}

VARIABLE bf         \* the field, and the set of the bits that it should hold

Low8 == 0..7

\* BF_BYTE_ARRAY_SIZE
BYTE_ARRAY_SIZE(bits) == (bits - 1) \div 8 + 1

\* Variant: the search does not end at the size of the field.
FirstZeroBeyond(f) ==
    LET Free(i) == f.bits[i] # Low8 IN
    IF ~\E i \in DOMAIN f.bits : Free(i) THEN {}
    ELSE LET i == CHOOSE i \in DOMAIN f.bits : Free(i) /\ \A k \in 1..i - 1 : ~Free(k)
             b == CHOOSE b \in Low8 \ f.bits[i] : \A k \in Low8 \ f.bits[i] : b <= k
         IN  {8 * (i - 1) + b}

\* bitfield_get_first_zero: the first byte that is not full, and first_zero of it; none for -1.
bitfield_get_first_zero(f) ==
    LET Free(i) == f.bits[i] # Low8 IN
    IF ~\E i \in DOMAIN f.bits : Free(i) THEN {}
    ELSE LET i == CHOOSE i \in DOMAIN f.bits : Free(i) /\ \A k \in 1..i - 1 : ~Free(k)
             b == CHOOSE b \in Low8 \ f.bits[i] : \A k \in Low8 \ f.bits[i] : b <= k
         IN  {8 * (i - 1) + b} \cap 0..f.max_bits - 1

bitfield_is_set(f, bit) == bit < f.max_bits /\ (bit % 8) \in f.bits[bit \div 8 + 1]

\* bitfield_init: every byte is at one level, those bits beyond the field too.
InitField ==
    \E n \in Fields, level \in {{}, Low8} :
        bf = [max_bits |-> n, bits |-> [i \in 1..BYTE_ARRAY_SIZE(n) |-> level],
              held |-> IF level = {} THEN {} ELSE 0..n - 1]

\* bitfield_set and bitfield_clear, which take a bit that is not in the field for none.
SetBit(bit) ==
    /\ bit < bf.max_bits
    /\ bf' = [bf EXCEPT !.bits[bit \div 8 + 1] = @ \cup {bit % 8}, !.held = @ \cup {bit}]

ClearBit(bit) ==
    /\ bit < bf.max_bits
    /\ bf' = [bf EXCEPT !.bits[bit \div 8 + 1] = @ \ {bit % 8}, !.held = @ \ {bit}]

OutOfField(bit) ==
    /\ bit >= bf.max_bits
    /\ UNCHANGED bf

NextBit == \E bit \in 0..8 * Len(bf.bits) : SetBit(bit) \/ ClearBit(bit) \/ OutOfField(bit)

FieldSpec == InitField /\ [][NextBit]_bf

-----------------------------------------------------------------------------

\* After any calls a bit is reported as set exactly when the last call on it set it, and the
\* first zero is the least bit of the field that is not, although the bits beyond the field
\* share its last byte; none is found only when every one is set.
BitsAsHeld ==
    /\ \A bit \in 0..8 * Len(bf.bits) : bitfield_is_set(bf, bit) <=> bit \in bf.held
    /\ bitfield_get_first_zero(bf) =
          {n \in 0..bf.max_bits - 1 : n \notin bf.held /\ 0..n - 1 \subseteq bf.held}
=============================================================================
