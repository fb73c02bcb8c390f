------------------------------- MODULE Bytes -------------------------------
(***************************************************************************)
(* Numbers as bytes (bcodec::AppendPod, ReadPod), zigzag numbers, and      *)
(* EncodeUnsignedValues / DecodeUnsignedValues, the bit packing below the  *)
(* delta, dictionary, length and bit-packing encodings.                    *)
(*                                                                         *)
(* A byte has ByteBits bits and a 64-bit word WordBytes bytes: the code    *)
(* that shifts and masks is the same at every width.                       *)
(***************************************************************************)
EXTENDS Integers, Sequences, SequencesExt, FiniteSetsExt

CONSTANTS ByteBits, WordBytes

ASSUME WidthAssumption ==
    /\ ByteBits \in Nat \ {0} /\ WordBytes \in Nat \ {0}
    /\ ByteBits * WordBytes < 2 ^ ByteBits  \* a byte holds a bit width

WordBits == ByteBits * WordBytes

\* Two's complement, both ways.
ToUnsigned(v, bits) == v % 2 ^ bits
ToSigned(u, bits) == IF u < 2 ^ (bits - 1) THEN u ELSE u - 2 ^ bits

\* What an int64_t keeps of a result.
Wrap(v) == ToSigned(ToUnsigned(v, WordBits), WordBits)

----------------------------------------------------------------------------
(* bcodec: the lowest byte comes first *)

AppendPod(output, u, size) ==
    output \o [k \in 1 .. size |-> (u \div 2 ^ (ByteBits * (k - 1))) % 2 ^ ByteBits]

ReadPod(input, offset, size) ==
    MapThenSumSet(LAMBDA k : input[offset + k] * 2 ^ (ByteBits * (k - 1)), 1 .. size)

AppendString(output, bytes) == AppendPod(output, Len(bytes), WordBytes) \o bytes

\* memcpy of size bytes from offset on.
BytesAt(input, offset, size) == SubSeq(input, offset + 1, offset + size)

----------------------------------------------------------------------------
(* Bit packing *)

\* ZigZagEncode and ZigZagDecode: small numbers of either sign become small
\* unsigned ones.
ZigZagEncode(v) == IF v >= 0 THEN 2 * v ELSE -2 * v - 1

ZigZagDecode(u) == IF u % 2 = 0 THEN u \div 2 ELSE -(u \div 2) - 1

\* Bits a number needs, 0 for zero.
ComputeBitWidth(u) == Min({w \in 0 .. WordBits : u < 2 ^ w})

\* Bit p of the values written one after the other, width bits each.
PackedBit(values, width, p) ==
    IF p < Len(values) * width
    THEN (values[(p \div width) + 1] \div 2 ^ (p % width)) % 2
    ELSE 0

PackedBytes(count, width) == (count * width + ByteBits - 1) \div ByteBits

\* A byte with the width, then the bytes of the bits.
EncodeUnsignedValues(values) ==
    LET width == ComputeBitWidth(Max({0} \union Range(values)))
        Byte(k) == MapThenSumSet(
                       LAMBDA j : PackedBit(values, width, (k - 1) * ByteBits + j) * 2 ^ j,
                       0 .. ByteBits - 1)
    IN  <<width>> \o [k \in 1 .. PackedBytes(Len(values), width) |-> Byte(k)]

\* The word at offset, of which bytes from limit on are zero.
ReadPackedWord(payload, offset, limit) ==
    IF offset >= limit THEN 0
    ELSE ReadPod(payload, offset,
                 IF limit - offset < WordBytes THEN limit - offset ELSE WordBytes)

\* Mutant: the part of a value in the next word is left out.
UnpackFirstWord(payload, base, limit, width, bit) ==
    (ReadPackedWord(payload, base + bit \div ByteBits, limit) \div 2 ^ (bit % ByteBits))
      % 2 ^ width

\* The value whose first bit is at bit: from one word, or from two.
Unpack(payload, base, limit, width, bit) ==
    LET at == base + bit \div ByteBits
        shift == bit % ByteBits
        low == ReadPackedWord(payload, at, limit) \div 2 ^ shift
        high == ReadPackedWord(payload, at + WordBytes, limit) * 2 ^ (WordBits - shift)
    IN  (IF shift # 0 /\ shift + width > WordBits
         THEN low + ToUnsigned(high, WordBits) ELSE low) % 2 ^ width

\* Mutant: the bytes of the values are not skipped.
DecodeInPlace(payload, offset, count) ==
    LET width == ReadPod(payload, offset, 1)
        base == offset + 1
        limit == base + PackedBytes(count, width)
    IN  [values |-> [k \in 1 .. count |->
                        IF width = 0 THEN 0
                        ELSE Unpack(payload, base, limit, width, (k - 1) * width)],
         offset |-> base]

\* count values, and the offset behind them.
DecodeUnsignedValues(payload, offset, count) ==
    LET width == ReadPod(payload, offset, 1)
        base == offset + 1
        limit == base + PackedBytes(count, width)
    IN  [values |-> [k \in 1 .. count |->
                        IF width = 0 THEN 0
                        ELSE Unpack(payload, base, limit, width, (k - 1) * width)],
         offset |-> limit]
=============================================================================
