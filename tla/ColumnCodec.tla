---------------------------- MODULE ColumnCodec ----------------------------
(***************************************************************************)
(* The column encodings, from the values of a column to the payload of a   *)
(* chunk and back: PLAIN, RLE, DICTIONARY, BIT_PACKING, DELTA and          *)
(* DELTA_LENGTH_BYTE_ARRAY, and which one the writer selects.              *)
(*                                                                         *)
(* BIGINT stands for the types of 64 bits, SMALLINT for the narrower       *)
(* integers and dates, here one byte wide, TEXT also for VARCHAR.  A TEXT  *)
(* is a sequence of bytes, a DOUBLE its bit pattern.                       *)
(***************************************************************************)
EXTENDS Bytes

CONSTANTS
    ExponentBits,  \* of the bits of a DOUBLE; one is its sign, the rest the mantissa
    ColumnsOf      \* type -> the columns, as sequences of values

ASSUME DoubleAssumption == ExponentBits \in Nat \ {0} /\ ExponentBits < WordBits - 1

Types == {"BIGINT", "SMALLINT", "CHAR", "DOUBLE", "TEXT"}

Signed == {"BIGINT", "SMALLINT", "CHAR"}

\* sizeof of the element type.
SizeOf(type) == IF type \in {"BIGINT", "DOUBLE"} THEN WordBytes ELSE 1

BitsOf(type) == ByteBits * SizeOf(type)

\* The values a column of a type can hold.
ValuesOf(type) ==
    IF type = "TEXT" THEN Seq(0 .. 2 ^ ByteBits - 1)
    ELSE IF type = "DOUBLE" THEN 0 .. 2 ^ WordBits - 1
    ELSE -(2 ^ (BitsOf(type) - 1)) .. 2 ^ (BitsOf(type) - 1) - 1

ASSUME ColumnsAssumption ==
    \A type \in Types : \A column \in ColumnsOf[type] :
        \A k \in DOMAIN column : column[k] \in ValuesOf(type)

\* A value of a fixed-width type as the unsigned number in its bytes, and back.
Raw(type, v) == IF type \in Signed THEN ToUnsigned(v, BitsOf(type)) ELSE v

FromRaw(type, u) == IF type \in Signed THEN ToSigned(u, BitsOf(type)) ELSE u

\* A DOUBLE without its sign.
Magnitude(v) == v % 2 ^ (WordBits - 1)

Infinity == (2 ^ ExponentBits - 1) * 2 ^ (WordBits - 1 - ExponentBits)

IsZero(v) == Magnitude(v) = 0

IsNaN(v) == Magnitude(v) > Infinity

\* The == of C++: the two zeros are equal, and NaN equals nothing.
Equal(type, v, w) ==
    IF type = "DOUBLE" THEN ~IsNaN(v) /\ (v = w \/ (IsZero(v) /\ IsZero(w))) ELSE v = w

\* What a decoder returns: the values and the offset it has read up to.
Decoded(values, offset) == [values |-> values, offset |-> offset]

----------------------------------------------------------------------------
(* PLAIN: kio::SerializeColumn *)

SerializeStringColumn(strings) ==
    FlattenSeq([k \in DOMAIN strings |-> AppendPod(<<>>, Len(strings[k]), WordBytes)])
      \o FlattenSeq(strings)

\* The strings of given sizes one after the other, from offset on.
StringsAt(payload, offset, sizes) ==
    FoldLeft(LAMBDA d, size : Decoded(Append(d.values, BytesAt(payload, d.offset, size)),
                                      d.offset + size),
             Decoded(<<>>, offset), sizes)

\* The strings behind a table of their sizes (DecodeDictionary as well).
DecodeStrings(payload, offset, count) ==
    StringsAt(payload, offset + count * WordBytes,
              [k \in 1 .. count |-> ReadPod(payload, offset + (k - 1) * WordBytes, WordBytes)])

PlainEncode(type, column) ==
    IF type = "TEXT" THEN SerializeStringColumn(column)
    ELSE FoldLeft(LAMBDA out, v : AppendPod(out, Raw(type, v), SizeOf(type)), <<>>, column)

PlainDecode(type, payload, row_count) ==
    IF type = "TEXT" THEN DecodeStrings(payload, 0, row_count)
    ELSE Decoded([k \in 1 .. row_count |->
                     FromRaw(type, ReadPod(payload, (k - 1) * SizeOf(type), SizeOf(type)))],
                 row_count * SizeOf(type))

----------------------------------------------------------------------------
(* RLE: the number of runs, then the value and the length of each *)

\* A run keeps the first of its values, which are equal and need not be the same.
Runs(type, column) ==
    FoldLeft(LAMBDA runs, v :
                 IF runs # <<>> /\ Equal(type, v, Last(runs)[1])
                 THEN Append(Front(runs), <<Last(runs)[1], Last(runs)[2] + 1>>)
                 ELSE Append(runs, <<v, 1>>),
             <<>>, column)

RleEncode(type, column) ==
    FoldLeft(LAMBDA out, run :
                 AppendPod(IF type = "TEXT" THEN AppendString(out, run[1])
                           ELSE AppendPod(out, Raw(type, run[1]), SizeOf(type)),
                           run[2], WordBytes),
             AppendPod(<<>>, Len(Runs(type, column)), WordBytes), Runs(type, column))

\* One run read: row_count plays no part.
ReadRun(type, payload, d) ==
    LET size == IF type = "TEXT" THEN ReadPod(payload, d.offset, WordBytes) ELSE SizeOf(type)
        start == IF type = "TEXT" THEN d.offset + WordBytes ELSE d.offset
        value == IF type = "TEXT" THEN BytesAt(payload, start, size)
                 ELSE FromRaw(type, ReadPod(payload, start, size))
        length == ReadPod(payload, start + size, WordBytes)
    IN  Decoded(d.values \o [k \in 1 .. length |-> value], start + size + WordBytes)

RleDecode(type, payload, row_count) ==
    FoldLeft(LAMBDA d, k : ReadRun(type, payload, d), Decoded(<<>>, WordBytes),
             [k \in 1 .. ReadPod(payload, 0, WordBytes) |-> k])

----------------------------------------------------------------------------
(* DICTIONARY: the strings in the order of their first use, and their ids *)

Dictionary(column) ==
    FoldLeft(LAMBDA dict, v : IF v \in Range(dict) THEN dict ELSE Append(dict, v),
             <<>>, column)

Id(dict, v) == (CHOOSE k \in DOMAIN dict : dict[k] = v) - 1

DictionaryEncode(column) ==
    LET dict == Dictionary(column)
    IN  AppendPod(<<>>, Len(dict), WordBytes)
          \o SerializeStringColumn(dict)
          \o EncodeUnsignedValues([k \in DOMAIN column |-> Id(dict, column[k])])

DictionaryDecode(payload, row_count) ==
    LET dict == DecodeStrings(payload, WordBytes, ReadPod(payload, 0, WordBytes))
        ids == DecodeUnsignedValues(payload, dict.offset, row_count)
    IN  Decoded([k \in 1 .. row_count |-> dict.values[ids.values[k] + 1]], ids.offset)

----------------------------------------------------------------------------
(* DELTA_LENGTH_BYTE_ARRAY: packed lengths, then the bytes *)

LengthsEncode(column) ==
    EncodeUnsignedValues([k \in DOMAIN column |-> Len(column[k])]) \o FlattenSeq(column)

LengthsDecode(payload, row_count) ==
    LET lengths == DecodeUnsignedValues(payload, 0, row_count)
    IN  StringsAt(payload, lengths.offset, lengths.values)

----------------------------------------------------------------------------
(* BIT_PACKING: zigzag numbers *)

BitPackingEncode(column) ==
    EncodeUnsignedValues([k \in DOMAIN column |-> ZigZagEncode(column[k])])

BitPackingDecode(type, payload, row_count) ==
    LET packed == DecodeUnsignedValues(payload, 0, row_count)
    IN  Decoded([k \in 1 .. row_count |-> ZigZagDecode(packed.values[k])], packed.offset)

----------------------------------------------------------------------------
(* DELTA: the first value, then packed zigzag differences.  A difference of *)
(* int64_t values may overflow; the build wraps it, and so does the sum.    *)

DeltaEncode(column) ==
    IF column = <<>> THEN <<>>
    ELSE AppendPod(<<>>, ToUnsigned(column[1], WordBits), WordBytes)
           \o EncodeUnsignedValues([k \in 1 .. Len(column) - 1 |->
                                       ZigZagEncode(Wrap(column[k + 1] - column[k]))])

DeltaDecode(type, payload, row_count) ==
    IF row_count = 0 THEN Decoded(<<>>, 0)
    ELSE LET first == ToSigned(ReadPod(payload, 0, WordBytes), WordBits)
             deltas == DecodeUnsignedValues(payload, WordBytes, row_count - 1)
             current[k \in 1 .. row_count] ==
               IF k = 1 THEN first
               ELSE Wrap(current[k - 1] + ZigZagDecode(deltas.values[k - 1]))
         IN  Decoded([k \in 1 .. row_count |->
                         ToSigned(ToUnsigned(current[k], BitsOf(type)), BitsOf(type))],
                     deltas.offset)

----------------------------------------------------------------------------
(* column_encoding.cpp *)

Encodings ==
    {"PLAIN", "RLE", "DICTIONARY", "BIT_PACKING", "DELTA", "DELTA_LENGTH_BYTE_ARRAY"}

\* The types an encoding decodes; for the others it throws.
Supports(encoding, type) ==
    CASE encoding \in {"PLAIN", "RLE"} -> TRUE
      [] encoding \in {"DICTIONARY", "DELTA_LENGTH_BYTE_ARRAY"} -> type = "TEXT"
      [] encoding = "BIT_PACKING" -> type \in Signed
      [] encoding = "DELTA" -> type \in {"BIGINT", "SMALLINT"}

SelectEncodingForType(type) ==
    CASE type \in {"BIGINT", "SMALLINT"} -> "DELTA"
      [] type = "TEXT" -> "DICTIONARY"
      [] type = "CHAR" -> "RLE"
      [] type = "DOUBLE" -> "PLAIN"

Encode(encoding, type, column) ==
    CASE encoding = "PLAIN" -> PlainEncode(type, column)
      [] encoding = "RLE" -> RleEncode(type, column)
      [] encoding = "DICTIONARY" -> DictionaryEncode(column)
      [] encoding = "BIT_PACKING" -> BitPackingEncode(column)
      [] encoding = "DELTA" -> DeltaEncode(column)
      [] encoding = "DELTA_LENGTH_BYTE_ARRAY" -> LengthsEncode(column)

Decode(encoding, type, payload, row_count) ==
    CASE encoding = "PLAIN" -> PlainDecode(type, payload, row_count)
      [] encoding = "RLE" -> RleDecode(type, payload, row_count)
      [] encoding = "DICTIONARY" -> DictionaryDecode(payload, row_count)
      [] encoding = "BIT_PACKING" -> BitPackingDecode(type, payload, row_count)
      [] encoding = "DELTA" -> DeltaDecode(type, payload, row_count)
      [] encoding = "DELTA_LENGTH_BYTE_ARRAY" -> LengthsDecode(payload, row_count)

----------------------------------------------------------------------------
VARIABLES
    type,      \* the type of the column
    column,    \* its values
    encoding,  \* the encoding recorded with the chunk, "none" before it is written
    payload,   \* the bytes of the chunk
    decoded    \* what the reader made of them: values and offset, or nothing yet

codecVars == <<type, column, encoding, payload, decoded>>

Nothing == Decoded(<<>>, -1)

CodecInit ==
    /\ type \in Types /\ column \in ColumnsOf[type]
    /\ encoding = "none" /\ payload = <<>> /\ decoded = Nothing

\* PrepareColumnForWrite.
PrepareColumnForWrite ==
    /\ encoding = "none"
    /\ encoding' = SelectEncodingForType(type)
    /\ payload' = Encode(encoding', type, column)
    /\ UNCHANGED <<type, column, decoded>>

\* A caller that takes an encoding by name (GetEncoding).
EncodeAs(e) ==
    /\ encoding = "none" /\ Supports(e, type)
    /\ encoding' = e
    /\ payload' = Encode(e, type, column)
    /\ UNCHANGED <<type, column, decoded>>

\* DecodeColumnForRead, with the row count of the metadata.
DecodeColumnForRead ==
    /\ encoding # "none" /\ decoded = Nothing
    /\ decoded' = Decode(encoding, type, payload, Len(column))
    /\ UNCHANGED <<type, column, encoding, payload>>

CodecNext ==
    \/ PrepareColumnForWrite
    \/ \E e \in Encodings : EncodeAs(e)
    \/ DecodeColumnForRead

CodecSpec == CodecInit /\ [][CodecNext]_codecVars

----------------------------------------------------------------------------
(* Properties *)

\* The first of the zeros in a row that end with value k.
FirstZero(k) ==
    CHOOSE j \in 1 .. k :
        /\ \A i \in j .. k : IsZero(column[i])
        /\ j = 1 \/ ~IsZero(column[j - 1])

\* What a chunk keeps of value k.  RLE puts +0.0 and -0.0 into one run, and a
\* zero of a DOUBLE column has the sign of the first zero of its run afterwards.
Kept(k) ==
    IF encoding = "RLE" /\ type = "DOUBLE" /\ IsZero(column[k])
    THEN column[FirstZero(k)]
    ELSE column[k]

\* A chunk decodes to the column it was encoded from, bit for bit, for every
\* encoding, type and length: words that straddle, differences that overflow,
\* runs, NaN, repeated and empty strings (bit_packing_encoding.cpp:77, :107).
\* The sign of a zero in a DOUBLE column under RLE is the one exception
\* (rle_encoding.cpp:29); what the writer selects for a type has none.
RoundTrip ==
    decoded # Nothing =>
        /\ decoded.values = [k \in DOMAIN column |-> Kept(k)]
        /\ encoding = SelectEncodingForType(type) => decoded.values = column

\* A payload is bytes, and a decoder stops exactly where it ends: the bytes it
\* takes are the ones the encoder wrote, none beyond them and none left over.
\* No read of bcodec is checked against the end (binary_codec.h:22).
PayloadConsumed ==
    /\ \A k \in DOMAIN payload : payload[k] \in 0 .. 2 ^ ByteBits - 1
    /\ decoded # Nothing => decoded.offset = Len(payload)
=============================================================================
