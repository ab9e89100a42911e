---------------------------- MODULE LengthPrefix ----------------------------
(***************************************************************************)
(* Length prefixes (src/byte_order.rs, src/frame/format.rs and             *)
(* src/frame/conversion.rs): a prefix of 1 to 8 bytes in either byte order *)
(* carries a length, and a writer and a reader of the same stream agree on *)
(* it.  A byte is a number of 0..255 and bytes are a sequence of them.     *)
(***************************************************************************)
EXTENDS Integers, Sequences, SequencesExt

Zeros(n) == [i \in 1..n |-> 0]

(***************************************************************************)
(* Network byte order.  A value stays below 2^31, the largest integer TLC  *)
(* computes with, so every byte above the fourth is zero.                  *)
(***************************************************************************)
\* The k-th byte of a value, counted from the least significant one.
ByteOf(value, k) == IF k > 3 THEN 0 ELSE (value \div 256^k) % 256

ReadBig(bytes) ==
    LET value[i \in 0..Len(bytes)] == IF i = 0 THEN 0 ELSE value[i - 1] * 256 + bytes[i]
    IN  value[Len(bytes)]

write_network_u32(value) == [i \in 1..4 |-> ByteOf(value, 4 - i)]
read_network_u32(bytes) == ReadBig(bytes)
write_network_u64(value) == [i \in 1..8 |-> ByteOf(value, 8 - i)]
read_network_u64(bytes) == ReadBig(bytes)
u64_from_le_bytes(bytes) == ReadBig(Reverse(bytes))

(***************************************************************************)
(* src/frame/conversion.rs.  A fallible conversion answers Done(value) or  *)
(* Fail(kind) with the kind of the io::Error.                              *)
(***************************************************************************)
Done(value) == [ok |-> TRUE, value |-> value]
Fail(kind) == [ok |-> FALSE, kind |-> kind]

SupportedSizes == {1, 2, 4, 8}

\* value_fits_prefix, and the checked_prefix_cast of convert_len_to_value.
value_fits_prefix(value, size) ==
    size \in SupportedSizes /\ (size > 3 \/ value < 256^size)

convert_len_to_value(len, size) ==
    IF value_fits_prefix(len, size) THEN Done(len) ELSE Fail("InvalidInput")

ensure_fits_prefix(value, size) ==
    IF value_fits_prefix(value, size) THEN Done({}) ELSE Fail("InvalidInput")

\* The eight bytes a prefix is widened to: flush right when it is big endian,
\* flush left when it is little endian.
fill_buf_with_prefix(prefix, endianness) ==
    LET room == Zeros(8 - Len(prefix))
    IN  IF endianness = "Big" THEN room \o prefix ELSE prefix \o room

bytes_to_u64(bytes, size, endianness) ==
    IF size \notin SupportedSizes THEN Fail("InvalidInput")
    ELSE IF Len(bytes) < size THEN Fail("UnexpectedEof")
    ELSE LET buf == fill_buf_with_prefix(SubSeq(bytes, 1, size), endianness)
         IN  Done(IF endianness = "Big" THEN read_network_u64(buf) ELSE u64_from_le_bytes(buf))

\* The trailing bytes of the full width.
write_big_endian_prefix(value, size) == SubSeq(write_network_u64(value), 9 - size, 8)

write_little_endian_prefix(value, size) == [i \in 1..size |-> ByteOf(value, i - 1)]

write_bytes_with_endianness(value, endianness, size) ==
    IF endianness = "Little" THEN Done(write_little_endian_prefix(value, size))
    ELSE LET fits == ensure_fits_prefix(value, size)
         IN  IF fits.ok THEN Done(write_big_endian_prefix(value, size)) ELSE fits

u64_to_bytes(len, size, endianness) ==
    IF size \notin SupportedSizes THEN Fail("InvalidInput")
    ELSE LET value == convert_len_to_value(len, size)
         IN  IF value.ok THEN write_bytes_with_endianness(value.value, endianness, size) ELSE value

(***************************************************************************)
(* LengthFormat (src/frame/format.rs).                                     *)
(***************************************************************************)
\* try_new: every width of 1..8 is accepted.
try_new(bytes, endianness) ==
    IF bytes \in 1..8 THEN Done([bytes |-> bytes, endianness |-> endianness])
    ELSE Fail("InvalidInput")

read_len(format, bytes) == bytes_to_u64(bytes, format.bytes, format.endianness)

write_len(format, len, dst) ==
    LET prefix == u64_to_bytes(len, format.bytes, format.endianness)
    IN  IF prefix.ok THEN Done(dst \o prefix.value) ELSE prefix

-----------------------------------------------------------------------------
(***************************************************************************)
(* A stream of prefixes: one side appends lengths, the other reads them,   *)
(* as far as the bytes it has been given reach.                            *)
(***************************************************************************)
CONSTANTS
    Widths,        \* prefix widths asked for
    Lengths,       \* lengths written
    MaxPrefixes    \* bound: prefixes on one stream

VARIABLES
    format,    \* LengthFormat of both sides, NoFormat before it is chosen
    stream,    \* bytes written and not read yet
    written,   \* lengths that were accepted
    lens,      \* lengths read
    refusal    \* kind of the last io::Error of the writer, "" before one

prefixVars == <<format, stream, written, lens, refusal>>

NoFormat == [bytes |-> 0, endianness |-> "Big"]

PrefixInit ==
    format = NoFormat /\ stream = <<>> /\ written = <<>> /\ lens = <<>> /\ refusal = ""

\* LengthFormat::try_new on both sides.
ChooseFormat ==
    /\ format = NoFormat
    /\ \E width \in Widths, endianness \in {"Big", "Little"} :
        LET chosen == try_new(width, endianness) IN
        chosen.ok /\ format' = chosen.value
    /\ UNCHANGED <<stream, written, lens, refusal>>

WriteLen ==
    /\ format # NoFormat /\ Len(written) < MaxPrefixes
    /\ \E len \in Lengths :
        LET result == write_len(format, len, stream) IN
        \/ /\ result.ok
           /\ stream' = result.value /\ written' = Append(written, len) /\ refusal' = ""
        \/ /\ ~result.ok
           /\ refusal' = result.kind /\ UNCHANGED <<stream, written>>
    /\ UNCHANGED <<format, lens>>

\* The bytes reach the reader one read at a time; a prefix that is not whole
\* yet is left where it is.
ReadLen ==
    \E given \in 1..Len(stream) :
        LET result == read_len(format, SubSeq(stream, 1, given)) IN
        /\ result.ok
        /\ lens' = Append(lens, result.value)
        /\ stream' = SubSeq(stream, format.bytes + 1, Len(stream))
        /\ UNCHANGED <<format, written, refusal>>

PrefixNext == ChooseFormat \/ WriteLen \/ ReadLen

(***************************************************************************)
(* Properties.                                                             *)
(***************************************************************************)
\* Lengths come back as they were written, in order, in either byte order,
\* up to the largest one the prefix can hold, and a length that does not fit
\* leaves nothing on the stream (write_len, read_len).
PrefixesReadBack ==
    /\ IsPrefix(lens, written)
    /\ Len(stream) = format.bytes * (Len(written) - Len(lens))
    /\ \A i \in 1..Len(written) : value_fits_prefix(written[i], format.bytes)
=============================================================================
