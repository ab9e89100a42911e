-------------------------------- MODULE Resp --------------------------------
(***************************************************************************)
(* The RESP codec of examples/resp_codec_impl: an incremental parser of    *)
(* simple strings, errors, integers, bulk strings and nested arrays, and   *)
(* the encoder that mirrors it.  A parse answers a frame and the bytes it  *)
(* took, asks for more bytes, or refuses the input.  Positions count from  *)
(* 1.  A byte of 128 or more is never text.                                *)
(***************************************************************************)
EXTENDS Integers, Sequences, SequencesExt, FiniteSetsExt

CONSTANTS
    MaxArrayElements,   \* MAX_ARRAY_ELEMENTS
    MaxRecursionDepth   \* MAX_RECURSION_DEPTH

CR == 13
LF == 10
CRLF == <<CR, LF>>
Plus == 43
Minus == 45
Colon == 58
Dollar == 36
Star == 42

\* RespFrame.
SimpleString(text) == [type |-> "simple", text |-> text]
Error(text) == [type |-> "error", text |-> text]
Integer(value) == [type |-> "integer", value |-> value]
BulkString(data) == [type |-> "bulk", data |-> data]
NullBulk == [type |-> "null bulk"]
Array(items) == [type |-> "array", items |-> items]
NullArray == [type |-> "null array"]

\* Outcomes of a decoder: a frame and the bytes it took, a wait for more bytes
\* (some codecs take the prefix first and remember its length), an error.
AtHead == -1
Took(frame, used) == [kind |-> "frame", frame |-> frame, used |-> used, data |-> AtHead]
More(used, data) == [kind |-> "more", used |-> used, data |-> data]
Reject(error) == [kind |-> "error", error |-> error]

NeedMore == More(0, AtHead)
Refused == Reject("InvalidData")

(***************************************************************************)
(* Decimal numbers: itoa of the encoder, str::parse::<i64> of the parser.  *)
(***************************************************************************)
RECURSIVE Digits(_)
Digits(value) ==
    IF value < 10 THEN <<48 + value>>
    ELSE Append(Digits(value \div 10), 48 + (value % 10))

Decimal(value) == IF value < 0 THEN <<Minus>> \o Digits(-value) ELSE Digits(value)

RECURSIVE decimal_digits(_)
decimal_digits(value) == IF value < 10 THEN 1 ELSE 1 + decimal_digits(value \div 10)

digits_len_i64(value) ==
    IF value < 0 THEN decimal_digits(-value) + 1 ELSE decimal_digits(value)

IsText(line) == \A i \in 1..Len(line) : line[i] < 128

IsSigned(line) == line # <<>> /\ line[1] \in {Plus, Minus}
AllDigits(digits) == digits # <<>> /\ \A i \in 1..Len(digits) : digits[i] \in 48..57
IsNumber(line) == AllDigits(IF IsSigned(line) THEN Tail(line) ELSE line)

\* The value of a sequence that is a number, its sign skipped.
NumberOf(line) ==
    LET value[i \in 0..Len(line)] ==
            IF i = 0 THEN 0
            ELSE IF line[i] \in {Plus, Minus} THEN 0 ELSE value[i - 1] * 10 + line[i] - 48
    IN  value[Len(line)] * (IF line[1] = Minus THEN -1 ELSE 1)

(***************************************************************************)
(* parse.rs                                                                *)
(***************************************************************************)
Line(text, next) == [kind |-> "line", text |-> text, next |-> next]

\* The scan stops before the first CR LF, or at the last byte there is, and
\* refuses the line at the first byte past the limit.
LineUpTo(buf, start, max_len, last) ==
    IF last - start > max_len THEN Refused
    ELSE IF last = Len(buf) THEN NeedMore
    ELSE Line(SubSeq(buf, start, last - 1), last + 2)
parse_line(buf, start, max_len) ==
    LineUpTo(buf, start, max_len,
             Min({Len(buf)} \cup {i \in start..Len(buf) - 1 : buf[i] = CR /\ buf[i + 1] = LF}))

TextOnly(line) == IF line.kind = "line" /\ ~IsText(line.text) THEN Refused ELSE line
parse_text_line(buf, start, max) == TextOnly(parse_line(buf, start + 1, max))

TextFrame(line, start, type) ==
    IF line.kind = "line" THEN Took([type |-> type, text |-> line.text], line.next - start)
    ELSE line
parse_text_frame(buf, start, max, type) ==
    TextFrame(parse_text_line(buf, start, max), start, type)

parse_simple_string(buf, start, max) == parse_text_frame(buf, start, max, "simple")
parse_error(buf, start, max) == parse_text_frame(buf, start, max, "error")

IntegerFrame(line, start) ==
    IF line.kind # "line" THEN line
    ELSE IF ~IsNumber(line.text) THEN Refused
    ELSE Took(Integer(NumberOf(line.text)), line.next - start)
parse_integer(buf, start, max) == IntegerFrame(parse_text_line(buf, start, max), start)

\* parse_bulk_length, and the head of parse_array: a count of -1 or more.
CountLine(line) ==
    IF line.kind # "line" THEN line
    ELSE IF ~IsNumber(line.text) THEN Refused
    ELSE IF NumberOf(line.text) < -1 THEN Refused
    ELSE [kind |-> "count", count |-> NumberOf(line.text), next |-> line.next]
parse_bulk_length(buf, start, max) == CountLine(parse_text_line(buf, start, max))

validate_bulk_terminator(buf, cursor) == SubSeq(buf, cursor, cursor + 1) = CRLF

\* The size of the whole frame is checked before its payload is waited for.
parse_bulk_payload(buf, start, payload_start, len, max) ==
    IF 1 + decimal_digits(len) + 2 + len + 2 > max THEN Refused
    ELSE IF Len(buf) < payload_start + len + 1 THEN NeedMore
    ELSE IF ~validate_bulk_terminator(buf, payload_start + len) THEN Refused
    ELSE Took(BulkString(SubSeq(buf, payload_start, payload_start + len - 1)),
              payload_start + len + 2 - start)

BulkFrame(buf, start, length, max) ==
    IF length.kind # "count" THEN length
    ELSE IF length.count = -1 THEN Took(NullBulk, length.next - start)
    ELSE parse_bulk_payload(buf, start, length.next, length.count, max)
parse_bulk_string(buf, start, max) ==
    BulkFrame(buf, start, parse_bulk_length(buf, start, max), max)

RECURSIVE parse_frame_at(_, _, _, _), ParseElements(_, _, _, _, _, _)

\* The loop of parse_array: `left` elements to go, `parsed` the last outcome.
NextElement(buf, cursor, max, depth, left, items, parsed) ==
    IF parsed.kind # "frame" THEN parsed
    ELSE ParseElements(buf, cursor + parsed.used, max, depth, left - 1,
                       Append(items, parsed.frame))
ParseElements(buf, cursor, max, depth, left, items) ==
    IF left = 0 THEN Took(Array(items), cursor)
    ELSE NextElement(buf, cursor, max, depth, left, items,
                     parse_frame_at(buf, cursor, max, depth + 1))

\* The bytes of the array, counted from its start, are checked last.
WholeArray(parsed, start, max) ==
    IF parsed.kind # "frame" THEN parsed
    ELSE IF parsed.used - start > max THEN Refused
    ELSE Took(parsed.frame, parsed.used - start)

ArrayFrame(buf, start, length, max, depth) ==
    IF length.kind # "count" THEN length
    ELSE IF length.count = -1 THEN Took(NullArray, length.next - start)
    ELSE IF length.count > MaxArrayElements THEN Refused
    ELSE WholeArray(ParseElements(buf, length.next, max, depth, length.count, <<>>), start, max)
parse_array(buf, start, max, depth) ==
    ArrayFrame(buf, start, parse_bulk_length(buf, start, max), max, depth)

parse_frame_at(buf, start, max, depth) ==
    IF depth > MaxRecursionDepth THEN Refused
    ELSE IF start > Len(buf) THEN NeedMore
    ELSE CASE buf[start] = Plus -> parse_simple_string(buf, start, max)
           [] buf[start] = Minus -> parse_error(buf, start, max)
           [] buf[start] = Colon -> parse_integer(buf, start, max)
           [] buf[start] = Dollar -> parse_bulk_string(buf, start, max)
           [] buf[start] = Star -> parse_array(buf, start, max, depth)
           [] OTHER -> Refused

(***************************************************************************)
(* encode.rs                                                               *)
(***************************************************************************)
RECURSIVE encoded_len_at(_)
encoded_len_at(frame) ==
    CASE frame.type \in {"simple", "error"} -> 1 + Len(frame.text) + 2
      [] frame.type = "integer" -> 1 + digits_len_i64(frame.value) + 2
      [] frame.type \in {"null bulk", "null array"} -> 5
      [] frame.type = "bulk" ->
            1 + decimal_digits(Len(frame.data)) + 2 + Len(frame.data) + 2
      [] frame.type = "array" ->
            LET total[i \in 0..Len(frame.items)] ==
                    IF i = 0 THEN 1 + decimal_digits(Len(frame.items)) + 2
                    ELSE total[i - 1] + encoded_len_at(frame.items[i])
            IN  total[Len(frame.items)]

RECURSIVE encode_frame_at(_)
encode_frame_at(frame) ==
    CASE frame.type = "simple" -> <<Plus>> \o frame.text \o CRLF
      [] frame.type = "error" -> <<Minus>> \o frame.text \o CRLF
      [] frame.type = "integer" -> <<Colon>> \o Decimal(frame.value) \o CRLF
      [] frame.type = "null bulk" -> <<Dollar>> \o Decimal(-1) \o CRLF
      [] frame.type = "bulk" ->
            <<Dollar>> \o Decimal(Len(frame.data)) \o CRLF \o frame.data \o CRLF
      [] frame.type = "null array" -> <<Star>> \o Decimal(-1) \o CRLF
      [] frame.type = "array" ->
            <<Star>> \o Decimal(Len(frame.items)) \o CRLF
              \o FlattenSeq([i \in 1..Len(frame.items) |-> encode_frame_at(frame.items[i])])

\* Depth guard of both passes of the encoder.
RECURSIVE DepthOf(_)
DepthOf(frame) ==
    IF frame.type # "array" THEN 0
    ELSE Max({0} \cup {1 + DepthOf(frame.items[i]) : i \in 1..Len(frame.items)})

(***************************************************************************)
(* codec.rs: the adapter.                                                  *)
(***************************************************************************)
Limited(parsed, max) ==
    IF parsed.kind = "frame" /\ parsed.used > max THEN Refused ELSE parsed
resp_decode(src, max) == Limited(parse_frame_at(src, 1, max, 0), max)

resp_encodes(frame, max) == DepthOf(frame) <= MaxRecursionDepth /\ encoded_len_at(frame) <= max
=============================================================================
