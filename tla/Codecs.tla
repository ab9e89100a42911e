------------------------------- MODULE Codecs -------------------------------
(***************************************************************************)
(* Frame codecs: the default length-delimited one (src/codec/mod.rs), the  *)
(* Hotline and MySQL codecs (src/codec/examples.rs) and the RESP example.  *)
(* A decoder looks at the bytes received so far and finds a frame, asks    *)
(* for more, or refuses them.  Its answer says how many bytes it took from *)
(* the buffer: the length-delimited decoder takes the prefix as soon as it *)
(* is whole and remembers the length it announced, the others take nothing *)
(* before the frame is whole.                                              *)
(***************************************************************************)
EXTENDS LengthPrefix, Resp

\* A codec is its kind and its max_frame_length.
LengthDelimited(max) == [kind |-> "length", max |-> max]
Hotline(max) == [kind |-> "hotline", max |-> max]
Mysql(max) == [kind |-> "mysql", max |-> max]
RespCodec(max) == [kind |-> "resp", max |-> max]

Frame(id, payload) == [id |-> id, payload |-> payload]

NoMore == [kind |-> "none"]

Drop(bytes, n) == SubSeq(bytes, n + 1, Len(bytes))

(***************************************************************************)
(* LengthDelimitedFrameCodec.                                              *)
(***************************************************************************)
LENGTH_HEADER_SIZE == 4

\* LengthDelimitedCodec::decode of tokio-util.
inner_decode(codec, data, src) ==
    LET Body(length, taken) ==
            IF Len(src) < taken + length THEN More(taken, length)
            ELSE Took(Frame(0, SubSeq(src, taken + 1, taken + length)), taken + length)
        announced == read_network_u32(SubSeq(src, 1, LENGTH_HEADER_SIZE))
    IN  IF data # AtHead THEN Body(data, 0)
        ELSE IF Len(src) < LENGTH_HEADER_SIZE THEN More(0, AtHead)
        ELSE IF announced > codec.max THEN Reject("InvalidData")
        ELSE Body(announced, LENGTH_HEADER_SIZE)

\* Decoder::decode_eof of tokio-util, the default of every decoder: one more
\* decode, and bytes that are left over are an error.
default_decode_eof(src, decoded) ==
    IF decoded.kind # "more" THEN decoded
    ELSE IF Drop(src, decoded.used) = <<>> THEN NoMore
    ELSE Reject("Other")

\* EofContext::from_buffer and build_eof_error.
build_eof_error(src) ==
    IF Len(src) < LENGTH_HEADER_SIZE THEN "MidHeader" ELSE "MidFrame"

length_decode_eof(codec, data, src) ==
    LET inner == default_decode_eof(src, inner_decode(codec, data, src))
    IN  IF src = <<>> THEN NoMore
        ELSE IF inner.kind = "frame" THEN inner
        ELSE IF inner.kind = "error" /\ inner.error = "InvalidData" THEN inner
        ELSE Reject(build_eof_error(src))

length_encode(codec, frame) ==
    IF Len(frame.payload) > codec.max THEN Fail("InvalidData")
    ELSE Done(write_network_u32(Len(frame.payload)) \o frame.payload)

(***************************************************************************)
(* HotlineFrameCodec: payload size, total size, transaction id, padding.   *)
(***************************************************************************)
HotlineHeader == 20

hotline_decode(codec, src) ==
    LET Field(i) == read_network_u32(SubSeq(src, 4 * i + 1, 4 * i + 4))
        data_size == Field(0)
        total_size == Field(1)
    IN  IF Len(src) < HotlineHeader THEN More(0, AtHead)
        ELSE IF data_size > codec.max THEN Reject("InvalidData")
        ELSE IF total_size # data_size + HotlineHeader THEN Reject("InvalidData")
        ELSE IF Len(src) < total_size THEN More(0, AtHead)
        ELSE Took(Frame(Field(2), SubSeq(src, HotlineHeader + 1, total_size)), total_size)

hotline_encode(codec, frame) ==
    LET size == Len(frame.payload)
    IN  IF size > codec.max THEN Fail("InvalidInput")
        ELSE Done(write_network_u32(size) \o write_network_u32(size + HotlineHeader)
                    \o write_network_u32(frame.id) \o Zeros(8) \o frame.payload)

(***************************************************************************)
(* MysqlFrameCodec: a three-byte little-endian length and a sequence id.   *)
(***************************************************************************)
MysqlHeader == 4

mysql_decode(codec, src) ==
    LET len == ReadBig(Reverse(SubSeq(src, 1, 3)))
    IN  IF Len(src) < MysqlHeader THEN More(0, AtHead)
        ELSE IF len > codec.max THEN Reject("InvalidData")
        ELSE IF Len(src) < MysqlHeader + len THEN More(0, AtHead)
        ELSE Took(Frame(src[4], SubSeq(src, MysqlHeader + 1, MysqlHeader + len)),
                  MysqlHeader + len)

mysql_encode(codec, frame) ==
    LET len == Len(frame.payload)
    IN  IF len > codec.max \/ len > 256^3 - 1 THEN Fail("InvalidInput")
        ELSE Done([i \in 1..3 |-> ByteOf(len, i - 1)] \o <<frame.id>> \o frame.payload)

(***************************************************************************)
(* FrameCodec, over the four codecs.                                       *)
(***************************************************************************)
decode(codec, data, src) ==
    CASE codec.kind = "length" -> inner_decode(codec, data, src)
      [] codec.kind = "hotline" -> hotline_decode(codec, src)
      [] codec.kind = "mysql" -> mysql_decode(codec, src)
      [] codec.kind = "resp" -> resp_decode(src, codec.max)

\* CombinedCodec forwards decode_eof to the decoder it was given.
decode_eof(codec, data, src) ==
    IF codec.kind = "length" THEN length_decode_eof(codec, data, src)
    ELSE default_decode_eof(src, decode(codec, data, src))

encode(codec, frame) ==
    CASE codec.kind = "length" -> length_encode(codec, frame)
      [] codec.kind = "hotline" -> hotline_encode(codec, frame)
      [] codec.kind = "mysql" -> mysql_encode(codec, frame)
      [] codec.kind = "resp" ->
            IF resp_encodes(frame, codec.max) THEN Done(encode_frame_at(frame))
            ELSE Fail("InvalidInput")

wrap_payload(codec, payload) ==
    IF codec.kind = "resp" THEN BulkString(payload) ELSE Frame(0, payload)

frame_payload(codec, frame) ==
    IF codec.kind # "resp" THEN frame.payload
    ELSE IF frame.type = "bulk" THEN frame.data ELSE <<>>
=============================================================================
