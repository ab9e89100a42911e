------------------------------- MODULE MCWire -------------------------------
(* Small instances of the byte level. *)
EXTENDS Wire

\* Payloads: none, one that looks like a line ending, longer ones.
Short == << <<7>>, <<>> >>
Tricky == << <<13, 10>>, <<0, 0, 0, 1>> >>

Length == LengthDelimited(64)
Hot == Hotline(2)
Sql == Mysql(4)
Redis == RespCodec(24)

PayloadCodecs == {Length, Sql, Redis}

\* RESP frames of every type, nested to the limit.
RespFrames ==
    << Array(<<Integer(-12), BulkString(<<36, 13, 10>>), NullBulk>>),
       SimpleString(<<79, 13, 75>>), Array(<<Array(<<>>)>>), Error(<<>>), NullArray >>
RespWire == Map(encode_frame_at, RespFrames)

\* Bytes a codec must refuse or that break off, after one good frame.
Good(codec) == encode(codec, wrap_payload(codec, <<7>>)).value
BadEndings ==
    { <<Hot, oversized_hotline_wire(2), "refused">>,
      <<Hot, mismatched_total_size_wire(<<1>>), "refused">>,
      <<Hot, truncated_hotline_header, "cut">>,
      <<Hot, truncated_hotline_payload(2), "cut">>,
      <<Sql, <<5, 0, 0, 0, 1>>, "refused">>,
      <<Sql, <<2, 0, 0, 9, 1>>, "cut">>,
      <<Length, <<0, 0, 0, 65>>, "refused">>,
      <<Length, <<0, 0, 0>>, "cut">>,
      <<Redis, <<Dollar, 50, 48, CR, LF>>, "refused">>,
      <<Redis, <<Star, 52, CR, LF, Colon, 49, CR, LF>>, "refused">>,
      <<Redis, <<Star, 49, CR, LF, Star, 49, CR, LF, Star, 48, CR, LF>>, "refused">>,
      <<Redis, <<Colon, 49, 120, CR, LF>>, "refused">>,
      <<Redis, <<Dollar, 49, CR, LF, 65, 66, 67>>, "refused">>,
      <<Redis, <<Star, 50, CR, LF, Colon, 49, CR, LF>>, "cut">>,
      <<Redis, <<Dollar, 50, CR, LF, 65, 66, CR>>, "cut">> }

Bad(driver) ==
    { [drive_with_slow_frames(bad[1], <<Good(bad[1]), bad[2]>>,
            <<decode(bad[1], AtHead, Good(bad[1])).frame>>, bad[3], 3, 8, 64)
       EXCEPT !.driver = driver] : bad \in BadEndings }

MCScenarios ==
    { drive_with_slow_codec_frames(codec, payloads, w, r, 4) :
        codec \in PayloadCodecs, payloads \in {Short, Tricky}, w \in {1, 3}, r \in {1, 4, 5} }
    \cup { drive_with_partial_frames(Hot, << <<5>>, <<6, 7>> >>, w, c) : w \in {3, 7}, c \in {7, 30} }
    \cup { drive_with_partial_frames(codec, Tricky, 5, 16) : codec \in PayloadCodecs }
    \cup { Answering(drive_with_codec_frames(codec, payloads, c), a) :
            codec \in PayloadCodecs, payloads \in {Short, Tricky}, c \in {6, 64}, a \in {0, 1, 2} }
    \cup { run_app(Hot, <<sequential_hotline_wire(8, << <<1>>, <<>> >>)>>,
                             <<Frame(8, <<1>>), Frame(9, <<>>)>>, "clean", c) : c \in {0, 50} }
    \cup { drive_with_slow_frames(Redis, RespWire, RespFrames, "clean", w, 8, 8) : w \in {1, 4} }
    \cup Bad("split") \cup Bad("sequential")
    \cup { drive_with_payloads(1, payloads, 64) : payloads \in {<<>>, Short, Tricky} }
    \cup { Panicking(drive_with_codec_payloads_mut(Length, Short, 16, 1)) }
    \cup { drive_prepared_with_frames(Redis, RespWire, RespFrames, "clean", 64, 1) }
    \cup { WithPreamble(drive_with_partial_frames(codec, Short, w, 3), fields[1], fields[2]) :
            codec \in {Length, Redis}, w \in {1, 2},
            fields \in { << <<>>, <<>> >>, << <<1>>, <<9>> >>, << <<3, 1>>, <<9, 9, 9, 9>> >> } }
    \cup { [WithPreamble(drive_with_partial_frames(Length, Short, 2, 3), <<1, 4>>, <<9, 9, 9, 9, 9>>)
            EXCEPT !.ending = "refused", !.frames = <<>>],
           [WithPreamble(drive_with_partial_frames(Length, <<>>, 2, 3), <<2, 1>>, <<9, 9>>)
            EXCEPT !.ending = "cut"] }

\* A length-delimited stream that breaks off inside its second frame.
MCCutScenarios ==
    { drive_with_slow_frames(Length, <<Good(Length), cut>>,
            <<Frame(0, <<7>>)>>, "cut", 3, 8, 64) : cut \in {<<0, 0>>, <<0, 0, 0, 2>>, <<0, 0, 0, 2, 5>>} }
=============================================================================
