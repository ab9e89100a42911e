-------------------------------- MODULE Drive -------------------------------
(***************************************************************************)
(* Frames over a byte stream.  A client drives a server through an         *)
(* in-memory duplex pipe of bounded capacity, the way the helpers of       *)
(* src/testkit and wireframe_testing do, or through a socket whose first   *)
(* bytes are a preamble (src/preamble, src/rewind_stream.rs).  The server  *)
(* reads whatever bytes are there, decodes frames with one of the Codecs,  *)
(* answers each frame before it reads on (process_stream), and stops at    *)
(* the end of the stream.  The client's bytes are cut into chunks at       *)
(* arbitrary places, so are its reads.                                     *)
(***************************************************************************)
EXTENDS Codecs

CONSTANTS
    Scenarios,      \* drives to run, made with the constructors below
    MaxPreambleLen  \* MAX_PREAMBLE_LEN

VARIABLES
    drive,     \* the scenario of this behaviour
    sent,      \* bytes of the wire the client has written
    up,        \* bytes in the pipe to the server
    upOpen,    \* the client has not shut its side down
    down,      \* bytes in the pipe to the client
    got,       \* bytes the client has read
    server,    \* phase, receive buffer, decoder state, bytes to write, preamble
    decoded,   \* frames the server decoded
    verdict    \* of the drive: kind and, when it is "ok", frames

driveVars == <<drive, sent, up, upOpen, down, got, server, decoded, verdict>>

(***************************************************************************)
(* What a drive writes.                                                    *)
(***************************************************************************)
Map(Op(_), list) == [i \in 1..Len(list) |-> Op(list[i])]

\* encode_payloads_with_codec: one payload that the codec cannot encode fails
\* all of them.
encode_payloads_with_codec(codec, payloads) ==
    LET encoded == Map(LAMBDA payload : encode(codec, wrap_payload(codec, payload)), payloads)
    IN  IF \A i \in 1..Len(encoded) : encoded[i].ok
        THEN Done(Map(LAMBDA bytes : bytes.value, encoded)) ELSE Fail("InvalidData")

WrapAll(codec, payloads) == Map(LAMBDA payload : wrap_payload(codec, payload), payloads)
extract_payloads(codec, frames) == Map(LAMBDA frame : frame_payload(codec, frame), frames)

\* A scenario: the codec and driver, whether its input is valid, the bytes
\* written, the frames they hold, how the bytes end ("clean" after a frame,
\* "cut" inside one, "refused" when the codec must reject them), whether the
\* caller wants the bytes of the answers, frames answered per frame, whether
\* the handler may panic, how often the app is driven again, the pipe and
\* chunk sizes, and the sizes of the fields of the preamble (NoPreamble: the
\* app is driven without a server).
NoPreamble == <<-1>>

Scenario(codec, driver, wire, frames, ending, capacity) ==
    [codec |-> codec, driver |-> driver, valid |-> TRUE, wire |-> wire, frames |-> frames,
     ending |-> ending, raw |-> FALSE, answers |-> 1, panics |-> FALSE, again |-> 0,
     capacity |-> capacity, chunk |-> Len(wire) + 1, readChunk |-> capacity,
     preamble |-> NoPreamble]

\* drive_with_codec_payloads and drive_with_codec_frames: the client writes
\* every frame, shuts down, and only then reads (drive_internal).
drive_with_codec_frames(codec, payloads, capacity) ==
    LET encoded == encode_payloads_with_codec(codec, payloads)
        wire == IF encoded.ok THEN FlattenSeq(encoded.value) ELSE <<>>
    IN  [Scenario(codec, "sequential", wire, WrapAll(codec, payloads), "clean", capacity)
         EXCEPT !.valid = encoded.ok]

\* The variants that borrow the app can drive it again.
drive_with_codec_payloads_mut(codec, payloads, capacity, times) ==
    [drive_with_codec_frames(codec, payloads, capacity) EXCEPT !.again = times]

\* drive_with_frames: raw frames, valid or not, and the raw answers.
drive_with_frames(codec, raw, frames, ending, capacity) ==
    [Scenario(codec, "sequential", FlattenSeq(raw), frames, ending, capacity) EXCEPT !.raw = TRUE]

\* drive_prepared_with_frames: one prepared app serves several drives.
drive_prepared_with_frames(codec, raw, frames, ending, capacity, times) ==
    [drive_with_frames(codec, raw, frames, ending, capacity) EXCEPT !.again = times]

\* drive_with_payloads: the length-delimited codec, and the raw answers.
drive_with_payloads(max, payloads, capacity) ==
    [drive_with_codec_frames(LengthDelimited(max), payloads, capacity) EXCEPT !.raw = TRUE]

\* run_app: the capacity is checked first.
MAX_CAPACITY == 10 * 1024 * 1024
run_app(codec, raw, frames, ending, capacity) ==
    [drive_with_frames(codec, raw, frames, ending, capacity) EXCEPT
        !.valid = capacity \in 1..MAX_CAPACITY]

\* drive_with_partial_frames: chunks of the wire while the client reads.
drive_with_partial_frames(codec, payloads, chunk_size, capacity) ==
    [drive_with_codec_frames(codec, payloads, capacity) EXCEPT
        !.driver = "split", !.chunk = chunk_size]

\* SlowIoConfig::validate.
validate_pacing_chunk_size(chunk_size, capacity) == chunk_size <= capacity
validate_slow_io(writer_chunk, reader_chunk, capacity) ==
    /\ capacity \in 1..MAX_CAPACITY
    /\ validate_pacing_chunk_size(writer_chunk, capacity)
    /\ validate_pacing_chunk_size(reader_chunk, capacity)

\* drive_with_slow_codec_frames: paced writes and paced reads.
drive_with_slow_codec_frames(codec, payloads, writer_chunk, reader_chunk, capacity) ==
    [drive_with_partial_frames(codec, payloads, writer_chunk, capacity) EXCEPT
        !.readChunk = reader_chunk,
        !.valid = @ /\ validate_slow_io(writer_chunk, reader_chunk, capacity)]

\* drive_with_slow_frames: raw bytes, paced.
drive_with_slow_frames(codec, raw, frames, ending, writer_chunk, reader_chunk, capacity) ==
    [drive_with_frames(codec, raw, frames, ending, capacity) EXCEPT
        !.driver = "split", !.chunk = writer_chunk, !.readChunk = reader_chunk,
        !.valid = validate_slow_io(writer_chunk, reader_chunk, capacity)]

\* A connection of a WireframeServer whose preamble has these fields.
WithPreamble(scenario, fields, bytes) ==
    [scenario EXCEPT !.preamble = fields, !.wire = bytes \o scenario.wire]

Answering(scenario, answers) == [scenario EXCEPT !.answers = answers]
Panicking(scenario) == [scenario EXCEPT !.panics = TRUE]

(***************************************************************************)
(* The Hotline fixtures of wireframe_testing (codec_fixtures.rs).          *)
(***************************************************************************)
append_hotline_header(data_size, total_size, transaction_id) ==
    write_network_u32(data_size) \o write_network_u32(total_size)
      \o write_network_u32(transaction_id) \o Zeros(8)

valid_hotline_wire(payload, transaction_id) ==
    append_hotline_header(Len(payload), Len(payload) + HotlineHeader, transaction_id) \o payload

oversized_hotline_wire(max_frame_length) ==
    LET payload == [i \in 1..max_frame_length + 1 |-> 171]
    IN  append_hotline_header(Len(payload), Len(payload) + HotlineHeader, 0) \o payload

mismatched_total_size_wire(payload) ==
    append_hotline_header(Len(payload), Len(payload) + HotlineHeader + 1, 0) \o payload

truncated_hotline_header == Zeros(10)

truncated_hotline_payload(payload_len) ==
    LET declared_len == Max({payload_len, 1})
    IN  append_hotline_header(declared_len, declared_len + HotlineHeader, 0)
          \o [i \in 1..declared_len \div 2 |-> 204]

sequential_hotline_wire(base_transaction_id, payloads) ==
    FlattenSeq([i \in 1..Len(payloads) |->
                valid_hotline_wire(payloads[i], base_transaction_id + i - 1)])

-----------------------------------------------------------------------------
Running == [kind |-> "running", frames |-> <<>>]
InvalidInput == [kind |-> "invalid", frames |-> <<>>]

NewConnection ==
    [phase |-> IF drive.preamble = NoPreamble THEN "reading" ELSE "preamble",
     buf |-> <<>>, data |-> AtHead, out |-> <<>>, need |-> 1, leftover |-> <<>>]

DriveInit ==
    /\ drive \in Scenarios
    /\ sent = 0 /\ up = <<>> /\ upOpen = TRUE /\ down = <<>> /\ got = <<>>
    /\ server = NewConnection
    /\ decoded = <<>> /\ verdict = IF drive.valid THEN Running ELSE InvalidInput

Active == verdict = Running
ServerEnded == server.phase \in {"ended", "failed", "panicked"}
Space(pipe) == drive.capacity - Len(pipe)

(***************************************************************************)
(* The client.                                                             *)
(***************************************************************************)
\* write_all: what fits of the current chunk.
ClientWrite ==
    LET chunkEnd == Min({Len(drive.wire), ((sent \div drive.chunk) + 1) * drive.chunk})
        count == Min({chunkEnd - sent, Space(up)})
    IN  /\ Active /\ ~ServerEnded /\ upOpen /\ count > 0
        /\ up' = up \o SubSeq(drive.wire, sent + 1, sent + count)
        /\ sent' = sent + count
        /\ UNCHANGED <<drive, upOpen, down, got, server, decoded, verdict>>

\* The server has dropped its end: BrokenPipe fails the whole drive.
ClientWriteFails ==
    /\ Active /\ ServerEnded /\ upOpen /\ sent < Len(drive.wire)
    /\ verdict' = [kind |-> "err", frames |-> <<>>]
    /\ UNCHANGED <<drive, sent, up, upOpen, down, got, server, decoded>>

ClientShutdown ==
    /\ Active /\ upOpen /\ sent = Len(drive.wire)
    /\ upOpen' = FALSE
    /\ UNCHANGED <<drive, sent, up, down, got, server, decoded, verdict>>

\* drive_with_strategies runs reader and writer side by side, drive_internal
\* of wireframe_testing reads once it has shut down.
ReaderRuns == drive.driver = "split" \/ ~upOpen

\* read_to_end, or read_with_optional_pacing with its buffer.
ClientRead ==
    LET count == Min({Len(down), drive.readChunk})
    IN  /\ Active /\ ReaderRuns /\ count > 0
        /\ got' = got \o SubSeq(down, 1, count) /\ down' = Drop(down, count)
        /\ UNCHANGED <<drive, sent, up, upOpen, server, decoded, verdict>>

(***************************************************************************)
(* decode_frames_with_codec: decode, then decode_eof, until neither finds  *)
(* a frame; bytes left over fail the drive.                                *)
(***************************************************************************)
RECURSIVE DecodeAll(_, _, _)
DecodeNext(codec, bytes, frames, found) ==
    CASE found.kind = "frame" ->
            DecodeAll(codec, Drop(bytes, found.used), Append(frames, found.frame))
      [] found.kind = "error" -> [kind |-> "err", frames |-> <<>>]
      [] found.kind = "more" ->
            IF decode_eof(codec, found.data, Drop(bytes, found.used)).kind = "none"
            THEN [kind |-> "ok", frames |-> frames] ELSE [kind |-> "err", frames |-> <<>>]
DecodeAll(codec, bytes, frames) ==
    DecodeNext(codec, bytes, frames, decode(codec, AtHead, bytes))

\* Mutant: decoding stops at the first frame.
decode_frames_with_codec_First(codec, bytes) ==
    [kind |-> "ok",
     frames |-> IF bytes = <<>> THEN <<>> ELSE <<decode(codec, AtHead, bytes).frame>>]

decode_frames_with_codec(codec, bytes) == DecodeAll(codec, bytes, <<>>)

\* decode_frames of the length-delimited helpers: decode alone, and no bytes
\* may be left in the buffer.
RECURSIVE DecodeRest(_, _, _)
DecodeRestNext(codec, bytes, frames, found) ==
    CASE found.kind = "frame" ->
            DecodeRest(codec, Drop(bytes, found.used), Append(frames, found.frame))
      [] found.kind = "more" /\ Drop(bytes, found.used) = <<>> ->
            [kind |-> "ok", frames |-> frames]
      [] OTHER -> [kind |-> "err", frames |-> <<>>]
DecodeRest(codec, bytes, frames) ==
    DecodeRestNext(codec, bytes, frames, inner_decode(codec, AtHead, bytes))

decode_frames_with_max(bytes, max_len) == DecodeRest(LengthDelimited(max_len), bytes, <<>>)

\* What the caller makes of the bytes it got.
Outcome ==
    IF drive.raw /\ drive.codec.kind = "length"
    THEN decode_frames_with_max(got, drive.codec.max)
    ELSE decode_frames_with_codec(drive.codec, got)

\* handle_connection_result of the sequential helpers reports the error of
\* the server; run_owned_app of the testkit only logs it.  A panic is an
\* error in both (panic_guarded_server).
ServerFails == server.phase = "panicked" \/ (server.phase = "failed" /\ drive.driver = "sequential")

\* try_join: the first error wins, success needs all three futures.
Finish ==
    /\ Active
    /\ \/ /\ ServerFails
          /\ verdict' = [kind |-> "err", frames |-> <<>>]
       \/ /\ ServerEnded /\ ~ServerFails /\ ~upOpen /\ down = <<>>
          /\ verdict' = Outcome
    /\ UNCHANGED <<drive, sent, up, upOpen, down, got, server, decoded>>

\* The next drive of a borrowed app: a new pipe and a new connection.
Again ==
    /\ ~Active /\ drive.again > 0
    /\ drive' = [drive EXCEPT !.again = @ - 1]
    /\ sent' = 0 /\ up' = <<>> /\ upOpen' = TRUE /\ down' = <<>> /\ got' = <<>>
    /\ server' = NewConnection /\ decoded' = <<>> /\ verdict' = Running

(***************************************************************************)
(* The preamble (connection_spawner.rs).                                   *)
(***************************************************************************)
\* Bytes of the first n fields of a preamble.
PreambleSize(fields, n) ==
    LET size[i \in 0..n] == IF i = 0 THEN 0 ELSE size[i - 1] + fields[i]
    IN  size[n]

\* bincode decodes the fields in order: the bytes it still misses to finish
\* the first incomplete field, 0 when the value is whole.
PreambleMissing(fields, length) ==
    LET short == {i \in 1..Len(fields) : PreambleSize(fields, i) > length}
    IN  IF short = {} THEN 0 ELSE PreambleSize(fields, Min(short)) - length

\* read_more within read_preamble: exactly the bytes asked for, as they come.
ReadMore ==
    LET count == Min({server.need, Len(up)})
        buf == server.buf \o SubSeq(up, 1, count)
        missing == PreambleMissing(drive.preamble, Len(buf))
        size == PreambleSize(drive.preamble, Len(drive.preamble))
    IN  /\ Active /\ server.phase = "preamble" /\ count > 0
        /\ up' = Drop(up, count)
        /\ \/ /\ count < server.need
              /\ server' = [server EXCEPT !.buf = buf, !.need = @ - count]
           \/ /\ count = server.need /\ missing > 0
              /\ server' = [server EXCEPT !.buf = buf, !.need = missing,
                                !.phase = IF Len(buf) + missing > MaxPreambleLen
                                          THEN "failed" ELSE "preamble"]
           \/ /\ count = server.need /\ missing = 0
              /\ server' = [server EXCEPT !.buf = <<>>, !.leftover = Drop(buf, size),
                                !.phase = "reading"]
        /\ UNCHANGED <<drive, sent, upOpen, down, got, decoded, verdict>>

\* The peer closed before the preamble was whole.
PreambleEof ==
    /\ Active /\ server.phase = "preamble" /\ up = <<>> /\ ~upOpen
    /\ server' = [server EXCEPT !.phase = "failed"]
    /\ UNCHANGED <<drive, sent, up, upOpen, down, got, decoded, verdict>>

(***************************************************************************)
(* The server (process_stream over a Framed stream).                       *)
(***************************************************************************)
Reading == Active /\ server.phase = "reading"

\* The answers to a frame wrap its payload; all of them are written before
\* the next frame is looked at (handle_frame).
Answers(frame) ==
    LET answer == encode(drive.codec,
                         wrap_payload(drive.codec, frame_payload(drive.codec, frame)))
    IN  FlattenSeq([i \in 1..drive.answers |-> answer.value])

TakeFrame(found) ==
    /\ decoded' = Append(decoded, found.frame)
    /\ \/ server' = [server EXCEPT !.buf = Drop(@, found.used), !.data = found.data,
                         !.out = Answers(found.frame), !.phase = "writing"]
       \/ drive.panics /\ server' = [server EXCEPT !.phase = "panicked"]

ServerFrame(found) == found.kind = "frame" /\ TakeFrame(found) /\ UNCHANGED up

ServerRefuse(found) ==
    /\ found.kind = "error"
    /\ server' = [server EXCEPT !.phase = "failed"]
    /\ UNCHANGED <<up, decoded>>

\* Mutant: the rewound bytes are skipped.
poll_read_SkipsLeftover(leftover, pipe) ==
    [bytes |-> pipe, leftover |-> <<>>, pipe |-> <<>>]

\* RewindStream::poll_read: the bytes read past the preamble come first.
poll_read(leftover, pipe) ==
    IF leftover # <<>> THEN [bytes |-> leftover, leftover |-> <<>>, pipe |-> pipe]
    ELSE [bytes |-> pipe, leftover |-> <<>>, pipe |-> <<>>]

ServerFill(found) ==
    LET read == poll_read(server.leftover, up)
    IN  /\ found.kind = "more" /\ (server.leftover # <<>> \/ up # <<>>)
        /\ server' = [server EXCEPT !.buf = Drop(@, found.used) \o read.bytes,
                          !.data = found.data, !.leftover = read.leftover]
        /\ up' = read.pipe
        /\ UNCHANGED decoded

\* process_stream: None ends the connection, an error fails it.  No decoder
\* here finds a frame at the end that it did not find before.
AtEof(last) ==
    \/ last.kind = "none" /\ server' = [server EXCEPT !.phase = "ended"] /\ UNCHANGED decoded
    \/ last.kind = "error" /\ server' = [server EXCEPT !.phase = "failed"] /\ UNCHANGED decoded

ServerEof(found) ==
    /\ found.kind = "more" /\ server.leftover = <<>> /\ up = <<>> /\ ~upOpen
    /\ AtEof(decode_eof(drive.codec, found.data, Drop(server.buf, found.used)))
    /\ UNCHANGED up

\* One poll of the framed stream.
ServerPoll ==
    /\ Reading
    /\ \E found \in {decode(drive.codec, server.data, server.buf)} :
        ServerFrame(found) \/ ServerRefuse(found) \/ ServerFill(found) \/ ServerEof(found)
    /\ UNCHANGED <<drive, sent, upOpen, down, got, verdict>>

\* The framed sink writes what the pipe takes and reads on when all is out.
ServerWrite ==
    LET count == Min({Len(server.out), Space(down)})
        rest == Drop(server.out, count)
    IN  /\ Active /\ server.phase = "writing" /\ (count > 0 \/ server.out = <<>>)
        /\ down' = down \o SubSeq(server.out, 1, count)
        /\ server' = [server EXCEPT !.out = rest,
                          !.phase = IF rest = <<>> THEN "reading" ELSE "writing"]
        /\ UNCHANGED <<drive, sent, up, upOpen, got, decoded, verdict>>

ClientStep == ClientWrite \/ ClientWriteFails \/ ClientShutdown \/ ClientRead \/ Finish \/ Again
ServerStep == ReadMore \/ PreambleEof \/ ServerPoll \/ ServerWrite

DriveNext == ClientStep \/ ServerStep

\* The client waits for room in the pipe to the server, which waits for room
\* in the pipe to the client, which the client does not read yet.
Wedged ==
    /\ Active /\ upOpen /\ sent < Len(drive.wire) /\ Space(up) = 0 /\ ~ReaderRuns
    /\ server.phase = "writing" /\ server.out # <<>> /\ Space(down) = 0
=============================================================================
