-------------------------------- MODULE Wire --------------------------------
(***************************************************************************)
(* The byte level of wireframe: drives of a framed server (Drive) and      *)
(* streams of length prefixes (LengthPrefix).  The two share no state; a   *)
(* behaviour is one of either, the prefixes in place of a drive that has   *)
(* nothing to write.                                                       *)
(***************************************************************************)
EXTENDS Drive

wireVars == <<driveVars, prefixVars>>

WireInit == DriveInit /\ PrefixInit

DriveStep == format = NoFormat /\ DriveNext /\ UNCHANGED prefixVars
PrefixStep == drive.wire = <<>> /\ upOpen /\ PrefixNext /\ UNCHANGED driveVars

\* What may stop: a drive with a verdict, the wedge of a sequential drive
\* whose answers overfill the pipe, and a stream of prefixes.
Rest ==
    /\ verdict # Running \/ Wedged \/ format # NoFormat
    /\ UNCHANGED wireVars

WireNext == DriveStep \/ PrefixStep \/ Rest

WireSpec == WireInit /\ [][WireNext]_wireVars

-----------------------------------------------------------------------------
(* Properties *)

\* Wherever the byte stream is cut, the frames a server decodes are the
\* frames that were sent, in order, and a well-formed stream is never refused
\* (decode of every codec, RewindStream::poll_read after the preamble).
\* Decoders that leave an incomplete frame in the buffer never take a stream
\* that breaks off inside a frame, or that they must refuse, for one that
\* ended: the server fails instead (decode_eof, process_stream).  Length
\* prefixes come back as they were written (PrefixesReadBack).
FramesAsSent ==
    /\ PrefixesReadBack
    /\ IsPrefix(decoded, drive.frames)
    /\ drive.ending = "clean" =>
        /\ server.phase # "failed"
        /\ server.phase = "ended" => decoded = drive.frames
    /\ server.phase = "ended" /\ drive.codec.kind # "length" => drive.ending = "clean"

\* A stream ends without an error only at a frame boundary: "Clean EOF at
\* frame boundary" (EofError::CleanClose), "Clean close: no data remaining at
\* frame boundary" (LengthDelimitedDecoder::decode_eof).
EndsAtFrameBoundary == server.phase = "ended" => drive.ending = "clean"

Repeated(list) == FlattenSeq(Map(LAMBDA item : [i \in 1..drive.answers |-> item], list))
AnswerBytes == Len(FlattenSeq(Map(Answers, drive.frames)))

\* A drive that succeeds returns every answer to the frames the server saw,
\* whole and in order, and a drive of well-formed frames only fails when the
\* handler panicked (drive_with_strategies, decode_frames_with_codec).
\* Reading and writing side by side never ends in a circular wait, however
\* small the pipe is; writing everything before reading anything does only
\* when the answers do not fit the pipe (drive_with_strategies of the testkit,
\* drive_internal of wireframe_testing).  Every step of a drive consumes
\* bytes, so with no deadlock this is that every other drive ends.
DrivesReturn ==
    /\ verdict.kind = "ok" =>
        extract_payloads(drive.codec, verdict.frames)
            = Repeated(extract_payloads(drive.codec, decoded))
    /\ verdict.kind = "err" /\ drive.ending = "clean" => server.phase = "panicked"
    /\ Wedged => drive.driver = "sequential" /\ AnswerBytes > drive.capacity
=============================================================================
