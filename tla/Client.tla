------------------------------- MODULE Client --------------------------------
(***************************************************************************)
(* One WireframeClient: built, connected (with the preamble exchange),     *)
(* used for sends, calls, response streams and streamed bodies, and closed *)
(* or dropped (src/client).  The caller owns the client mutably, so there  *)
(* is one operation at a time; it may be dropped at any await, and so may  *)
(* a response stream.  The peer answers requests in order, may push frames *)
(* of its own, send a frame that does not decode, and go away.             *)
(*                                                                         *)
(* Framed (external) keeps encoded frames in a write buffer until they are *)
(* flushed: dropping a send leaves its frame there.  A frame is a record;  *)
(* the bytes the preamble handler reads ahead are whole frames; request    *)
(* hooks inspect a frame and leave it decodable.                           *)
(***************************************************************************)
EXTENDS ClientBuilder

CONSTANTS
    MaxRequests,   \* bound: operations the caller starts
    MaxPushes,     \* bound: frames the peer sends unasked
    Hooks,         \* request hooks the caller registers, one at most of each kind
    Lengths,       \* lengths of serialized requests
    FrameLengths,  \* frame lengths the caller configures
    ExplicitIds,   \* correlation identifiers a caller sets itself
    StreamLengths, \* data frames of a streamed reply
    HeaderLengths, ChunkSizes, BodyLengths  \* streamed bodies

NoId == 0
NoChunk == 0 - 1   \* SendStreamingConfig without chunk_size

ASSUME ClientAssumption ==
    /\ MaxRequests \in Nat /\ MaxPushes \in Nat
    /\ ExplicitIds \cap 0..MaxRequests = {}

VARIABLES
    phase,     \* of the connection, from "building" to "closed"
    builder,   \* WireframeClientBuilder
    client,    \* what the connected client keeps of it
    buffer,    \* frames in the write buffer of Framed
    wire,      \* frames the peer has yet to read
    shut,      \* the write side has been shut down
    leftover,  \* frames the preamble handler read ahead (RewindStream)
    inbox,     \* frames from the peer in the socket
    peer,      \* "up" or "closed"
    counter,   \* correlation_counter
    op,        \* the operation in progress
    hooked,    \* error hook calls of this operation
    requests,  \* operations started
    pushes,    \* frames the peer sent unasked
    consumed,  \* the number of the last frame read from the peer
    served,    \* frames the peer has sent
    last,      \* the outcome of the last finished operation
    ran,       \* calls of the setup, teardown and preamble failure handlers
    kept,      \* see KeptConnectionsInStep
    timed_out  \* a streamed send has timed out

transport == <<buffer, wire, shut, leftover, inbox, peer>>
peerside == <<pushes, served>>
vars == <<phase, builder, client, transport, counter, op, hooked, requests,
          peerside, consumed, last, ran, kept, timed_out>>

Idle == [kind |-> "idle", at |-> "idle", req |-> 0, cid |-> NoId, frames |-> 0,
         header |-> 0, chunk |-> 0, left |-> 0, timed |-> FALSE]

NoOutcome == [kind |-> "none", req |-> 0, cid |-> NoId, result |-> "none",
              answer |-> 0, frames |-> 0, of |-> 0, hooks |-> 0]

NoClient == [max |-> 0, before_send |-> <<>>, state |-> FALSE,
             on_disconnect |-> FALSE, on_error |-> FALSE]

Init ==
    /\ phase = "building" /\ builder = new /\ client = NoClient
    /\ buffer = <<>> /\ wire = <<>> /\ shut = FALSE
    /\ leftover = <<>> /\ inbox = <<>> /\ peer = "up"
    /\ counter = 1 /\ op = Idle /\ hooked = 0 /\ requests = 0
    /\ pushes = 0 /\ consumed = 0 /\ served = 0 /\ last = NoOutcome
    /\ ran = [setup |-> 0, teardown |-> 0, failure |-> 0]
    /\ kept = TRUE /\ timed_out = FALSE

idleTransport == <<transport, counter, op, hooked, requests, consumed, last,
                   kept, timed_out, peerside>>

-----------------------------------------------------------------------------
(* Building and connecting *)

\* One builder method.
Configure ==
    /\ phase = "building"
    /\ builder' \in
         { with_preamble(builder), preamble_timeout(builder),
           on_preamble_success(builder), on_preamble_failure(builder),
           on_connection_setup(builder), on_connection_teardown(builder),
           on_error(builder), socket_option(builder, "nodelay", "on") }
         \cup {max_frame_length(builder, n) : n \in FrameLengths}
         \cup {before_send(builder, h) : h \in IF builder.before_send = <<>>
                                               THEN Hooks ELSE {}}
    /\ UNCHANGED <<phase, client, idleTransport, ran>>

\* connect, up to the TCP connection: the socket options, then the socket.
Connect ==
    /\ phase = "building"
    /\ phase' \in IF apply(builder.socket_options, {}).ok
                  THEN {IF builder.preamble_config.set THEN "writing" ELSE "setup"}
                       \cup {"failed"}
                  ELSE {"failed"}
    /\ UNCHANGED <<builder, client, idleTransport, ran>>

\* run_preamble_exchange: write_preamble, then the success handler, which
\* must hand back what it read beyond the peer's answer.
WritePreamble ==
    /\ phase = "writing"
    /\ phase' \in {IF builder.preamble_config.on_success THEN "answer" ELSE "setup",
                   "failing"}
    /\ UNCHANGED <<builder, client, idleTransport, ran>>

\* Mutant: what the handler read ahead is dropped.
PreambleAnswered_DropsLeftover ==
    /\ phase = "answer" /\ phase' = "setup"
    /\ \E ahead \in 0..Len(inbox) :
          inbox' = SubSeq(inbox, ahead + 1, Len(inbox))
    /\ UNCHANGED <<builder, client, buffer, wire, shut, leftover, peer, counter, op,
                   hooked, requests, peerside, consumed, last, ran, kept, timed_out>>

PreambleAnswered ==
    /\ phase = "answer" /\ phase' = "setup"
    /\ \E ahead \in 0..Len(inbox) :
          /\ leftover' = SubSeq(inbox, 1, ahead)
          /\ inbox' = SubSeq(inbox, ahead + 1, Len(inbox))
    /\ UNCHANGED <<builder, client, buffer, wire, shut, peer, counter, op,
                   hooked, requests, peerside, consumed, last, ran, kept, timed_out>>

PreambleRefused ==
    /\ phase = "answer" /\ phase' = "failing"
    /\ UNCHANGED <<builder, client, idleTransport, ran>>

\* Mutant: the timeout covers the write only.
PreambleTimeout_WriteOnly ==
    /\ phase = "writing" /\ builder.preamble_config.timeout
    /\ phase' = "failing"
    /\ UNCHANGED <<builder, client, idleTransport, ran>>

\* The timeout covers the write and the handler.
PreambleTimeout ==
    /\ phase \in {"writing", "answer"} /\ builder.preamble_config.timeout
    /\ phase' = "failing"
    /\ UNCHANGED <<builder, client, idleTransport, ran>>

\* perform_preamble_exchange: every failure runs the failure handler once.
PreambleFailed ==
    /\ phase = "failing" /\ phase' = "failed"
    /\ ran' = [ran EXCEPT !.failure = @ + IF builder.preamble_config.on_failure THEN 1 ELSE 0]
    /\ UNCHANGED <<builder, client, idleTransport>>

\* connect, from the framed transport on: the setup handler, the client.
Established ==
    /\ phase = "setup" /\ phase' = "open"
    /\ LET hooks == builder.lifecycle_hooks
       IN  /\ client' = [max           |-> builder.max_frame_length,
                         before_send   |-> builder.before_send,
                         state         |-> hooks.connect,
                         on_disconnect |-> hooks.disconnect,
                         on_error      |-> hooks.error]
           /\ ran' = [ran EXCEPT !.setup = @ + IF hooks.connect THEN 1 ELSE 0]
    /\ builder' = new
    /\ UNCHANGED idleTransport

-----------------------------------------------------------------------------
(* Helpers of the operations *)

Open == phase = "open"
At(step) == Open /\ op.at = step

connection == <<phase, builder, client, ran>>

\* invoke_error_hook
invoke_error_hook == IF client.on_error THEN 1 ELSE 0

\* ClientError::should_recycle_connection
should_recycle_connection(error) == error \in {"io", "decode", "mismatch"}

\* The operation returns to its caller; hook calls are those of this step.
Returns(result, answer, of, hooks) ==
    /\ op' = Idle /\ hooked' = 0
    /\ last' = [kind |-> op.kind, req |-> op.req, cid |-> op.cid, result |-> result,
                answer |-> answer, frames |-> op.frames, of |-> of,
                hooks |-> hooked + hooks]

Fails(error) ==
    /\ Returns(error, 0, 0, invoke_error_hook)
    /\ kept' = (kept /\ ~should_recycle_connection(error))

\* RewindStream: what was read ahead comes first.
Unread == leftover \o inbox

Consume ==
    /\ Unread # <<>>
    /\ consumed' = Unread[1].n
    /\ leftover' = IF leftover = <<>> THEN <<>> ELSE Tail(leftover)
    /\ inbox' = IF leftover = <<>> THEN Tail(inbox) ELSE inbox
    /\ UNCHANGED <<buffer, wire, shut, peer>>

ReadFails == Unread = <<>> /\ peer = "closed" /\ UNCHANGED <<transport, consumed>>

-----------------------------------------------------------------------------
(* Sends and calls *)

Answered == {"call", "call_correlated", "call_streaming", "send_envelope"}

\* call_correlated and call_streaming see to it that the envelope they send
\* has an identifier, as send_envelope does; call and send do not.
correlates(kind) == kind \in {"call_correlated", "call_streaming", "send_envelope"}

\* serialize_and_send up to the write buffer: serialize, the before_send
\* hooks, encode.  An envelope without an identifier takes the next one.
Request(kind, cid, length, serializes) ==
    LET auto == correlates(kind) /\ cid = NoId
        id   == IF auto THEN counter ELSE cid
        this == [Idle EXCEPT !.kind = kind, !.at = "flushing",
                             !.req = requests + 1, !.cid = id]
        frame == [kind |-> kind, req |-> requests + 1, cid |-> id,
                  marks |-> client.before_send]
        refused == IF ~serializes THEN "serialize"
                   ELSE IF length > client.max THEN "io" ELSE "none"
    IN  /\ At("idle") /\ requests < MaxRequests
        /\ requests' = requests + 1
        /\ counter' = IF auto THEN counter + 1 ELSE counter
        /\ IF refused = "none"
           THEN /\ op' = this /\ hooked' = 0 /\ last' = NoOutcome
                /\ buffer' = Append(buffer, frame)
                /\ kept' = (kept /\ kind \in {"send", "call_correlated", "call_streaming"})
           ELSE /\ op' = Idle /\ hooked' = 0 /\ buffer' = buffer
                /\ last' = [NoOutcome EXCEPT !.kind = kind, !.req = requests + 1,
                                             !.cid = id, !.result = refused,
                                             !.hooks = invoke_error_hook]
                /\ kept' = (kept /\ ~should_recycle_connection(refused))
        /\ UNCHANGED <<connection, wire, shut, leftover, inbox, peer, peerside, consumed,
                       timed_out>>

StartRequest ==
    \E kind \in Answered \cup {"send"}, length \in Lengths, serializes \in BOOLEAN :
      \E cid \in IF kind \in {"call", "send"} THEN {NoId} ELSE ExplicitIds \cup {NoId} :
         Request(kind, cid, length, serializes)

\* The frame is out: send and send_envelope return, a call waits for its
\* answer, call_streaming hands back the stream, a streamed body reads on.
Flushed ==
    /\ IF op.kind \in {"send", "send_envelope"}
       THEN Returns("ok", 0, 0, 0)
       ELSE /\ op' = CASE op.kind = "call_streaming" -> [op EXCEPT !.at = "streaming"]
                       [] op.kind = "send_streaming" -> [op EXCEPT !.at = "reading",
                                                                   !.frames = @ + 1]
                       [] OTHER                      -> [op EXCEPT !.at = "receiving"]
            /\ UNCHANGED <<hooked, last>>
    /\ UNCHANGED kept

\* SinkExt::send flushes the whole write buffer.  The kernel takes bytes for
\* a peer that has gone, until it learns of that.
Flush ==
    /\ At("flushing") /\ ~shut
    /\ wire' = IF peer = "up" THEN wire \o buffer ELSE wire
    /\ buffer' = <<>>
    /\ Flushed
    /\ UNCHANGED <<connection, shut, leftover, inbox, peer, counter, requests, peerside,
                   consumed, timed_out>>


FlushFails ==
    /\ At("flushing") /\ (shut \/ peer = "closed")
    /\ Fails("io")
    /\ UNCHANGED <<connection, transport, counter, requests, peerside, consumed, timed_out>>

\* receive, receive_envelope: on their own.
StartReceive ==
    /\ At("idle") /\ requests < MaxRequests /\ requests' = requests + 1
    /\ op' = [Idle EXCEPT !.kind = "receive", !.at = "receiving", !.req = requests + 1]
    /\ hooked' = 0 /\ last' = NoOutcome /\ kept' = FALSE
    /\ UNCHANGED <<connection, transport, counter, peerside, consumed, timed_out>>


\* receive_frame, and the check of call_correlated_inner on what it decoded.
Receive ==
    /\ At("receiving") /\ Consume
    /\ IF Unread[1].kind = "garbage" THEN Fails("decode")
       ELSE IF op.kind = "call_correlated" /\ Unread[1].cid # op.cid
            THEN Fails("mismatch")
            ELSE Returns("ok", Unread[1].req, 0, 0) /\ UNCHANGED kept
    /\ UNCHANGED <<connection, counter, requests, peerside, timed_out>>

ReceiveFails ==
    /\ At("receiving") /\ ReadFails
    /\ Fails("io")
    /\ UNCHANGED <<connection, counter, requests, peerside, timed_out>>

\* The caller drops the future at an await: a timeout of its own, a select!.
Cancel ==
    /\ Open /\ op.at \in {"flushing", "receiving", "reading"}
    /\ op' = Idle /\ hooked' = 0 /\ last' = NoOutcome /\ kept' = FALSE
    /\ UNCHANGED <<connection, transport, counter, requests, peerside, consumed, timed_out>>

-----------------------------------------------------------------------------
(* Response streams *)

\* receive_streaming: a stream for a request sent earlier.
ReceiveStreaming ==
    /\ At("idle") /\ requests < MaxRequests /\ requests' = requests + 1
    /\ \E cid \in ExplicitIds \cup 1..counter - 1 :
          op' = [Idle EXCEPT !.kind = "receive_streaming", !.at = "streaming",
                             !.req = requests + 1, !.cid = cid]
    /\ hooked' = 0 /\ last' = NoOutcome /\ kept' = FALSE
    /\ UNCHANGED <<connection, transport, counter, peerside, consumed, timed_out>>

\* A stream that has terminated answers None from then on; errors of a
\* stream go to the caller and not to the error hook.
StreamEnds(result, of) == Returns(result, 0, of, 0)

\* process_frame: decode, terminator, correlation, in that order.
process_frame ==
    LET frame == Unread[1]
    IN  CASE frame.kind = "garbage"  -> /\ StreamEnds("decode", 0)
                                        /\ kept' = FALSE
          [] frame.kind = "term"     -> /\ StreamEnds("end", frame.of)
                                        /\ UNCHANGED kept
          [] frame.kind \notin {"garbage", "term"} /\ frame.cid # op.cid
                                     -> /\ StreamEnds("mismatch", 0)
                                        /\ kept' = (kept /\ ~should_recycle_connection("mismatch"))
          [] OTHER                   -> /\ op' = [op EXCEPT !.frames = @ + 1]
                                        /\ UNCHANGED <<hooked, last, kept>>

PollStream ==
    /\ At("streaming") /\ Consume
    /\ process_frame
    /\ UNCHANGED <<connection, counter, requests, peerside, timed_out>>

StreamDisconnected ==
    /\ At("streaming") /\ ReadFails
    /\ StreamEnds("io", 0) /\ kept' = FALSE
    /\ UNCHANGED <<connection, counter, requests, peerside, timed_out>>

\* TypedResponseStream: the mapper refuses a frame, the typed stream has
\* terminated and the stream inside it has not.
MapperFails ==
    /\ At("streaming") /\ Consume
    /\ Unread[1].kind = "data" /\ Unread[1].cid = op.cid
    /\ StreamEnds("mapper", 0) /\ kept' = FALSE
    /\ UNCHANGED <<connection, counter, requests, peerside, timed_out>>

\* The stream is dropped before it terminated; what the peer still sends
\* stays unread.
DropStream ==
    /\ At("streaming")
    /\ op' = Idle /\ hooked' = 0 /\ last' = NoOutcome /\ kept' = FALSE
    /\ UNCHANGED <<connection, transport, counter, requests, peerside, consumed, timed_out>>

-----------------------------------------------------------------------------
(* Streamed bodies *)

\* effective_chunk_size: 0 stands for its two errors.
effective_chunk_size(header, chunk) ==
    LET available == client.max - header
    IN  IF header >= client.max THEN 0
        ELSE IF chunk = NoChunk \/ chunk > available THEN available ELSE chunk

\* send_streaming up to its loop.
StartSendStreaming ==
    /\ At("idle") /\ requests < MaxRequests /\ requests' = requests + 1
    /\ \E header \in HeaderLengths, chunk \in ChunkSizes \cup {NoChunk},
          body \in BodyLengths, timed \in BOOLEAN :
       LET size == effective_chunk_size(header, chunk)
           this == [Idle EXCEPT !.kind = "send_streaming", !.req = requests + 1]
       IN  IF size = 0
           THEN /\ op' = Idle
                /\ last' = [NoOutcome EXCEPT !.kind = this.kind, !.req = this.req,
                                             !.result = "io", !.hooks = invoke_error_hook]
                /\ kept' = FALSE
           ELSE /\ op' = [this EXCEPT !.at = "reading", !.header = header, !.chunk = size,
                                      !.left = body, !.timed = timed]
                /\ last' = NoOutcome /\ kept' = kept
    /\ hooked' = 0
    /\ UNCHANGED <<connection, transport, counter, peerside, consumed, timed_out>>

\* read_chunk: some of the bytes that are left; the end of the body ends the
\* loop.  The frame goes to the write buffer, unless it is too long.
ReadChunk ==
    /\ At("reading")
    /\ IF op.left = 0
       THEN /\ Returns("ok", 0, 0, 0) /\ UNCHANGED <<kept, buffer>>
       ELSE \E n \in 1..op.left :
              /\ n <= op.chunk
              /\ IF op.header + n > client.max
                 THEN Fails("io") /\ UNCHANGED buffer
                 ELSE /\ op' = [op EXCEPT !.at = "flushing", !.left = @ - n]
                      /\ buffer' = Append(buffer, [kind |-> "chunk", req |-> op.req,
                                                   cid |-> NoId, marks |-> <<>>])
                      /\ UNCHANGED <<hooked, last, kept>>
    /\ UNCHANGED <<connection, wire, shut, leftover, inbox, peer, counter, requests,
                   peerside, consumed, timed_out>>

ReadChunkFails ==
    /\ At("reading") /\ Fails("io")
    /\ UNCHANGED <<connection, transport, counter, requests, peerside, consumed, timed_out>>

\* Mutant: the socket stays open after the timeout.
SendTimeout_StaysOpen ==
    /\ Open /\ op.timed /\ op.at \in {"reading", "flushing"}
    /\ timed_out' = TRUE
    /\ Fails("io")
    /\ UNCHANGED <<connection, transport, counter, requests, peerside, consumed>>

\* The timeout drops the loop at an await and shuts the socket's write side
\* down, past the write buffer.
SendTimeout ==
    /\ Open /\ op.timed /\ op.at \in {"reading", "flushing"}
    /\ shut' = TRUE /\ timed_out' = TRUE
    /\ Fails("io")
    /\ UNCHANGED <<connection, buffer, wire, leftover, inbox, peer, counter, requests,
                   peerside, consumed>>

-----------------------------------------------------------------------------
(* Close *)

\* close: the transport is flushed and shut down, whatever comes of it.
Close ==
    /\ At("idle") /\ phase' = "closing"
    /\ wire' \in IF shut \/ peer = "closed" THEN {wire} ELSE {wire, wire \o buffer}
    /\ buffer' = <<>> /\ shut' = TRUE
    /\ UNCHANGED <<builder, client, leftover, inbox, peer, counter, op, hooked, requests,
                   peerside, consumed, last, ran, kept, timed_out>>

\* The client is gone, and its transport with it.
Gone ==
    /\ buffer' = <<>> /\ wire' = <<>> /\ leftover' = <<>> /\ inbox' = <<>>
    /\ last' = NoOutcome
    /\ UNCHANGED <<builder, client, shut, peer, counter, op, hooked, requests, peerside,
                   consumed, kept, timed_out>>

\* Mutant: a failed close of the transport skips the teardown handler.
Teardown_SkippedOnError ==
    /\ phase = "closing" /\ phase' = "closed"
    /\ ran' = [ran EXCEPT !.teardown =
                  @ + IF client.state /\ client.on_disconnect /\ peer = "up" THEN 1 ELSE 0]
    /\ Gone

\* The teardown handler takes the connection state.
Teardown ==
    /\ phase = "closing" /\ phase' = "closed"
    /\ ran' = [ran EXCEPT !.teardown =
                  @ + IF client.state /\ client.on_disconnect THEN 1 ELSE 0]
    /\ Gone

\* A client that is dropped closes its socket and runs no handler.
DropClient ==
    /\ At("idle") /\ phase' = "dropped" /\ Gone /\ UNCHANGED ran

-----------------------------------------------------------------------------
(* The peer *)

ours == <<connection, buffer, shut, leftover, counter, op, hooked, requests, consumed, last,
          kept, timed_out>>

\* The frames numbered from served + 1 on.
Numbered(frames) == [i \in DOMAIN frames |-> [frames[i] EXCEPT !.n = served + i]]

Reply(kind, request, of) ==
    [n |-> 0, kind |-> kind, req |-> request.req, cid |-> request.cid, of |-> of]

\* The replies to one request: a frame that may not decode, or a stream.
RepliesTo(request) ==
    CASE request.kind \in {"call", "call_correlated"} ->
            {<<Reply(k, request, 1)>> : k \in {"data", "garbage"}}
      [] request.kind \in {"call_streaming", "send_envelope"} ->
            {[i \in 1..n + 1 |-> Reply(IF i <= n THEN "data" ELSE "term", request, n)]
                : n \in StreamLengths}
      [] OTHER -> {<<>>}

PeerAnswers ==
    /\ peer = "up" /\ Open /\ wire # <<>> /\ wire' = Tail(wire)
    /\ \E frames \in RepliesTo(wire[1]) :
          /\ inbox' = inbox \o Numbered(frames)
          /\ served' = served + Len(frames)
    /\ UNCHANGED <<ours, peer, pushes>>

PeerPushes ==
    /\ peer = "up" /\ phase \in {"writing", "answer", "open"} /\ pushes < MaxPushes
    /\ pushes' = pushes + 1 /\ served' = served + 1
    /\ inbox' = Append(inbox, [n |-> served + 1, kind |-> "data", req |-> 0,
                               cid |-> NoId, of |-> 0])
    /\ UNCHANGED <<ours, peer, wire>>

\* The peer goes away, perhaps in the middle of what it had to send.
PeerCloses ==
    /\ peer = "up" /\ Open /\ peer' = "closed"
    /\ \E k \in 0..Len(inbox) : inbox' = SubSeq(inbox, 1, k)
    /\ wire' = <<>>
    /\ UNCHANGED <<ours, peerside>>

-----------------------------------------------------------------------------

ClientStep ==
    \/ Configure \/ Connect \/ WritePreamble \/ PreambleAnswered \/ PreambleRefused
    \/ PreambleTimeout \/ PreambleFailed \/ Established
    \/ StartRequest \/ Flush \/ FlushFails \/ StartReceive \/ Receive \/ ReceiveFails
    \/ Cancel \/ ReceiveStreaming \/ PollStream \/ StreamDisconnected \/ MapperFails
    \/ DropStream \/ StartSendStreaming \/ ReadChunk \/ ReadChunkFails \/ SendTimeout
    \/ Close \/ Teardown \/ DropClient

Next == ClientStep \/ PeerAnswers \/ PeerPushes \/ PeerCloses

Spec == Init /\ [][Next]_vars

\* Timers fire, and handlers that do not wait for the peer return; nothing is
\* assumed of the peer, of the preamble handler or of a body's reader.
FairSpec ==
    /\ Spec
    /\ WF_vars(PreambleTimeout) /\ WF_vars(PreambleFailed) /\ WF_vars(Established)
    /\ WF_vars(SendTimeout) /\ WF_vars(Teardown)

-----------------------------------------------------------------------------
(* Properties *)



\* After a streamed send has timed out no frame reaches the peer any more,
\* neither the rest of the body nor a later request (send_streaming).
TimedOutIsSilent == [][timed_out => Len(wire') <= Len(wire)]_vars

\* Frames from the peer are read in the order it sent them and none is
\* skipped, those the preamble handler read ahead included (RewindStream).  A
\* connection used for correlated operations only, none of them dropped, whose
\* errors all said that it need not be recycled, is in step: between operations
\* no request awaits its answer and no answer is unread.
ConnectionInStep ==
    /\ \A i \in DOMAIN Unread : phase = "open" => Unread[i].n = consumed + i
    /\ (kept /\ At("idle")) =>
        /\ \A i \in DOMAIN Unread : Unread[i].req = 0
        /\ \A i \in DOMAIN wire : wire[i].kind \notin Answered

\* An exchange with a timeout ends, even if the peer never answers; so does
\* a streamed send with a timeout.
TimedStepsEnd ==
    /\ (phase = "answer" /\ builder.preamble_config.timeout) ~> phase # "answer"
    /\ op.timed ~> ~op.timed
=============================================================================
