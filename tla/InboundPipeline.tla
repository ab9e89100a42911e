-------------------------- MODULE InboundPipeline ---------------------------
(***************************************************************************)
(* One connection of an application: process_connection and the loop of    *)
(* process_stream (src/app/inbound_handler), with the frame handling of    *)
(* src/app/frame_handling and the outbound FramePipeline of                *)
(* src/app/codec_driver.rs.  A frame is decoded, reassembled from          *)
(* fragments, assembled into a message, dispatched and answered; each      *)
(* stage can fail, and the two buffering stages share the memory budgets.  *)
(*                                                                         *)
(* The message assembler is the module MessageAssembler.  Of the fragment  *)
(* reassembler, modelled in Fragmentation, this module keeps the bytes and *)
(* the age of each partial; an inbound envelope is whole or cut in two.    *)
(***************************************************************************)
EXTENDS MessageAssembler

CONSTANTS
    MaxFrames,          \* bound: frames the peer sends
    MaxDeserFailures,   \* MAX_DESER_FAILURES
    FrameLengths,       \* body lengths of assembler frames
    Totals,             \* declared totals of first frames, NoTotal included
    Routings,           \* envelope id and correlation id of inbound envelopes
    Routes,             \* envelope ids with a handler
    FragmentIds,        \* fragment message ids the peer uses
    MaxPartials,        \* FragmentationConfig::max_concurrent_partials
    MaxFragmentBytes,   \* FragmentationConfig::max_buffered_bytes
    Configs             \* application set-ups: hooks, assembler, fragmentation

NoCorrelation == 0

ASSUME PipelineAssumption ==
    /\ MaxFrames \in Nat /\ MaxDeserFailures \in Nat \ {0}
    /\ FrameLengths \subseteq Nat \ {0} /\ Totals \subseteq Nat \cup {NoTotal}
    /\ ConnectionBudget # 0 /\ InFlightBudget # 0

VARIABLES
    config,          \* the application's ConnectionProcessingContext; never changes
    phase,           \* where process_connection is
    state,           \* connection_state: "none", "held" or handed to "teardown"
    result,          \* processing_result
    frames_left,     \* frames the peer may still send
    deser_failures,  \* the failure counter of process_stream
    assemblies,      \* message_assembly
    fragments,       \* partials of the fragment reassembler: bytes and age
    out,             \* frames flush_pipeline_output has yet to send
    reply,           \* the request being answered and the frames sent for it
    dispatched,      \* the message handed to a handler in this round
    teardowns        \* calls of the teardown hook

buffers == <<assemblies, fragments>>
outbound == <<out, reply, dispatched>>
lifecycle == <<phase, state, result, teardowns>>
vars == <<config, lifecycle, frames_left, deser_failures, buffers, outbound>>

NoReply == [request |-> [id |-> 0, corr |-> NoCorrelation], due |-> 0, sent |-> <<>>]
Empty == [k \in {} |-> 0]

Init ==
    /\ config \in Configs
    /\ phase = "setup" /\ state = "none" /\ result = "ok" /\ teardowns = 0
    /\ frames_left = MaxFrames /\ deser_failures = 0
    /\ assemblies = Empty /\ fragments = Empty
    /\ out = <<>> /\ reply = NoReply /\ dispatched = NoMessage

-----------------------------------------------------------------------------
(* Lifecycle *)

\* The set-up hook runs before the first read.
Setup ==
    /\ phase = "setup"
    /\ phase' = "pressure" /\ state' = IF config.setup THEN "held" ELSE "none"
    /\ UNCHANGED <<config, result, teardowns, frames_left, deser_failures, buffers, outbound>>

\* process_stream returns: its buffers and queued output are dropped.
StreamReturns(outcome) ==
    /\ phase' = "teardown" /\ result' = outcome
    /\ assemblies' = Empty /\ fragments' = Empty /\ out' = <<>>
    /\ UNCHANGED <<config, state, teardowns>>

\* Mutant: an error returns before the teardown hook.
Teardown_SkippedOnError ==
    /\ phase = "teardown" /\ phase' = "closed"
    /\ IF config.teardown /\ state = "held" /\ result = "ok"
       THEN teardowns' = teardowns + 1 /\ state' = "teardown"
       ELSE UNCHANGED <<teardowns, state>>
    /\ UNCHANGED <<config, result, frames_left, deser_failures, buffers, outbound>>

\* The result is kept until the teardown hook has had the state.
Teardown ==
    /\ phase = "teardown" /\ phase' = "closed"
    /\ IF config.teardown /\ state = "held"
       THEN teardowns' = teardowns + 1 /\ state' = "teardown"
       ELSE UNCHANGED <<teardowns, state>>
    /\ UNCHANGED <<config, result, frames_left, deser_failures, buffers, outbound>>

-----------------------------------------------------------------------------
(* Memory pressure *)

fragment_bytes == FoldSet(LAMBDA i, sum : sum + fragments[i].len, 0, DOMAIN fragments)

BufferedBytes == total_buffered_bytes(assemblies) + fragment_bytes

active_aggregate_limit ==
    IF ConnectionBudget < InFlightBudget THEN ConnectionBudget ELSE InFlightBudget

has_hard_cap_been_breached == BufferedBytes > active_aggregate_limit

\* is_at_or_above_soft_limit: four fifths of the smaller cap.
should_pause_inbound_reads == BufferedBytes * 5 >= active_aggregate_limit * 4

AbortOnPressure ==
    /\ phase = "pressure" /\ has_hard_cap_been_breached
    /\ StreamReturns("error")
    /\ UNCHANGED <<frames_left, deser_failures, reply, dispatched>>

PauseOnPressure ==
    /\ phase = "pressure" /\ ~has_hard_cap_been_breached /\ should_pause_inbound_reads
    /\ phase' = "paused" /\ dispatched' = NoMessage
    /\ UNCHANGED <<config, state, result, teardowns, frames_left, deser_failures, buffers, out, reply>>

ContinueReading ==
    /\ phase = "pressure" /\ ~has_hard_cap_been_breached /\ ~should_pause_inbound_reads
    /\ phase' = "read" /\ dispatched' = NoMessage
    /\ UNCHANGED <<config, state, result, teardowns, frames_left, deser_failures, buffers, out, reply>>

\* FragmentationState::purge_expired; both layers share reassembly_timeout.
purge_fragments(fs) == Without(fs, {i \in DOMAIN fs : fs[i].age >= AssemblyTimeout})

\* Mutant: the fragment reassembler is purged, the assemblies are not.
purge_expired_FragmentsOnly ==
    assemblies' = assemblies /\ fragments' = purge_fragments(fragments)

\* purge_expired: of the pipeline and of the message assemblies.
purge_expired ==
    assemblies' = purge_expired_at(assemblies) /\ fragments' = purge_fragments(fragments)

\* The pause of the soft limit is over.
Resume ==
    /\ phase = "paused" /\ phase' = "read" /\ purge_expired
    /\ UNCHANGED <<config, state, result, teardowns, frames_left, deser_failures, outbound>>

-----------------------------------------------------------------------------
(* Fragment reassembly *)

Fragment(id, last, len) == [id |-> id, last |-> last, len |-> len]

\* Reassembler::push of the first or of the last half of an envelope: the
\* partials, whether the envelope is whole, and the error.  The two aggregate
\* caps are told apart because they abort the connection.
push(fr) ==
    LET kept == purge_fragments(fragments)
        held == FoldSet(LAMBDA i, sum : sum + kept[i].len, 0, DOMAIN kept)
        known == fr.id \in DOMAIN kept
        capped == held + fr.len > MaxFragmentBytes
        answer(fs, whole, error) == [fragments |-> fs, whole |-> whole, error |-> error]
    IN  IF known /\ ~fr.last THEN answer(kept, FALSE, "Ok")            \* duplicate
        ELSE IF ~known /\ fr.last THEN answer(kept, FALSE, "Counted")    \* index mismatch
        ELSE IF ~known /\ (Cardinality(DOMAIN kept) + 1 > MaxPartials \/ capped)
             THEN answer(kept, FALSE, "Aborts")
        ELSE IF ~known
             THEN answer(With(kept, fr.id, [len |-> fr.len, age |-> 0]), FALSE, "Ok")
        ELSE IF capped THEN answer(Without(kept, {fr.id}), FALSE, "Aborts")
        ELSE answer(Without(kept, {fr.id}), TRUE, "Ok")

-----------------------------------------------------------------------------
(* Handling a frame *)

ReadNext ==
    /\ phase = "read" /\ frames_left > 0 /\ frames_left' = frames_left - 1

\* DeserFailureTracker::record: the failure that reaches the limit ends the
\* connection.
record(assembled, reassembled) ==
    /\ deser_failures' = deser_failures + 1
    /\ UNCHANGED <<reply, dispatched>>
    /\ IF deser_failures + 1 >= MaxDeserFailures THEN StreamReturns("error")
       ELSE /\ phase' = "pressure" /\ assemblies' = assembled /\ fragments' = reassembled
            /\ UNCHANGED <<config, state, result, teardowns, out>>

\* A frame that leaves its part in a buffer and nothing to dispatch.
Buffered(assembled, reassembled) ==
    /\ phase' = "pressure" /\ assemblies' = assembled /\ fragments' = reassembled
    /\ UNCHANGED <<config, state, result, teardowns, deser_failures, outbound>>

\* inherit_correlation: the request's correlation wins over another one.
inherit_correlation(current, source) ==
    IF source # NoCorrelation THEN source ELSE current

\* FramePipeline::process: a response is one frame, or two fragments of it.
ResponseFrames(routing, n) == [i \in 1..n |-> routing]

\* Envelope::from_assembled: id and correlation are those of the first frame.
from_assembled(message, routing) == message.routing

\* Without an assembler the envelope is the message.
WholeEnvelope(routing) == from_first_frame(FirstFrame("none", 0, 1, NoTotal, TRUE, routing))

\* forward_response for envelope env: the middleware may put any correlation
\* id on the answer; without a handler the envelope is dropped, and when the
\* outbound envelope cannot be fragmented the connection ends.
Dispatch(message, env, assembled, reassembled) ==
    /\ deser_failures' = 0 /\ dispatched' = message
    /\ \/ /\ env.id \notin Routes
          /\ phase' = "pressure" /\ assemblies' = assembled /\ fragments' = reassembled
          /\ UNCHANGED <<config, state, result, teardowns, out, reply>>
       \/ /\ env.id \in Routes
          /\ \E answered \in {NoCorrelation, env.corr, 99} :
             \E n \in (IF config.fragmentation THEN {1, 2} ELSE {1}) :
                LET corr == inherit_correlation(answered, env.corr)
                IN  /\ out' = ResponseFrames([id |-> env.id, corr |-> corr], n)
                    /\ reply' = [request |-> message.routing, due |-> n, sent |-> <<>>]
          /\ phase' = "flush" /\ assemblies' = assembled /\ fragments' = reassembled
          /\ UNCHANGED <<config, state, result, teardowns>>
       \/ /\ env.id \in Routes /\ config.fragmentation
          /\ StreamReturns("error") /\ UNCHANGED reply

\* assemble_if_needed: the payload is a frame of the application's assembler,
\* or its header cannot be parsed or does not fit the payload (ReadMalformed).
AssembleIfNeeded(frame, routing, reassembled) ==
    IF ~config.assembler
    THEN Dispatch(WholeEnvelope(routing), routing, assemblies, reassembled)
    ELSE LET answer == accept_frame(assemblies, frame)
         IN  CASE answer.error # "Ok" -> record(answer.assemblies, reassembled)
               [] answer.error = "Ok" /\ answer.message = NoMessage ->
                    Buffered(answer.assemblies, reassembled)
               [] OTHER -> Dispatch(answer.message, from_assembled(answer.message, routing),
                                    answer.assemblies, reassembled)

AssemblerFrames(routing) ==
    {FirstFrame(k, meta, len, total, last, routing) :
        k \in Keys, meta \in {0, 1}, len \in FrameLengths, total \in Totals, last \in BOOLEAN}
    \cup {Continuation(k, seq, len, last) :
        k \in Keys, seq \in (0..MaxSequence) \cup {NoSequence}, len \in FrameLengths, last \in BOOLEAN}

\* decode_envelope and the header checks of reassemble_if_needed and
\* assemble_if_needed: bytes no stage can read are a counted failure.
ReadMalformed ==
    /\ ReadNext /\ record(assemblies, fragments)

\* A whole envelope.
ReadEnvelope(frame, routing) ==
    /\ ReadNext /\ AssembleIfNeeded(frame, routing, fragments)

\* A fragment: buffered, counted as a failure, fatal, or the last of its
\* envelope, whose payload then goes to the assembler.
ReadFragment(fr, frame, routing) ==
    /\ config.fragmentation /\ ReadNext
    /\ LET answer == push(fr)
       IN  CASE answer.error = "Aborts" ->
                  StreamReturns("error") /\ UNCHANGED <<deser_failures, reply, dispatched>>
             [] answer.error = "Counted" -> record(assemblies, answer.fragments)
             [] answer.error = "Ok" /\ ~answer.whole -> Buffered(assemblies, answer.fragments)
             [] OTHER -> AssembleIfNeeded(frame, routing, answer.fragments)

ReadFrame ==
    \/ ReadMalformed
    \/ \E routing \in Routings : \E frame \in AssemblerFrames(routing) :
        \/ ReadEnvelope(frame, routing)
        \/ \E id \in FragmentIds : ReadFragment(Fragment(id, TRUE, 1), frame, routing)
    \/ \E id \in FragmentIds, len \in {1, 2} :
        ReadFragment(Fragment(id, FALSE, len), NoMessage, NoReply.request)

\* The codec fails, or the peer closes the stream.
ReadEnds ==
    /\ phase = "read"
    /\ \E outcome \in {"ok", "error"} : StreamReturns(outcome)
    /\ UNCHANGED <<frames_left, deser_failures, reply, dispatched>>

\* No frame within read_timeout_ms.
ReadTimeout ==
    /\ phase = "read" /\ phase' = "pressure" /\ purge_expired
    /\ UNCHANGED <<config, state, result, teardowns, frames_left, deser_failures, outbound>>

-----------------------------------------------------------------------------
(* Sending the answer *)

\* send_envelope fails to serialize, to encode or to write: the rest of the
\* output is discarded and the connection ends.
SendFails ==
    /\ phase = "flush" /\ out # <<>>
    /\ StreamReturns("error")
    /\ UNCHANGED <<frames_left, deser_failures, reply, dispatched>>

\* send_envelope: one frame of the drained output.
SendEnvelope ==
    /\ phase = "flush" /\ out # <<>>
    /\ reply' = [reply EXCEPT !.sent = Append(@, Head(out))] /\ out' = Tail(out)
    /\ UNCHANGED <<config, lifecycle, frames_left, deser_failures, buffers, dispatched>>

\* flush_pipeline_output is done: back to the loop, with no answer pending.
Flushed ==
    /\ phase = "flush" /\ out = <<>> /\ phase' = "pressure" /\ reply' = NoReply
    /\ UNCHANGED <<config, state, result, teardowns, frames_left, deser_failures, buffers, out,
                   dispatched>>

-----------------------------------------------------------------------------
Aged(held) == [k \in DOMAIN held |->
    IF held[k].age < AssemblyTimeout THEN [held[k] EXCEPT !.age = @ + 1] ELSE held[k]]

\* Time passes for what is buffered.
Tick ==
    /\ <<Aged(assemblies), Aged(fragments)>> # buffers
    /\ assemblies' = Aged(assemblies) /\ fragments' = Aged(fragments)
    /\ UNCHANGED <<config, lifecycle, frames_left, deser_failures, outbound>>

Loop ==
    \/ Setup \/ AbortOnPressure \/ PauseOnPressure \/ ContinueReading \/ Resume
    \/ SendEnvelope \/ Flushed \/ Teardown

Next == Loop \/ ReadFrame \/ ReadEnds \/ ReadTimeout \/ SendFails \/ Tick

Spec == Init /\ [][Next]_vars
FairSpec == Spec /\ WF_vars(Loop) /\ WF_vars(ReadTimeout) /\ WF_vars(Tick)

-----------------------------------------------------------------------------
(* Properties *)

\* Whatever is accepted, refused, completed or purged, the message assemblies
\* of a connection hold no more than either aggregate budget
\* (check_aggregate_budgets on every frame that is buffered).
AssemblyBudgetsHold ==
    total_buffered_bytes(assemblies) <= active_aggregate_limit

\* A continuation the assembler refuses leaves no trace: each assembly is as
\* it was or gone with its bytes, although its series advances before the
\* admission checks run.
RefusedLeavesNoTrace ==
    [][deser_failures' > deser_failures =>
        \A k \in DOMAIN assemblies' :
            k \in DOMAIN assemblies /\ assemblies'[k] = assemblies[k]]_vars

Sequenced(body) == SelectSeq(body, LAMBDA frame : frame.seq # NoSequence)

\* A message handed to a handler has the length its first frame declared and
\* no gap, repetition or unnumbered frame among its numbered frames, however
\* the keys interleave and whatever was refused or purged in between.  The peer
\* reads whole answers only: when the loop goes on to the next frame every
\* frame of the answer was sent, and each carries the id and, if the request
\* has one, the correlation id of the request's first frame.
MessagesWhole ==
    /\ dispatched # NoMessage =>
        LET body == dispatched.body
            numbered == Sequenced(body)
            plain == Len(body) - Len(numbered)
        IN  /\ dispatched.total # NoTotal => BodyLen(body) = dispatched.total
            /\ \A i \in 1..Len(body) : body[i].seq = NoSequence <=> i <= plain
            /\ \A i \in 1..(Len(numbered) - 1) : numbered[i + 1].seq = numbered[i].seq + 1
    /\ phase \in {"pressure", "paused", "read"} => reply = NoReply
    /\ \A i \in 1..Len(reply.sent) :
        /\ reply.sent[i].id = reply.request.id
        /\ reply.request.corr # NoCorrelation => reply.sent[i].corr = reply.request.corr

\* A connection does not keep a partial message for ever: once the peer is
\* silent, read timeouts purge both layers.
PartialsPurged ==
    (DOMAIN assemblies # {} \/ DOMAIN fragments # {})
        ~> (DOMAIN assemblies = {} /\ DOMAIN fragments = {})
=============================================================================
