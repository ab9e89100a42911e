--------------------------- MODULE FragmentSizes ----------------------------
(***************************************************************************)
(* The sizes of the transport fragmentation: what a FragmentationConfig    *)
(* derived from a frame budget allows, and how long the frame that carries *)
(* a fragment becomes (src/fragment, src/app/builder_defaults.rs).         *)
(*                                                                         *)
(* An integer is serialized by bincode's standard configuration, one to    *)
(* nine bytes long; an identifier is represented by its encoded width.     *)
(***************************************************************************)
EXTENDS Integers, FiniteSetsExt

\* MIN_FRAME_LENGTH and MAX_FRAME_LENGTH.
MinFrameLength == 64
MaxFrameLength == 16 * 1024 * 1024

clamp_frame_length(value) ==
    CASE value < MinFrameLength -> MinFrameLength
      [] value > MaxFrameLength -> MaxFrameLength
      [] OTHER -> value

\* Encoded width of a length that is a number of the model, and the widths a
\* u32 and a u64 can take.
varint(n) == IF n < 251 THEN 1 ELSE IF n < 65536 THEN 3 ELSE 5
Widths32 == {1, 3, 5}
Widths64 == {1, 3, 5, 9}

FragmentMagicLength == 4
HeaderLengthPrefix == 2

\* The bincode encoding of a FragmentHeader: message id, index, last flag.
HeaderBytes(id, index) == id + index + 1

\* fragment_overhead: measured on the header whose fields are all zero.
fragment_overhead == FragmentMagicLength + HeaderLengthPrefix + HeaderBytes(1, 1)

EnvelopeGuardBytes == 32
DefaultMaxConcurrentPartials == 64
DefaultFragmentBufferedBytesMultiplier == 64

NoFragmentation == [fragment_payload_cap |-> 0]


\* FragmentationConfig::for_frame_budget, None when nothing is left.
for_frame_budget(frame_budget, max_message_size) ==
    IF frame_budget <= fragment_overhead + EnvelopeGuardBytes THEN NoFragmentation
    ELSE [fragment_payload_cap |-> frame_budget - (fragment_overhead + EnvelopeGuardBytes),
          max_message_size |-> max_message_size,
          max_concurrent_partials |-> Min({frame_budget, DefaultMaxConcurrentPartials}),
          max_buffered_bytes |->
              Max({frame_budget * DefaultFragmentBufferedBytesMultiplier, max_message_size})]

\* default_fragmentation: sixteen frames to a message.
default_fragmentation(frame_budget) ==
    LET clamped == clamp_frame_length(frame_budget)
    IN  for_frame_budget(clamped, clamped * 16)

\* default_memory_budgets, with derive_budget of each multiplier.
default_memory_budgets(frame_budget) ==
    LET clamped == clamp_frame_length(frame_budget)
    IN  [per_message |-> clamped * 16, per_connection |-> clamped * 64,
         in_flight |-> clamped * 64]

\* Lengths of the chunks fragment_bytes cuts a payload into.
ChunkLengths(length, cap) ==
    IF length = 0 THEN {0}
    ELSE {IF length > cap THEN cap ELSE length}
         \cup (IF length % cap = 0 THEN {} ELSE {length % cap})

\* encode_fragment_payload: magic, header length, header, chunk.
encode_fragment_payload(id, index, length) ==
    FragmentMagicLength + HeaderLengthPrefix + HeaderBytes(id, index) + length

\* The bincode encoding of an Envelope: id, correlation id, payload.
EnvelopeBytes(id, corr, length) == id + 1 + corr + varint(length) + length

\* fragment_packet: the payload lengths of the envelopes a packet becomes; a
\* payload of one chunk stays as it is.  The index of the first chunk encodes
\* in one byte, that of a later one in up to five.
fragment_packet(config, length, id) ==
    IF config = NoFragmentation \/ length <= config.fragment_payload_cap THEN {length}
    ELSE {encode_fragment_payload(id, index, chunk) :
            index \in Widths32, chunk \in ChunkLengths(length, config.fragment_payload_cap)}
=============================================================================
