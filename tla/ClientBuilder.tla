---------------------------- MODULE ClientBuilder ----------------------------
(***************************************************************************)
(* WireframeClientBuilder: the configuration a client is connected with.   *)
(* Every builder method takes the builder by value and returns the next    *)
(* one, so a method is an operator from builder to builder.  Handlers are  *)
(* abstracted to whether one is registered, request hooks to the sequence  *)
(* of their names; spans and timing flags are left out.                    *)
(***************************************************************************)
EXTENDS Integers, Sequences, SequencesExt

CONSTANTS
    MinFrameLength,   \* MIN_FRAME_LENGTH
    MaxFrameLength,   \* MAX_FRAME_LENGTH
    DefaultFrameLength \* DEFAULT_MAX_FRAME_LENGTH

ASSUME FrameLengthsAssumption ==
    /\ MinFrameLength \in Nat /\ MaxFrameLength \in Nat
    /\ DefaultFrameLength \in MinFrameLength..MaxFrameLength

Unset == "unset"

NoPreamble == [set |-> FALSE, on_success |-> FALSE, on_failure |-> FALSE,
               timeout |-> FALSE]

\* The order in which SocketOptions::apply sets the options on the socket.
OptionOrder == <<"nodelay", "keepalive", "send_buffer_size",
                 "recv_buffer_size", "reuseaddr", "reuseport">>

NoOptions == [option \in Range(OptionOrder) |-> Unset]

\* LifecycleHooks::default
NoHooks == [connect |-> FALSE, disconnect |-> FALSE, error |-> FALSE]

\* WireframeClientBuilder::new
new == [serializer       |-> "bincode",
        max_frame_length |-> DefaultFrameLength,
        socket_options   |-> NoOptions,
        preamble_config  |-> NoPreamble,
        lifecycle_hooks  |-> NoHooks,
        before_send      |-> <<>>,
        after_receive    |-> <<>>]

\* serializer: swaps the serializer and keeps every other field.
serializer(b, s) == [b EXCEPT !.serializer = s]

\* ClientCodecConfig::max_frame_length clamps the requested length.
max_frame_length(b, requested) ==
    [b EXCEPT !.max_frame_length =
        IF requested < MinFrameLength THEN MinFrameLength
        ELSE IF requested > MaxFrameLength THEN MaxFrameLength ELSE requested]

\* nodelay, keepalive, ...: one field of SocketOptions.
socket_option(b, option, value) ==
    [b EXCEPT !.socket_options[option] = value]

\* SocketOptions::apply: the options that are set, in order; the first one
\* the operating system refuses ends the application with its error.
apply(options, refused) ==
    LET wanted == SelectSeq(OptionOrder, LAMBDA o : options[o] # Unset)
        bad    == {i \in DOMAIN wanted : wanted[i] \in refused}
    IN  [ok |-> bad = {},
         applied |-> {wanted[i] : i \in {j \in DOMAIN wanted :
                                            \A k \in bad : j < k}}]

\* with_preamble: a fresh PreambleConfig, whatever was configured before.
with_preamble(b) ==
    [b EXCEPT !.preamble_config = [NoPreamble EXCEPT !.set = TRUE]]

\* preamble_timeout, on_preamble_success, on_preamble_failure: nothing
\* happens when no preamble has been configured yet.
preamble_timeout(b) ==
    [b EXCEPT !.preamble_config.timeout = b.preamble_config.set]

on_preamble_success(b) ==
    [b EXCEPT !.preamble_config.on_success = b.preamble_config.set]

on_preamble_failure(b) ==
    [b EXCEPT !.preamble_config.on_failure = b.preamble_config.set]

\* on_connection_setup: the teardown handler took the old state type, so it
\* is dropped; the error hook stays.
on_connection_setup(b) ==
    [b EXCEPT !.lifecycle_hooks = [connect    |-> TRUE,
                                   disconnect |-> FALSE,
                                   error      |-> b.lifecycle_hooks.error]]

on_connection_teardown(b) == [b EXCEPT !.lifecycle_hooks.disconnect = TRUE]

on_error(b) == [b EXCEPT !.lifecycle_hooks.error = TRUE]

\* before_send, after_receive: hooks run in the order of registration.
before_send(b, hook) == [b EXCEPT !.before_send = Append(@, hook)]

after_receive(b, hook) == [b EXCEPT !.after_receive = Append(@, hook)]
=============================================================================
