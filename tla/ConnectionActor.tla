--------------------------- MODULE ConnectionActor ---------------------------
(***************************************************************************)
(* The outbound connection actor of src/connection: one task that drains   *)
(* the high- and low-priority push queues and at most one active output    *)
(* (a streaming response or a multi-packet channel) into `out`, until all  *)
(* its sources are closed or shutdown is requested.                        *)
(*                                                                         *)
(* The biased select! of next_event polls its branches one after the other *)
(* while producers on other threads keep running, so each branch poll is a *)
(* step of its own (poll_at).  The handler run for the branch that is      *)
(* ready is one atomic step: it never awaits.                              *)
(*                                                                         *)
(* A frame is the name of the source it came from; a queue is its length.  *)
(***************************************************************************)
EXTENDS Integers, Sequences

CONSTANTS
    HighCap, LowCap, MultiCap, \* capacities of the three bounded channels
    MaxHighBeforeLow,          \* FairnessConfig::max_high_before_low
    HasTimeSlice,              \* FairnessConfig::time_slice is Some
    HasStreamEndFrame,         \* the stream_end_frame hook returns a frame
    MayFailToFragment,         \* a fragmenter is installed and may refuse a frame
    MaxRuns                    \* bound: how often the owner calls run()

ASSUME CapacityAssumption ==
    HighCap \in Nat \ {0} /\ LowCap \in Nat \ {0} /\ MultiCap \in Nat \ {0}
ASSUME FairnessAssumption == MaxHighBeforeLow \in Nat /\ HasTimeSlice \in BOOLEAN
ASSUME HookAssumption == HasStreamEndFrame \in BOOLEAN /\ MayFailToFragment \in BOOLEAN
ASSUME MaxRunsAssumption == MaxRuns \in Nat

VARIABLES
    phase,           \* where the owner of the actor is: see Phases
    runs,            \* calls of run() so far
    counter,         \* the actor still holds its ActiveConnection guard
    cancelled,       \* the shutdown token is cancelled
    handles,         \* some clone of the PushHandle is alive
    high_rx, low_rx, \* the receiver is Some
    rx_closed,       \* start_shutdown closed the push receivers
    high_q, low_q,   \* frames buffered in the push queues
    active_output,   \* ActiveOutput
    multi_q,         \* frames buffered in the multi-packet channel
    multi_tx,        \* a sender of the multi-packet channel is alive
    run_state, closed_sources, total_sources, \* ActorState
    high_counter,    \* FairnessTracker::high_counter, saturated at CounterCap
    slice_elapsed,   \* the time slice has passed since high_start
    poll_at,         \* the branch the select! polls next
    \* History variables: they only record what the handlers did.
    out,             \* frames appended by the latest handler, until the next poll
    command_ends,    \* on_command_end calls for the latest output
    bypass,          \* high frames sent since the low queue was empty or served
    reason,          \* the MultiPacketTerminationReason logged last
    absent           \* push receivers already None when run() began

lifecycle == <<phase, runs, counter>>
sources == <<handles, high_rx, low_rx, rx_closed, high_q, low_q>>
output == <<active_output, multi_q, multi_tx>>
actor_state == <<run_state, closed_sources, total_sources>>
fairness == <<high_counter, slice_elapsed>>
history == <<out, command_ends, bypass, reason>>
vars == <<lifecycle, cancelled, sources, output, actor_state, fairness, poll_at,
          history, absent>>

Phases == {"Idle", "Running", "Failed", "Dropped"}
Outputs == {"None", "Response", "MultiPacket"}
RunStates == {"Active", "ShuttingDown", "Finished"}
Reasons == {"None", "Drained", "Disconnected", "Shutdown"}
Branches == {"Shutdown", "High", "Low", "Output"}
FrameSources == {"High", "Low", "MultiPacket", "Response", "End"}
Frames == [src : FrameSources, stamped : BOOLEAN]
CounterCap == IF MaxHighBeforeLow = 0 THEN 1 ELSE MaxHighBeforeLow

-----------------------------------------------------------------------------
(* Frames and counters *)

Frame(src, stamped) == [src |-> src, stamped |-> stamped]

\* process_frame_with_hooks_and_metrics: the frame reaches `out`, unless the
\* fragmenter refuses it, which is logged and drops the frame.
Emitted(frame) == {<<frame>>} \cup (IF MayFailToFragment THEN {<<>>} ELSE {})

\* The optional terminator of the stream_end_frame hook.
EmittedEnd(stamped) ==
    IF HasStreamEndFrame THEN Emitted(Frame("End", stamped)) ELSE {<<>>}

\* emit_multi_packet_frame: stamped while a multi-packet context is installed.
StampingEnabled == active_output = "MultiPacket"

\* FairnessTracker::record_high_priority
RecordHighPriority == IF high_counter < CounterCap THEN high_counter + 1 ELSE high_counter

\* Mutant: the threshold is compared strictly.
ShouldYield_OffByOne(count) ==
    \/ MaxHighBeforeLow > 0 /\ count > MaxHighBeforeLow
    \/ HasTimeSlice /\ count > 0 /\ slice_elapsed

\* FairnessTracker::should_yield_to_low_priority
ShouldYield(count) ==
    \/ MaxHighBeforeLow > 0 /\ count >= MaxHighBeforeLow
    \/ HasTimeSlice /\ count > 0 /\ slice_elapsed

\* FairnessTracker::reset
ResetFairness == high_counter' = 0 /\ slice_elapsed' = FALSE

\* ActorState::mark_closed, called n times in one handler.
MarkClosed(n) ==
    /\ closed_sources' = closed_sources + n
    /\ run_state' = IF n > 0 /\ closed_sources + n >= total_sources
                    THEN "Finished" ELSE run_state
    /\ UNCHANGED total_sources

\* Receiver::recv: a frame, the end of a closed and empty channel, or pending.
PushRxClosed == rx_closed \/ ~handles
QueuePoll(len, closed) == IF len > 0 THEN "Frame" ELSE IF closed THEN "Closed" ELSE "Empty"
HighPoll == IF high_rx THEN QueuePoll(high_q, PushRxClosed) ELSE "Empty"
LowPoll == IF low_rx THEN QueuePoll(low_q, PushRxClosed) ELSE "Empty"
MultiPoll == IF active_output = "MultiPacket" THEN QueuePoll(multi_q, ~multi_tx) ELSE "Empty"

-----------------------------------------------------------------------------
(* The owner of the actor: construction, set_*, run() and drop.  run() holds *)
(* the actor mutably, so none of these happens while it runs.               *)

Init ==
    /\ phase = "Idle" /\ runs = 0 /\ counter = TRUE
    /\ cancelled = FALSE
    /\ handles = TRUE /\ high_rx = TRUE /\ low_rx = TRUE /\ rx_closed = FALSE
    /\ high_q = 0 /\ low_q = 0
    /\ active_output \in {"None", "Response"} /\ multi_q = 0 /\ multi_tx = FALSE
    /\ run_state = "Active" /\ closed_sources = 1 /\ total_sources = 3
    /\ high_counter = 0 /\ slice_elapsed = FALSE
    /\ poll_at = "Shutdown"
    /\ out = <<>> /\ command_ends = 0 /\ bypass = 0 /\ reason = "None"
    /\ absent = 0

\* set_response: refused while a multi-packet channel is installed.
SetResponse ==
    /\ phase \in {"Idle", "Failed"}
    /\ active_output # "MultiPacket"
    /\ active_output' \in {"None", "Response"}
    /\ command_ends' = 0
    /\ UNCHANGED <<lifecycle, cancelled, sources, multi_q, multi_tx, actor_state, fairness,
                   poll_at, out, bypass, reason, absent>>

\* set_multi_packet_with_correlation: refused while a response is installed.
SetMultiPacket ==
    /\ phase \in {"Idle", "Failed"}
    /\ active_output # "Response"
    /\ active_output' \in {"None", "MultiPacket"}
    /\ multi_q' = 0 /\ multi_tx' = (active_output' = "MultiPacket")
    /\ command_ends' = 0
    /\ UNCHANGED <<lifecycle, cancelled, sources, actor_state, fairness, poll_at, out, bypass,
                   reason, absent>>

Missing == (IF high_rx THEN 0 ELSE 1) + (IF low_rx THEN 0 ELSE 1)

\* run, up to its loop: a token that is already cancelled ends it at once.
RunStart ==
    /\ phase \in {"Idle", "Failed"} /\ runs < MaxRuns
    /\ runs' = runs + 1
    /\ \/ /\ cancelled
          /\ phase' = "Idle" /\ counter' = FALSE
          /\ UNCHANGED <<actor_state, poll_at, absent>>
       \/ /\ ~cancelled
          /\ phase' = "Running"
          /\ run_state' = "Active" /\ closed_sources' = 1
          /\ total_sources' = 3 + (IF active_output = "None" THEN 0 ELSE 1)
          /\ poll_at' = "Shutdown"
          /\ absent' = Missing
          /\ UNCHANGED counter
    /\ UNCHANGED <<cancelled, sources, output, fairness, history>>

\* run, after its loop.
RunReturn ==
    /\ phase = "Running" /\ run_state = "Finished"
    /\ phase' = "Idle" /\ counter' = FALSE
    /\ UNCHANGED <<runs, cancelled, sources, output, actor_state, fairness, poll_at, history,
                   absent>>

\* The actor is dropped: its guard and its receivers go with it.
DropActor ==
    /\ phase \in {"Idle", "Failed"} /\ runs > 0
    /\ phase' = "Dropped" /\ counter' = FALSE
    /\ high_rx' = FALSE /\ low_rx' = FALSE /\ high_q' = 0 /\ low_q' = 0
    /\ active_output' = "None" /\ multi_q' = 0
    /\ UNCHANGED <<runs, cancelled, handles, rx_closed, multi_tx, actor_state, fairness, poll_at,
                   history, absent>>

-----------------------------------------------------------------------------
(* Other tasks: producers, the supervisor and the clock *)

\* A push through some PushHandle; PushQueues models the handle itself.
PushHigh ==
    /\ high_rx /\ ~PushRxClosed /\ high_q < HighCap
    /\ high_q' = high_q + 1
    /\ UNCHANGED <<lifecycle, cancelled, handles, high_rx, low_rx, rx_closed, low_q, output,
                   actor_state, fairness, poll_at, history, absent>>

PushLow ==
    /\ low_rx /\ ~PushRxClosed /\ low_q < LowCap
    /\ low_q' = low_q + 1
    /\ UNCHANGED <<lifecycle, cancelled, handles, high_rx, low_rx, rx_closed, high_q, output,
                   actor_state, fairness, poll_at, history, absent>>

SendMulti ==
    /\ active_output = "MultiPacket" /\ multi_tx /\ multi_q < MultiCap
    /\ multi_q' = multi_q + 1
    /\ UNCHANGED <<lifecycle, cancelled, sources, active_output, multi_tx, actor_state, fairness,
                   poll_at, history, absent>>

\* The last clone of the PushHandle, which owns both senders, is dropped.
DropHandles ==
    /\ handles /\ handles' = FALSE
    /\ UNCHANGED <<lifecycle, cancelled, high_rx, low_rx, rx_closed, high_q, low_q, output,
                   actor_state, fairness, poll_at, history, absent>>

DropMultiSender ==
    /\ multi_tx /\ multi_tx' = FALSE
    /\ UNCHANGED <<lifecycle, cancelled, sources, active_output, multi_q, actor_state, fairness,
                   poll_at, history, absent>>

Cancel ==
    /\ ~cancelled /\ cancelled' = TRUE
    /\ UNCHANGED <<lifecycle, sources, output, actor_state, fairness, poll_at, history, absent>>

SliceElapses ==
    /\ HasTimeSlice /\ high_counter > 0 /\ ~slice_elapsed
    /\ slice_elapsed' = TRUE
    /\ UNCHANGED <<lifecycle, cancelled, sources, output, actor_state, high_counter, poll_at,
                   history, absent>>

-----------------------------------------------------------------------------
(* run's loop: one poll of a select! branch per step, in the biased order *)

Polling(branch) == phase = "Running" /\ run_state # "Finished" /\ poll_at = branch

\* Every guard of the select! is false, so it takes its else branch.
AllBranchesDisabled ==
    /\ run_state = "ShuttingDown"
    /\ ~high_rx /\ ~low_rx

\* available_output: no output is polled once shutdown has begun.
AvailableOutput == IF run_state = "ShuttingDown" THEN "None" ELSE active_output

\* Event::Idle: nothing happens and the loop polls again.
PollIdle ==
    /\ Polling("Shutdown") /\ AllBranchesDisabled
    /\ UNCHANGED vars

NextBranch(branch) ==
    /\ poll_at' = branch /\ out' = <<>>
    /\ UNCHANGED <<lifecycle, cancelled, sources, output, actor_state, fairness, command_ends, reason,
                   bypass, absent>>

ShutdownPending ==
    /\ Polling("Shutdown")
    /\ ~AllBranchesDisabled
    /\ ~(run_state = "Active" /\ cancelled)
    /\ NextBranch("High")
HighPending == Polling("High") /\ HighPoll = "Empty" /\ NextBranch("Low")
LowPending == Polling("Low") /\ LowPoll = "Empty" /\ NextBranch("Output")
\* No branch is ready: the task parks and a wake-up starts the next poll.
OutputPending ==
    /\ Polling("Output")
    /\ AvailableOutput = "MultiPacket" => MultiPoll = "Empty"
    /\ NextBranch("Shutdown")

\* What a handler never touches, and the start of the next loop iteration.
Handled ==
    /\ poll_at' = "Shutdown"
    /\ UNCHANGED <<runs, counter, cancelled, handles, absent>>

\* Mutant: shutdown leaves the push receivers open.
ProcessShutdown_LeavesReceiversOpen ==
    /\ Polling("Shutdown") /\ run_state = "Active" /\ cancelled
    /\ active_output' = "None" /\ multi_q' = 0
    /\ IF active_output = "MultiPacket"
       THEN command_ends' = command_ends + 1 /\ reason' = "Shutdown"
       ELSE UNCHANGED <<command_ends, reason>>
    /\ closed_sources' = IF active_output = "None" THEN closed_sources ELSE closed_sources + 1
    /\ run_state' = IF active_output # "None" /\ closed_sources + 1 >= total_sources
                    THEN "Finished" ELSE "ShuttingDown"
    /\ out' = <<>>
    /\ Handled
    /\ UNCHANGED <<phase, high_rx, low_rx, rx_closed, high_q, low_q, multi_tx, total_sources,
                   fairness, bypass>>

\* process_shutdown
ProcessShutdown ==
    /\ Polling("Shutdown") /\ run_state = "Active" /\ cancelled
    /\ rx_closed' = TRUE
    /\ active_output' = "None" /\ multi_q' = 0
    /\ IF active_output = "MultiPacket"
       THEN command_ends' = command_ends + 1 /\ reason' = "Shutdown"
       ELSE UNCHANGED <<command_ends, reason>>
    /\ closed_sources' = IF active_output = "None" THEN closed_sources ELSE closed_sources + 1
    /\ run_state' = IF active_output # "None" /\ closed_sources + 1 >= total_sources
                    THEN "Finished" ELSE "ShuttingDown"
    /\ out' = <<>>
    /\ Handled
    /\ UNCHANGED <<phase, high_rx, low_rx, high_q, low_q, multi_tx, total_sources, fairness,
                   bypass>>

\* Mutant: the context is cleared before the terminator is emitted.
MultiPacketClosed_ClearsFirst(before, why) ==
    /\ \E end \in EmittedEnd(FALSE) : out' = before \o end
    /\ active_output' = "None" /\ multi_q' = 0
    /\ command_ends' = command_ends + 1 /\ reason' = why

\* handle_multi_packet_closed, without its mark_closed: the terminator is
\* stamped because the context is cleared only after it is emitted.
MultiPacketClosed(before, why) ==
    /\ \E end \in EmittedEnd(StampingEnabled) : out' = before \o end
    /\ active_output' = "None" /\ multi_q' = 0
    /\ command_ends' = command_ends + 1 /\ reason' = why

\* One frame of the multi-packet channel.
MultiPacketFrame(before) ==
    /\ \E frame \in Emitted(Frame("MultiPacket", StampingEnabled)) : out' = before \o frame
    /\ multi_q' = multi_q - 1
    /\ UNCHANGED <<active_output, command_ends, reason>>

\* after_high when fairness does not ask for a yield.
KeepPriority(before) ==
    /\ ~ShouldYield(RecordHighPriority)
    /\ high_counter' = RecordHighPriority
    /\ bypass' = IF low_q > 0 THEN bypass + 1 ELSE 0
    /\ out' = before
    /\ MarkClosed(0)
    /\ UNCHANGED <<low_rx, low_q, active_output, multi_q, command_ends, reason, slice_elapsed>>

\* Mutant: the frame taken from the low queue is not processed.
YieldToLow_LosesFrame(before) ==
    /\ ShouldYield(RecordHighPriority) /\ LowPoll = "Frame"
    /\ out' = before
    /\ low_q' = low_q - 1 /\ bypass' = 0
    /\ ResetFairness
    /\ MarkClosed(0)
    /\ UNCHANGED <<low_rx, active_output, multi_q, command_ends, reason>>

\* try_opportunistic_low_drain finds a frame.
YieldToLow(before) ==
    /\ ShouldYield(RecordHighPriority) /\ LowPoll = "Frame"
    /\ \E frame \in Emitted(Frame("Low", FALSE)) : out' = before \o frame
    /\ low_q' = low_q - 1 /\ bypass' = 0
    /\ ResetFairness
    /\ MarkClosed(0)
    /\ UNCHANGED <<low_rx, active_output, multi_q, command_ends, reason>>

\* Mutant: the disconnected low receiver is dropped without mark_closed.
YieldToMulti_ForgetsLowClosure(before) ==
    /\ ShouldYield(RecordHighPriority) /\ LowPoll # "Frame"
    /\ low_rx' = (low_rx /\ LowPoll # "Closed")
    /\ \/ /\ MultiPoll = "Frame" /\ MultiPacketFrame(before)
          /\ ResetFairness
          /\ MarkClosed(0)
       \/ /\ MultiPoll = "Closed" /\ MultiPacketClosed(before, "Disconnected")
          /\ IF HasStreamEndFrame THEN ResetFairness
             ELSE high_counter' = RecordHighPriority /\ UNCHANGED slice_elapsed
          /\ MarkClosed(1)
       \/ /\ MultiPoll = "Empty" /\ out' = before
          /\ high_counter' = RecordHighPriority
          /\ MarkClosed(0)
          /\ UNCHANGED <<active_output, multi_q, command_ends, reason, slice_elapsed>>
    /\ bypass' = 0
    /\ UNCHANGED low_q

\* try_opportunistic_low_drain finds none, perhaps because the queue is
\* disconnected; try_opportunistic_multi_drain is tried next.
YieldToMulti(before) ==
    /\ ShouldYield(RecordHighPriority) /\ LowPoll # "Frame"
    /\ low_rx' = (low_rx /\ LowPoll # "Closed")
    /\ LET lowClosed == IF LowPoll = "Closed" THEN 1 ELSE 0
       IN  \/ /\ MultiPoll = "Frame" /\ MultiPacketFrame(before)
              /\ ResetFairness
              /\ MarkClosed(lowClosed)
           \/ /\ MultiPoll = "Closed" /\ MultiPacketClosed(before, "Disconnected")
              /\ IF HasStreamEndFrame THEN ResetFairness
                 ELSE high_counter' = RecordHighPriority /\ UNCHANGED slice_elapsed
              /\ MarkClosed(lowClosed + 1)
           \/ /\ MultiPoll = "Empty" /\ out' = before
              /\ high_counter' = RecordHighPriority
              /\ MarkClosed(lowClosed)
              /\ UNCHANGED <<active_output, multi_q, command_ends, reason, slice_elapsed>>
    /\ bypass' = 0
    /\ UNCHANGED low_q

\* process_high with a frame, and after_high
ProcessHigh ==
    /\ Polling("High") /\ HighPoll = "Frame"
    /\ high_q' = high_q - 1
    /\ \E frame \in Emitted(Frame("High", FALSE)) :
          KeepPriority(frame) \/ YieldToLow(frame) \/ YieldToMulti(frame)
    /\ Handled
    /\ UNCHANGED <<phase, high_rx, rx_closed, multi_tx>>

\* process_high with None
HighClosed ==
    /\ Polling("High") /\ HighPoll = "Closed"
    /\ high_rx' = FALSE
    /\ MarkClosed(1)
    /\ ResetFairness
    /\ out' = <<>>
    /\ Handled
    /\ UNCHANGED <<phase, low_rx, rx_closed, high_q, low_q, output, command_ends, reason, bypass>>

\* process_low with a frame
ProcessLow ==
    /\ Polling("Low") /\ LowPoll = "Frame"
    /\ low_q' = low_q - 1 /\ bypass' = 0
    /\ out' \in Emitted(Frame("Low", FALSE))
    /\ ResetFairness
    /\ Handled
    /\ UNCHANGED <<phase, high_rx, low_rx, rx_closed, high_q, output, actor_state, command_ends, reason>>

\* process_low with None
LowClosed ==
    /\ Polling("Low") /\ LowPoll = "Closed"
    /\ low_rx' = FALSE
    /\ MarkClosed(1)
    /\ out' = <<>>
    /\ Handled
    /\ UNCHANGED <<phase, high_rx, rx_closed, high_q, low_q, output, fairness, command_ends, reason,
                   bypass>>

\* process_multi_packet with a frame
ProcessMultiPacket ==
    /\ Polling("Output") /\ AvailableOutput = "MultiPacket" /\ MultiPoll = "Frame"
    /\ MultiPacketFrame(<<>>)
    /\ ResetFairness
    /\ Handled
    /\ UNCHANGED <<phase, high_rx, low_rx, rx_closed, high_q, low_q, multi_tx, actor_state, bypass>>

\* process_multi_packet with None
ProcessMultiPacketClosed ==
    /\ Polling("Output") /\ AvailableOutput = "MultiPacket" /\ MultiPoll = "Closed"
    /\ MultiPacketClosed(<<>>, "Drained")
    /\ MarkClosed(1)
    /\ IF HasStreamEndFrame THEN ResetFairness ELSE UNCHANGED fairness
    /\ Handled
    /\ UNCHANGED <<phase, high_rx, low_rx, rx_closed, high_q, low_q, multi_tx, bypass>>

\* process_response: the stream yields a frame
ResponseFrame ==
    /\ Polling("Output") /\ AvailableOutput = "Response"
    /\ out' \in Emitted(Frame("Response", FALSE))
    /\ ResetFairness
    /\ Handled
    /\ UNCHANGED <<phase, high_rx, low_rx, rx_closed, high_q, low_q, output, actor_state,
                   command_ends, reason, bypass>>

\* process_response: the stream ends
ResponseEnd ==
    /\ Polling("Output") /\ AvailableOutput = "Response"
    /\ MarkClosed(1)
    /\ out' \in EmittedEnd(FALSE)
    /\ IF HasStreamEndFrame THEN ResetFairness ELSE UNCHANGED fairness
    /\ active_output' = "None" /\ command_ends' = command_ends + 1
    /\ Handled
    /\ UNCHANGED <<phase, high_rx, low_rx, rx_closed, high_q, low_q, multi_q, multi_tx, reason, bypass>>

\* process_response: the stream yields a protocol error
ResponseProtocolError ==
    /\ Polling("Output") /\ AvailableOutput = "Response"
    /\ MarkClosed(1)
    /\ out' = <<>>
    /\ active_output' = "None" /\ command_ends' = command_ends + 1
    /\ Handled
    /\ UNCHANGED <<phase, high_rx, low_rx, rx_closed, high_q, low_q, multi_q, multi_tx, reason, fairness,
                   bypass>>

\* process_response: any other error leaves run() with the stream installed.
ResponseIoError ==
    /\ Polling("Output") /\ AvailableOutput = "Response"
    /\ phase' = "Failed"
    /\ out' = <<>>
    /\ Handled
    /\ UNCHANGED <<high_rx, low_rx, rx_closed, high_q, low_q, output, actor_state, fairness,
                   command_ends, reason, bypass>>

PollStep == ShutdownPending \/ HighPending \/ LowPending \/ OutputPending \/ PollIdle
HandlerStep ==
    \/ ProcessShutdown
    \/ ProcessHigh \/ HighClosed
    \/ ProcessLow \/ LowClosed
    \/ ProcessMultiPacket \/ ProcessMultiPacketClosed
    \/ ResponseFrame \/ ResponseEnd \/ ResponseProtocolError \/ ResponseIoError
OwnerStep == SetResponse \/ SetMultiPacket \/ RunStart \/ DropActor
Environment ==
    \/ PushHigh \/ PushLow \/ SendMulti
    \/ DropHandles \/ DropMultiSender
    \/ Cancel \/ SliceElapses

\* The steps the runtime owes a task that has been polled or woken.
ActorStep == PollStep \/ HandlerStep \/ RunReturn

Next == OwnerStep \/ ActorStep \/ Environment

Spec == Init /\ [][Next]_vars
FairSpec == Spec /\ WF_vars(ActorStep)

-----------------------------------------------------------------------------
(* Properties *)

\* Every variable stays in its type; in particular a queue never exceeds the
\* capacity its channel was built with.
TypeOK ==
    /\ phase \in Phases /\ runs \in 0..MaxRuns /\ counter \in BOOLEAN
    /\ cancelled \in BOOLEAN /\ handles \in BOOLEAN
    /\ high_rx \in BOOLEAN /\ low_rx \in BOOLEAN /\ rx_closed \in BOOLEAN
    /\ high_q \in 0..HighCap /\ low_q \in 0..LowCap /\ multi_q \in 0..MultiCap
    /\ active_output \in Outputs /\ multi_tx \in BOOLEAN
    /\ run_state \in RunStates /\ closed_sources \in Nat /\ total_sources \in Nat
    /\ high_counter \in 0..CounterCap /\ slice_elapsed \in BOOLEAN
    /\ poll_at \in Branches
    /\ out \in Seq(Frames) /\ command_ends \in Nat /\ bypass \in Nat
    /\ reason \in Reasons /\ absent \in 0..2

OpenSources ==
    (IF high_rx THEN 1 ELSE 0) + (IF low_rx THEN 1 ELSE 0)
        + (IF active_output = "None" THEN 0 ELSE 1)

\* The closure count of ActorState is exact: while run() loops, the closures
\* counted, the sources still open and the receivers that were missing from the
\* start add up to total_sources.  No source is closed twice or forgotten,
\* whichever of the drain, opportunistic-drain, error and shutdown paths closes
\* it.
SourceAccounting ==
    phase = "Running" => closed_sources + OpenSources + absent = total_sources

\* When both push receivers were present at the start, run() is finished exactly
\* when no source is open: it neither returns over an open source nor loops on
\* the Idle event with every select! branch disabled.
FinishedIffExhausted ==
    phase = "Running" /\ absent = 0 => (run_state = "Finished" <=> OpenSources = 0)

\* on_command_end is called at most once for an installed output, and never
\* while that output is still installed.
CommandEndsOnce ==
    /\ command_ends <= 1
    /\ active_output # "None" => command_ends = 0

\* A correlation stamp goes on every frame of a multi-packet channel and on its
\* terminator, and on no other frame.
StampsAreCoherent ==
    [][\A i \in DOMAIN out' :
          out' # out => (out'[i].stamped <=> active_output = "MultiPacket"
                                             /\ out'[i].src \in {"MultiPacket", "End"})]_vars

\* What the peer and the hooks see of a command is well formed: it ends once
\* (CommandEndsOnce), and its frames are stamped up to and including the
\* terminator that is emitted while the channel is taken down.
CommandsWellFormed == []CommandEndsOnce /\ StampsAreCoherent

\* Bounded bypass: with a threshold configured, fewer than max_high_before_low
\* high frames go ahead of a waiting low frame, however the producers, the other
\* outputs and the fairness resets interleave.
LowBypassBounded == MaxHighBeforeLow > 0 => bypass < MaxHighBeforeLow

LowServed == \E i \in DOMAIN out : out[i].src = "Low"

\* A buffered low frame does not wait for ever while run() loops, even if high
\* frames never stop coming.
LowEventuallyServed ==
    phase = "Running" /\ low_q > 0 ~> LowServed \/ phase # "Running"

\* After cancellation run() returns, whatever the producers and streams do.
CancelTerminates == phase = "Running" /\ cancelled ~> phase # "Running"

\* A run() that started with both push receivers returns: after cancellation,
\* whatever the producers and streams do, and without one once all senders are
\* gone and no output is installed.
RunReturns ==
    /\ phase = "Running" /\ absent = 0 /\ cancelled ~> phase # "Running"
    /\ phase = "Running" /\ absent = 0 /\ ~handles /\ active_output = "None"
        ~> phase # "Running"
=============================================================================
