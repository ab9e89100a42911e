------------------------ MODULE ConnectionActorProofs ------------------------
(***************************************************************************)
(* Proofs, for all capacities, thresholds and hook choices, that the       *)
(* connection actor is type correct, counts its source closures exactly,   *)
(* ends every command at most once and bounds the bypass of low frames.    *)
(***************************************************************************)
EXTENDS ConnectionActor, TLAPS

USE CapacityAssumption, FairnessAssumption, MaxRunsAssumption

\* Whatever process_frame_with_hooks_and_metrics appends is a sequence of frames.
LEMMA EmittedType ==
    ASSUME NEW frame \in Frames
    PROVE  Emitted(frame) \subseteq Seq(Frames)
<1>1. <<frame>> \in Seq(Frames)
  OBVIOUS
<1>2. <<>> \in Seq(Frames)
  OBVIOUS
<1>3. QED
  BY <1>1, <1>2 DEF Emitted

\* The terminator, when there is one, is a frame.
LEMMA EmittedEndType ==
    ASSUME NEW stamped \in BOOLEAN
    PROVE  EmittedEnd(stamped) \subseteq Seq(Frames)
<1>1. Frame("End", stamped) \in Frames
  BY DEF Frame, Frames, FrameSources
<1>2. QED
  <2>1. {<<>>} \subseteq Seq(Frames)
    OBVIOUS
  <2>2. QED
    BY <1>1, <2>1, EmittedType DEF EmittedEnd

\* The counter of the fairness tracker stays within its saturation bound.
LEMMA RecordHighPriorityType ==
    ASSUME high_counter \in 0..CounterCap
    PROVE  RecordHighPriority \in 0..CounterCap
BY DEF RecordHighPriority, CounterCap

\* mark_closed keeps the ActorState well typed.
LEMMA MarkClosedType ==
    ASSUME NEW n \in Nat, MarkClosed(n), run_state \in RunStates, closed_sources \in Nat,
           total_sources \in Nat
    PROVE  run_state' \in RunStates /\ closed_sources' \in Nat /\ total_sources' \in Nat
BY DEF MarkClosed, RunStates

-----------------------------------------------------------------------------
(* Type correctness *)

LEMMA OwnerStepType == TypeOK /\ OwnerStep => TypeOK'
<1> SUFFICES ASSUME TypeOK, OwnerStep PROVE TypeOK'
  OBVIOUS
<1> USE DEF TypeOK, Phases, Outputs, RunStates, Branches, lifecycle, sources, output,
        actor_state, fairness, history
<1>1. CASE SetResponse
  BY <1>1 DEF SetResponse
<1>2. CASE SetMultiPacket
  BY <1>2 DEF SetMultiPacket
<1>3. CASE RunStart
  <2>1. Missing \in 0..2
    BY DEF Missing
  <2>2. absent' \in 0..2
    BY <1>3, <2>1 DEF RunStart
  <2>3. runs' \in 0..MaxRuns
    BY <1>3 DEF RunStart
  <2>4. run_state' \in RunStates /\ closed_sources' \in Nat /\ total_sources' \in Nat
    BY <1>3 DEF RunStart
  <2>5. phase' \in Phases /\ counter' \in BOOLEAN /\ poll_at' \in Branches
    BY <1>3 DEF RunStart
  <2>6. QED
    BY <1>3, <2>2, <2>3, <2>4, <2>5 DEF RunStart
<1>4. CASE DropActor
  <2>1. 0 \in 0..HighCap /\ 0 \in 0..LowCap /\ 0 \in 0..MultiCap
    OBVIOUS
  <2>2. QED
    BY <1>4, <2>1 DEF DropActor
<1>5. QED
  BY <1>1, <1>2, <1>3, <1>4 DEF OwnerStep

LEMMA EnvironmentType == TypeOK /\ Environment => TypeOK'
<1> SUFFICES ASSUME TypeOK, Environment PROVE TypeOK'
  OBVIOUS
<1> USE DEF TypeOK, lifecycle, sources, output, actor_state, fairness, history
<1>1. CASE PushHigh
  BY <1>1 DEF PushHigh
<1>2. CASE PushLow
  BY <1>2 DEF PushLow
<1>3. CASE SendMulti
  BY <1>3 DEF SendMulti
<1>4. CASE DropHandles
  BY <1>4 DEF DropHandles
<1>5. CASE DropMultiSender
  BY <1>5 DEF DropMultiSender
<1>6. CASE Cancel
  BY <1>6 DEF Cancel
<1>7. CASE SliceElapses
  BY <1>7 DEF SliceElapses
<1>8. QED
  BY <1>1, <1>2, <1>3, <1>4, <1>5, <1>6, <1>7 DEF Environment

LEMMA PollStepType == TypeOK /\ (PollStep \/ RunReturn) => TypeOK'
<1> SUFFICES ASSUME TypeOK, PollStep \/ RunReturn PROVE TypeOK'
  OBVIOUS
<1>1. CASE PollIdle
  BY <1>1 DEF PollIdle, vars, TypeOK, lifecycle, sources, output, actor_state, fairness, history
<1>2. CASE RunReturn
  BY <1>2 DEF RunReturn, TypeOK, Phases, lifecycle, sources, output, actor_state, fairness,
              history
<1>3. CASE ShutdownPending \/ HighPending \/ LowPending \/ OutputPending
  <2>1. \E branch \in Branches : NextBranch(branch)
    BY <1>3 DEF ShutdownPending, HighPending, LowPending, OutputPending, Branches
  <2>2. PICK branch \in Branches : NextBranch(branch)
    BY <2>1
  <2>3. QED
    BY <2>2 DEF NextBranch, TypeOK, lifecycle, sources, output, actor_state, fairness, history
<1>4. QED
  BY <1>1, <1>2, <1>3 DEF PollStep

\* The multi-packet helpers append frames and keep the channel well typed.
LEMMA MultiPacketHelpersType ==
    ASSUME TypeOK, NEW before \in Seq(Frames),
           \/ MultiPoll = "Frame" /\ MultiPacketFrame(before)
           \/ \E why \in Reasons : MultiPacketClosed(before, why)
    PROVE  /\ out' \in Seq(Frames) /\ active_output' \in Outputs
           /\ multi_q' \in 0..MultiCap /\ command_ends' \in Nat /\ reason' \in Reasons
<1>1. CASE MultiPoll = "Frame" /\ MultiPacketFrame(before)
  <2>1. Frame("MultiPacket", StampingEnabled) \in Frames
    BY DEF Frame, Frames, FrameSources, StampingEnabled
  <2>2. PICK frame \in Emitted(Frame("MultiPacket", StampingEnabled)) : out' = before \o frame
    BY <1>1 DEF MultiPacketFrame
  <2>3. out' \in Seq(Frames)
    BY <2>1, <2>2, EmittedType
  <2>4. multi_q > 0
    BY <1>1 DEF MultiPoll, QueuePoll, TypeOK
  <2>5. QED
    BY <1>1, <2>3, <2>4 DEF MultiPacketFrame, TypeOK
<1>2. CASE \E why \in Reasons : MultiPacketClosed(before, why)
  <2>0. PICK why \in Reasons : MultiPacketClosed(before, why)
    BY <1>2
  <2>1. PICK end \in EmittedEnd(StampingEnabled) : out' = before \o end
    BY <2>0 DEF MultiPacketClosed
  <2>2. end \in Seq(Frames)
    BY <2>1, EmittedEndType DEF StampingEnabled
  <2>3. out' \in Seq(Frames)
    BY <2>1, <2>2
  <2>4. QED
    BY <2>0, <2>3 DEF MultiPacketClosed, TypeOK, Outputs
<1>3. QED
  BY <1>1, <1>2

LEMMA ProcessHighType == TypeOK /\ ProcessHigh => TypeOK'
<1> SUFFICES ASSUME TypeOK, ProcessHigh PROVE TypeOK'
  OBVIOUS
<1>1. Frame("High", FALSE) \in Frames /\ Frame("Low", FALSE) \in Frames
  BY DEF Frame, Frames, FrameSources
<1>2. PICK frame \in Emitted(Frame("High", FALSE)) :
         KeepPriority(frame) \/ YieldToLow(frame) \/ YieldToMulti(frame)
  BY DEF ProcessHigh
<1>3. frame \in Seq(Frames)
  BY <1>1, <1>2, EmittedType
<1>4. RecordHighPriority \in 0..CounterCap
  BY RecordHighPriorityType DEF TypeOK
<1>5. high_q > 0 /\ high_q' \in 0..HighCap
  BY DEF ProcessHigh, HighPoll, QueuePoll, TypeOK
<1>6. 0 \in 0..CounterCap
  BY DEF CounterCap
<1>7. /\ low_rx' \in BOOLEAN /\ low_q' \in 0..LowCap /\ active_output' \in Outputs
      /\ multi_q' \in 0..MultiCap /\ command_ends' \in Nat /\ bypass' \in Nat
      /\ reason' \in Reasons
      /\ out' \in Seq(Frames)
      /\ high_counter' \in 0..CounterCap /\ slice_elapsed' \in BOOLEAN
      /\ \E n \in {0, 1, 2} : MarkClosed(n)
  <2>1. CASE KeepPriority(frame)
    BY <2>1, <1>3, <1>4 DEF KeepPriority, TypeOK
  <2>2. CASE YieldToLow(frame)
    <3>1. out' \in Seq(Frames)
      <4>1. PICK low \in Emitted(Frame("Low", FALSE)) : out' = frame \o low
        BY <2>2 DEF YieldToLow
      <4>2. low \in Seq(Frames)
        BY <4>1, <1>1, EmittedType
      <4>3. QED
        BY <4>1, <4>2, <1>3
    <3>2. low_q > 0
      BY <2>2 DEF YieldToLow, LowPoll, QueuePoll, TypeOK
    <3>3. \E n \in {0, 1, 2} : MarkClosed(n)
      BY <2>2 DEF YieldToLow
    <3>4. low_q' \in 0..LowCap
      BY <2>2, <3>2 DEF YieldToLow, TypeOK
    <3>5. QED
      BY <2>2, <3>1, <3>3, <3>4, <1>6 DEF YieldToLow, ResetFairness, TypeOK
  <2>3. CASE YieldToMulti(frame)
    <3>1. /\ out' \in Seq(Frames) /\ active_output' \in Outputs
          /\ multi_q' \in 0..MultiCap /\ command_ends' \in Nat /\ reason' \in Reasons
      <4>1. CASE \/ MultiPoll = "Frame" /\ MultiPacketFrame(frame)
                 \/ MultiPacketClosed(frame, "Disconnected")
        BY <4>1, <1>3, MultiPacketHelpersType DEF Reasons
      <4>2. CASE out' = frame /\ UNCHANGED <<active_output, multi_q, command_ends, reason>>
        BY <4>2, <1>3 DEF TypeOK
      <4>3. QED
        BY <2>3, <4>1, <4>2 DEF YieldToMulti
    <3>2. high_counter' \in 0..CounterCap /\ slice_elapsed' \in BOOLEAN
      BY <2>3, <1>4, <1>6 DEF YieldToMulti, ResetFairness, TypeOK
    <3>3. \E n \in {0, 1, 2} : MarkClosed(n)
      BY <2>3 DEF YieldToMulti
    <3>4. QED
      BY <2>3, <3>1, <3>2, <3>3 DEF YieldToMulti, TypeOK
  <2>4. QED
    BY <1>2, <2>1, <2>2, <2>3
<1>8. run_state' \in RunStates /\ closed_sources' \in Nat /\ total_sources' \in Nat
  BY <1>7, MarkClosedType DEF TypeOK
<1>9. QED
  BY <1>5, <1>7, <1>8 DEF ProcessHigh, Handled, TypeOK, Branches

LEMMA HandlerStepType == TypeOK /\ HandlerStep => TypeOK'
<1> SUFFICES ASSUME TypeOK, HandlerStep PROVE TypeOK'
  OBVIOUS
<1>1. 0 \in 0..CounterCap /\ 0 \in 0..MultiCap
  BY DEF CounterCap
<1>2. /\ Frame("Low", FALSE) \in Frames
      /\ Frame("Response", FALSE) \in Frames
  BY DEF Frame, Frames, FrameSources
<1>3. <<>> \in Seq(Frames)
  OBVIOUS
<1> USE DEF Handled, Branches, fairness, output, actor_state
<1>4. CASE ProcessShutdown
  BY <1>4, <1>1, <1>3 DEF ProcessShutdown, TypeOK, RunStates, Outputs, Reasons
<1>5. CASE ProcessHigh
  BY <1>5, ProcessHighType
<1>6. CASE HighClosed
  <2>1. run_state' \in RunStates /\ closed_sources' \in Nat /\ total_sources' \in Nat
    BY <1>6, MarkClosedType DEF HighClosed, TypeOK
  <2>2. QED
    BY <1>6, <2>1, <1>1, <1>3 DEF HighClosed, ResetFairness, TypeOK
<1>7. CASE ProcessLow
  <2>1. low_q > 0 /\ low_q' \in 0..LowCap
    BY <1>7 DEF ProcessLow, LowPoll, QueuePoll, TypeOK
  <2>2. out' \in Seq(Frames)
    BY <1>7, <1>2, EmittedType DEF ProcessLow
  <2>3. QED
    BY <1>7, <2>1, <2>2, <1>1 DEF ProcessLow, ResetFairness, TypeOK
<1>8. CASE LowClosed
  <2>1. run_state' \in RunStates /\ closed_sources' \in Nat /\ total_sources' \in Nat
    BY <1>8, MarkClosedType DEF LowClosed, TypeOK
  <2>2. QED
    BY <1>8, <2>1, <1>3 DEF LowClosed, TypeOK
<1>9. CASE ProcessMultiPacket
  <2>1. /\ out' \in Seq(Frames) /\ active_output' \in Outputs
        /\ multi_q' \in 0..MultiCap /\ command_ends' \in Nat /\ reason' \in Reasons
    BY <1>9, <1>3, MultiPacketHelpersType DEF ProcessMultiPacket
  <2>2. QED
    BY <1>9, <2>1, <1>1 DEF ProcessMultiPacket, ResetFairness, TypeOK
<1>10. CASE ProcessMultiPacketClosed
  <2>1. /\ out' \in Seq(Frames) /\ active_output' \in Outputs
        /\ multi_q' \in 0..MultiCap /\ command_ends' \in Nat /\ reason' \in Reasons
    BY <1>10, <1>3, MultiPacketHelpersType DEF ProcessMultiPacketClosed, Reasons
  <2>2. run_state' \in RunStates /\ closed_sources' \in Nat /\ total_sources' \in Nat
    BY <1>10, MarkClosedType DEF ProcessMultiPacketClosed, TypeOK
  <2>3. QED
    BY <1>10, <2>1, <2>2, <1>1 DEF ProcessMultiPacketClosed, ResetFairness, TypeOK
<1>11. CASE ResponseFrame
  <2>1. out' \in Seq(Frames)
    BY <1>11, <1>2, EmittedType DEF ResponseFrame
  <2>2. QED
    BY <1>11, <2>1, <1>1 DEF ResponseFrame, ResetFairness, TypeOK
<1>12. CASE ResponseEnd
  <2>1. out' \in Seq(Frames)
    BY <1>12, EmittedEndType DEF ResponseEnd
  <2>2. run_state' \in RunStates /\ closed_sources' \in Nat /\ total_sources' \in Nat
    BY <1>12, MarkClosedType DEF ResponseEnd, TypeOK
  <2>3. high_counter' \in 0..CounterCap /\ slice_elapsed' \in BOOLEAN
    BY <1>12, <1>1 DEF ResponseEnd, ResetFairness, TypeOK
  <2>4. active_output' \in Outputs /\ command_ends' \in Nat
    BY <1>12 DEF ResponseEnd, TypeOK, Outputs
  <2>5. QED
    BY <1>12, <2>1, <2>2, <2>3, <2>4 DEF ResponseEnd, TypeOK
<1>13. CASE ResponseProtocolError
  <2>1. run_state' \in RunStates /\ closed_sources' \in Nat /\ total_sources' \in Nat
    BY <1>13, MarkClosedType DEF ResponseProtocolError, TypeOK
  <2>2. QED
    BY <1>13, <2>1, <1>3 DEF ResponseProtocolError, TypeOK, Outputs
<1>14. CASE ResponseIoError
  BY <1>14, <1>3 DEF ResponseIoError, TypeOK, Phases
<1>15. QED
  BY <1>4, <1>5, <1>6, <1>7, <1>8, <1>9, <1>10, <1>11, <1>12, <1>13, <1>14 DEF HandlerStep

\* Type correctness: in every reachable state each queue is within the capacity
\* of its channel, and the lifecycle, output and fairness state are well formed.
THEOREM TypeInvariant == Spec => []TypeOK
<1>1. Init => TypeOK
  <2>1. <<>> \in Seq(Frames)
    OBVIOUS
  <2>2. /\ 0 \in 0..HighCap /\ 0 \in 0..LowCap /\ 0 \in 0..MultiCap
        /\ 0 \in 0..CounterCap /\ 0 \in 0..MaxRuns
    BY DEF CounterCap
  <2>3. 0 \in 0..2 /\ 0 \in Nat /\ 1 \in Nat /\ 3 \in Nat
    OBVIOUS
  <2>4. QED
    BY <2>1, <2>2, <2>3, Zenon DEF Init, TypeOK, Phases, Outputs, RunStates, Branches, Reasons
<1>2. TypeOK /\ [Next]_vars => TypeOK'
  <2>1. TypeOK /\ UNCHANGED vars => TypeOK'
    BY DEF TypeOK, vars, lifecycle, sources, output, actor_state, fairness, history
  <2>2. QED
    BY <2>1, OwnerStepType, EnvironmentType, PollStepType, HandlerStepType DEF Next, ActorStep
<1>3. QED
  BY <1>1, <1>2, PTL DEF Spec

-----------------------------------------------------------------------------
(* Closure accounting *)

\* SourceAccounting is inductive once the Finished flag is tied to the count.
AccountingInv ==
    phase = "Running" =>
        /\ closed_sources + OpenSources + absent = total_sources
        /\ run_state = "Finished" <=> closed_sources >= total_sources

\* mark_closed moves n sources from open to closed and keeps the flag exact.
LEMMA MarkClosedAccounting ==
    ASSUME TypeOK, TypeOK', AccountingInv, phase = "Running", run_state # "Finished",
           NEW n \in Nat, MarkClosed(n), OpenSources' + n = OpenSources, absent' = absent
    PROVE  AccountingInv'
<1>1. /\ OpenSources \in Nat /\ OpenSources' \in Nat
      /\ closed_sources \in Nat /\ total_sources \in Nat /\ absent \in Nat
  <2>1. OpenSources \in Nat
    BY DEF OpenSources
  <2>2. OpenSources' \in Nat
    BY DEF OpenSources
  <2>3. closed_sources \in Nat /\ total_sources \in Nat /\ absent \in 0..2
    BY Zenon DEF TypeOK
  <2>4. absent \in Nat
    BY <2>3
  <2>5. QED
    BY <2>1, <2>2, <2>3, <2>4
<1>2. /\ closed_sources + OpenSources + absent = total_sources
      /\ ~(closed_sources >= total_sources)
  BY DEF AccountingInv
<1>3. closed_sources' = closed_sources + n /\ total_sources' = total_sources
  BY DEF MarkClosed
<1>4. closed_sources' + OpenSources' + absent' = total_sources'
  <2>1. (closed_sources + n) + OpenSources' + absent = total_sources
    BY <1>1, <1>2 DEF OpenSources
  <2>2. QED
    BY <1>3, <2>1, Zenon
<1>5. run_state' = "Finished" <=> closed_sources' >= total_sources'
  <2>1. n = 0 => ~(closed_sources + n >= total_sources)
    BY <1>1, <1>2
  <2>2. run_state' = IF n > 0 /\ closed_sources + n >= total_sources
                     THEN "Finished" ELSE run_state
    BY DEF MarkClosed
  <2>3. QED
    BY <1>3, <2>1, <2>2
<1>6. QED
  BY <1>4, <1>5 DEF AccountingInv

\* A step that changes none of the sources and none of ActorState keeps it.
LEMMA AccountingUnchanged ==
    ASSUME AccountingInv,
           UNCHANGED <<actor_state, high_rx, low_rx, active_output, absent>>,
           phase' = "Running" => phase = "Running"
    PROVE  AccountingInv'
BY DEF AccountingInv, OpenSources, actor_state

LEMMA OwnerStepAccounting ==
    ASSUME TypeOK, TypeOK', AccountingInv, OwnerStep
    PROVE  AccountingInv'
<1>1. CASE RunStart /\ ~cancelled
  <2>1. Missing + OpenSources = 2 + (IF active_output = "None" THEN 0 ELSE 1)
    BY DEF Missing, OpenSources
  <2>2. OpenSources' = OpenSources
    BY <1>1 DEF RunStart, OpenSources, sources, output
  <2>3. OpenSources \in Nat /\ Missing \in Nat
    BY DEF OpenSources, Missing
  <2>4. closed_sources' + OpenSources' + absent' = total_sources'
    BY <1>1, <2>1, <2>2, <2>3 DEF RunStart
  <2>5. run_state' = "Active" /\ closed_sources' = 1 /\ total_sources' \in {3, 4}
    BY <1>1 DEF RunStart
  <2>6. QED
    BY <2>4, <2>5 DEF AccountingInv
<1>2. CASE RunStart /\ cancelled
  BY <1>2 DEF RunStart, AccountingInv
<1>3. CASE SetResponse \/ SetMultiPacket \/ DropActor
  BY <1>3 DEF SetResponse, SetMultiPacket, DropActor, AccountingInv, lifecycle
<1>4. QED
  BY <1>1, <1>2, <1>3 DEF OwnerStep, TypeOK

LEMMA HandlerStepAccounting ==
    ASSUME TypeOK, TypeOK', AccountingInv, HandlerStep
    PROVE  AccountingInv'
<1>1. phase = "Running" /\ run_state # "Finished" /\ absent' = absent
  BY DEF HandlerStep, ProcessShutdown, ProcessHigh, HighClosed, ProcessLow, LowClosed,
         ProcessMultiPacket, ProcessMultiPacketClosed, ResponseFrame, ResponseEnd,
         ResponseProtocolError, ResponseIoError, Handled, Polling
<1>2. CASE ProcessShutdown
  <2>1. OpenSources' = IF active_output = "None" THEN OpenSources ELSE OpenSources - 1
    BY <1>2 DEF ProcessShutdown, OpenSources, TypeOK
  <2>2. OpenSources \in Nat
    BY DEF OpenSources
  <2>3. closed_sources' + OpenSources' + absent' = total_sources'
    BY <1>1, <1>2, <2>1, <2>2 DEF ProcessShutdown, AccountingInv, TypeOK
  <2>4. run_state' = "Finished" <=> closed_sources' >= total_sources'
    BY <1>1, <1>2 DEF ProcessShutdown, AccountingInv, TypeOK
  <2>5. QED
    BY <2>3, <2>4 DEF AccountingInv
<1>3. CASE ProcessHigh
  <2>1. PICK frame : KeepPriority(frame) \/ YieldToLow(frame) \/ YieldToMulti(frame)
    BY <1>3 DEF ProcessHigh
  <2>2. high_rx' = high_rx
    BY <1>3 DEF ProcessHigh
  <2>3. CASE KeepPriority(frame) \/ YieldToLow(frame)
    <3>1. MarkClosed(0) /\ UNCHANGED <<low_rx, active_output>>
      BY <2>3 DEF KeepPriority, YieldToLow
    <3>2. OpenSources' + 0 = OpenSources
      BY <2>2, <3>1 DEF OpenSources
    <3>3. QED
      BY <1>1, <3>1, <3>2, MarkClosedAccounting
  <2>4. CASE YieldToMulti(frame)
    <3> DEFINE lowClosed == IF LowPoll = "Closed" THEN 1 ELSE 0
               outClosed == IF MultiPoll = "Closed" THEN 1 ELSE 0
    <3>1. LowPoll = "Closed" => low_rx
      BY DEF LowPoll
    <3>2. MultiPoll = "Closed" => active_output = "MultiPacket"
      BY DEF MultiPoll
    <3>3. active_output' = IF MultiPoll = "Closed" THEN "None" ELSE active_output
      BY <2>4 DEF YieldToMulti, MultiPacketFrame, MultiPacketClosed
    <3>4. low_rx' <=> (low_rx /\ LowPoll # "Closed")
      BY <2>4, Zenon DEF YieldToMulti
    <3>5. OpenSources' + (lowClosed + outClosed) = OpenSources
      <4>1. (IF low_rx' THEN 1 ELSE 0) + lowClosed = (IF low_rx THEN 1 ELSE 0)
        <5>1. CASE LowPoll = "Closed"
          BY <5>1, <3>1, <3>4
        <5>2. CASE LowPoll # "Closed"
          <6>1. low_rx' <=> low_rx
            BY <5>2, <3>4
          <6>2. QED
            BY <5>2, <6>1
        <5>3. QED
          BY <5>1, <5>2
      <4>2. (IF active_output' = "None" THEN 0 ELSE 1) + outClosed
              = (IF active_output = "None" THEN 0 ELSE 1)
        BY <3>2, <3>3
      <4>3. (IF high_rx' THEN 1 ELSE 0) = (IF high_rx THEN 1 ELSE 0)
        BY <2>2
      <4>4. QED
        BY <4>1, <4>2, <4>3 DEF OpenSources
    <3>6. MarkClosed(lowClosed + outClosed)
      BY <2>4 DEF YieldToMulti
    <3>7. lowClosed + outClosed \in Nat
      OBVIOUS
    <3> HIDE DEF lowClosed, outClosed
    <3>8. QED
      BY <1>1, <3>5, <3>6, <3>7, MarkClosedAccounting
  <2>5. QED
    BY <2>1, <2>3, <2>4
<1>4. CASE HighClosed
  <2>1. OpenSources' + 1 = OpenSources
    BY <1>4 DEF HighClosed, HighPoll, OpenSources, output
  <2>2. QED
    BY <1>1, <1>4, <2>1, MarkClosedAccounting DEF HighClosed
<1>5. CASE LowClosed
  <2>1. OpenSources' + 1 = OpenSources
    BY <1>5 DEF LowClosed, LowPoll, OpenSources, output
  <2>2. QED
    BY <1>1, <1>5, <2>1, MarkClosedAccounting DEF LowClosed
<1>6. CASE ProcessMultiPacketClosed
  <2>1. OpenSources' + 1 = OpenSources
    BY <1>6 DEF ProcessMultiPacketClosed, MultiPacketClosed, MultiPoll, OpenSources
  <2>2. QED
    BY <1>1, <1>6, <2>1, MarkClosedAccounting DEF ProcessMultiPacketClosed
<1>7. CASE ResponseEnd
  <2>1. OpenSources' + 1 = OpenSources
    BY <1>7 DEF ResponseEnd, AvailableOutput, OpenSources
  <2>2. QED
    BY <1>1, <1>7, <2>1, MarkClosedAccounting DEF ResponseEnd
<1>8. CASE ResponseProtocolError
  <2>1. OpenSources' + 1 = OpenSources
    BY <1>8 DEF ResponseProtocolError, AvailableOutput, OpenSources
  <2>2. QED
    BY <1>1, <1>8, <2>1, MarkClosedAccounting DEF ResponseProtocolError
<1>9. CASE ProcessLow \/ ProcessMultiPacket \/ ResponseFrame \/ ResponseIoError
  BY <1>1, <1>9, AccountingUnchanged
     DEF ProcessLow, ProcessMultiPacket, MultiPacketFrame, ResponseFrame, ResponseIoError, output
<1>10. QED
  BY <1>2, <1>3, <1>4, <1>5, <1>6, <1>7, <1>8, <1>9 DEF HandlerStep

LEMMA OtherStepAccounting ==
    ASSUME AccountingInv, Environment \/ PollStep \/ RunReturn \/ UNCHANGED vars
    PROVE  AccountingInv'
<1>1. CASE Environment
  BY <1>1, AccountingUnchanged
     DEF Environment, PushHigh, PushLow, SendMulti, DropHandles, DropMultiSender, Cancel,
         SliceElapses, lifecycle, sources, output
<1>2. CASE PollStep \/ RunReturn \/ UNCHANGED vars
  BY <1>2, AccountingUnchanged
     DEF PollStep, ShutdownPending, HighPending, LowPending, OutputPending, PollIdle, NextBranch,
         RunReturn, vars, lifecycle, sources, output
<1>3. QED
  BY <1>1, <1>2

\* The closure count of ActorState is exact in every reachable state: the drain,
\* opportunistic-drain, error and shutdown paths close each source once.
THEOREM SourceAccountingHolds == Spec => []SourceAccounting
<1>1. Init => AccountingInv
  BY DEF Init, AccountingInv
<1>2. TypeOK /\ TypeOK' /\ AccountingInv /\ [Next]_vars => AccountingInv'
  BY OwnerStepAccounting, HandlerStepAccounting, OtherStepAccounting DEF Next, ActorStep
<1>3. AccountingInv => SourceAccounting
  BY DEF AccountingInv, SourceAccounting
<1>4. QED
  BY <1>1, <1>2, <1>3, TypeInvariant, PTL DEF Spec

\* run() finishes exactly when its sources are exhausted, so it never spins on
\* the Idle event, provided that both push receivers were present at its start.
THEOREM FinishedIffExhaustedHolds == Spec => []FinishedIffExhausted
<1>1. Init => AccountingInv
  BY DEF Init, AccountingInv
<1>2. TypeOK /\ TypeOK' /\ AccountingInv /\ [Next]_vars => AccountingInv'
  BY OwnerStepAccounting, HandlerStepAccounting, OtherStepAccounting DEF Next, ActorStep
<1>3. TypeOK /\ AccountingInv => FinishedIffExhausted
  <2>1. OpenSources \in Nat
    BY DEF OpenSources
  <2>2. QED
    BY <2>1 DEF AccountingInv, FinishedIffExhausted, TypeOK
<1>4. QED
  BY <1>1, <1>2, <1>3, TypeInvariant, PTL DEF Spec

-----------------------------------------------------------------------------
(* Commands end once *)

\* on_command_end is called at most once for an installed output, on whichever
\* of its completion, error, disconnect and shutdown paths the output ends.
THEOREM CommandEndsOnceHolds == Spec => []CommandEndsOnce
<1>1. Init => CommandEndsOnce
  BY DEF Init, CommandEndsOnce
<1>2. TypeOK /\ CommandEndsOnce /\ [Next]_vars => CommandEndsOnce'
  <2> SUFFICES ASSUME TypeOK, CommandEndsOnce, [Next]_vars PROVE CommandEndsOnce'
    OBVIOUS
  <2>0. ASSUME UNCHANGED <<active_output, command_ends>> PROVE CommandEndsOnce'
    BY <2>0 DEF CommandEndsOnce
  <2>1. CASE OwnerStep
    BY <2>1 DEF OwnerStep, SetResponse, SetMultiPacket, RunStart, DropActor, output, history,
                CommandEndsOnce
  <2>2. CASE ProcessShutdown
    BY <2>2 DEF ProcessShutdown, CommandEndsOnce, TypeOK
  <2>3. CASE ProcessHigh
    <3>1. PICK frame : KeepPriority(frame) \/ YieldToLow(frame) \/ YieldToMulti(frame)
      BY <2>3 DEF ProcessHigh
    <3>2. CASE MultiPoll = "Closed" /\ MultiPacketClosed(frame, "Disconnected")
      BY <3>2 DEF MultiPoll, MultiPacketClosed, CommandEndsOnce
    <3>3. CASE UNCHANGED <<active_output, command_ends>>
      BY <3>3, <2>0
    <3>4. QED
      BY <3>1, <3>2, <3>3 DEF KeepPriority, YieldToLow, YieldToMulti, MultiPacketFrame
  <2>4. CASE ProcessMultiPacketClosed
    BY <2>4 DEF ProcessMultiPacketClosed, MultiPoll, MultiPacketClosed, CommandEndsOnce
  <2>5. CASE ResponseEnd \/ ResponseProtocolError
    <3>1. active_output = "Response" /\ active_output' = "None" /\ command_ends' = command_ends + 1
      BY <2>5 DEF ResponseEnd, ResponseProtocolError, AvailableOutput
    <3>2. QED
      BY <3>1 DEF CommandEndsOnce
  <2>6. CASE HighClosed \/ ProcessLow \/ LowClosed \/ ProcessMultiPacket \/ ResponseFrame
              \/ ResponseIoError
    BY <2>6, <2>0 DEF HighClosed, ProcessLow, LowClosed, ProcessMultiPacket, MultiPacketFrame,
                      ResponseFrame, ResponseIoError, output
  <2>7. CASE Environment
    BY <2>7, <2>0 DEF Environment, PushHigh, PushLow, SendMulti, DropHandles, DropMultiSender,
                      Cancel, SliceElapses, output, history
  <2>8. CASE PollStep \/ RunReturn \/ UNCHANGED vars
    BY <2>8, <2>0 DEF PollStep, ShutdownPending, HighPending, LowPending, OutputPending, PollIdle,
                      NextBranch, RunReturn, vars, output, history
  <2>9. QED
    BY <2>1, <2>2, <2>3, <2>4, <2>5, <2>6, <2>7, <2>8 DEF Next, ActorStep, HandlerStep
<1>3. QED
  BY <1>1, <1>2, TypeInvariant, PTL DEF Spec

-----------------------------------------------------------------------------
(* Correlation stamps *)

\* The frame carries the stamp it must have while active_output is installed.
StampedRight(frame) ==
    frame.stamped <=> active_output = "MultiPacket" /\ frame.src \in {"MultiPacket", "End"}

StampedFrames == {frame \in Frames : StampedRight(frame)}

\* A frame that is stamped right leaves only frames that are stamped right.
LEMMA EmittedStamps ==
    ASSUME NEW frame \in StampedFrames
    PROVE  Emitted(frame) \subseteq Seq(StampedFrames)
<1>1. <<frame>> \in Seq(StampedFrames) /\ <<>> \in Seq(StampedFrames)
  OBVIOUS
<1>2. QED
  BY <1>1 DEF Emitted

\* What the channel emits, in its frames and in its terminator, is stamped
\* from the context that is installed when the handler begins.
LEMMA ChannelStamps ==
    ASSUME NEW before \in Seq(StampedFrames), MultiPoll # "Empty",
           MultiPacketFrame(before) \/ \E why : MultiPacketClosed(before, why)
    PROVE  out' \in Seq(StampedFrames)
<1>1. active_output = "MultiPacket"
  BY DEF MultiPoll
<1>2. Frame("MultiPacket", TRUE) \in StampedFrames /\ Frame("End", TRUE) \in StampedFrames
  BY <1>1 DEF StampedFrames, StampedRight, Frame, Frames, FrameSources
<1>3. Emitted(Frame("MultiPacket", TRUE)) \cup EmittedEnd(TRUE) \subseteq Seq(StampedFrames)
  <2>1. <<>> \in Seq(StampedFrames)
    OBVIOUS
  <2>2. QED
    BY <1>2, <2>1, EmittedStamps DEF EmittedEnd
<1>4. StampingEnabled = TRUE
  BY <1>1 DEF StampingEnabled
<1>5. PICK frame \in Seq(StampedFrames) : out' = before \o frame
  BY <1>3, <1>4, Zenon DEF MultiPacketFrame, MultiPacketClosed
<1>6. QED
  BY <1>5

LEMMA ProcessHighStamps == ProcessHigh => out' \in Seq(StampedFrames)
<1> SUFFICES ASSUME ProcessHigh PROVE out' \in Seq(StampedFrames)
  OBVIOUS
<1>1. Frame("High", FALSE) \in StampedFrames /\ Frame("Low", FALSE) \in StampedFrames
  BY DEF StampedFrames, StampedRight, Frame, Frames, FrameSources
<1>2. PICK frame \in Emitted(Frame("High", FALSE)) :
         KeepPriority(frame) \/ YieldToLow(frame) \/ YieldToMulti(frame)
  BY DEF ProcessHigh
<1>3. frame \in Seq(StampedFrames)
  BY <1>1, EmittedStamps
<1>4. CASE out' = frame
  BY <1>3, <1>4
<1>5. CASE \E low \in Emitted(Frame("Low", FALSE)) : out' = frame \o low
  <2>1. PICK low \in Seq(StampedFrames) : out' = frame \o low
    BY <1>1, <1>5, EmittedStamps
  <2>2. QED
    BY <1>3, <2>1
<1>6. CASE MultiPoll # "Empty" /\ (MultiPacketFrame(frame) \/ MultiPacketClosed(frame, "Disconnected"))
  BY <1>3, <1>6, ChannelStamps
<1>7. QED
  BY <1>2, <1>4, <1>5, <1>6 DEF KeepPriority, YieldToLow, YieldToMulti

LEMMA HandlerStepStamps == HandlerStep => out' \in Seq(StampedFrames)
<1> SUFFICES ASSUME HandlerStep PROVE out' \in Seq(StampedFrames)
  OBVIOUS
<1>1. <<>> \in Seq(StampedFrames)
  OBVIOUS
<1>2. CASE ProcessShutdown \/ HighClosed \/ LowClosed \/ ResponseProtocolError \/ ResponseIoError
  BY <1>1, <1>2 DEF ProcessShutdown, HighClosed, LowClosed, ResponseProtocolError, ResponseIoError
<1>3. CASE ProcessHigh
  BY <1>3, ProcessHighStamps
<1>4. CASE ProcessLow \/ ResponseFrame
  <2>1. Frame("Low", FALSE) \in StampedFrames /\ Frame("Response", FALSE) \in StampedFrames
    BY DEF StampedFrames, StampedRight, Frame, Frames, FrameSources
  <2>2. QED
    BY <1>4, <2>1, EmittedStamps DEF ProcessLow, ResponseFrame
<1>5. CASE ProcessMultiPacket \/ ProcessMultiPacketClosed
  BY <1>1, <1>5, ChannelStamps DEF ProcessMultiPacket, ProcessMultiPacketClosed
<1>6. CASE ResponseEnd
  <2>1. active_output # "MultiPacket"
    BY <1>6 DEF ResponseEnd, AvailableOutput
  <2>2. Frame("End", FALSE) \in StampedFrames
    BY <2>1 DEF StampedFrames, StampedRight, Frame, Frames, FrameSources
  <2>3. QED
    BY <1>1, <1>6, <2>2, EmittedStamps DEF ResponseEnd, EmittedEnd
<1>7. QED
  BY <1>2, <1>3, <1>4, <1>5, <1>6 DEF HandlerStep

\* What the peer and the hooks see of a command is well formed (CommandsWellFormed):
\* on_command_end runs at most once, and every frame that leaves a handler is
\* stamped exactly if it belongs to the multi-packet channel installed when the
\* handler began, the terminator of handle_multi_packet_closed included.
THEOREM CommandsWellFormedHolds == Spec => CommandsWellFormed
<1>1. [Next]_vars =>
         [\A i \in DOMAIN out' :
             out' # out => (out'[i].stamped <=> active_output = "MultiPacket"
                                                /\ out'[i].src \in {"MultiPacket", "End"})]_vars
  <2> SUFFICES ASSUME Next, NEW i \in DOMAIN out', out' # out
               PROVE  StampedRight(out'[i])
    BY DEF StampedRight
  <2>1. CASE HandlerStep
    <3>1. out'[i] \in StampedFrames
      BY <2>1, HandlerStepStamps
    <3>2. QED
      BY <3>1 DEF StampedFrames
  <2>2. CASE PollStep
    <3>1. out' = <<>>
      BY <2>2 DEF PollStep, ShutdownPending, HighPending, LowPending, OutputPending, PollIdle,
                  NextBranch, vars, history
    <3>2. QED
      BY <3>1
  <2>3. CASE OwnerStep \/ RunReturn \/ Environment
    BY <2>3 DEF OwnerStep, SetResponse, SetMultiPacket, RunStart, DropActor, RunReturn, Environment,
                PushHigh, PushLow, SendMulti, DropHandles, DropMultiSender, Cancel, SliceElapses,
                history
  <2>4. QED
    BY <2>1, <2>2, <2>3 DEF Next, ActorStep
<1>2. QED
  BY <1>1, CommandEndsOnceHolds, PTL DEF Spec, CommandsWellFormed, StampsAreCoherent

-----------------------------------------------------------------------------
(* Bounded bypass of low frames *)

\* The bound follows from relating the history to the tracker's own counter.
\* Output handlers reset that counter without serving the low queue, so they
\* must only run when nothing was bypassed; and the counter stops mattering
\* once the high receiver is gone.
BypassInv ==
    /\ LowBypassBounded
    /\ high_rx /\ MaxHighBeforeLow > 0 => bypass <= high_counter
    /\ phase = "Running" /\ poll_at = "Output" => bypass = 0
    /\ phase # "Dropped" /\ low_q = 0 => bypass = 0
    /\ ~low_rx => low_q = 0

\* A step that leaves the counter, the bypass and the low queue alone.
LEMMA BypassUnchanged ==
    ASSUME BypassInv, UNCHANGED <<bypass, high_counter, low_q, low_rx>>,
           high_rx' => high_rx,
           phase = "Dropped" => phase' = "Dropped",
           phase' = "Running" /\ poll_at' = "Output" => phase = "Running" /\ poll_at = "Output"
    PROVE  BypassInv'
BY DEF BypassInv, LowBypassBounded

LEMMA ProcessHighBypass ==
    ASSUME TypeOK, TypeOK', BypassInv, ProcessHigh
    PROVE  BypassInv'
<1>1. PICK frame : KeepPriority(frame) \/ YieldToLow(frame) \/ YieldToMulti(frame)
  BY DEF ProcessHigh
<1>2. high_rx /\ phase # "Dropped"
  BY DEF ProcessHigh, HighPoll, Polling
<1>3. poll_at' = "Shutdown"
  BY DEF ProcessHigh, Handled
<1>4. CASE KeepPriority(frame)
  <2>1. MaxHighBeforeLow > 0 => RecordHighPriority < MaxHighBeforeLow
    BY <1>4, RecordHighPriorityType DEF KeepPriority, ShouldYield, TypeOK, CounterCap
  <2>2. MaxHighBeforeLow > 0 => RecordHighPriority = high_counter + 1
    BY <2>1 DEF RecordHighPriority, CounterCap, TypeOK
  <2>3. high_counter' = RecordHighPriority /\ UNCHANGED <<low_q, low_rx>>
    BY <1>4 DEF KeepPriority
  <2>4. bypass' = IF low_q > 0 THEN bypass + 1 ELSE 0
    BY <1>4 DEF KeepPriority
  <2>5. QED
    BY <1>2, <1>3, <2>1, <2>2, <2>3, <2>4 DEF BypassInv, LowBypassBounded, TypeOK
<1>5. CASE YieldToLow(frame) \/ YieldToMulti(frame)
  <2>1. bypass' = 0
    BY <1>5 DEF YieldToLow, YieldToMulti
  <2>2. ~low_rx' => low_q' = 0
    <3>1. CASE YieldToLow(frame)
      BY <3>1 DEF YieldToLow, LowPoll, BypassInv
    <3>2. CASE YieldToMulti(frame)
      <4>1. low_q' = low_q /\ (LowPoll = "Closed" => low_q = 0)
        <5>1. low_q' = low_q
          BY <3>2 DEF YieldToMulti
        <5>2. LowPoll = "Closed" => low_q = 0
          BY DEF LowPoll, QueuePoll, TypeOK
        <5>3. QED
          BY <5>1, <5>2
      <4>2. ~low_rx' => ~low_rx \/ LowPoll = "Closed"
        BY <3>2, Zenon DEF YieldToMulti
      <4>3. QED
        BY <4>1, <4>2 DEF BypassInv
    <3>3. QED
      BY <1>5, <3>1, <3>2
  <2>3. QED
    BY SMTT(20), <1>3, <2>1, <2>2 DEF BypassInv, LowBypassBounded, TypeOK
<1>6. QED
  BY <1>1, <1>4, <1>5

LEMMA HandlerStepBypass ==
    ASSUME TypeOK, TypeOK', BypassInv, HandlerStep
    PROVE  BypassInv'
<1>0. poll_at' = "Shutdown" /\ phase = "Running"
  BY DEF HandlerStep, ProcessShutdown, ProcessHigh, HighClosed, ProcessLow, LowClosed,
         ProcessMultiPacket, ProcessMultiPacketClosed, ResponseFrame, ResponseEnd,
         ResponseProtocolError, ResponseIoError, Handled, Polling
<1>1. CASE ProcessHigh
  BY <1>1, ProcessHighBypass
<1>2. CASE HighClosed
  BY <1>0, <1>2 DEF HighClosed, BypassInv, LowBypassBounded
<1>3. CASE ProcessLow
  <2>1. low_rx' /\ bypass' = 0
    BY <1>3 DEF ProcessLow, LowPoll
  <2>2. QED
    BY <1>0, <2>1 DEF BypassInv, LowBypassBounded, TypeOK
<1>4. CASE LowClosed
  <2>1. low_q = 0
    BY <1>4 DEF LowClosed, LowPoll, QueuePoll, TypeOK
  <2>2. QED
    BY <1>0, <1>4, <2>1 DEF LowClosed, BypassInv, LowBypassBounded, fairness
<1>5. CASE ProcessShutdown \/ ResponseProtocolError \/ ResponseIoError
  <2>1. CASE ProcessShutdown
    BY <1>0, <2>1, BypassUnchanged DEF ProcessShutdown, fairness
  <2>2. CASE ResponseProtocolError
    BY <1>0, <2>2, BypassUnchanged DEF ResponseProtocolError, fairness
  <2>3. CASE ResponseIoError
    BY <1>0, <2>3, BypassUnchanged DEF ResponseIoError, fairness
  <2>4. QED
    BY <1>5, <2>1, <2>2, <2>3
<1>6. CASE ProcessMultiPacket \/ ProcessMultiPacketClosed \/ ResponseFrame \/ ResponseEnd
  <2>1. bypass = 0
    BY <1>6 DEF ProcessMultiPacket, ProcessMultiPacketClosed, ResponseFrame, ResponseEnd, Polling,
                BypassInv
  <2>2. bypass' = bypass /\ UNCHANGED <<low_q, low_rx, high_rx>>
    BY <1>6 DEF ProcessMultiPacket, ProcessMultiPacketClosed, ResponseFrame, ResponseEnd
  <2>3. QED
    BY SMTT(20), <1>0, <2>1, <2>2 DEF BypassInv, LowBypassBounded, TypeOK
<1>7. QED
  BY <1>1, <1>2, <1>3, <1>4, <1>5, <1>6 DEF HandlerStep

LEMMA OtherStepBypass ==
    ASSUME TypeOK, BypassInv, OwnerStep \/ Environment \/ PollStep \/ RunReturn \/ UNCHANGED vars
    PROVE  BypassInv'
<1>1. CASE SetResponse \/ SetMultiPacket \/ RunReturn \/ UNCHANGED vars
  <2>1. CASE SetResponse
    BY <2>1, BypassUnchanged DEF SetResponse, lifecycle, sources, fairness, history
  <2>2. CASE SetMultiPacket
    BY <2>2, BypassUnchanged DEF SetMultiPacket, lifecycle, sources, fairness, history
  <2>3. CASE RunReturn
    BY <2>3, BypassUnchanged DEF RunReturn, sources, fairness, history
  <2>4. CASE UNCHANGED vars
    BY <2>4, BypassUnchanged DEF vars, lifecycle, sources, fairness, history
  <2>5. QED
    BY <1>1, <2>1, <2>2, <2>3, <2>4
<1>2. CASE RunStart
  BY <1>2, BypassUnchanged DEF RunStart, sources, fairness, history
<1>3. CASE DropActor
  BY <1>3 DEF DropActor, BypassInv, LowBypassBounded, fairness, history
<1>4. CASE PushLow
  <2>1. low_q' = low_q + 1 /\ low_rx /\ low_q \in Nat
    BY <1>4 DEF PushLow, TypeOK
  <2>2. QED
    BY <1>4, <2>1 DEF PushLow, BypassInv, LowBypassBounded, lifecycle, fairness, history
<1>5. CASE PushHigh \/ SendMulti \/ DropHandles \/ DropMultiSender \/ Cancel \/ SliceElapses
  <2>1. CASE PushHigh
    BY <2>1, BypassUnchanged DEF PushHigh, lifecycle, fairness, history
  <2>2. CASE SendMulti \/ DropMultiSender
    <3>1. CASE SendMulti
      BY <3>1, BypassUnchanged DEF SendMulti, lifecycle, sources, fairness, history
    <3>2. CASE DropMultiSender
      BY <3>2, BypassUnchanged DEF DropMultiSender, lifecycle, sources, fairness, history
    <3>3. QED
      BY <2>2, <3>1, <3>2
  <2>3. CASE DropHandles
    BY <2>3, BypassUnchanged DEF DropHandles, lifecycle, sources, fairness, history
  <2>4. CASE Cancel \/ SliceElapses
    BY <2>4, BypassUnchanged, SMTT(20) DEF Cancel, SliceElapses, lifecycle, sources, fairness, history
  <2>5. QED
    BY <1>5, <2>1, <2>2, <2>3, <2>4
<1>6. CASE LowPending
  <2>1. phase = "Running" /\ low_q = 0
    BY <1>6 DEF LowPending, Polling, LowPoll, QueuePoll, TypeOK, BypassInv
  <2>2. QED
    BY <1>6, <2>1 DEF LowPending, NextBranch, BypassInv, LowBypassBounded, lifecycle, sources,
                      fairness
<1>7. CASE ShutdownPending \/ HighPending \/ OutputPending \/ PollIdle
  <2>1. CASE PollIdle
    BY <2>1, BypassUnchanged DEF PollIdle, vars, lifecycle, sources, fairness, history
  <2>2. CASE ShutdownPending \/ HighPending \/ OutputPending
    <3>1. CASE ShutdownPending
      BY <3>1, BypassUnchanged DEF ShutdownPending, NextBranch, lifecycle, sources, fairness
    <3>2. CASE HighPending
      BY <3>2, BypassUnchanged DEF HighPending, NextBranch, lifecycle, sources, fairness
    <3>3. CASE OutputPending
      BY <3>3, BypassUnchanged DEF OutputPending, NextBranch, lifecycle, sources, fairness
    <3>4. QED
      BY <2>2, <3>1, <3>2, <3>3
  <2>3. QED
    BY <1>7, <2>1, <2>2
<1>8. QED
  BY <1>1, <1>2, <1>3, <1>4, <1>5, <1>6, <1>7 DEF OwnerStep, Environment, PollStep

\* Bounded bypass, for every threshold and every interleaving of producers with
\* the polls: a waiting low frame is overtaken fewer than max_high_before_low
\* times, although every output frame resets the fairness tracker.
THEOREM LowBypassBoundedHolds == Spec => []LowBypassBounded
<1>1. Init => BypassInv
  BY DEF Init, BypassInv, LowBypassBounded
<1>2. TypeOK /\ TypeOK' /\ BypassInv /\ [Next]_vars => BypassInv'
  BY HandlerStepBypass, OtherStepBypass DEF Next, ActorStep
<1>3. BypassInv => LowBypassBounded
  BY DEF BypassInv
<1>4. QED
  BY <1>1, <1>2, <1>3, TypeInvariant, PTL DEF Spec
=============================================================================
