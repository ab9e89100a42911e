----------------------------- MODULE PushQueues -----------------------------
(***************************************************************************)
(* The push queues of src/push/queues: producers that share one PushHandle *)
(* push frames into two bounded channels, either awaiting capacity         *)
(* (push_high_priority, push_low_priority) or without blocking (try_push). *)
(* A frame that try_push drops goes to the dead letter queue, and is       *)
(* counted and periodically reported when that queue refuses it.           *)
(*                                                                         *)
(* A frame is the producer it came from.  tokio's bounded mpsc channel is  *)
(* modelled by its contract: a freed slot is handed to the producer parked *)
(* longest, and that reservation lives until the producer is polled.       *)
(***************************************************************************)
EXTENDS Integers, Sequences, FiniteSets

CONSTANTS
    Producers,     \* tasks that hold a clone of the handle
    Cap,           \* capacity of each of the two queues
    Rate,          \* tokens per refill of the rate limiter; 0: unlimited
    HasSink,       \* a dead letter queue is configured
    DlqCap,        \* its capacity
    LogEveryN,     \* dlq_log_every_n
    MaxPushes      \* bound: pushes each producer makes

ASSUME ProducersAssumption == IsFiniteSet(Producers)
ASSUME CapAssumption == Cap \in Nat \ {0} /\ DlqCap \in Nat \ {0} /\ Rate \in Nat
ASSUME LogAssumption == LogEveryN \in Nat /\ HasSink \in BOOLEAN /\ MaxPushes \in Nat

Priorities == {"High", "Low"}
Policies == {"ReturnErrorIfFull", "DropIfFull"} \* WarnAndDropIfFull only adds a log line

VARIABLES
    queue,      \* [Priorities -> Seq(Producers)]: buffered frames
    parked,     \* [Priorities -> Seq(Producers)]: sends waiting for a slot, oldest first
    closed,     \* the receivers were closed
    recv_at,    \* the branch PushQueues::recv polls next
    pc,         \* where each producer is in its push
    lane,       \* the priority of each producer's push
    pushes,     \* pushes each producer has started
    tokens,     \* tokens left in the rate limiter
    dlq, dlq_open,   \* frames in the dead letter queue; its receiver lives
    drops,           \* DeadLetterState::drops
    log_lock,        \* the producer that holds the last_log mutex, if any
    interval_passed, \* last_log.elapsed() > log_interval
    dropped,         \* the count each producer obtained from fetch_add
    \* History variable
    unreported  \* frames the dead letter queue refused, less those reported

channel == <<queue, parked, closed>>
dead_letter == <<dlq, dlq_open, drops, log_lock, interval_passed, dropped, unreported>>
queueVars == <<channel, recv_at, pc, lane, pushes, tokens, dead_letter>>

NoOne == "NoOne"
Stages == {"Idle", "Permit", "Probe", "Await", "Parked", "Granted", "Route", "Count", "Log",
           "Swap"}

QueuesInit ==
    /\ queue = [p \in Priorities |-> <<>>] /\ parked = [p \in Priorities |-> <<>>]
    /\ closed = FALSE /\ recv_at = "High"
    /\ pc = [t \in Producers |-> "Idle"] /\ lane = [t \in Producers |-> "High"]
    /\ pushes = [t \in Producers |-> 0]
    /\ tokens = Rate
    /\ dlq = 0 /\ dlq_open = HasSink
    /\ drops = 0 /\ log_lock = NoOne /\ interval_passed = FALSE
    /\ dropped = [t \in Producers |-> 0]
    /\ unreported = 0

-----------------------------------------------------------------------------
(* The bounded channel *)

Holders(p) == {t \in Producers : pc[t] = "Granted" /\ lane[t] = p}
Slots(p) == Len(queue[p]) + Cardinality(Holders(p))
HasCapacity(p) == Slots(p) < Cap /\ parked[p] = <<>>

Goto(t, stage) == pc' = [pc EXCEPT ![t] = stage]
\* The lane of a push is forgotten when it ends.
Settle(t) == lane' = [lane EXCEPT ![t] = IF pc'[t] = "Idle" THEN "High" ELSE @]
Accept(t) == queue' = [queue EXCEPT ![lane[t]] = Append(@, t)]

\* A slot of lane p is freed: it goes to the oldest parked send, if any.  The
\* other producers' stages are given by stages.
FreeSlot(p, stages) ==
    IF parked[p] = <<>>
    THEN pc' = stages /\ UNCHANGED parked
    ELSE /\ parked' = [parked EXCEPT ![p] = Tail(@)]
         /\ pc' = [stages EXCEPT ![Head(parked[p])] = "Granted"]

-----------------------------------------------------------------------------
(* push_with_priority *)

StartPush(t) ==
    /\ pc[t] = "Idle" /\ pushes[t] < MaxPushes
    /\ \E p \in Priorities : lane' = [lane EXCEPT ![t] = p]
    /\ pushes' = [pushes EXCEPT ![t] = @ + 1]
    /\ Goto(t, IF Rate = 0 THEN "Probe" ELSE "Permit")
    /\ UNCHANGED <<channel, recv_at, tokens, dead_letter>>

\* wait_for_permit: a refusal sleeps and tries again, holding nothing.
TakePermit(t) ==
    /\ pc[t] = "Permit" /\ tokens > 0
    /\ tokens' = tokens - 1
    /\ Goto(t, "Probe")
    /\ UNCHANGED <<channel, recv_at, lane, pushes, dead_letter>>

\* try_reserve
ProbeCapacity(t) ==
    /\ pc[t] = "Probe"
    /\ \/ closed /\ Goto(t, "Idle") /\ UNCHANGED queue
       \/ ~closed /\ HasCapacity(lane[t]) /\ Accept(t) /\ Goto(t, "Idle")
       \/ ~closed /\ ~HasCapacity(lane[t]) /\ Goto(t, "Await") /\ UNCHANGED queue
    /\ Settle(t)
    /\ UNCHANGED <<parked, closed, recv_at, pushes, tokens, dead_letter>>

\* await_send_capacity, first poll: a slot may have been freed since the probe.
FirstPoll(t) ==
    /\ pc[t] = "Await"
    /\ \/ closed /\ Goto(t, "Idle") /\ UNCHANGED <<queue, parked>>
       \/ /\ ~closed /\ HasCapacity(lane[t])
          /\ Accept(t) /\ Goto(t, "Idle")
          /\ UNCHANGED parked
       \/ /\ ~closed /\ ~HasCapacity(lane[t])
          /\ parked' = [parked EXCEPT ![lane[t]] = Append(@, t)]
          /\ Goto(t, "Parked")
          /\ UNCHANGED queue
    /\ Settle(t)
    /\ UNCHANGED <<closed, recv_at, pushes, tokens, dead_letter>>

\* Mutant: a send that owns a slot completes although the channel closed.
Resume_IgnoresClose(t) ==
    /\ \/ pc[t] = "Granted" /\ Accept(t)
       \/ pc[t] = "Parked" /\ closed /\ UNCHANGED queue
    /\ Goto(t, "Idle")
    /\ Settle(t)
    /\ UNCHANGED <<parked, closed, recv_at, pushes, tokens, dead_letter>>

\* Mutant: closing the channel does not resume a send that waits.
Resume_MissesClose(t) ==
    /\ pc[t] = "Granted" /\ ~closed
    /\ Accept(t) /\ Goto(t, "Idle")
    /\ Settle(t)
    /\ UNCHANGED <<parked, closed, recv_at, pushes, tokens, dead_letter>>

\* The parked send is polled again: it owns a slot, or the channel is closed.
Resume(t) ==
    /\ \/ pc[t] = "Granted" /\ ~closed /\ Accept(t)
       \/ pc[t] = "Granted" /\ closed /\ UNCHANGED queue
       \/ pc[t] = "Parked" /\ closed /\ UNCHANGED queue
    /\ Goto(t, "Idle")
    /\ Settle(t)
    /\ UNCHANGED <<parked, closed, recv_at, pushes, tokens, dead_letter>>

\* The caller drops the push future: nothing is sent, a slot goes to the next.
CancelPush(t) ==
    /\ \/ /\ pc[t] \in {"Permit", "Parked"}
          /\ parked' = [parked EXCEPT ![lane[t]] = SelectSeq(@, LAMBDA u : u # t)]
          /\ Goto(t, "Idle")
       \/ /\ pc[t] = "Granted"
          /\ FreeSlot(lane[t], [pc EXCEPT ![t] = "Idle"])
    /\ Settle(t)
    /\ UNCHANGED <<queue, closed, recv_at, pushes, tokens, dead_letter>>

-----------------------------------------------------------------------------
(* try_push and the dead letter queue *)

\* try_push, up to the dead letter queue; it never consults the rate limiter.
TryPush(t) ==
    /\ pc[t] = "Idle" /\ pushes[t] < MaxPushes
    /\ pushes' = [pushes EXCEPT ![t] = @ + 1]
    /\ \E p \in Priorities, policy \in Policies :
          /\ \/ /\ closed
                /\ UNCHANGED <<pc, queue>>
             \/ /\ ~closed /\ HasCapacity(p)
                /\ queue' = [queue EXCEPT ![p] = Append(@, t)]
                /\ UNCHANGED pc
             \/ /\ ~closed /\ ~HasCapacity(p)
                /\ Goto(t, IF policy = "DropIfFull" /\ HasSink THEN "Route" ELSE "Idle")
                /\ UNCHANGED queue
    /\ UNCHANGED <<parked, closed, recv_at, lane, tokens, dead_letter>>

\* route_or_count: hand the frame to the dead letter queue.
Route(t) ==
    /\ pc[t] = "Route"
    /\ \/ /\ dlq_open /\ dlq < DlqCap
          /\ dlq' = dlq + 1 /\ Goto(t, "Idle") /\ UNCHANGED unreported
       \/ /\ ~(dlq_open /\ dlq < DlqCap)
          /\ unreported' = unreported + 1 /\ Goto(t, "Count") /\ UNCHANGED dlq
    /\ UNCHANGED <<channel, recv_at, lane, pushes, tokens, dlq_open, drops, log_lock,
                   interval_passed, dropped>>

\* route_or_count: drops.fetch_add, outside the mutex.
Count(t) ==
    /\ pc[t] = "Count"
    /\ drops' = drops + 1
    /\ dropped' = [dropped EXCEPT ![t] = drops + 1]
    /\ Goto(t, "Log")
    /\ UNCHANGED <<channel, recv_at, lane, pushes, tokens, dlq, dlq_open, log_lock,
                   interval_passed, unreported>>

\* The local count dies with the call.
Forget(t) == dropped' = [dropped EXCEPT ![t] = 0]

Due(t) == (LogEveryN # 0 /\ dropped[t] % LogEveryN = 0) \/ interval_passed

\* log_if_due: take the mutex and decide whether a report is due.
Log(t) ==
    /\ pc[t] = "Log" /\ log_lock = NoOne
    /\ \/ Due(t) /\ log_lock' = t /\ Goto(t, "Swap") /\ UNCHANGED dropped
       \/ ~Due(t) /\ UNCHANGED log_lock /\ Goto(t, "Idle") /\ Forget(t)
    /\ UNCHANGED <<channel, recv_at, lane, pushes, tokens, dlq, dlq_open, drops,
                   interval_passed, unreported>>

\* Mutant: report what fetch_add returned and store zero.
Swap_StoresZero(t) ==
    /\ pc[t] = "Swap"
    /\ unreported' = unreported - dropped[t] /\ drops' = 0
    /\ interval_passed' = FALSE
    /\ log_lock' = NoOne /\ Goto(t, "Idle") /\ Forget(t)
    /\ UNCHANGED <<channel, recv_at, lane, pushes, tokens, dlq, dlq_open>>

\* log_if_due: drops.swap(0), report what was taken, release the mutex.
Swap(t) ==
    /\ pc[t] = "Swap"
    /\ unreported' = unreported - drops /\ drops' = 0
    /\ interval_passed' = FALSE
    /\ log_lock' = NoOne /\ Goto(t, "Idle") /\ Forget(t)
    /\ UNCHANGED <<channel, recv_at, lane, pushes, tokens, dlq, dlq_open>>

-----------------------------------------------------------------------------
(* The consumer, the clock and the owner of the dead letter queue *)

\* Nothing is buffered, and no reservation is outstanding on a closed lane.
Finished(p) == closed /\ queue[p] = <<>> /\ Holders(p) = {}

Take(p) ==
    /\ queue[p] # <<>>
    /\ queue' = [queue EXCEPT ![p] = Tail(@)]
    /\ IF closed THEN UNCHANGED <<pc, parked>> ELSE FreeSlot(p, pc)

\* PushQueues::recv: poll High, then Low; a frame ends the call.
Recv ==
    /\ \/ recv_at \in Priorities /\ Take(recv_at) /\ recv_at' = "High"
       \/ /\ recv_at \in Priorities /\ queue[recv_at] = <<>>
          /\ ~(Finished("High") /\ Finished("Low"))
          /\ recv_at' = IF recv_at = "High" THEN "Low" ELSE "High"
          /\ UNCHANGED <<queue, pc, parked>>
       \/ /\ recv_at \in Priorities /\ Finished("High") /\ Finished("Low")
          /\ recv_at' = "Done"
          /\ UNCHANGED <<queue, pc, parked>>
    /\ UNCHANGED <<closed, lane, pushes, tokens, dead_letter>>

\* PushQueues::close: every parked send is woken.
Close ==
    /\ ~closed
    /\ closed' = TRUE
    /\ parked' = [p \in Priorities |-> <<>>]
    /\ UNCHANGED <<queue, recv_at, pc, lane, pushes, tokens, dead_letter>>

\* The limiter refills once per second.
Refill ==
    /\ tokens < Rate
    /\ tokens' = Rate
    /\ UNCHANGED <<channel, recv_at, pc, lane, pushes, dead_letter>>

IntervalPasses ==
    /\ HasSink /\ ~interval_passed
    /\ interval_passed' = TRUE
    /\ UNCHANGED <<channel, recv_at, pc, lane, pushes, tokens, dlq, dlq_open, drops, log_lock,
                   dropped, unreported>>

DlqRecv ==
    /\ dlq > 0
    /\ dlq' = dlq - 1
    /\ UNCHANGED <<channel, recv_at, pc, lane, pushes, tokens, dlq_open, drops, log_lock,
                   interval_passed, dropped, unreported>>

DlqClose ==
    /\ dlq_open
    /\ dlq_open' = FALSE /\ dlq' = 0
    /\ UNCHANGED <<channel, recv_at, pc, lane, pushes, tokens, drops, log_lock,
                   interval_passed, dropped, unreported>>

-----------------------------------------------------------------------------
\* The steps a push that has begun takes by itself.
Proceed(t) ==
    \/ TakePermit(t) \/ ProbeCapacity(t) \/ FirstPoll(t) \/ Resume(t)
    \/ Route(t) \/ Count(t) \/ Log(t) \/ Swap(t)

QueuesNext ==
    \/ \E t \in Producers : StartPush(t) \/ TryPush(t) \/ CancelPush(t) \/ Proceed(t)
    \/ Recv \/ Close \/ Refill \/ IntervalPasses \/ DlqRecv \/ DlqClose

QueuesSpec == QueuesInit /\ [][QueuesNext]_queueVars

-----------------------------------------------------------------------------
(* Properties *)

\* Every variable has its type, and a lane never buffers and reserves more
\* than its capacity, however slots are handed from the consumer to parked
\* sends, cancelled ones and try_push callers.
QueuesTypeOK ==
    /\ queue \in [Priorities -> Seq(Producers)] /\ parked \in [Priorities -> Seq(Producers)]
    /\ closed \in BOOLEAN /\ recv_at \in Priorities \cup {"Done"}
    /\ pc \in [Producers -> Stages] /\ lane \in [Producers -> Priorities]
    /\ pushes \in [Producers -> 0..MaxPushes]
    /\ tokens \in 0..Rate
    /\ dlq \in 0..DlqCap /\ dlq_open \in BOOLEAN
    /\ drops \in Nat /\ log_lock \in Producers \cup {NoOne} /\ interval_passed \in BOOLEAN
    /\ dropped \in [Producers -> Nat] /\ unreported \in Nat
    /\ \A p \in Priorities : Slots(p) <= Cap

Counting == {t \in Producers : pc[t] = "Count"}

AboutToReport ==
    {t \in Producers : pc[t] \in {"Log", "Swap"} /\ dropped[t] % LogEveryN = 0}

\* Every frame the dead letter queue refused is reported or still pending,
\* exactly once, however producers interleave fetch_add, the cadence decision
\* and the swap (route_or_count, log_if_due).  The unreported backlog stays below
\* log_every_n for each producer that is still on its way to a report, plus one:
\* a concurrent reset never makes the count step over the multiple that triggers
\* the diagnostic.
LossesReported ==
    /\ drops + Cardinality(Counting) = unreported
    /\ LogEveryN > 0 => drops \div LogEveryN <= Cardinality(AboutToReport)

High == INSTANCE PushLane WITH Frames <- Producers, buffer <- queue["High"], open <- ~closed
Low == INSTANCE PushLane WITH Frames <- Producers, buffer <- queue["Low"], open <- ~closed

\* Each queue is a bounded FIFO lane: parking, slot hand-over, cancellation and
\* dropping neither lose, duplicate nor reorder a frame whose push succeeded, nor
\* admit one after close.  The high lane also delivers everything it accepts;
\* recv is biased towards it and promises that for the low lane only after close.
Lanes == High!FairSpec /\ Low!Spec

\* Nobody waits for ever.  Every push returns to its caller: it is accepted,
\* dropped or answered Closed, also when the channel closes under a parked send.
\* After close the consumer drains both lanes and recv returns None, waiting
\* out the reservations handed to sends that have not been polled again.
PushesSettle ==
    /\ \A t \in Producers : pc[t] # "Idle" ~> pc[t] = "Idle"
    /\ closed ~> recv_at = "Done"
=============================================================================
