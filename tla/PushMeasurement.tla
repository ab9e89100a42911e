-------------------------- MODULE PushMeasurement ---------------------------
(***************************************************************************)
(* The push benchmarks (wireframe_testing/src/runtime_ownership_benchmarks *)
(* /push_benchmark_support): a workload is validated, then run for some    *)
(* iterations, each on queues of its own, in one of three regimes: sends   *)
(* into a queue a consumer drains, sends that must park because nothing    *)
(* drains until one has, and non-blocking sends into a full queue.  The    *)
(* measuring task, the producer and the consumer are tasks of one runtime. *)
(*                                                                         *)
(* Of the push API only the lane in use is here, with the wait counters of *)
(* the handle (src/push/queues/waits.rs); the queues themselves are the    *)
(* subject of PushQueues.  Frames are told apart by nothing but their      *)
(* number, and the rate limiter is off, as the benchmarks build it.        *)
(***************************************************************************)
EXTENDS Naturals, FiniteSets

CONSTANTS
    Capacities,    \* queue_capacity of the workloads
    SendCounts,    \* sends of the workloads
    Iterations     \* the iterations asked for

ASSUME MeasurementAssumption ==
    Capacities \subseteq Nat /\ SendCounts \subseteq Nat /\ Iterations \subseteq Nat

VARIABLES
    workload,    \* [scenario, queue_capacity, sends, iterations]
    bench,       \* the measuring task: [at, round, observed, timed_out]
    outcome,     \* SendOutcome, summed over the rounds
    lane,        \* frames in the queue the scenario targets
    dlq,         \* frames in the dead-letter queue
    handles,     \* whether a push handle is alive
    producer,    \* [at, sent]
    consumer,    \* [at, received]
    counters     \* PushWaitCounts: [waits, probes]

benchVars == <<workload, bench, outcome, lane, dlq, handles, producer, consumer, counters>>

-----------------------------------------------------------------------------
(* scenario.rs *)

\* PushScenario
PushScenario ==
    {"UncontendedHigh", "UncontendedLow", "DrainedHigh", "DrainedLow", "BackpressureHigh",
     "OverflowReturnError", "OverflowDrop", "OverflowWarnAndDrop"}

\* is_overflow
is_overflow(s) == s \in {"OverflowReturnError", "OverflowDrop", "OverflowWarnAndDrop"}

\* is_backpressure
is_backpressure(s) == s = "BackpressureHigh"

\* is_uncontended
is_uncontended(s) == s \in {"UncontendedHigh", "UncontendedLow"}

\* policy: what a non-blocking send does with a full queue
policy(s) == IF s = "OverflowReturnError" THEN "ReturnErrorIfFull" ELSE "DropIfFull"

\* PushWorkload::validate
validate(w) ==
    /\ w.queue_capacity > 0 /\ w.sends > 0
    /\ is_uncontended(w.scenario) => w.sends <= w.queue_capacity
    /\ is_backpressure(w.scenario) => w.sends > w.queue_capacity

-----------------------------------------------------------------------------
(* measurement/mod.rs *)

\* SendOutcome::default
NoOutcome == [accepted |-> 0, drained |-> 0, dead_lettered |-> 0, reported_queue_full |-> FALSE,
              waits |-> 0, probes |-> 0]

\* SendOutcome::accumulate: the counts add up, the flag sticks
accumulate(o, running) ==
    [accepted |-> running.accepted + o.accepted,
     drained |-> running.drained + o.drained,
     dead_lettered |-> running.dead_lettered + o.dead_lettered,
     reported_queue_full |-> running.reported_queue_full \/ o.reported_queue_full,
     waits |-> running.waits + o.waits,
     probes |-> running.probes + o.probes]

PushWorkload ==
    [scenario : PushScenario, queue_capacity : Capacities, sends : SendCounts, iterations : Iterations]

BenchInit ==
    /\ workload = [scenario |-> "DrainedHigh", queue_capacity |-> 0, sends |-> 0, iterations |-> 0]
    /\ bench = [at |-> "idle", round |-> 0, observed |-> 0, timed_out |-> FALSE]
    /\ outcome = NoOutcome
    /\ lane = 0 /\ dlq = 0 /\ handles = FALSE
    /\ producer = [at |-> "none", sent |-> 0]
    /\ consumer = [at |-> "none", received |-> 0]
    /\ counters = [waits |-> 0, probes |-> 0]

BenchAt(stage) == bench' = [bench EXCEPT !.at = stage]

\* measure_push: a workload is validated first
measure_push ==
    /\ bench.at = "idle"
    /\ workload' \in PushWorkload
    /\ BenchAt(IF validate(workload') THEN "rounds" ELSE "invalid")
    /\ UNCHANGED <<outcome, lane, dlq, handles, producer, consumer, counters>>

\* build_queues: fresh queues, a dead-letter queue and a handle for the round
build_queues ==
    /\ lane' = 0 /\ dlq' = 0 /\ handles' = TRUE
    /\ counters' = [waits |-> 0, probes |-> 0]

\* run_once: the scenario selects the regime.  A drained run has its consumer
\* before the first send and sends from the measuring task itself; a
\* back-pressure run spawns the producer and has no consumer yet.
run_once ==
    /\ bench.at = "rounds"
    /\ IF bench.round = workload.iterations
       THEN BenchAt("measured") /\ UNCHANGED <<lane, dlq, handles, producer, consumer, counters>>
       ELSE /\ build_queues
            /\ bench' = [bench EXCEPT !.round = @ + 1, !.observed = 0,
                           !.at = IF is_overflow(workload.scenario) THEN "fill"
                                  ELSE IF is_backpressure(workload.scenario) THEN "observe"
                                  ELSE "join_producer"]
            /\ producer' = [at |-> IF is_overflow(workload.scenario) THEN "none" ELSE "probe", sent |-> 0]
            /\ consumer' = [at |-> IF is_overflow(workload.scenario) \/ is_backpressure(workload.scenario)
                                   THEN "none" ELSE "draining", received |-> 0]
    /\ UNCHANGED <<workload, outcome>>

\* The round ends with its outcome.
EndRound(o) ==
    /\ outcome' = accumulate(o, outcome)
    /\ BenchAt("rounds")

-----------------------------------------------------------------------------
(* measurement/awaited.rs *)

\* send_all: the next frame, or the end of the run
Sent == producer' = [at |-> IF producer.sent + 1 < workload.sends THEN "probe" ELSE "ended",
                     sent |-> producer.sent + 1]

\* push_with_priority: count the probe, take a free slot or go on to wait
push_with_priority ==
    /\ producer.at = "probe"
    /\ counters' = [counters EXCEPT !.probes = @ + 1]
    /\ IF lane < workload.queue_capacity
       THEN Sent /\ lane' = lane + 1
       ELSE producer' = [producer EXCEPT !.at = "poll"] /\ UNCHANGED lane
    /\ UNCHANGED <<workload, bench, outcome, dlq, handles, consumer>>

\* await_send_capacity: a slot freed since the probe makes the first poll ready;
\* the first pending poll is counted, and the send completes when a slot is free
await_send_capacity ==
    /\ producer.at \in {"poll", "parked"}
    /\ IF lane < workload.queue_capacity
       THEN Sent /\ lane' = lane + 1 /\ UNCHANGED counters
       ELSE /\ producer.at = "poll" /\ producer' = [producer EXCEPT !.at = "parked"]
            /\ counters' = [counters EXCEPT !.waits = @ + 1]
            /\ UNCHANGED lane
    /\ UNCHANGED <<workload, bench, outcome, dlq, handles, consumer>>

\* The consumer: recv() until the queue is empty and no handle is left
Recv ==
    /\ consumer.at = "draining"
    /\ \/ /\ lane > 0 /\ lane' = lane - 1
          /\ consumer' = [consumer EXCEPT !.received = @ + 1]
       \/ /\ lane = 0 /\ ~handles
          /\ consumer' = [consumer EXCEPT !.at = "ended"]
          /\ UNCHANGED lane
    /\ UNCHANGED <<workload, bench, outcome, dlq, handles, producer, counters>>

\* observe_parked_send: until a wait has been counted, or the deadline
observe_parked_send ==
    /\ bench.at = "observe"
    /\ \/ /\ counters.waits > 0
          /\ bench' = [bench EXCEPT !.at = "drain", !.observed = counters.waits]
       \/ bench' = [bench EXCEPT !.at = "drain", !.timed_out = TRUE]
    /\ UNCHANGED <<workload, outcome, lane, dlq, handles, producer, consumer, counters>>

\* send_backpressure: drain now, whatever was observed
StartDrain ==
    /\ bench.at = "drain"
    /\ BenchAt("join_producer")
    /\ consumer' = [consumer EXCEPT !.at = "draining"]
    /\ UNCHANGED <<workload, outcome, lane, dlq, handles, producer, counters>>

\* send_drained and send_backpressure: the producer has sent everything; the last
\* handle is dropped
JoinProducer ==
    /\ bench.at = "join_producer" /\ producer.at = "ended"
    /\ handles' = FALSE
    /\ BenchAt("join_consumer")
    /\ UNCHANGED <<workload, outcome, lane, dlq, producer, consumer, counters>>

\* send_drained and send_backpressure: the consumer has ended; the round is
\* refused unless the regime it claims has occurred
JoinConsumer ==
    LET regime == IF is_backpressure(workload.scenario) THEN bench.observed > 0
                  ELSE /\ is_uncontended(workload.scenario) => counters.waits = 0
                       /\ counters.probes > 0
    IN  /\ bench.at = "join_consumer" /\ consumer.at = "ended"
        /\ IF regime /\ consumer.received = workload.sends
           THEN EndRound([accepted |-> workload.sends, drained |-> consumer.received,
                          dead_lettered |-> 0, reported_queue_full |-> FALSE,
                          waits |-> counters.waits, probes |-> counters.probes])
           ELSE BenchAt("failed") /\ UNCHANGED outcome
        /\ UNCHANGED <<workload, lane, dlq, handles, producer, consumer, counters>>

-----------------------------------------------------------------------------
(* measurement/overflow.rs *)

\* fill_to_capacity, then the check that the queue is full
fill_to_capacity ==
    /\ bench.at = "fill"
    /\ IF lane < workload.queue_capacity
       THEN /\ lane' = lane + 1 /\ counters' = [counters EXCEPT !.probes = @ + 1]
            /\ UNCHANGED bench
       ELSE BenchAt("overflow") /\ UNCHANGED <<lane, counters>>
    /\ UNCHANGED <<workload, outcome, dlq, handles, producer, consumer>>

\* send_overflow: every send meets a full queue; a drop policy routes the frame to
\* the dead-letter queue, built for all of them, and reports success
send_overflow ==
    /\ bench.at = "overflow"
    /\ IF policy(workload.scenario) = "ReturnErrorIfFull"
       THEN EndRound([NoOutcome EXCEPT !.reported_queue_full = TRUE]) /\ UNCHANGED dlq
       ELSE /\ dlq' = workload.sends
            /\ EndRound([NoOutcome EXCEPT !.accepted = workload.sends, !.dead_lettered = dlq'])
    /\ UNCHANGED <<workload, lane, handles, producer, consumer, counters>>

-----------------------------------------------------------------------------
BenchEnded == {"measured", "invalid", "failed"}
BenchOver == bench.at \in BenchEnded /\ UNCHANGED benchVars

Measurer == run_once \/ StartDrain \/ JoinProducer \/ JoinConsumer
                \/ fill_to_capacity \/ send_overflow
Producer == push_with_priority \/ await_send_capacity

BenchNext == measure_push \/ Measurer \/ observe_parked_send \/ Producer \/ Recv \/ BenchOver

\* The runtime polls every task that can go on; the observing task's deadline is a
\* wall clock's.
BenchFairness ==
    /\ WF_benchVars(Measurer) /\ WF_benchVars(observe_parked_send)
    /\ WF_benchVars(Producer) /\ WF_benchVars(Recv)

-----------------------------------------------------------------------------
(* Properties *)

\* A measurement is reported only of the regime its label names, over all of its
\* rounds: every frame of an awaited run was drained and probed for, no send of
\* an uncontended run parked, one of every back-pressure round did, an error run
\* accepted nothing, and a drop run dead-lettered what it accepted.  And a valid
\* workload is refused only when the deadline passed unobserved.
RegimeIsReal ==
    LET all == workload.sends * workload.iterations
        s == workload.scenario
    IN  /\ bench.at = "measured" /\ workload.iterations > 0 =>
              /\ ~is_overflow(s) => /\ outcome.accepted = all /\ outcome.drained = all
                                    /\ outcome.probes = all /\ ~outcome.reported_queue_full
              /\ is_uncontended(s) => outcome.waits = 0
              /\ is_backpressure(s) => outcome.waits >= workload.iterations
              /\ s = "OverflowReturnError" =>
                    outcome = [NoOutcome EXCEPT !.reported_queue_full = TRUE]
              /\ s \in {"OverflowDrop", "OverflowWarnAndDrop"} =>
                    outcome = [NoOutcome EXCEPT !.accepted = all, !.dead_lettered = all]
        /\ bench.at = "failed" => is_backpressure(s) /\ bench.timed_out

\* A measurement that has begun ends, in every regime and also when no park was
\* observed: neither join waits for a task that waits for the measuring one.
MeasurementsEnd == (bench.at = "rounds") ~> (bench.at \in BenchEnded)
=============================================================================
