---------------------------- MODULE Observability ----------------------------
(***************************************************************************)
(* The log and metrics capture of the tests                                *)
(* (wireframe_testing/src/observability and logging.rs).  The log buffer   *)
(* and its mutex belong to the process; tests that run in parallel take    *)
(* turns with it through ObservabilityHandle, and a test may panic while   *)
(* it holds it.  Every handle has a metrics recorder of its own, and the   *)
(* assertions look at the snapshot last drained from it.                   *)
(*                                                                         *)
(* Only the holder of the handle logs: a test that captures logs joins the *)
(* tasks it started before it lets the handle go.                          *)
(***************************************************************************)
EXTENDS FiniteSetsExt, Sequences

CONSTANTS
    Tests,        \* the tests of a binary
    Messages,     \* what a log record says
    Levels,       \* and how loudly
    Series,       \* counter series of one metric: sets of labels
    Labels,       \* the labels
    MaxLogs,      \* bound on the buffered records
    MaxCount,     \* bound on a counter
    MaxQueries    \* bound on the log assertions of a test

ASSUME ObservabilityAssumption == \A s \in Series : s \subseteq Labels

VARIABLES
    mutex,       \* [holder, poisoned]: shared_logger
    buffer,      \* the records logged and not yet popped: [by, message, level]
    test,        \* test -> [at, fresh, captured, queries]
    recorder,    \* test -> [registered series -> count]: its DebuggingRecorder
    emitted,     \* ghost: test -> what it counted since its last drain, and in the
                 \* span its captured snapshot covers: [since, span]
    answers      \* ghost: test -> who logged the record last found in a fresh view

obsVars == <<mutex, buffer, test, recorder, emitted, answers>>

Nobody == "nobody"
Zero == [s \in Series |-> 0]
NoEntries == [s \in {} |-> 0]

NoHandle == [at |-> "start", fresh |-> FALSE, captured |-> NoEntries, queries |-> 0]

ObservabilityInit ==
    /\ mutex = [holder |-> Nobody, poisoned |-> FALSE]
    /\ buffer = <<>>
    /\ test = [t \in Tests |-> NoHandle]
    /\ recorder = [t \in Tests |-> NoEntries]
    /\ emitted = [t \in Tests |-> [since |-> Zero, span |-> Zero]]
    /\ answers = [t \in Tests |-> Nobody]

-----------------------------------------------------------------------------
(* logging.rs *)

\* shared_logger: the mutex can be taken when nobody holds it
shared_logger == mutex.holder = Nobody

\* LoggerHandle::new: a poisoned lock is recovered and the buffer drained; the
\* poison stays, so every later handle drains too
LoggerHandle_new(t) ==
    /\ shared_logger
    /\ mutex' = [mutex EXCEPT !.holder = t]
    /\ buffer' = IF mutex.poisoned THEN <<>> ELSE buffer

\* LoggerHandle::clear
LoggerHandle_clear == buffer' = <<>>

-----------------------------------------------------------------------------
(* observability/mod.rs *)

Holds(t) == test[t].at = "held"

\* ObservabilityHandle::new.  The view is fresh when the lock was recovered.
new(t) ==
    /\ test[t].at = "start"
    /\ LoggerHandle_new(t)
    /\ test' = [test EXCEPT ![t].at = "held", ![t].fresh = mutex.poisoned]
    /\ UNCHANGED <<recorder, emitted, answers>>

\* The test logs a record.
Log(t, message, level) ==
    /\ Holds(t) /\ Len(buffer) < MaxLogs
    /\ buffer' = Append(buffer, [by |-> t, message |-> message, level |-> level])
    /\ UNCHANGED <<mutex, test, recorder, emitted, answers>>

\* The test counts under its own recorder, on its own thread.
Count(t, s) ==
    /\ Holds(t) /\ emitted[t].since[s] < MaxCount
    /\ recorder' = [recorder EXCEPT ![t] =
          [x \in DOMAIN @ \cup {s} |-> (IF x \in DOMAIN @ THEN @[x] ELSE 0) + (IF x = s THEN 1 ELSE 0)]]
    /\ emitted' = [emitted EXCEPT ![t].since[s] = @ + 1]
    /\ UNCHANGED <<mutex, buffer, test, answers>>

\* Snapshotter::snapshot: every registered counter is swapped with zero
Drain(t) == recorder' = [recorder EXCEPT ![t] = [s \in DOMAIN @ |-> 0]]

\* ObservabilityHandle::snapshot
take_snapshot(t) ==
    /\ Holds(t)
    /\ Drain(t)
    /\ test' = [test EXCEPT ![t].captured = recorder[t]]
    /\ emitted' = [emitted EXCEPT ![t] = [since |-> Zero, span |-> @.since]]
    /\ UNCHANGED <<mutex, buffer, answers>>

\* ObservabilityHandle::clear: the logs, the recorder, the captured snapshot
clear(t) ==
    /\ Holds(t)
    /\ LoggerHandle_clear
    /\ Drain(t)
    /\ test' = [test EXCEPT ![t].captured = NoEntries, ![t].fresh = TRUE]
    /\ emitted' = [emitted EXCEPT ![t] = [since |-> Zero, span |-> Zero]]
    /\ UNCHANGED <<mutex, answers>>

\* The handle is dropped with its recorder, by a panic when `panics`: then the
\* lock is poisoned.  The buffer is left as it is.
Release(t, panics) ==
    /\ Holds(t)
    /\ mutex' = [holder |-> Nobody, poisoned |-> mutex.poisoned \/ panics]
    /\ test' = [test EXCEPT ![t] = [NoHandle EXCEPT !.at = "done"]]
    /\ recorder' = [recorder EXCEPT ![t] = NoEntries]
    /\ emitted' = [emitted EXCEPT ![t] = [since |-> Zero, span |-> Zero]]
    /\ answers' = [answers EXCEPT ![t] = Nobody]
    /\ UNCHANGED buffer

-----------------------------------------------------------------------------
(* observability/assertions.rs and labels.rs *)

\* find_counter: the sum of the series whose labels include the ones asked for
find_counter(captured, labels) ==
    MapThenSumSet(LAMBDA s : captured[s], {s \in DOMAIN captured : labels \subseteq s})

\* ObservabilityHandle::counter
counter(t, labels) == find_counter(test[t].captured, labels)

\* assert_counter
assert_counter(t, labels, expected) == counter(t, labels) = expected

\* assert_no_metric: no entry at all, a drained series of count zero included
assert_no_metric(t) == DOMAIN test[t].captured = {}

\* Who logged the first wanted record of a fresh view
Finder(t, Wanted) ==
    LET found == {i \in DOMAIN buffer : buffer[i] \in Wanted}
    IN  IF found = {} \/ ~test[t].fresh THEN Nobody ELSE buffer[Min(found)].by

\* assert_log_matches: pops every record, whether one of them matches or not
assert_log_matches(t, Wanted) ==
    /\ Holds(t) /\ test[t].queries < MaxQueries
    /\ buffer' = <<>>
    /\ test' = [test EXCEPT ![t].queries = @ + 1, ![t].fresh = TRUE]
    /\ answers' = [answers EXCEPT ![t] = Finder(t, Wanted)]
    /\ UNCHANGED <<mutex, recorder, emitted>>

Records == [by : Tests, message : Messages, level : Levels]

\* assert_log_contains
assert_log_contains(t, message) ==
    assert_log_matches(t, {r \in Records : r.message = message})

\* assert_log_at_level
assert_log_at_level(t, level, message) ==
    assert_log_matches(t, {r \in Records : r.message = message /\ r.level = level})

\* logs().pop(): the oldest record
Pop(t) ==
    /\ Holds(t) /\ buffer # <<>> /\ test[t].queries < MaxQueries
    /\ buffer' = Tail(buffer)
    /\ test' = [test EXCEPT ![t].queries = @ + 1]
    /\ answers' = [answers EXCEPT ![t] = Finder(t, {Head(buffer)})]
    /\ UNCHANGED <<mutex, recorder, emitted>>

-----------------------------------------------------------------------------
\* The tests of the binary have run.
TestsOver == (\A t \in Tests : test[t].at = "done") /\ UNCHANGED obsVars

ObservabilityNext ==
    \/ TestsOver
    \/ \E t \in Tests :
        \/ new(t) \/ take_snapshot(t) \/ clear(t) \/ Pop(t)
        \/ \E panics \in BOOLEAN : Release(t, panics)
        \/ \E s \in Series : Count(t, s)
        \/ \E message \in Messages :
              \/ assert_log_contains(t, message)
              \/ \E level \in Levels : Log(t, message, level) \/ assert_log_at_level(t, level, message)

-----------------------------------------------------------------------------
(* Properties *)

\* A test that cleared its handle, drained it with an assertion, or recovered the
\* lock of a test that panicked, finds only records it logged itself.  What the
\* counters of a handle report, for any labels, is exactly what the test counted
\* between the two drains its snapshot lies between, and zero after a clear; no
\* metric is reported absent that was counted in that span.
EvidenceIsOwn ==
    \A t \in Tests :
        /\ answers[t] \in {Nobody, t}
        /\ \A labels \in SUBSET Labels :
              assert_counter(t, labels, find_counter(emitted[t].span, labels))
        /\ assert_no_metric(t) => emitted[t].span = Zero
=============================================================================
