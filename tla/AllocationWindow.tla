-------------------------- MODULE AllocationWindow --------------------------
(***************************************************************************)
(* The allocation counter of the benchmarks                                *)
(* (wireframe_testing/src/benchmark_alloc_support).  Three process globals *)
(* hold what closed windows counted, the allocator's total at the last     *)
(* boundary, and a gate.  One thread measures with count_allocations, one  *)
(* atomic access at a time; the measured operation may itself reset the    *)
(* counter; other threads allocate at any time, and one of them reads      *)
(* allocation_count meanwhile.  Windows are never opened concurrently:     *)
(* every benchmark measures from one thread.                               *)
(*                                                                         *)
(* total_allocations sums two counters it loads one after the other.  Both *)
(* only grow by one, so the sum it obtains is the total at some moment     *)
(* between the two loads: one read of `total` stands for it.               *)
(***************************************************************************)
EXTENDS Naturals

CONSTANTS
    MaxAllocations,   \* bound on the allocations of the process
    MaxWindows,       \* bound on the windows opened
    MaxResets         \* bound on the resets inside the operation

ASSUME WindowAssumption ==
    MaxAllocations \in Nat /\ MaxWindows \in Nat /\ MaxResets \in Nat

VARIABLES
    total,      \* what the instrumenting allocator has counted
    globals,    \* [accumulated, baseline, is_open]: the three atomics
    measure,    \* the measuring thread: [at, sample, ok, count, windows, resets]
    reader,     \* a thread in allocation_count: [at, state, count]
    seen        \* ghost: [own, gated] allocations of the operation since its last
                \* boundary, and of the process while the gate was open

windowVars == <<total, globals, measure, reader, seen>>

-----------------------------------------------------------------------------
(* window.rs *)

\* WindowState::default, the initial value of the atomics
default == [accumulated |-> 0, baseline |-> 0, is_open |-> FALSE]

\* WindowState::opened_at
opened_at(t) == [accumulated |-> 0, baseline |-> t, is_open |-> TRUE]

\* WindowState::reset_at: the gate stays as it is
reset_at(state, t) == [state EXCEPT !.accumulated = 0, !.baseline = t]

\* WindowState::delta: saturating
delta(baseline, t) == IF t >= baseline THEN t - baseline ELSE 0

\* WindowState::count_at
count_at(state, t) ==
    IF state.is_open THEN state.accumulated + delta(state.baseline, t) ELSE state.accumulated

-----------------------------------------------------------------------------
(* mod.rs *)

WindowInit ==
    /\ total = 0 /\ globals = default
    /\ measure = [at |-> "idle", sample |-> 0, ok |-> TRUE, count |-> 0, windows |-> 0, resets |-> 0]
    /\ reader = [at |-> "idle", state |-> default, count |-> 0]
    /\ seen = [own |-> 0, gated |-> 0]

Gated(n) == IF globals.is_open THEN n ELSE 0

\* The allocator counts an allocation, of the operation when `own`.
Allocate(own) ==
    /\ total < MaxAllocations
    /\ own => measure.at = "operation"
    /\ total' = total + 1
    /\ seen' = [own |-> IF own THEN seen.own + 1 ELSE seen.own, gated |-> seen.gated + Gated(1)]
    /\ UNCHANGED <<globals, measure, reader>>

\* The next access of the measuring thread
Step(from, to) == measure.at = from /\ measure' = [measure EXCEPT !.at = to]


\* count_allocations: open the gate, then sample the baseline
OpenWindow ==
    \/ /\ measure.at = "idle" /\ measure.windows < MaxWindows
       /\ measure' = [measure EXCEPT !.at = "gate", !.windows = @ + 1]
       /\ globals' = [globals EXCEPT !.is_open = TRUE]
       /\ seen' = [own |-> 0, gated |-> 0]
    \/ /\ measure.at = "gate"
       /\ measure' = [measure EXCEPT !.at = "opened", !.sample = opened_at(total).baseline]
       /\ UNCHANGED <<globals, seen>>

\* count_allocations: publish the opened state
PublishWindow ==
    /\ \/ /\ Step("opened", "publishing")
          /\ globals' = [globals EXCEPT !.accumulated = opened_at(measure.sample).accumulated]
       \/ /\ Step("publishing", "operation")
          /\ globals' = [globals EXCEPT !.baseline = opened_at(measure.sample).baseline]
    /\ UNCHANGED seen

\* reset_allocation_count, called by the operation; only its own allocations up
\* to the sample are forgotten
reset_allocation_count ==
    \/ /\ measure.at = "operation" /\ measure.resets < MaxResets
       /\ measure' = [measure EXCEPT !.at = "reset", !.sample = total, !.resets = @ + 1]
       /\ seen' = [seen EXCEPT !.own = 0]
       /\ UNCHANGED globals
    \/ /\ Step("reset", "rebasing")
       /\ globals' = [globals EXCEPT !.accumulated = reset_at(globals, measure.sample).accumulated]
       /\ UNCHANGED seen
    \/ /\ Step("rebasing", "operation")
       /\ globals' = [globals EXCEPT !.baseline = reset_at(globals, measure.sample).baseline]
       /\ UNCHANGED seen

\* count_allocations: the operation has ended, well or not; the closing total is
\* sampled and only then the gate closes
CloseWindow ==
    \/ \E ok \in BOOLEAN :
          /\ measure.at = "operation"
          /\ measure' = [measure EXCEPT !.at = "sampled", !.sample = total, !.ok = ok]
          /\ UNCHANGED <<globals, seen>>
    \/ /\ Step("sampled", "closed")
       /\ globals' = [globals EXCEPT !.is_open = FALSE]
       /\ UNCHANGED seen

\* accumulate_window_at: the swap of the baseline, then the fetch_add of the delta
accumulate_window_at ==
    /\ \/ /\ measure.at = "closed"
          /\ measure' = [measure EXCEPT !.at = "folding",
                                        !.sample = delta(globals.baseline, measure.sample)]
          /\ globals' = [globals EXCEPT !.baseline = measure.sample]
       \/ /\ Step("folding", "folded")
          /\ globals' = [globals EXCEPT !.accumulated = @ + measure.sample]
    /\ UNCHANGED seen

\* count_allocations returns: the count, or the error of the operation
count_allocations ==
    /\ measure.at = "folded"
    /\ measure' = [measure EXCEPT !.at = "returned", !.count = IF measure.ok THEN globals.accumulated ELSE 0]
    /\ UNCHANGED <<globals, seen>>

\* count_allocations_or_panic: the caller goes on with the count, or panics with
\* the error, in either case after the window has closed
count_allocations_or_panic ==
    /\ measure.at = "returned"
    /\ measure' = [measure EXCEPT !.at = IF measure.ok THEN "idle" ELSE "panicked", !.sample = 0]
    /\ UNCHANGED <<globals, seen>>

Measure ==
    /\ \/ OpenWindow \/ PublishWindow \/ reset_allocation_count
       \/ CloseWindow \/ accumulate_window_at \/ count_allocations \/ count_allocations_or_panic
    /\ UNCHANGED <<total, reader>>

\* snapshot: three loads, in the order of the fields
snapshot ==
    \/ /\ reader.at = "idle"
       /\ reader' = [at |-> "baseline", state |-> [default EXCEPT !.accumulated = globals.accumulated],
                     count |-> 0]
    \/ /\ reader.at = "baseline"
       /\ reader' = [reader EXCEPT !.at = "gate", !.state.baseline = globals.baseline]
    \/ /\ reader.at = "gate"
       /\ reader' = [reader EXCEPT !.at = "total", !.state.is_open = globals.is_open]

\* allocation_count: the snapshot, then the count at the total of now
allocation_count ==
    /\ \/ snapshot
       \/ /\ reader.at = "total"
          /\ reader' = [reader EXCEPT !.at = "idle", !.count = count_at(reader.state, total)]
    /\ UNCHANGED <<total, globals, measure, seen>>

WindowNext == (\E own \in BOOLEAN : Allocate(own)) \/ Measure \/ allocation_count

-----------------------------------------------------------------------------
(* Properties *)

\* What count_allocations returns covers every allocation of its operation since
\* the last boundary, and nothing that was allocated while the gate was closed,
\* whatever the other threads allocate around the two samples.  A failed
\* measurement leaves the gate closed, and a count read at any moment, torn by an
\* opening, a reset or a closing, never exceeds what the allocator has seen.
WindowIsExact ==
    /\ measure.at = "returned" /\ measure.ok =>
           seen.own <= measure.count /\ measure.count <= seen.gated
    /\ measure.at \in {"idle", "returned", "panicked"} => ~globals.is_open
    /\ reader.count <= total
=============================================================================
