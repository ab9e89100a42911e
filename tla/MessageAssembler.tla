-------------------------- MODULE MessageAssembler --------------------------
(***************************************************************************)
(* The multi-frame message assembly of src/message_assembler: one partial  *)
(* assembly for each message key, opened by a first frame and extended by  *)
(* continuation frames under sequence, size, budget and declared-total     *)
(* checks.  The operators below are the methods of MessageAssemblyState as *)
(* functions of its map of assemblies; InboundPipeline holds the map.      *)
(*                                                                         *)
(* A frame body is its length, an assembled body the sequence of the       *)
(* frames it was put together from.  Elapsed time is the age of an         *)
(* assembly, at most the timeout.                                          *)
(***************************************************************************)
EXTENDS Integers, Sequences, FiniteSets, SequencesExt

CONSTANTS
    Keys,              \* MessageKey
    MaxMessageSize,    \* MessageAssemblyState::max_message_size
    ConnectionBudget,  \* AggregateBudgets::connection; 0: none
    InFlightBudget,    \* AggregateBudgets::in_flight; 0: none
    AssemblyTimeout,   \* MessageAssemblyState::timeout, in ticks
    MaxSequence        \* the largest FrameSequence (u32::MAX in the code)

ASSUME AssemblerAssumption ==
    /\ IsFiniteSet(Keys) /\ MaxMessageSize \in Nat \ {0}
    /\ ConnectionBudget \in Nat /\ InFlightBudget \in Nat
    /\ AssemblyTimeout \in Nat \ {0} /\ MaxSequence \in Nat

NoSequence == -1   \* sequence or next_sequence: None
NoTotal == -1      \* total_body_len: None
NoMessage == [body |-> <<>>]

\* FirstFrameHeader with the envelope's routing, ContinuationFrameHeader.
FirstFrame(key, meta, len, total, last, routing) ==
    [first |-> TRUE, key |-> key, meta |-> meta, len |-> len, total |-> total,
     last |-> last, routing |-> routing]

Continuation(key, seq, len, last) ==
    [first |-> FALSE, key |-> key, seq |-> seq, len |-> len, last |-> last]

\* The outcome of accepting a frame: the map, the message and the error.
Answer(assemblies, message, error) ==
    [assemblies |-> assemblies, message |-> message, error |-> error]

Reject(assemblies, error) == Answer(assemblies, NoMessage, error)

-----------------------------------------------------------------------------
(* PartialAssembly *)

BodyLen(body) == FoldLeft(LAMBDA sum, frame : sum + frame.len, 0, body)

\* PartialAssembly::from_first_frame and MessageSeries::from_first_frame
from_first_frame(f) ==
    [next |-> NoSequence, tracked |-> FALSE, complete |-> f.last, total |-> f.total,
     routing |-> f.routing, meta |-> f.meta, body |-> <<[seq |-> NoSequence, len |-> f.len]>>,
     age |-> 0]

buffered_bytes(p) == p.meta + BodyLen(p.body)

total_buffered_bytes(assemblies) ==
    FoldSet(LAMBDA k, sum : sum + buffered_bytes(assemblies[k]), 0, DOMAIN assemblies)

Without(assemblies, keys) ==
    [k \in (DOMAIN assemblies) \ keys |-> assemblies[k]]

With(assemblies, key, p) ==
    [k \in (DOMAIN assemblies) \cup {key} |-> IF k = key THEN p ELSE assemblies[k]]

\* purge_expired_at: drop what has reached the timeout.
purge_expired_at(assemblies) ==
    Without(assemblies, {k \in DOMAIN assemblies : assemblies[k].age >= AssemblyTimeout})

-----------------------------------------------------------------------------
(* Budgets and declared totals *)

\* Mutant: the in-flight budget is not checked.
check_aggregate_budgets_ConnectionOnly(held, additional) ==
    IF ConnectionBudget # 0 /\ held + additional > ConnectionBudget
    THEN "ConnectionBudgetExceeded" ELSE "Ok"

\* check_aggregate_budgets, with AggregateBudgets::is_enabled
check_aggregate_budgets(held, additional) ==
    IF ConnectionBudget # 0 /\ held + additional > ConnectionBudget
    THEN "ConnectionBudgetExceeded"
    ELSE IF InFlightBudget # 0 /\ held + additional > InFlightBudget
    THEN "InFlightBudgetExceeded"
    ELSE "Ok"

check_size_limit(accumulated, len) ==
    IF accumulated + len > MaxMessageSize THEN "MessageTooLarge" ELSE "Ok"

validate_first_frame(f) ==
    CASE f.total = NoTotal -> "Ok"
      [] f.total # NoTotal /\ f.total < f.len -> "DeclaredTotalTooSmall"
      [] f.total # NoTotal /\ f.total > f.len /\ f.last -> "DeclaredTotalMismatch"
      [] OTHER -> "Ok"

validate_continuation(p, len) ==
    IF p.total # NoTotal /\ BodyLen(p.body) + len > p.total
    THEN "DeclaredTotalExceeded" ELSE "Ok"

validate_completion(p) ==
    IF p.total # NoTotal /\ BodyLen(p.body) # p.total
    THEN "DeclaredTotalMismatch" ELSE "Ok"

-----------------------------------------------------------------------------
(* MessageSeries *)

checked_increment(seq) == IF seq < MaxSequence THEN seq + 1 ELSE NoSequence

\* Mutant: a later sequence number is taken for the expected one.
sequence_error_AcceptsGaps(p, f) ==
    LET overflows == checked_increment(f.seq) = NoSequence /\ ~f.last
    IN  CASE p.tracked /\ p.next = NoSequence -> "SequenceOverflow"
          [] p.tracked /\ p.next # NoSequence /\ f.seq < p.next -> "DuplicateFrame"
          [] OTHER -> IF overflows THEN "SequenceOverflow" ELSE "Ok"

\* validate_and_advance_sequence: start_sequence_tracking takes any number
\* for the first one, advance_tracked_sequence only the next one, and
\* advance_sequence_or_overflow lets only the last frame carry the largest.
sequence_error(p, f) ==
    LET overflows == checked_increment(f.seq) = NoSequence /\ ~f.last
    IN  CASE p.tracked /\ p.next = NoSequence -> "SequenceOverflow"
          [] p.tracked /\ p.next # NoSequence /\ f.seq < p.next -> "DuplicateFrame"
          [] p.tracked /\ p.next # NoSequence /\ f.seq > p.next -> "SequenceMismatch"
          [] OTHER -> IF overflows THEN "SequenceOverflow" ELSE "Ok"

\* MessageSeries::accept_continuation: the error, and the series after it.
series_error(p, f) ==
    CASE p.complete -> "SeriesComplete"
      [] ~p.complete /\ f.seq # NoSequence -> sequence_error(p, f)
      [] ~p.complete /\ f.seq = NoSequence /\ p.tracked -> "MissingSequence"
      [] OTHER -> "Ok"

advance_series(p, f) ==
    IF f.seq = NoSequence THEN [p EXCEPT !.complete = f.last]
    ELSE [p EXCEPT !.complete = f.last, !.tracked = TRUE, !.next = checked_increment(f.seq)]

is_unrecoverable_continuity_error(error) ==
    error \in {"SequenceOverflow", "MissingFirstFrame", "MissingSequence",
               "ContinuationBodyLengthMismatch"}

-----------------------------------------------------------------------------
(* MessageAssemblyState *)

\* accept_first_frame_at: a frame that is also the last is never buffered.
accept_first_frame_at(assemblies, f) ==
    LET kept == purge_expired_at(assemblies)
        declared == IF f.total = NoTotal THEN f.len ELSE f.total
        p == from_first_frame(f)
        budgets == check_aggregate_budgets(total_buffered_bytes(kept), f.len + f.meta)
    IN  IF f.key \in DOMAIN kept THEN Reject(kept, "DuplicateFirstFrame")
        ELSE IF validate_first_frame(f) # "Ok" THEN Reject(kept, validate_first_frame(f))
        ELSE IF check_size_limit(f.meta, declared) # "Ok" THEN Reject(kept, "MessageTooLarge")
        ELSE IF f.last THEN Answer(kept, p, "Ok")
        ELSE IF budgets # "Ok" THEN Reject(kept, budgets)
        ELSE Answer(With(kept, f.key, p), NoMessage, "Ok")

\* PartialAssembly::admit_continuation
admit_continuation(p, len, held) ==
    IF check_size_limit(BodyLen(p.body), len) # "Ok" THEN "MessageTooLarge"
    ELSE IF check_aggregate_budgets(held, len) # "Ok" THEN check_aggregate_budgets(held, len)
    ELSE validate_continuation(p, len)

push_body(p, f) == [p EXCEPT !.body = Append(@, [seq |-> f.seq, len |-> f.len])]

\* Mutant: a continuation over a budget leaves the advanced series behind.
accept_continuation_frame_at_KeepsRefused(assemblies, f) ==
    LET kept == purge_expired_at(assemblies)
        p == kept[f.key]
        gone == Without(kept, {f.key})
        advanced == advance_series(p, f)
        admitted == admit_continuation(p, f.len, total_buffered_bytes(kept))
        grown == push_body(advanced, f)
    IN  IF f.key \notin DOMAIN kept THEN Reject(kept, "MissingFirstFrame")
        ELSE IF series_error(p, f) # "Ok" THEN Reject(kept, series_error(p, f))
        ELSE IF admitted # "Ok" THEN Reject(With(kept, f.key, advanced), admitted)
        ELSE IF ~f.last THEN Answer(With(kept, f.key, grown), NoMessage, "Ok")
        ELSE IF validate_completion(grown) # "Ok" THEN Reject(gone, validate_completion(grown))
        ELSE Answer(gone, grown, "Ok")

\* accept_continuation_frame_at: the series advances before the admission
\* checks, so a refused frame takes its whole assembly with it; a duplicate
\* or an early frame leaves the assembly as it was.
accept_continuation_frame_at(assemblies, f) ==
    LET kept == purge_expired_at(assemblies)
        p == kept[f.key]
        gone == Without(kept, {f.key})
        error == series_error(p, f)
        admitted == admit_continuation(p, f.len, total_buffered_bytes(kept))
        grown == push_body(advance_series(p, f), f)
    IN  IF f.key \notin DOMAIN kept THEN Reject(kept, "MissingFirstFrame")
        ELSE IF error # "Ok"
             THEN Reject(IF is_unrecoverable_continuity_error(error) THEN gone ELSE kept, error)
        ELSE IF admitted # "Ok" THEN Reject(gone, admitted)
        ELSE IF ~f.last THEN Answer(With(kept, f.key, grown), NoMessage, "Ok")
        ELSE IF validate_completion(grown) # "Ok" THEN Reject(gone, validate_completion(grown))
        ELSE Answer(gone, grown, "Ok")

accept_frame(assemblies, f) ==
    IF f.first THEN accept_first_frame_at(assemblies, f)
    ELSE accept_continuation_frame_at(assemblies, f)
=============================================================================
