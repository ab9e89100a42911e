--------------------------- MODULE Fragmentation ----------------------------
(***************************************************************************)
(* The fragmentation layer of src/fragment: a Fragmenter cuts messages     *)
(* into fragments, and the peer's Reassembler puts them together under its *)
(* size, count and byte budgets and its timeout.  Between the two,         *)
(* fragments of different messages interleave, and a bounded number of     *)
(* faults loses, repeats or delays fragments: FragmentSeries::accept has   *)
(* an answer for each.                                                     *)
(*                                                                         *)
(* A fragment is its message and its index, a buffer the sequence of the   *)
(* indices appended to it; sizes are in bytes.                             *)
(***************************************************************************)
EXTENDS Integers, Sequences, FiniteSets, SequencesExt

CONSTANTS
    MaxMessages,       \* bound: messages the sender fragments
    Lengths,           \* payload lengths it may send
    MaxFragmentSize,   \* Fragmenter: max_fragment_size
    MaxIndex,          \* the largest FragmentIndex (u32::MAX in the code)
    MaxMessageSize,    \* Reassembler: max_message_size
    MaxPartials,       \* Reassembler: max_concurrent_partials; 0: unlimited
    MaxBufferedBytes,  \* Reassembler: max_buffered_bytes; 0: unlimited
    Timeout,           \* Reassembler: timeout, in ticks
    MaxFaults          \* bound: fragments lost or delivered out of turn

ASSUME LengthsAssumption == Lengths \subseteq Nat /\ IsFiniteSet(Lengths)
ASSUME SenderAssumption ==
    MaxMessages \in Nat /\ MaxFragmentSize \in Nat \ {0} /\ MaxIndex \in Nat
ASSUME BudgetAssumption ==
    /\ MaxMessageSize \in Nat \ {0} /\ MaxPartials \in Nat /\ MaxBufferedBytes \in Nat
    /\ Timeout \in Nat /\ MaxFaults \in Nat

Ids == 0..(MaxMessages - 1)
NotSent == -1

VARIABLES
    next_message_id,  \* Fragmenter::next_message_id
    total,            \* payload length of each fragmented message; NotSent before
    cursor,           \* the fragment of each message the network carries next
    faults,           \* faults so far
    buffers,          \* buffer of each partial message; <<>>: no partial
    next_index,       \* FragmentSeries::next_index of each partial
    age,              \* ticks since started_at
    buffered_bytes,   \* ReassemblyBudget::buffered_bytes
    \* History variables
    delivered,        \* buffers returned as reassembled, for each message
    given_up          \* messages that met an error or an eviction

sender == <<next_message_id, total>>
network == <<cursor, faults>>
outcome == <<delivered, given_up>>
vars == <<sender, network, buffers, next_index, age, buffered_bytes, outcome>>

Init ==
    /\ next_message_id = 0 /\ total = [i \in Ids |-> NotSent]
    /\ cursor = [i \in Ids |-> 0] /\ faults = 0
    /\ buffers = [i \in Ids |-> <<>>] /\ next_index = [i \in Ids |-> 0]
    /\ age = [i \in Ids |-> 0] /\ buffered_bytes = 0
    /\ delivered = [i \in Ids |-> <<>>] /\ given_up = {}

-----------------------------------------------------------------------------
(* Fragmenter *)

\* build_fragments_from: the index of the last fragment of a payload, the size
\* of each fragment; an empty payload is one empty fragment.
LastIndex(len) == IF len = 0 THEN 0 ELSE (len - 1) \div MaxFragmentSize

ChunkSize(len, idx) ==
    IF len - idx * MaxFragmentSize < MaxFragmentSize
    THEN len - idx * MaxFragmentSize ELSE MaxFragmentSize

\* fragment_bytes: take a message id; an index overflow sends nothing.
FragmentBytes(len) ==
    /\ next_message_id < MaxMessages
    /\ next_message_id' = next_message_id + 1
    /\ IF LastIndex(len) <= MaxIndex
       THEN total' = [total EXCEPT ![next_message_id] = len]
       ELSE UNCHANGED total
    /\ UNCHANGED <<network, buffers, next_index, age, buffered_bytes, outcome>>

-----------------------------------------------------------------------------
(* The network *)

Sent == {i \in Ids : total[i] # NotSent}
IsLast(id, idx) == idx = LastIndex(total[id])
Size(id, idx) == ChunkSize(total[id], idx)

\* A fragment arrives: the next of its message, or one that was carried before.
Arrives(id, idx) ==
    /\ id \in Sent /\ idx <= LastIndex(total[id])
    /\ \/ /\ idx = cursor[id]
          /\ cursor' = [cursor EXCEPT ![id] = @ + 1] /\ UNCHANGED faults
       \/ /\ idx < cursor[id] /\ faults < MaxFaults
          /\ faults' = faults + 1 /\ UNCHANGED cursor

Lose(id) ==
    /\ id \in Sent /\ cursor[id] <= LastIndex(total[id]) /\ faults < MaxFaults
    /\ cursor' = [cursor EXCEPT ![id] = @ + 1] /\ faults' = faults + 1
    /\ UNCHANGED <<sender, buffers, next_index, age, buffered_bytes, outcome>>

-----------------------------------------------------------------------------
(* Reassembler *)

BufferLen(id) == FoldLeft(LAMBDA sum, idx : sum + Size(id, idx), 0, buffers[id])

Expired == {i \in Ids : buffers[i] # <<>> /\ age[i] >= Timeout}
Open == {i \in Ids : buffers[i] # <<>>} \ Expired

TotalLen(ids) == FoldSet(LAMBDA i, sum : sum + BufferLen(i), 0, ids)

\* purge_expired_at, which every push begins with: bytes left after it.
BytesAfterPurge == buffered_bytes - TotalLen(Expired)

\* The state after the purge, with message id's buffer set to buffer.
Store(id, buffer, bytes) ==
    /\ buffers' = [i \in Ids |-> IF i = id THEN buffer ELSE IF i \in Open THEN buffers[i] ELSE <<>>]
    /\ buffered_bytes' = bytes
    /\ age' = [i \in Ids |-> IF i \in Open THEN age[i] ELSE 0]

Fails(id, idx) ==
    /\ given_up' = given_up \cup Expired \cup {id}
    /\ UNCHANGED <<sender, delivered>>
    /\ Arrives(id, idx)

Succeeds(id, idx) ==
    /\ given_up' = given_up \cup Expired
    /\ UNCHANGED sender
    /\ Arrives(id, idx)

FitsMessage(bytes) == bytes <= MaxMessageSize
FitsBudget(bytes) == MaxBufferedBytes = 0 \/ BytesAfterPurge + bytes <= MaxBufferedBytes
FitsPartials == MaxPartials = 0 \/ Cardinality(Open) + 1 <= MaxPartials

\* advance_accepted: only the last fragment may carry the largest index.
CanAdvance(id, idx) == IsLast(id, idx) \/ idx < MaxIndex

\* push_first_fragment
AdmitsFirst(id, idx) ==
    /\ idx = 0 /\ CanAdvance(id, idx) /\ FitsMessage(Size(id, idx))
    /\ IsLast(id, idx) \/ (FitsPartials /\ FitsBudget(Size(id, idx)))

PushFirst(id, idx) ==
    /\ id \notin Open /\ AdmitsFirst(id, idx)
    /\ Succeeds(id, idx)
    /\ IF IsLast(id, idx)
       THEN /\ Store(id, <<>>, BytesAfterPurge)
            /\ delivered' = [delivered EXCEPT ![id] = Append(@, <<idx>>)]
            /\ UNCHANGED next_index
       ELSE /\ Store(id, <<idx>>, BytesAfterPurge + Size(id, idx))
            /\ next_index' = [next_index EXCEPT ![id] = idx + 1]
            /\ UNCHANGED delivered

\* The vacant entry stays vacant: not a first fragment, or over a budget.
RefuseFirst(id, idx) ==
    /\ id \notin Open /\ ~AdmitsFirst(id, idx)
    /\ Fails(id, idx)
    /\ Store(id, <<>>, BytesAfterPurge)
    /\ UNCHANGED next_index

\* FragmentSeries::accept: an index below the expected one is ignored.
PushDuplicate(id, idx) ==
    /\ id \in Open /\ idx < next_index[id]
    /\ Succeeds(id, idx)
    /\ Store(id, buffers[id], BytesAfterPurge)
    /\ UNCHANGED <<next_index, delivered>>

\* Mutant: any later index is taken for the expected one.
AdmitsNext_AcceptsGaps(id, idx) ==
    /\ idx >= next_index[id] /\ CanAdvance(id, idx)
    /\ FitsMessage(BufferLen(id) + Size(id, idx)) /\ FitsBudget(Size(id, idx))

\* push_existing_fragment and append_and_maybe_complete
AdmitsNext(id, idx) ==
    /\ idx = next_index[id] /\ CanAdvance(id, idx)
    /\ FitsMessage(BufferLen(id) + Size(id, idx)) /\ FitsBudget(Size(id, idx))

\* Mutant: completion does not release the bytes of the last fragment.
PushNext_LeaksLast(id, idx) ==
    /\ id \in Open /\ idx >= next_index[id] /\ AdmitsNext(id, idx)
    /\ Succeeds(id, idx)
    /\ IF IsLast(id, idx)
       THEN /\ Store(id, <<>>, BytesAfterPurge + Size(id, idx) - BufferLen(id))
            /\ delivered' = [delivered EXCEPT ![id] = Append(@, Append(buffers[id], idx))]
       ELSE Store(id, Append(buffers[id], idx), BytesAfterPurge + Size(id, idx)) /\ UNCHANGED delivered
    /\ next_index' = [next_index EXCEPT ![id] = idx + 1]

PushNext(id, idx) ==
    /\ id \in Open /\ idx >= next_index[id] /\ AdmitsNext(id, idx)
    /\ Succeeds(id, idx)
    /\ IF IsLast(id, idx)
       THEN /\ Store(id, <<>>, BytesAfterPurge - BufferLen(id))
            /\ delivered' = [delivered EXCEPT ![id] = Append(@, Append(buffers[id], idx))]
       ELSE /\ Store(id, Append(buffers[id], idx), BytesAfterPurge + Size(id, idx))
            /\ UNCHANGED delivered
    /\ next_index' = [next_index EXCEPT ![id] = idx + 1]

\* A gap, an index overflow or an exceeded budget drops the partial message.
RefuseNext(id, idx) ==
    /\ id \in Open /\ idx >= next_index[id] /\ ~AdmitsNext(id, idx)
    /\ Fails(id, idx)
    /\ Store(id, <<>>, BytesAfterPurge - BufferLen(id))
    /\ UNCHANGED next_index

Push(id, idx) ==
    \/ PushFirst(id, idx) \/ RefuseFirst(id, idx)
    \/ PushDuplicate(id, idx) \/ PushNext(id, idx) \/ RefuseNext(id, idx)


\* purge_expired, called by the connection's read loop.
PurgeExpired ==
    /\ Expired # {}
    /\ buffers' = [i \in Ids |-> IF i \in Open THEN buffers[i] ELSE <<>>]
    /\ buffered_bytes' = BytesAfterPurge
    /\ age' = [i \in Ids |-> IF i \in Open THEN age[i] ELSE 0]
    /\ given_up' = given_up \cup Expired
    /\ UNCHANGED <<sender, network, next_index, delivered>>

Tick ==
    /\ \E i \in Ids : buffers[i] # <<>> /\ age[i] < Timeout
    /\ age' = [i \in Ids |-> IF buffers[i] # <<>> /\ age[i] < Timeout THEN age[i] + 1 ELSE age[i]]
    /\ UNCHANGED <<sender, network, buffers, next_index, buffered_bytes, outcome>>

-----------------------------------------------------------------------------
Next ==
    \/ \E len \in Lengths : FragmentBytes(len)
    \/ \E id \in Ids : Lose(id) \/ \E idx \in 0..cursor[id] : Push(id, idx)
    \/ PurgeExpired \/ Tick

Spec == Init /\ [][Next]_vars
FairSpec == Spec /\ WF_vars(PurgeExpired) /\ WF_vars(Tick)

-----------------------------------------------------------------------------
(* Properties *)

\* Every variable has its type.
TypeOK ==
    /\ next_message_id \in 0..MaxMessages /\ total \in [Ids -> Lengths \cup {NotSent}]
    /\ cursor \in [Ids -> Nat] /\ faults \in 0..MaxFaults
    /\ buffers \in [Ids -> Seq(0..MaxIndex)] /\ next_index \in [Ids -> 0..(MaxIndex + 1)]
    /\ age \in [Ids -> 0..Timeout] /\ buffered_bytes \in Nat
    /\ delivered \in [Ids -> Seq(Seq(0..MaxIndex))] /\ given_up \subseteq Ids

\* The budget's byte counter is the sum of the buffers that exist, after any
\* sequence of completions, evictions and errors (add_bytes, release_bytes and
\* remove_partial): it never leaks and never underflows.  The three budgets hold
\* at all times, ghost partials that late duplicates reopen included.
BudgetsHold ==
    /\ buffered_bytes = TotalLen({i \in Ids : buffers[i] # <<>>})
    /\ MaxPartials # 0 => Cardinality({i \in Ids : buffers[i] # <<>>}) <= MaxPartials
    /\ MaxBufferedBytes # 0 => buffered_bytes <= MaxBufferedBytes
    /\ \A i \in Ids : BufferLen(i) <= MaxMessageSize

Whole(id) == [n \in 1..(LastIndex(total[id]) + 1) |-> n - 1]

\* Whatever is lost, repeated or delayed, a reassembled message is the
\* message that was fragmented: every fragment once, in order.  On a faultless
\* connection no message is lost silently or delivered twice: when its last
\* fragment was consumed it was delivered once, unless an error or an eviction
\* was reported for it.
DeliveredWhole ==
    /\ \A id \in Ids : \A n \in 1..Len(delivered[id]) : delivered[id][n] = Whole(id)
    /\ faults = 0 =>
        \A id \in Sent :
            cursor[id] > LastIndex(total[id]) /\ id \notin given_up => Len(delivered[id]) = 1

=============================================================================
