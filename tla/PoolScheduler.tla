--------------------------- MODULE PoolScheduler ----------------------------
(***************************************************************************)
(* The scheduler task of the client pool (src/client/pool/scheduler/) with *)
(* the permits of the slots (core.rs), the logical sessions that acquire   *)
(* leases through it (handle.rs) and the pool's owner, who may close it    *)
(* (client_pool.rs).                                                       *)
(*                                                                         *)
(* The task's handlers do not await, but sessions, released leases and     *)
(* close() run on other threads: every point where the task reads what     *)
(* they write is a step of its own.  What a lease does with its socket is  *)
(* modelled in PoolLease; here a lease is one permit of a slot.            *)
(***************************************************************************)
EXTENDS Integers, SequencesExt

CONSTANTS
    Handles,      \* PoolHandles, each with its own handle_id
    NumSlots,     \* pool_size
    MaxInFlight,  \* max_in_flight_per_socket
    MaxWaiters,   \* max_waiters
    Policy,       \* fairness_policy
    CursorWrap,   \* number of values of next_slot (2^64 in the code)
    MayPanic,     \* a metrics recorder may panic inside the task
    MaxAcquires   \* bound: acquisitions each handle starts

ASSUME HandlesAssumption == IsFiniteSet(Handles)
ASSUME BoundsAssumption ==
    /\ NumSlots \in Nat \ {0} /\ MaxInFlight \in Nat \ {0} /\ MaxWaiters \in Nat \ {0}
    /\ CursorWrap \in Nat \ {0} /\ MaxAcquires \in Nat
ASSUME PolicyAssumption == Policy \in {"Fifo", "RoundRobin"} /\ MayPanic \in BOOLEAN

Slots == 0..(NumSlots - 1)
NoSlot == -1
NoRequest == <<>>
Requests == Handles \X (1..MaxAcquires)
Refusals == {"Closed", "Failed", "Saturated"}

\* What a oneshot channel holds: nothing yet, a refusal, a lease, or no sender any more.
Lease(s) == [kind |-> "Lease", slot |-> s]
Refusal(why) == [kind |-> why, slot |-> NoSlot]
Empty == [kind |-> "Empty", slot |-> NoSlot]
Dropped == [kind |-> "Dropped", slot |-> NoSlot]
Replies == {Empty, Dropped} \cup {Refusal(why) : why \in Refusals} \cup {Lease(s) : s \in Slots}

VARIABLES
    session,    \* what each handle's owner does: Idle, Checked, Waiting or Gone
    made,       \* acquisitions each handle has started; names its current request
    reply,      \* the oneshot of that request: Empty, Dropped, a refusal or the slot of a lease
    told,       \* the last error acquire() returned to it, or None
    held,       \* leases of each slot that are alive
    permits,    \* free permits of each slot's semaphore
    lifecycle,  \* SchedulerLifecycle
    shutdown,   \* PoolCore::shutdown
    pool,       \* progress of WireframeClientPool::close
    mailbox,    \* commands not yet received
    mailbox_open,
    at,         \* where the task is
    notified,   \* the task's Notified: None, Armed or Woken
    race,       \* PendingGrant: None, New or Registered
    racing,     \* slots whose semaphore has the race's waiter queued
    assigned,   \* slots whose semaphore assigned a permit to that waiter
    hand,       \* slot of the permit the task holds in a local variable
    chosen,     \* the waiter it is about to answer
    cursor,     \* next_slot
    fifo_queue, round_robin_order, handle_waiters,
    turns       \* history: handles chosen while this one's request was queued

sessions == <<session, made, told>>
capacity == <<held, permits, racing, assigned>>
closing == <<lifecycle, shutdown, pool>>
mail == <<mailbox, mailbox_open>>
queues == <<fifo_queue, round_robin_order, handle_waiters>>
task == <<at, notified, race, hand, chosen, cursor>>
vars == <<sessions, reply, capacity, closing, mail, queues, task, turns>>

Stages == {"Top", "Check", "Race", "RaceWon", "RaceError", "Command", "Wait", "Sweep", "SweepWon",
           "Grant", "Deliver", "Drain", "Unwind", "Done"}
Commands == [type : {"Acquire"}, request : Requests] \cup [type : {"Deregister"}, handle : Handles]

Init ==
    /\ session = [h \in Handles |-> "Idle"] /\ made = [h \in Handles |-> 0]
    /\ reply = [h \in Handles |-> Empty] /\ told = [h \in Handles |-> "None"]
    /\ held = [s \in Slots |-> 0] /\ permits = [s \in Slots |-> MaxInFlight]
    /\ lifecycle = "Running" /\ shutdown = FALSE /\ pool = "Open"
    /\ mailbox = <<>> /\ mailbox_open = TRUE
    /\ at = "Top" /\ notified = "None" /\ race = "None" /\ racing = {} /\ assigned = {}
    /\ hand = NoSlot /\ chosen = NoRequest /\ cursor = 0
    /\ fifo_queue = <<>> /\ round_robin_order = <<>>
    /\ handle_waiters = [h \in Handles |-> <<>>]
    /\ turns = [h \in Handles |-> {}]

-----------------------------------------------------------------------------
(* Shared pieces *)

\* A request's caller still listens: !sender.is_closed().
Live(r) == session[r[1]] = "Waiting" /\ made[r[1]] = r[2]

Queued == ToSet(fifo_queue) \cup UNION {ToSet(handle_waiters[h]) : h \in Handles}
QueuedLive == {r \in Queued : Live(r)}

\* SchedulerStatus::close_error
CloseError == IF lifecycle = "Failed" THEN "Failed" ELSE "Closed"

\* Answering the live requests of a set; the others' receivers are gone.
Answer(rs, what) ==
    reply' = [h \in Handles |-> IF \E r \in rs : r[1] = h /\ Live(r) THEN what ELSE reply[h]]

\* A permit of slot s is returned: tokio gives it to a queued waiter if there is one.
GiveBack(s) ==
    IF s \in racing
    THEN racing' = racing \ {s} /\ assigned' = assigned \cup {s} /\ UNCHANGED permits
    ELSE permits' = [permits EXCEPT ![s] = @ + 1] /\ UNCHANGED <<racing, assigned>>

\* The race future is dropped with its waiters; permits assigned to those other
\* than the slots in keep go back.
DropRace(keep) ==
    /\ race' = "None" /\ racing' = {} /\ assigned' = {}
    /\ permits' = [s \in Slots |-> IF s \in assigned \ keep THEN permits[s] + 1 ELSE permits[s]]

-----------------------------------------------------------------------------
(* Sessions *)

\* SchedulerHandle::acquire reads the lifecycle.
AcquireStart(h) ==
    /\ session[h] = "Idle" /\ made[h] < MaxAcquires
    /\ made' = [made EXCEPT ![h] = @ + 1]
    /\ IF lifecycle = "Running"
       THEN session' = [session EXCEPT ![h] = "Checked"] /\ told' = [told EXCEPT ![h] = "None"]
       ELSE told' = [told EXCEPT ![h] = CloseError] /\ UNCHANGED session
    /\ UNCHANGED <<reply, capacity, closing, mail, queues, task, turns>>

\* SchedulerHandle::acquire sends the command.
AcquireSend(h) ==
    /\ session[h] = "Checked"
    /\ IF mailbox_open
       THEN /\ mailbox' = Append(mailbox, [type |-> "Acquire", request |-> <<h, made[h]>>])
            /\ session' = [session EXCEPT ![h] = "Waiting"]
            /\ UNCHANGED told
       ELSE /\ session' = [session EXCEPT ![h] = "Idle"]
            /\ told' = [told EXCEPT ![h] = CloseError]
            /\ UNCHANGED mailbox
    /\ UNCHANGED <<made, reply, capacity, closing, mailbox_open, queues, task, turns>>

\* SchedulerHandle::acquire returns: a lease, the typed refusal, or what the
\* lifecycle says when the reply channel was dropped.
AcquireReturn(h) ==
    /\ session[h] = "Waiting" /\ reply[h] # Empty
    /\ session' = [session EXCEPT ![h] = "Idle"] /\ reply' = [reply EXCEPT ![h] = Empty]
    /\ IF reply[h].kind = "Lease"
       THEN held' = [held EXCEPT ![reply[h].slot] = @ + 1] /\ UNCHANGED told
       ELSE /\ told' = [told EXCEPT ![h] = IF reply[h] = Dropped THEN CloseError ELSE reply[h].kind]
            /\ UNCHANGED held
    /\ UNCHANGED <<made, permits, racing, assigned, closing, mail, queues, task, turns>>

\* The acquire future is dropped; a lease already in the channel goes with it.
AcquireCancel(h) ==
    /\ session[h] = "Waiting"
    /\ session' = [session EXCEPT ![h] = "Idle"] /\ reply' = [reply EXCEPT ![h] = Empty]
    /\ IF reply[h].kind = "Lease" THEN GiveBack(reply[h].slot)
       ELSE UNCHANGED <<permits, racing, assigned>>
    /\ turns' = [turns EXCEPT ![h] = {}]
    /\ UNCHANGED <<made, told, held, closing, mail, queues, task>>

\* PoolHandle's Drop sends DeregisterHandle.
DropHandle(h) ==
    /\ session[h] = "Idle"
    /\ session' = [session EXCEPT ![h] = "Gone"] /\ told' = [told EXCEPT ![h] = "None"]
    /\ mailbox' = IF mailbox_open THEN Append(mailbox, [type |-> "Deregister", handle |-> h])
                  ELSE mailbox
    /\ UNCHANGED <<made, reply, capacity, closing, mailbox_open, queues, task, turns>>

\* A lease of slot s is dropped with its permit.
ReleaseLease(s) ==
    /\ held[s] > 0
    /\ held' = [held EXCEPT ![s] = @ - 1]
    /\ GiveBack(s)
    /\ UNCHANGED <<sessions, reply, closing, mail, queues, task, turns>>

-----------------------------------------------------------------------------
(* The owner of the pool *)

\* SchedulerStatus::mark_closed: a compare-exchange from Running.
MarkClosed == lifecycle' = IF lifecycle = "Running" THEN "Closed" ELSE lifecycle

\* WireframeClientPool::close marks the lifecycle,
CloseMark ==
    /\ pool = "Open" /\ pool' = "Marked"
    /\ MarkClosed
    /\ UNCHANGED <<sessions, reply, capacity, shutdown, mail, queues, task, turns>>

\* publishes shutdown,
CloseFlag ==
    /\ pool = "Marked" /\ pool' = "Flagged"
    /\ shutdown' = TRUE
    /\ UNCHANGED <<sessions, reply, capacity, lifecycle, mail, queues, task, turns>>

\* wakes the task and drops its own sender,
CloseNotify ==
    /\ pool = "Flagged" /\ pool' = "Joining"
    /\ notified' = IF notified = "Armed" THEN "Woken" ELSE notified
    /\ UNCHANGED <<sessions, reply, capacity, lifecycle, shutdown, mail, queues, at, race, hand,
                   chosen, cursor, turns>>

\* and joins it.
CloseReturn ==
    /\ pool = "Joining" /\ at = "Done" /\ pool' = "Closed"
    /\ UNCHANGED <<sessions, reply, capacity, lifecycle, shutdown, mail, queues, task, turns>>

\* The pool is dropped without close(): only its sender and its core go.
DropPool ==
    /\ pool = "Open" /\ pool' = "Dropped"
    /\ UNCHANGED <<sessions, reply, capacity, lifecycle, shutdown, mail, queues, task, turns>>

SendersGone ==
    pool \in {"Joining", "Closed", "Dropped"} /\ \A h \in Handles : session[h] = "Gone"

-----------------------------------------------------------------------------
(* The task: its loop and the permit race *)

\* run(): a race is started when somebody waits; shutdown_notified creates its
\* Notified before
TaskTop ==
    /\ at = "Top" /\ at' = "Check"
    /\ race' = IF race = "None" /\ QueuedLive # {} THEN "New" ELSE race
    /\ notified' = "Armed"
    /\ UNCHANGED <<sessions, reply, capacity, closing, mail, queues, hand, chosen, cursor, turns>>

\* it reads the flag.
TaskCheck ==
    /\ at = "Check" /\ at' = IF shutdown THEN "Drain" ELSE "Race"
    /\ UNCHANGED <<sessions, reply, capacity, closing, mail, queues, notified, race, hand, chosen,
                   cursor, turns>>

\* Mutant: the cursor is reduced after the offset is added and has wrapped.
RotationIndices_WrapsFirst(c) ==
    [i \in 1..NumSlots |-> ((c + i - 1) % CursorWrap) % NumSlots]

\* rotation_start and rotation_indices: the slots in the order they are tried.
RotationIndices(c) == [i \in 1..NumSlots |-> ((c % NumSlots) + i - 1) % NumSlots]

\* The immediate probe of ordered_slot_indices: the first slot with a free permit.
Probe == SelectSeq(RotationIndices(cursor), LAMBDA s : permits[s] > 0)
AdvanceCursor == cursor' = (cursor + 1) % CursorWrap

TakePermit(next) ==
    /\ hand' = Head(Probe) /\ permits' = [permits EXCEPT ![Head(Probe)] = @ - 1]
    /\ at' = next

\* acquire_slot_permit, first poll: probe, then queue on every semaphore.
RaceStart ==
    /\ at = "Race" /\ race = "New"
    /\ IF shutdown
       THEN at' = "RaceError" /\ race' = "None" /\ UNCHANGED <<permits, racing, hand, cursor>>
       ELSE /\ AdvanceCursor
            /\ IF Probe # <<>>
               THEN TakePermit("RaceWon") /\ race' = "None" /\ UNCHANGED racing
               ELSE /\ racing' = ToSet(RotationIndices(cursor)) /\ race' = "Registered"
                    /\ at' = "Command" /\ UNCHANGED <<permits, hand>>
    /\ UNCHANGED <<sessions, reply, held, assigned, closing, mail, queues, notified, chosen, turns>>

\* acquire_from_blocked_slots: one acquisition completes, the others are dropped.
RaceResolved ==
    /\ at = "Race" /\ race = "Registered" /\ at' = "RaceWon"
    /\ \E s \in assigned : hand' = s /\ DropRace({s})
    /\ UNCHANGED <<sessions, reply, held, closing, mail, queues, notified, chosen, cursor, turns>>

\* poll_pending_permit has no race, or the race is blocked.
RacePending ==
    /\ at = "Race" /\ at' = "Command"
    /\ race = "None" \/ (race = "Registered" /\ assigned = {})
    /\ UNCHANGED <<sessions, reply, capacity, closing, mail, queues, notified, race, hand, chosen,
                   cursor, turns>>

\* The second shutdown check: acquire_slot_permit fails, try_acquire_permit
\* returns None.
PermitWon ==
    /\ at \in {"RaceWon", "SweepWon"}
    /\ IF shutdown
       THEN /\ GiveBack(hand) /\ hand' = NoSlot
            /\ at' = IF at = "RaceWon" THEN "RaceError" ELSE "Top"
       ELSE at' = "Grant" /\ UNCHANGED <<hand, permits, racing, assigned>>
    /\ UNCHANGED <<sessions, reply, held, closing, mail, queues, notified, race, chosen, cursor,
                   turns>>

\* Every waiter is taken out of SchedulerState.
EmptyQueues ==
    /\ fifo_queue' = <<>> /\ handle_waiters' = [h \in Handles |-> <<>>]
    /\ turns' = [h \in Handles |-> {}]

\* SchedulerState is dropped with the task.
DropQueues == EmptyQueues /\ round_robin_order' = <<>>

\* fail_on_race_error
RaceError ==
    /\ at = "RaceError" /\ at' = "Top"
    /\ lifecycle' = IF lifecycle = "Running" THEN "Failed" ELSE lifecycle
    /\ Answer(Queued, Refusal(CloseError'))
    /\ EmptyQueues
    /\ mailbox_open' = FALSE
    /\ UNCHANGED <<sessions, capacity, shutdown, pool, mailbox, round_robin_order, notified, race,
                   hand, chosen, cursor>>

-----------------------------------------------------------------------------
(* The task: choosing and answering waiters *)

\* grant_sweep: take a free permit while somebody waits.
Sweep ==
    /\ at = "Sweep"
    /\ IF QueuedLive # {} /\ ~shutdown
       THEN /\ AdvanceCursor
            /\ IF Probe # <<>> THEN TakePermit("SweepWon")
               ELSE at' = "Top" /\ UNCHANGED <<hand, permits>>
       ELSE at' = "Top" /\ UNCHANGED <<hand, permits, cursor>>
    /\ UNCHANGED <<sessions, reply, held, racing, assigned, closing, mail, queues, notified, race,
                   chosen, turns>>

Choose(r) ==
    /\ chosen' = r /\ at' = "Deliver"
    /\ turns' = [h \in Handles |-> IF \E q \in QueuedLive \ {r} : q[1] = h
                                   THEN turns[h] \cup {r[1]} ELSE {}]
    /\ UNCHANGED <<hand, permits, racing, assigned>>

\* take_next_waiter found nobody: the permit is dropped.
NobodyWaits ==
    /\ GiveBack(hand) /\ hand' = NoSlot /\ at' = "Sweep"
    /\ UNCHANGED <<chosen, turns>>

\* take_next_fifo_waiter
TakeNextFifo ==
    LET candidates == {i \in DOMAIN fifo_queue :
                          /\ Live(fifo_queue[i])
                          /\ fifo_queue[i][1] \in ToSet(round_robin_order)}
    IN  IF candidates = {} THEN fifo_queue' = <<>> /\ NobodyWaits
        ELSE LET i == Min(candidates)
             IN  /\ Choose(fifo_queue[i])
                 /\ fifo_queue' = SubSeq(fifo_queue, i + 1, Len(fifo_queue))

\* pop_live_waiter: what is left of a queue once its first live request is popped.
FirstLive(q) == {i \in DOMAIN q : Live(q[i]) /\ \A j \in 1..(i - 1) : ~Live(q[j])}

\* Mutant: the order is visited from the back, where a served handle is put.
TakeNextRoundRobin_FromBack ==
    LET candidates == {i \in DOMAIN round_robin_order :
                          FirstLive(handle_waiters[round_robin_order[i]]) # {}}
    IN  /\ IF candidates = {} THEN NobodyWaits /\ UNCHANGED handle_waiters
           ELSE LET h == round_robin_order[Max(candidates)]
                    i == Min(FirstLive(handle_waiters[h]))
                IN  /\ Choose(handle_waiters[h][i])
                    /\ handle_waiters' = [handle_waiters EXCEPT ![h] = SubSeq(@, i + 1, Len(@))]
        /\ UNCHANGED round_robin_order

\* take_next_round_robin_waiter: handles move to the back as they are visited, up
\* to and including the one that has a live request.
TakeNextRoundRobin ==
    LET order == round_robin_order
        candidates == {i \in DOMAIN order : FirstLive(handle_waiters[order[i]]) # {}}
        last == IF candidates = {} THEN Len(order) ELSE Min(candidates)
        visited == {order[i] : i \in 1..last}
    IN  /\ round_robin_order' = SubSeq(order, last + 1, Len(order)) \o SubSeq(order, 1, last)
        /\ handle_waiters' =
             [h \in Handles |->
                LET q == handle_waiters[h]
                IN  IF h \notin visited THEN q
                    ELSE IF FirstLive(q) = {} THEN <<>>
                    ELSE SubSeq(q, Min(FirstLive(q)) + 1, Len(q))]
        /\ IF candidates = {} THEN NobodyWaits
           ELSE Choose(LET q == handle_waiters[order[last]] IN q[Min(FirstLive(q))])

\* on_permit_won and the body of grant_sweep: take_next_waiter
Grant ==
    /\ at = "Grant"
    /\ \/ Policy = "Fifo" /\ TakeNextFifo /\ UNCHANGED <<round_robin_order, handle_waiters>>
       \/ Policy = "RoundRobin" /\ TakeNextRoundRobin /\ UNCHANGED fifo_queue
    /\ UNCHANGED <<sessions, reply, held, closing, mail, notified, race, cursor>>

\* deliver: a caller that left since it was chosen gives the lease back.
Deliver ==
    /\ at = "Deliver" /\ at' = "Sweep"
    /\ Answer({chosen}, Lease(hand))
    /\ IF Live(chosen) THEN UNCHANGED <<permits, racing, assigned>> ELSE GiveBack(hand)
    /\ hand' = NoSlot /\ chosen' = NoRequest
    /\ UNCHANGED <<sessions, held, closing, mail, queues, notified, race, cursor, turns>>

-----------------------------------------------------------------------------
(* The task: commands, shutdown and failure *)

Prune(q) == SelectSeq(q, Live)


\* enqueue_waiter: prune, register the handle, then apply the bound.
EnqueueWaiter(r) ==
    /\ round_robin_order' = IF r[1] \in ToSet(round_robin_order) THEN round_robin_order
                            ELSE Append(round_robin_order, r[1])
    /\ IF Cardinality(QueuedLive) >= MaxWaiters
       THEN /\ fifo_queue' = Prune(fifo_queue)
            /\ handle_waiters' = [h \in Handles |-> Prune(handle_waiters[h])]
            /\ Answer({r}, Refusal("Saturated")) /\ at' = "Top"
            /\ UNCHANGED turns
       ELSE /\ fifo_queue' = Prune(fifo_queue) \o (IF Policy = "Fifo" THEN <<r>> ELSE <<>>)
            /\ handle_waiters' =
                 [h \in Handles |-> Prune(handle_waiters[h])
                                    \o (IF Policy = "RoundRobin" /\ h = r[1] THEN <<r>> ELSE <<>>)]
            /\ turns' = [turns EXCEPT ![r[1]] = {}] /\ at' = "Sweep"
            /\ UNCHANGED reply

\* handle_acquire
HandleAcquire(r) ==
    IF lifecycle = "Running" THEN EnqueueWaiter(r)
    ELSE Answer({r}, Refusal(CloseError)) /\ at' = "Top" /\ UNCHANGED <<queues, turns>>

\* deregister_handle
HandleDeregister(h) ==
    /\ round_robin_order' = SelectSeq(round_robin_order, LAMBDA g : g # h)
    /\ handle_waiters' = [handle_waiters EXCEPT ![h] = <<>>]
    /\ fifo_queue' = SelectSeq(fifo_queue, LAMBDA r : r[1] # h)
    /\ Answer({r \in Queued : r[1] = h}, Dropped)
    /\ at' = "Top" /\ UNCHANGED turns

\* The mailbox has a command: handle_command.
HandleCommand ==
    /\ at = "Command" /\ mailbox # <<>> /\ mailbox' = Tail(mailbox)
    /\ LET command == Head(mailbox)
       IN  \/ command.type = "Acquire" /\ HandleAcquire(command.request)
           \/ command.type = "Deregister" /\ HandleDeregister(command.handle)
    /\ UNCHANGED <<sessions, capacity, closing, mailbox_open, notified, race, hand, chosen, cursor>>

\* Every sender is gone, or the receiver was closed: recv() returns None.
MailboxEnded ==
    /\ at = "Command" /\ mailbox = <<>> /\ (SendersGone \/ ~mailbox_open)
    /\ MarkClosed /\ DropRace({}) /\ DropQueues
    /\ mailbox_open' = FALSE /\ at' = "Done" /\ notified' = "None"
    /\ UNCHANGED <<sessions, reply, held, shutdown, pool, mailbox, hand, chosen, cursor>>

\* No branch is ready; the task parks.
Park ==
    /\ at = "Command" /\ mailbox = <<>> /\ ~SendersGone /\ mailbox_open
    /\ at' = "Wait"
    /\ UNCHANGED <<sessions, reply, capacity, closing, mail, queues, notified, race, hand, chosen,
                   cursor, turns>>

\* A waker fires and the branches are polled again in their order.
Wake ==
    /\ at = "Wait"
    /\ notified = "Woken" \/ assigned # {} \/ mailbox # <<>> \/ SendersGone
    /\ at' = IF notified = "Woken" THEN "Drain" ELSE "Race"
    /\ UNCHANGED <<sessions, reply, capacity, closing, mail, queues, notified, race, hand, chosen,
                   cursor, turns>>

Buffered == {mailbox[i].request : i \in {j \in DOMAIN mailbox : mailbox[j].type = "Acquire"}}

\* Mutant: acquisitions still in the mailbox are left unanswered.
DrainForShutdown_ForgetsMailbox ==
    /\ at = "Drain" /\ at' = "Done"
    /\ MarkClosed
    /\ Answer(Queued, Refusal("Closed"))
    /\ DropQueues /\ DropRace({})
    /\ mailbox_open' = FALSE /\ mailbox' = <<>> /\ notified' = "None"
    /\ UNCHANGED <<sessions, held, shutdown, pool, hand, chosen, cursor>>

\* drain_for_shutdown, after which run() returns and drops the race.
DrainForShutdown ==
    /\ at = "Drain" /\ at' = "Done"
    /\ MarkClosed
    /\ Answer(Queued \cup Buffered, Refusal("Closed"))
    /\ DropQueues /\ DropRace({})
    /\ mailbox_open' = FALSE /\ mailbox' = <<>> /\ notified' = "None"
    /\ UNCHANGED <<sessions, held, shutdown, pool, hand, chosen, cursor>>

\* Mutant: the failure is not published before the queues are dropped.
Panic_Unpublished ==
    /\ MayPanic /\ at \in {"RaceWon", "SweepWon"}
    /\ at' = "Unwind" /\ notified' = "None"
    /\ hand' = NoSlot /\ race' = "None" /\ racing' = {} /\ assigned' = {}
    /\ permits' = [s \in Slots |-> permits[s] + (IF s = hand THEN 1 ELSE 0)
                                              + (IF s \in assigned THEN 1 ELSE 0)]
    /\ UNCHANGED <<sessions, reply, held, lifecycle, shutdown, pool, mail, queues, chosen, cursor,
                   turns>>

\* The task unwinds where it records a permit in the metrics: locals go first,
\* then SchedulerTask's Drop publishes the failure,
Panic ==
    /\ MayPanic /\ at \in {"RaceWon", "SweepWon"}
    /\ at' = "Unwind" /\ notified' = "None" /\ lifecycle' = "Failed"
    /\ hand' = NoSlot /\ race' = "None" /\ racing' = {} /\ assigned' = {}
    /\ permits' = [s \in Slots |-> permits[s] + (IF s = hand THEN 1 ELSE 0)
                                              + (IF s \in assigned THEN 1 ELSE 0)]
    /\ UNCHANGED <<sessions, reply, held, shutdown, pool, mail, queues, chosen, cursor, turns>>

\* and its fields follow: the mailbox and the queues with their reply channels.
Unwind ==
    /\ at = "Unwind" /\ at' = "Done"
    /\ Answer(Queued \cup Buffered, Dropped)
    /\ DropQueues
    /\ mailbox_open' = FALSE /\ mailbox' = <<>>
    /\ UNCHANGED <<sessions, capacity, closing, notified, race, hand, chosen, cursor>>

-----------------------------------------------------------------------------
TaskStep ==
    \/ TaskTop \/ TaskCheck
    \/ RaceStart \/ RaceResolved \/ RacePending \/ PermitWon \/ RaceError
    \/ Sweep \/ Grant \/ Deliver
    \/ HandleCommand \/ MailboxEnded \/ Park \/ Wake
    \/ DrainForShutdown \/ Unwind

CloseStep == CloseFlag \/ CloseNotify \/ CloseReturn

SessionStep(h) == AcquireSend(h) \/ AcquireReturn(h)

Next ==
    \/ TaskStep \/ Panic
    \/ \E h \in Handles : AcquireStart(h) \/ SessionStep(h) \/ AcquireCancel(h) \/ DropHandle(h)
    \/ \E s \in Slots : ReleaseLease(s)
    \/ CloseMark \/ CloseStep \/ DropPool

Spec == Init /\ [][Next]_vars

\* The runtime polls the task and the sessions; leases are dropped in the end.
FairSpec ==
    /\ Spec
    /\ WF_vars(TaskStep) /\ WF_vars(CloseStep)
    /\ \A h \in Handles : WF_vars(SessionStep(h))
    /\ \A s \in Slots : WF_vars(ReleaseLease(s))

-----------------------------------------------------------------------------
(* Properties *)

\* Types of the task's and the sessions' state; the queue of the other policy stays
\* empty.
TypeOK ==
    /\ session \in [Handles -> {"Idle", "Checked", "Waiting", "Gone"}]
    /\ made \in [Handles -> 0..MaxAcquires]
    /\ reply \in [Handles -> Replies]
    /\ told \in [Handles -> {"None"} \cup Refusals]
    /\ held \in [Slots -> 0..MaxInFlight] /\ permits \in [Slots -> 0..MaxInFlight]
    /\ lifecycle \in {"Running", "Closed", "Failed"} /\ shutdown \in BOOLEAN
    /\ pool \in {"Open", "Marked", "Flagged", "Joining", "Closed", "Dropped"}
    /\ mailbox \in Seq(Commands) /\ mailbox_open \in BOOLEAN
    /\ at \in Stages /\ notified \in {"None", "Armed", "Woken"}
    /\ race \in {"None", "New", "Registered"} /\ racing \subseteq Slots /\ assigned \subseteq Slots
    /\ hand \in Slots \cup {NoSlot} /\ chosen \in Requests \cup {NoRequest}
    /\ cursor \in 0..(CursorWrap - 1)
    /\ IF Policy = "Fifo" THEN fifo_queue \in Seq(Requests) ELSE fifo_queue = <<>>
    /\ \A h \in Handles :
          IF Policy = "Fifo" THEN handle_waiters[h] = <<>>
          ELSE handle_waiters[h] \in Seq({h} \X (1..MaxAcquires))
    /\ turns \in [Handles -> SUBSET Handles]

\* Permits are neither lost nor forged: those of a slot are free, assigned to the
\* race, in the task's hand, travelling in a reply or held by a lease, whatever
\* callers cancel while a grant is under way.  No more than max_waiters callers
\* wait in the queues.  The task never sleeps on free capacity: while it is parked
\* with somebody in its queues, every permit is in use or on its way to the race.
CapacityAccounting ==
    /\ \A s \in Slots :
        permits[s] + held[s] + (IF s \in assigned THEN 1 ELSE 0) + (IF s = hand THEN 1 ELSE 0)
        + Cardinality({h \in Handles : reply[h] = Lease(s)}) = MaxInFlight
    /\ Cardinality(QueuedLive) <= MaxWaiters
    /\ at = "Wait" /\ QueuedLive # {} => race = "Registered" /\ \A s \in Slots : permits[s] = 0

\* Nobody is chosen twice while another session's request is queued, under both
\* policies: one session cannot starve another.
NoSecondTurn ==
    [][chosen' \notin {chosen, NoRequest} =>
          \A r \in QueuedLive \ {chosen'} : chosen'[1] \notin turns[r[1]]]_vars

\* What acquire() and close() report is true: the pool is closed only once close()
\* began, the scheduler failed only if its task panicked, and once close() has
\* returned no lease is granted and nobody is left waiting in a queue or in the
\* mailbox.
HonestAnswers ==
    /\ \A h \in Handles :
        /\ told[h] = "Closed" => pool \notin {"Open", "Dropped"}
        /\ told[h] = "Failed" => MayPanic
    /\ pool = "Closed" => /\ at = "Done" /\ QueuedLive = {} /\ mailbox = <<>>
                          /\ \A h \in Handles : session[h] = "Waiting" => reply[h] # Empty


\* Every acquisition is answered or given up, and close() returns, however long
\* leases are held.
AcquisitionsEnd ==
    /\ \A h \in Handles : session[h] = "Waiting" ~> session[h] # "Waiting"
    /\ pool = "Marked" ~> pool = "Closed"
=============================================================================
