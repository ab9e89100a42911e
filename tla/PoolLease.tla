----------------------------- MODULE PoolLease ------------------------------
(***************************************************************************)
(* One physical socket slot of the client pool (src/client/pool/slot.rs)   *)
(* and the leases that share it (lease.rs): admission, the protocol gate,  *)
(* checkout of the socket from its bb8 pool of size one, split-phase and   *)
(* whole exchanges, cancellation of an operation at any of its awaits, and *)
(* the ways a socket is retired.  Slots share nothing else, so one is      *)
(* enough.  The per-lease mutex serialises the operations of a lease.      *)
(*                                                                         *)
(* A request is the lease that wrote it and the number of the operation;   *)
(* the server answers the requests of a socket in order.                   *)
(***************************************************************************)
EXTENDS Integers, Sequences, FiniteSets

CONSTANTS
    Leases,         \* clients that acquire, use and drop a lease of the slot
    MaxInFlightPerSocket,    \* max_in_flight_per_socket
    MaxOps          \* bound: operations each lease client starts

ASSUME LeasesAssumption == IsFiniteSet(Leases)
ASSUME LeaseBoundsAssumption ==
    MaxInFlightPerSocket \in Nat \ {0} /\ MaxOps \in Nat

NoLease == "NoLease"
Changes == {"Add", "Remove", "None"}  \* PendingResponseChange: send, receive, call

VARIABLES
    pc,        \* stage of each client: no lease, idle lease, or inside an operation
    change,    \* the PendingResponseChange of its operation
    ops,       \* operations it has started
    pending,   \* pending_responses of its lease
    gate,      \* the lease whose pending_response_permit holds the protocol gate
    waiters,   \* leases queued on the gate, oldest first
    conn,      \* the bb8 resource: "None", "Idle" or "Out"
    discard,   \* discard_on_next_checkout
    stamp,     \* last_returned_at: "None", "Fresh" or "Expired"
    \* History variables
    owed,      \* requests written to the current socket and not answered yet
    expect,    \* requests of each lease that its pending count stands for
    reaped,    \* bb8 has closed an idle socket that a reply was due on
    misread    \* "none"; "stale": an operation read the reply to another request of
               \* its lease; "foreign": it read the reply to another lease's request

leaseVars == <<pc, change, ops, pending, gate, waiters, conn, discard, stamp, owed, expect, misread, reaped>>
slotVars == <<gate, waiters, conn, discard, stamp>>
ghosts == <<owed, expect, misread, reaped>>

LeaseStages == {"None", "Ready", "Gate", "Checkout", "Replace", "Op", "Written"}
Request(l) == <<l, ops[l]>>
Goto(l, stage) == pc' = [pc EXCEPT ![l] = stage]
Alive == {l \in Leases : pc[l] # "None"}

LeaseInit ==
    /\ pc = [l \in Leases |-> "None"] /\ change = [l \in Leases |-> "None"]
    /\ ops = [l \in Leases |-> 0] /\ pending = [l \in Leases |-> 0]
    /\ gate = NoLease /\ waiters = <<>>
    /\ conn \in {"None", "Idle"} /\ discard = FALSE /\ stamp = "None"
    /\ owed = <<>> /\ expect = [l \in Leases |-> <<>>] /\ misread = "none"
    /\ reaped = FALSE

-----------------------------------------------------------------------------
(* Leases *)

\* An admission permit of the slot becomes a lease.
Acquire(l) ==
    /\ pc[l] = "None" /\ Cardinality(Alive) < MaxInFlightPerSocket
    /\ Goto(l, "Ready")
    /\ UNCHANGED <<change, ops, pending, slotVars, ghosts>>

ForgetPending(l) ==
    /\ pending' = [pending EXCEPT ![l] = 0]
    /\ expect' = [expect EXCEPT ![l] = <<>>]

\* discard_connection_with_pending_response
DiscardWithPending(l) == discard' = TRUE /\ ForgetPending(l)

ReleaseGate(l) == gate' = IF gate = l THEN NoLease ELSE gate

\* Drop: retire the socket that still owes a reply, then return gate and permit.
DropLease(l) ==
    /\ pc[l] = "Ready"
    /\ IF pending[l] > 0 THEN DiscardWithPending(l) ELSE UNCHANGED <<discard, pending, expect>>
    /\ ReleaseGate(l)
    /\ Goto(l, "None")
    /\ UNCHANGED <<change, ops, waiters, conn, stamp, owed, misread, reaped>>

-----------------------------------------------------------------------------
(* dispatch_on_connection *)

\* Mutant: the socket is not reserved for the exchange.
StartOperation_SkipsGate(l) ==
    /\ pc[l] = "Ready" /\ ops[l] < MaxOps
    /\ ops' = [ops EXCEPT ![l] = @ + 1]
    /\ \E c \in Changes : change' = [change EXCEPT ![l] = c]
    /\ Goto(l, "Checkout")
    /\ UNCHANGED <<pending, slotVars, ghosts>>

\* admit_operation up to its await: refuse a whole exchange while a reply is
\* pending, go on with the gate the lease already holds, or queue for it.
StartOperation(l) ==
    /\ pc[l] = "Ready" /\ ops[l] < MaxOps
    /\ ops' = [ops EXCEPT ![l] = @ + 1]
    /\ \E c \in Changes :
          /\ change' = [change EXCEPT ![l] = c]
          /\ \/ /\ pending[l] > 0 /\ c = "None"
                /\ DiscardWithPending(l) /\ ReleaseGate(l)
                /\ UNCHANGED <<pc, waiters>>
             \/ /\ pending[l] > 0 /\ c # "None"
                /\ Goto(l, "Checkout")
                /\ UNCHANGED <<pending, expect, discard, gate, waiters>>
             \/ /\ pending[l] = 0
                /\ Goto(l, "Gate") /\ waiters' = Append(waiters, l)
                /\ UNCHANGED <<pending, expect, discard, gate>>
    /\ UNCHANGED <<conn, stamp, owed, misread, reaped>>

\* acquire_protocol_permit returns.
EnterGate(l) ==
    /\ pc[l] = "Gate" /\ gate = NoLease /\ Head(waiters) = l
    /\ gate' = l /\ waiters' = Tail(waiters)
    /\ Goto(l, "Checkout")
    /\ UNCHANGED <<change, ops, pending, conn, discard, stamp, ghosts>>

\* The socket leaves the pool, and with it whatever it still owed.
Retire == conn' = "None" /\ owed' = <<>>

\* Mutant: an idle socket is replaced although the lease awaits a reply on it.
CheckoutFirst_RecyclesPending(l) ==
    /\ pc[l] = "Checkout" /\ conn # "Out"
    /\ IF discard \/ stamp = "Expired"
       THEN Retire /\ stamp' = "None" /\ Goto(l, "Replace")
       ELSE conn' = "Out" /\ Goto(l, "Op") /\ UNCHANGED <<stamp, owed>>
    /\ discard' = FALSE
    /\ UNCHANGED <<change, ops, pending, gate, waiters, expect, misread, reaped>>

\* checkout: take the socket (or a new one), or retire it and get another.
CheckoutFirst(l) ==
    /\ pc[l] = "Checkout" /\ conn # "Out"
    /\ IF discard \/ (pending[l] = 0 /\ stamp = "Expired")
       THEN Retire /\ stamp' = "None" /\ Goto(l, "Replace")
       ELSE conn' = "Out" /\ Goto(l, "Op") /\ UNCHANGED <<stamp, owed>>
    /\ discard' = FALSE
    /\ UNCHANGED <<change, ops, pending, gate, waiters, expect, misread, reaped>>

CheckoutReplacement(l) ==
    /\ pc[l] = "Replace" /\ conn = "None"
    /\ conn' = "Out"
    /\ Goto(l, "Op")
    /\ UNCHANGED <<change, ops, pending, gate, waiters, discard, stamp, ghosts>>

\* checkout fails: connecting a socket failed, or waiting for one timed out.
CheckoutFails(l) ==
    /\ pc[l] \in {"Checkout", "Replace"} /\ conn # "Idle"
    /\ IF pending[l] > 0 THEN DiscardWithPending(l) ELSE UNCHANGED <<discard, pending, expect>>
    /\ ReleaseGate(l)
    /\ Goto(l, "Ready")
    /\ UNCHANGED <<change, ops, waiters, conn, stamp, owed, misread, reaped>>

-----------------------------------------------------------------------------
(* The operation on the checked-out socket *)

\* A request reaches the wire: send, and the first half of call.
Write(l) ==
    /\ pc[l] = "Op" /\ change[l] \in {"Add", "None"}
    /\ owed' = Append(owed, Request(l))
    /\ Goto(l, "Written")
    /\ UNCHANGED <<change, ops, pending, slotVars, expect, misread, reaped>>

\* The healthy socket goes back; the gate too, unless a reply is pending.
ReturnSocket(l, left) ==
    /\ conn' = "Idle" /\ stamp' = "Fresh"
    /\ IF left > 0 THEN UNCHANGED gate ELSE ReleaseGate(l)
    /\ Goto(l, "Ready")
    /\ UNCHANGED <<change, ops, waiters, discard>>

\* Compare the reply an operation of lease l read with those it may read.
Judge(l, wanted) ==
    /\ misread' = IF Head(owed) \in wanted THEN misread
                  ELSE IF Head(owed)[1] # l \/ misread = "foreign" THEN "foreign" ELSE "stale"
    /\ UNCHANGED reaped

SendDone(l) ==
    /\ pc[l] = "Written" /\ change[l] = "Add"
    /\ pending' = [pending EXCEPT ![l] = @ + 1]
    /\ expect' = [expect EXCEPT ![l] = Append(@, Request(l))]
    /\ ReturnSocket(l, pending[l] + 1)
    /\ UNCHANGED <<owed, misread, reaped>>

ReceiveDone(l) ==
    /\ pc[l] = "Op" /\ change[l] = "Remove" /\ owed # <<>>
    /\ Judge(l, IF expect[l] = <<>> THEN {} ELSE {Head(expect[l])})
    /\ owed' = Tail(owed)
    /\ expect' = [expect EXCEPT ![l] = IF @ = <<>> THEN @ ELSE Tail(@)]
    /\ pending' = [pending EXCEPT ![l] = IF @ > 0 THEN @ - 1 ELSE 0]
    /\ ReturnSocket(l, pending[l] - 1)

CallDone(l) ==
    /\ pc[l] = "Written" /\ change[l] = "None"
    /\ Judge(l, {Request(l)})
    /\ owed' = Tail(owed)
    /\ ReturnSocket(l, pending[l])
    /\ UNCHANGED <<pending, expect>>

\* An error that leaves the socket usable: the request was never written.
SerializeError(l) ==
    /\ pc[l] = "Op" /\ change[l] \in {"Add", "None"}
    /\ ReturnSocket(l, pending[l])
    /\ UNCHANGED <<pending, ghosts>>

\* A transport or protocol error: the socket is broken, nothing is pending.
RecyclableError(l) ==
    /\ pc[l] \in {"Op", "Written"}
    /\ Retire /\ stamp' = "None"
    /\ ForgetPending(l) /\ ReleaseGate(l)
    /\ Goto(l, "Ready")
    /\ UNCHANGED <<change, ops, waiters, discard, misread, reaped>>

-----------------------------------------------------------------------------
(* Cancellation and the environment *)

\* The operation's future is dropped while it waits for the gate or a socket.
CancelWaiting(l) ==
    /\ pc[l] \in {"Gate", "Checkout", "Replace"}
    /\ waiters' = SelectSeq(waiters, LAMBDA m : m # l)
    /\ Goto(l, "Ready")
    /\ UNCHANGED <<change, ops, pending, gate, conn, discard, stamp, ghosts>>

\* The future is dropped with the socket checked out: the armed guard breaks
\* it and clears the count; the gate stays in the lease's mutex.
CancelOperation(l) ==
    /\ pc[l] \in {"Op", "Written"}
    /\ Retire /\ stamp' = "None"
    /\ ForgetPending(l)
    /\ Goto(l, "Ready")
    /\ UNCHANGED <<change, ops, gate, waiters, discard, misread, reaped>>

IdleTimeout ==
    /\ stamp = "Fresh" /\ conn = "Idle"
    /\ stamp' = "Expired"
    /\ UNCHANGED <<pc, change, ops, pending, gate, waiters, conn, discard, ghosts>>

\* bb8's reaper closes a socket that idled in the pool for idle_timeout.
Reap ==
    /\ conn = "Idle" /\ stamp = "Expired"
    /\ Retire /\ reaped' = (reaped \/ \E l \in Leases : pending[l] > 0)
    /\ UNCHANGED <<pc, change, ops, pending, gate, waiters, discard, stamp, expect, misread>>

-----------------------------------------------------------------------------
LeaseStep(l) == Acquire(l) \/ DropLease(l)
AdmissionStep(l) ==
    \/ StartOperation(l) \/ EnterGate(l)
    \/ CheckoutFirst(l) \/ CheckoutReplacement(l) \/ CheckoutFails(l)
SocketStep(l) ==
    \/ Write(l) \/ SendDone(l) \/ ReceiveDone(l) \/ CallDone(l)
    \/ SerializeError(l) \/ RecyclableError(l)
CancelStep(l) == CancelWaiting(l) \/ CancelOperation(l)

LeaseNext ==
    \/ \E l \in Leases : LeaseStep(l) \/ AdmissionStep(l) \/ SocketStep(l) \/ CancelStep(l)
    \/ IdleTimeout \/ Reap

LeaseSpec == LeaseInit /\ [][LeaseNext]_leaseVars

-----------------------------------------------------------------------------
(* Properties *)

\* Every variable has its type, and no lease is queued twice on the gate.
LeaseTypeOK ==
    /\ pc \in [Leases -> LeaseStages] /\ change \in [Leases -> Changes]
    /\ ops \in [Leases -> 0..MaxOps] /\ pending \in [Leases -> Nat]
    /\ gate \in Leases \cup {NoLease} /\ waiters \in Seq(Leases)
    /\ Len(waiters) <= Cardinality(Leases)
    /\ conn \in {"None", "Idle", "Out"} /\ discard \in BOOLEAN
    /\ stamp \in {"None", "Fresh", "Expired"}
    /\ owed \in Seq(Leases \X (0..MaxOps))
    /\ expect \in [Leases -> Seq(Leases \X (0..MaxOps))]
    /\ misread \in {"none", "stale", "foreign"} /\ reaped \in BOOLEAN

Exchanging(l) == pc[l] \in {"Checkout", "Replace", "Op", "Written"} \/ pending[l] > 0

\* Only the lease that holds the protocol gate has a socket, is about to get
\* one or is owed a reply, so exchanges of leases that share a socket never
\* overlap (protocol_gate, pending_response_permit).
ExclusiveExchange == \A l \in Leases : Exchanging(l) => gate = l

\* No lease reads a reply to a request of another lease, however operations
\* are cancelled, fail or are abandoned and whenever the socket is reaped; and
\* unless bb8 reaped one, it reads replies only to its own oldest unanswered
\* request, never a late one to an operation that was cancelled or failed
\* (SlotConnection::drop, discard_next_checkout, PooledClientLease::drop).
\* A lease that is owed replies keeps the very socket they will arrive on (the
\* comment on PoolSlot::checkout); only bb8 can take it away.
LeaseReplies ==
    /\ misread # "foreign" /\ (misread = "stale" => reaped)
    /\ \A l \in Leases :
        pending[l] > 0 /\ pc[l] = "Ready" /\ ~reaped => conn = "Idle" /\ owed = expect[l]

\* An operation never waits for a gate its own lease holds: after a cancelled
\* operation the next one on the lease reconnects and goes on
\* (docs/users-guide.md on cancellation).
NeverAwaitsOwnGate == \A l \in Leases : pc[l] = "Gate" => gate # l
=============================================================================
