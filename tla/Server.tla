------------------------------- MODULE Server -------------------------------
(***************************************************************************)
(* The server (src/server/): the supervisor that prepares the application, *)
(* spawns the accept loops, waits for shutdown and drains its task         *)
(* tracker; the accept loops with their back-off; the connection tasks;    *)
(* and the controls that request shutdown and observe the outcome.         *)
(*                                                                         *)
(* mode "Foreground" is run_with_shutdown(), whose caller owns the         *)
(* supervisor future and may drop it; mode "Spawned" is spawn(), which     *)
(* runs it as a task and hands out ServerShutdown controls.                *)
(***************************************************************************)
EXTENDS Integers, FiniteSets

CONSTANTS
    Modes,               \* how the server is started
    Workers,             \* accept loops
    Connections,         \* connections that may arrive, in any order
    InitialDelay,        \* BackoffConfig, in units of one millisecond
    MaxDelay,
    HasPreambleTimeout,
    MayPanic,            \* an installed metrics recorder or logger may panic
    MaxErrors,           \* bound: accept errors
    MaxControls          \* bound: clones of ServerShutdown at a time

ASSUME SetsAssumption == IsFiniteSet(Workers) /\ IsFiniteSet(Connections)
ASSUME ModeAssumption ==
    Modes \subseteq {"Foreground", "Spawned"} /\ HasPreambleTimeout \in BOOLEAN /\ MayPanic \in BOOLEAN
ASSUME BoundsAssumption ==
    InitialDelay \in Nat /\ MaxDelay \in Nat /\ MaxErrors \in Nat /\ MaxControls \in Nat \ {0}

VARIABLES
    mode,            \* how the server was started
    stage,           \* where the supervisor is
    stop,            \* the shutdown future is resolved (spawned: stop_requested)
    controls,        \* ServerShutdown clones
    terminal,        \* outcome the observer published
    token,           \* worker_shutdown_token is cancelled
    lifecycle,       \* SupervisorLifecycle
    tracker_closed,
    loop,            \* where each accept loop is
    delay,           \* its next back-off delay
    conn,            \* where each connection is
    errors,          \* accept errors so far
    \* History variables
    reason,          \* reason each accept loop recorded when it exited
    late             \* connections each accepted after the token was cancelled

supervisor == <<stage, terminal, token, lifecycle, tracker_closed>>
controllers == <<mode, stop, controls>>
workers == <<loop, delay, errors, reason, late>>
vars == <<supervisor, controllers, workers, conn>>

LiveLoops == {w \in Workers : loop[w] \notin {"None", "Exited"}}
LiveConns == {c \in Connections : conn[c] \in {"Preamble", "Success", "Failure", "App"}}

\* TaskTracker: wait() resolves once the tracker is closed and no token is held.
Drained == tracker_closed /\ LiveLoops = {} /\ LiveConns = {}

\* BackoffConfig::normalized
Normalized ==
    LET a == IF InitialDelay < 1 THEN 1 ELSE InitialDelay
        b == IF MaxDelay < 1 THEN 1 ELSE MaxDelay
    IN  IF a > b THEN [initial |-> b, max |-> a] ELSE [initial |-> a, max |-> b]

Init ==
    /\ mode \in Modes /\ stage = "Preparing" /\ stop = FALSE /\ terminal = "None"
    /\ controls = 0
    /\ token = FALSE /\ lifecycle = "Running" /\ tracker_closed = FALSE
    /\ loop = [w \in Workers |-> "None"] /\ delay = [w \in Workers |-> Normalized.initial]
    /\ conn = [c \in Connections |-> "None"] /\ errors = 0
    /\ reason = [w \in Workers |-> "None"] /\ late = [w \in Workers |-> 0]

-----------------------------------------------------------------------------
(* The supervisor *)

\* prepare_application succeeds; spawn() then returns the first control.
Prepare ==
    /\ stage = "Preparing" /\ stage' = "Spawning"
    /\ controls' = IF mode = "Spawned" THEN 1 ELSE 0
    /\ UNCHANGED <<mode, stop, terminal, token, lifecycle, tracker_closed, workers, conn>>

\* The factory or the preparation fails.
PrepareFails ==
    /\ stage = "Preparing" /\ stage' = "Failed"
    /\ UNCHANGED <<controllers, terminal, token, lifecycle, tracker_closed, workers, conn>>

\* prepare_or_shutdown: shutdown wins the startup race.
PrepareCancelled ==
    /\ mode = "Foreground" /\ stage = "Preparing" /\ stop /\ stage' = "Returned"
    /\ UNCHANGED <<controllers, terminal, token, lifecycle, tracker_closed, workers, conn>>

\* run_with_shutdown spawns one accept loop on the tracker.
SpawnLoop(w) ==
    /\ stage = "Spawning" /\ loop[w] = "None"
    /\ loop' = [loop EXCEPT ![w] = "Select"]
    /\ UNCHANGED <<supervisor, controllers, delay, errors, reason, late, conn>>

\* All loops are spawned: readiness is signalled and the tracker closed.
Serve ==
    /\ stage = "Spawning" /\ \A w \in Workers : loop[w] # "None"
    /\ stage' = "Select" /\ tracker_closed' = TRUE
    /\ UNCHANGED <<controllers, terminal, token, lifecycle, workers, conn>>

\* await_supervisor_termination: the shutdown future resolves, and the
\* reason is recorded ...
RecordGraceful ==
    /\ stage = "Select" /\ stop
    /\ stage' = "Cancel" /\ lifecycle' = "Graceful"
    /\ UNCHANGED <<controllers, terminal, token, tracker_closed, workers, conn>>

\* ... before the accept loops are told.
CancelLoops ==
    /\ stage = "Cancel" /\ stage' = "Drain" /\ token' = TRUE
    /\ UNCHANGED <<controllers, terminal, lifecycle, tracker_closed, workers, conn>>

\* The same select, when every tracked task has ended by itself (the loops only
\* by a panic).
SelectFinished ==
    /\ stage = "Select" /\ Drained
    /\ stage' = "Drain" /\ lifecycle' = "Finished"
    /\ UNCHANGED <<controllers, terminal, token, tracker_closed, workers, conn>>

\* Mutant: the supervisor waits for the accept loops only.
SupervisorReturns_IgnoresConnections ==
    /\ stage = "Drain" /\ LiveLoops = {}
    /\ stage' = "Returned"
    /\ UNCHANGED <<controllers, terminal, token, lifecycle, tracker_closed, workers, conn>>

\* run_with_shutdown returns when the tracker is drained; in the foreground the
\* drop guard goes with it.
SupervisorReturns ==
    /\ stage = "Drain" /\ Drained
    /\ stage' = "Returned"
    /\ token' = (token \/ mode = "Foreground")
    /\ UNCHANGED <<controllers, terminal, lifecycle, tracker_closed, workers, conn>>

\* SupervisorCancellationDropGuard: the lifecycle is marked, then Tokio's guard
\* cancels the loops.
DropGuard ==
    /\ lifecycle' = IF lifecycle = "Running" THEN "Dropped" ELSE lifecycle
    /\ token' = TRUE

\* The caller drops the supervisor future at one of its awaits.
DropSupervisor ==
    /\ mode = "Foreground" /\ stage \in {"Preparing", "Select", "Drain"}
    /\ stage' = "Dropped"
    /\ IF stage = "Preparing" THEN UNCHANGED <<lifecycle, token>> ELSE DropGuard
    /\ UNCHANGED <<controllers, terminal, tracker_closed, workers, conn>>

\* The supervisor unwinds where it records a metric.  run_with_panic_cleanup
\* cancels the loops and closes the tracker; in the foreground only the guard runs.
SupervisorPanics ==
    /\ MayPanic /\ stage \in {"Spawning", "Cancel"}
    /\ stage = "Spawning" => \A w \in Workers : loop[w] # "None"
    /\ IF mode = "Foreground"
       THEN stage' = "Panicked" /\ DropGuard /\ UNCHANGED tracker_closed
       ELSE /\ stage' = "Cleanup" /\ token' = TRUE /\ tracker_closed' = TRUE
            /\ UNCHANGED lifecycle
    /\ UNCHANGED <<controllers, terminal, workers, conn>>

\* The panic resumes when the tracker is drained.
CleanupReturns ==
    /\ stage = "Cleanup" /\ Drained /\ stage' = "Panicked"
    /\ UNCHANGED <<controllers, terminal, token, lifecycle, tracker_closed, workers, conn>>

\* observe_supervisor_termination publishes the outcome.
Observe ==
    /\ mode = "Spawned" /\ terminal = "None" /\ stage \in {"Returned", "Panicked"}
    /\ terminal' = IF stage = "Returned" THEN "Clean" ELSE "Abnormal"
    /\ UNCHANGED <<controllers, stage, token, lifecycle, tracker_closed, workers, conn>>

-----------------------------------------------------------------------------
(* ServerShutdown, or the caller's shutdown future in the foreground *)

Stop ==
    /\ ~stop /\ (mode = "Foreground" \/ controls > 0)
    /\ stop' = TRUE
    /\ UNCHANGED <<mode, controls, supervisor, workers, conn>>

CloneControl ==
    /\ controls \in 1..(MaxControls - 1) /\ controls' = controls + 1
    /\ UNCHANGED <<mode, stop, supervisor, workers, conn>>

\* Mutant: the controls share no drop guard.
DropControl_NoGuard ==
    /\ controls > 0 /\ controls' = controls - 1
    /\ UNCHANGED <<mode, stop, supervisor, workers, conn>>

\* A control is dropped; the last one's guard requests shutdown.
DropControl ==
    /\ controls > 0 /\ controls' = controls - 1
    /\ stop' = (stop \/ controls = 1)
    /\ UNCHANGED <<mode, supervisor, workers, conn>>

-----------------------------------------------------------------------------
(* Accept loops.  One poll of accept_iteration's biased select is two steps, *)
(* so that cancellation may fall between its branches.                       *)

\* The shutdown branch: the loop ends and records why.
LoopExit(w) ==
    /\ loop[w] = "Select" /\ token
    /\ loop' = [loop EXCEPT ![w] = "Exited"]
    /\ reason' = [reason EXCEPT ![w] = IF lifecycle = "Graceful" THEN "Graceful" ELSE "Dropped"]
    /\ UNCHANGED <<supervisor, controllers, delay, errors, late, conn>>

\* Mutant: the select is not biased.
PollShutdown_Unbiased(w) ==
    /\ loop[w] = "Select"
    /\ loop' = [loop EXCEPT ![w] = "Accept"]
    /\ UNCHANGED <<supervisor, controllers, delay, errors, reason, late, conn>>

\* The shutdown branch is pending; the accept branch is polled next.
PollShutdown(w) ==
    /\ loop[w] = "Select" /\ ~token
    /\ loop' = [loop EXCEPT ![w] = "Accept"]
    /\ UNCHANGED <<supervisor, controllers, delay, errors, reason, late, conn>>

\* No connection is waiting: the loop sleeps until it is polled again.
AcceptPending(w) ==
    /\ loop[w] = "Accept" /\ \A c \in Connections : conn[c] # "Backlog"
    /\ loop' = [loop EXCEPT ![w] = "Select"]
    /\ UNCHANGED <<supervisor, controllers, delay, errors, reason, late, conn>>

\* A connection is accepted: its task goes on the tracker, the delay is reset.
AcceptOk(w, c) ==
    /\ loop[w] = "Accept" /\ conn[c] = "Backlog"
    /\ loop' = [loop EXCEPT ![w] = "Select"]
    /\ conn' = [conn EXCEPT ![c] = "Preamble"]
    /\ delay' = [delay EXCEPT ![w] = Normalized.initial]
    /\ late' = IF token THEN [late EXCEPT ![w] = @ + 1] ELSE late
    /\ UNCHANGED <<supervisor, controllers, errors, reason>>

\* accept() fails: the loop sleeps (whatever happens to the token), or dies in
\* the logger.
AcceptErr(w) ==
    /\ loop[w] = "Accept" /\ errors < MaxErrors
    /\ errors' = errors + 1
    /\ \/ loop' = [loop EXCEPT ![w] = "Sleep"]
       \/ MayPanic /\ loop' = [loop EXCEPT ![w] = "Exited"]
    /\ UNCHANGED <<supervisor, controllers, delay, reason, late, conn>>

\* The sleep ends; the next one will be twice as long, up to the maximum.
Retry(w) ==
    /\ loop[w] = "Sleep"
    /\ loop' = [loop EXCEPT ![w] = "Select"]
    /\ delay' = [delay EXCEPT ![w] = IF 2 * @ < Normalized.max THEN 2 * @ ELSE Normalized.max]
    /\ UNCHANGED <<supervisor, controllers, errors, reason, late, conn>>

LoopStep(w) ==
    \/ LoopExit(w) \/ PollShutdown(w) \/ AcceptPending(w) \/ AcceptErr(w) \/ Retry(w)
    \/ \E c \in Connections : AcceptOk(w, c)

-----------------------------------------------------------------------------
(* Connection tasks *)

ConnMoves(c, from, to) ==
    /\ conn[c] = from /\ conn' = [conn EXCEPT ![c] = to]
    /\ UNCHANGED <<supervisor, controllers, workers>>

\* A peer connects; the kernel queues it.
Arrive(c) == ConnMoves(c, "None", "Backlog")

\* read_preamble decodes one, or fails on it.
PreambleRead(c) == ConnMoves(c, "Preamble", "Success") \/ ConnMoves(c, "Preamble", "Failure")

\* The read exceeds its deadline.
PreambleTimeout(c) == HasPreambleTimeout /\ ConnMoves(c, "Preamble", "Failure")

\* The success handler accepts the peer; or it rejects it, the failure handler
\* ends, or either panics into the task's catch_unwind.
HandlerEnds(c) ==
    \/ ConnMoves(c, "Success", "App")
    \/ ConnMoves(c, "Success", "Done")
    \/ ConnMoves(c, "Failure", "Done")

\* The application is done with the connection, fails or panics.
AppEnds(c) == ConnMoves(c, "App", "Done")

ConnStep(c) ==
    Arrive(c) \/ PreambleRead(c) \/ PreambleTimeout(c) \/ HandlerEnds(c) \/ AppEnds(c)

-----------------------------------------------------------------------------
SupervisorStep ==
    \/ Prepare \/ (\E w \in Workers : SpawnLoop(w)) \/ Serve
    \/ RecordGraceful \/ CancelLoops \/ SelectFinished \/ SupervisorReturns
    \/ CleanupReturns \/ Observe

\* Nothing is left to run; the process may go on without its server.
Over ==
    /\ stage \in {"Failed", "Returned", "Panicked", "Dropped"}
    /\ LiveLoops = {} /\ LiveConns = {}
    /\ UNCHANGED vars

Next ==
    \/ SupervisorStep \/ PrepareFails \/ PrepareCancelled \/ DropSupervisor \/ SupervisorPanics
    \/ Stop \/ CloneControl \/ DropControl
    \/ \E w \in Workers : LoopStep(w)
    \/ \E c \in Connections : ConnStep(c)
    \/ Over

Spec == Init /\ [][Next]_vars

(***************************************************************************)
(* The runtime polls every runnable task and its timers fire, handlers     *)
(* return, and a peer that got past its preamble is served to its end.  A  *)
(* peer that never sends its preamble is given no fairness: only the       *)
(* timeout ends it.                                                        *)
(***************************************************************************)
FairSpec ==
    /\ Spec
    /\ WF_vars(SupervisorStep) /\ WF_vars(PrepareCancelled)
    /\ \A w \in Workers : WF_vars(LoopStep(w))
    /\ \A c \in Connections :
        WF_vars(PreambleTimeout(c)) /\ WF_vars(HandlerEnds(c)) /\ WF_vars(AppEnds(c))

-----------------------------------------------------------------------------
(* Properties *)

\* Every variable holds a value of its kind.
TypeOK ==
    /\ stage \in {"Preparing", "Spawning", "Select", "Cancel", "Drain", "Cleanup",
                  "Failed", "Returned", "Panicked", "Dropped"}
    /\ mode \in Modes /\ stop \in BOOLEAN /\ token \in BOOLEAN /\ tracker_closed \in BOOLEAN
    /\ controls \in 0..MaxControls /\ errors \in 0..MaxErrors
    /\ terminal \in {"None", "Clean", "Abnormal"}
    /\ lifecycle \in {"Running", "Graceful", "Dropped", "Finished"}
    /\ loop \in [Workers -> {"None", "Select", "Accept", "Sleep", "Exited"}]
    /\ delay \in [Workers -> Normalized.initial..Normalized.max]
    /\ conn \in [Connections -> {"None", "Backlog", "Preamble", "Success", "Failure", "App", "Done"}]
    /\ reason \in [Workers -> {"None", "Graceful", "Dropped"}] /\ late \in [Workers -> Nat]

\* When run_with_shutdown() returns Ok, or drained() resolves either way, no
\* accept loop and no connection task is left, and none can start: the drain
\* covers connections accepted while the tracker was already closed.  Every
\* accept loop reports the reason the supervisor ended with: "graceful" exactly
\* when shutdown was requested, although it reads the shared state at its own
\* time and the future may be dropped, or unwind, at any await.
DrainedIsQuiet ==
    /\ (stage = "Returned" \/ terminal # "None") => LiveLoops = {} /\ LiveConns = {}
    /\ \A w \in Workers :
        reason[w] # "None" => (reason[w] = "Graceful" <=> lifecycle = "Graceful")

\* Once the workers' token is cancelled an accept loop takes at most the one
\* connection whose poll had already passed the shutdown branch, however many
\* are waiting and even when it comes back from a back-off sleep.
OneLateAccept == \A w \in Workers : late[w] <= 1

\* A stop request, or the loss of the last control, ends the supervisor, and a
\* spawned one with a published outcome: nobody waits in drained() forever.
\* When the foreground supervisor is dropped or unwinds, its accept loops exit.
StopDrains ==
    /\ (stop \/ (mode = "Spawned" /\ controls = 0 /\ stage # "Preparing"))
        ~> /\ stage \in {"Failed", "Returned", "Panicked", "Dropped"}
           /\ (mode = "Spawned" /\ stage # "Failed") => terminal # "None"
    /\ stage \in {"Dropped", "Panicked"} ~> LiveLoops = {}
=============================================================================
