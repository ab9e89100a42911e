----------------------------- MODULE ServerPair -----------------------------
(***************************************************************************)
(* A server and a client run as a pair (wireframe_testing, client_pair.rs) *)
(* around the server of the module Server, in the foreground mode and with *)
(* one worker: spawn_wireframe_pair builds and binds a server, runs it as  *)
(* a task, waits for its readiness and connects; the pair is then shut     *)
(* down, dropped, or abandoned at any of its awaits.  A server may also be *)
(* built otherwise, with the methods of the module ServerBuilder.          *)
(***************************************************************************)
EXTENDS Server, Sequences

CONSTANTS
    Client,            \* the connection of the pair's client
    Probe,             \* the one wait_for_listener_release opens
    MaxCalls,          \* bound: builder calls
    PreambleTypes,
    Backoffs           \* arguments of accept_backoff

B == INSTANCE ServerBuilder

VARIABLES
    built,     \* the WireframeServer
    calls,     \* builder calls so far
    app,       \* the factory's answer to the server task
    at,        \* where spawn_wireframe_pair is, or what became of the pair
    ready,     \* the readiness channel
    client,    \* the pair's client
    handle,    \* who owns the server task's JoinHandle
    reaper,    \* spawn_bounded_shutdown
    call,      \* where a call of shutdown() is
    result,    \* answer of the last shutdown() that joined the server
    probe,     \* where wait_for_listener_release is
    hangs      \* the application never ends a connection by itself

builderVars == <<built, calls>>
pairVars == <<app, at, ready, client, handle, reaper, call, result, probe, hangs>>
allVars == <<vars, builderVars, pairVars>>

Ended == {"Failed", "Returned", "Panicked", "Dropped"}

\* The listener is shared by the server future and its accept loops.
ListenerOpen == stage \notin Ended \/ LiveLoops # {}

PairInit ==
    /\ Init
    /\ built = B!new(B!Closure(FALSE), 2) /\ calls = 0
    /\ app = "unbuilt" /\ at = "building" /\ ready = "pending" /\ client = "none"
    /\ handle = "none" /\ reaper = "none" /\ call = "idle" /\ result = "none"
    /\ probe = "idle" /\ hangs \in BOOLEAN

-----------------------------------------------------------------------------
(* Building a server *)

Built(to) ==
    /\ at = "building" /\ calls < MaxCalls
    /\ built' = to /\ calls' = calls + 1
    /\ UNCHANGED <<vars, pairVars>>

Construct ==
    /\ calls = 0
    /\ \/ Built(B!from_app(0))
       \/ Built(B!new(B!Closure(TRUE), 0))

Set ==
    \/ Built(B!workers(built, 0))
    \/ Built(B!ready_signal(built, "tx"))
    \/ \E cfg \in Backoffs : Built(B!accept_backoff(built, cfg))
    \/ \E type \in PreambleTypes : Built(B!with_preamble(built, type))
    \/ Built(B!preamble_timeout(built, 0))
    \/ Built(B!disable_preamble_timeout(built))
    \/ Built(B!on_preamble_decode_success(built))
    \/ Built(B!on_preamble_decode_failure(built))

\* bind, or bind_existing_listener, which may fail and consume the server.
Bind ==
    \E free, registers \in BOOLEAN :
        \E bound \in {B!Rebind(built, calls + 1, free, registers)} :
            /\ at = "building" /\ calls < MaxCalls
            /\ built' = bound.server
            /\ calls' = IF bound.ok THEN calls + 1 ELSE MaxCalls
            /\ UNCHANGED <<vars, pairVars>>

-----------------------------------------------------------------------------
(* The server task *)

\* run_with_shutdown first calls the factory ...
BuildApp ==
    /\ at # "building" /\ stage = "Preparing" /\ app = "unbuilt"
    /\ \E answer \in {B!build(built.factory)} :
        /\ app' = IF answer.ok THEN "built" ELSE "failed"
        /\ built' = [built EXCEPT !.factory = answer.factory]
    /\ UNCHANGED <<vars, calls, at, ready, client, handle, reaper, call, result, probe, hangs>>

\* ... and owns the sender of the readiness signal, which goes with it.
ReadyFollows ==
    ready' = IF ready # "pending" THEN ready
             ELSE IF stage' = "Select" THEN "sent"
             ELSE IF stage' \in Ended THEN "lost"
             ELSE "pending"

TaskSteps ==
    \/ app = "built" /\ (Prepare \/ PrepareCancelled)
    \/ app # "unbuilt" /\ PrepareFails
    \/ (\E w \in Workers : SpawnLoop(w)) \/ Serve
    \/ RecordGraceful \/ CancelLoops \/ SelectFinished \/ SupervisorReturns
    \/ SupervisorPanics
    \/ reaper = "aborting" /\ DropSupervisor

ServerTask ==
    /\ at # "building" /\ TaskSteps /\ ReadyFollows
    /\ UNCHANGED <<builderVars, app, at, client, handle, reaper, call, result, probe, hangs>>

Loops ==
    /\ \E w \in Workers : LoopStep(w)
    /\ UNCHANGED <<builderVars, pairVars>>

\* The server's end of a connection; its peers arrive below.
Serving(c) == PreambleRead(c) \/ PreambleTimeout(c) \/ HandlerEnds(c) \/ AppEnds(c)

Connection(c) == Serving(c) /\ UNCHANGED <<builderVars, pairVars>>

\* The client, or the probe, has closed its end.
PeerClosed(c) == c = Probe \/ client = "closed"
EndsWithPeer(c) ==
    /\ PeerClosed(c) /\ (PreambleTimeout(c) \/ HandlerEnds(c) \/ (~hangs /\ AppEnds(c)))
    /\ UNCHANGED <<builderVars, pairVars>>

-----------------------------------------------------------------------------
(* spawn_wireframe_pair *)

\* The server is built, bound and spawned; the guard PendingServer owns the
\* shutdown sender and the handle.
SpawnTask ==
    /\ at = "building" /\ at' = "readiness"
    /\ \E fails \in BOOLEAN :
        built' = B!ready_signal(B!bind_to_listener(
                     B!workers(B!new(B!Closure(fails), 2), 1), 1, TRUE).server, "tx")
    /\ calls' = MaxCalls /\ handle' = "guard"
    /\ UNCHANGED <<vars, app, ready, client, reaper, call, result, probe, hangs>>

\* spawn_bounded_shutdown is given the handle; outside a runtime it aborts at once.
BoundedShutdown == handle' = "reaper" /\ reaper' \in {"waiting", "aborting"}

\* PendingServer::drop, on every early return and when the future is dropped.
DropPendingServer == stop' = TRUE /\ BoundedShutdown

\* The readiness sender is gone: the sender of the shutdown signal is dropped
\* and the task is joined.
NotReady ==
    /\ at = "readiness" /\ ready = "lost"
    /\ at' = "joining" /\ handle' = "caller" /\ stop' = TRUE
    /\ UNCHANGED <<mode, controls, supervisor, workers, conn, builderVars, app, ready, client,
                   reaper, call, result, probe, hangs>>

StartFailed ==
    /\ at = "joining" /\ stage \in Ended
    /\ at' = "failed" /\ handle' = "none"
    /\ UNCHANGED <<vars, builderVars, app, ready, client, reaper, call, result, probe, hangs>>

Ready ==
    /\ at = "readiness" /\ ready = "sent"
    /\ at' = "connecting"
    /\ UNCHANGED <<vars, builderVars, app, ready, client, handle, reaper, call, result, probe, hangs>>

\* The client's TCP connection; the listener's queue takes it while it is open.
Dial ==
    /\ at = "connecting" /\ client = "none" /\ ListenerOpen
    /\ client' = "dialled" /\ Arrive(Client)
    /\ UNCHANGED <<builderVars, app, at, ready, handle, reaper, call, result, probe, hangs>>

\* connect() succeeds: the pair takes over from the guard.
Connected ==
    /\ at = "connecting" /\ client = "dialled"
    /\ at' = "running" /\ client' = "open" /\ handle' = "pair"
    /\ UNCHANGED <<vars, builderVars, app, ready, reaper, call, result, probe, hangs>>

\* connect() fails, before or after the TCP connection, or the caller drops
\* the future while it waits: the guard cleans up.
SpawnAbandoned ==
    /\ at \in {"readiness", "connecting"}
    /\ at' = "failed" /\ client' = IF client = "none" THEN "none" ELSE "closed"
    /\ DropPendingServer
    /\ UNCHANGED <<mode, controls, supervisor, workers, conn, builderVars, app, ready, call,
                   result, probe, hangs>>

-----------------------------------------------------------------------------
(* WireframePair *)

\* shutdown(): the client is taken and closed ...
Shutdown ==
    /\ at = "running" /\ call = "idle" /\ handle = "pair"
    /\ call' = "closing"
    /\ client' = "closed"
    /\ UNCHANGED <<vars, builderVars, app, at, ready, handle, reaper, result, probe, hangs>>

\* Mutant: the handle is moved into the future that awaits it.
Signal_TakesHandle ==
    /\ call = "closing"
    /\ call' = "joining" /\ stop' = TRUE /\ handle' = "caller"
    /\ UNCHANGED <<mode, controls, supervisor, workers, conn, builderVars, app, at, ready, client,
                   reaper, result, probe, hangs>>

\* ... the signal is sent ...
Signal ==
    /\ call = "closing"
    /\ call' = "joining" /\ stop' = TRUE
    /\ UNCHANGED <<mode, controls, supervisor, workers, conn, builderVars, app, at, ready, client,
                   handle, reaper, result, probe, hangs>>

\* ... and the task joined.  Running is cleared only now.
Join ==
    /\ call = "joining" /\ stage \in Ended
    /\ call' = "idle" /\ handle' = "none"
    /\ result' = IF stage = "Returned" THEN "ok" ELSE "error"
    /\ UNCHANGED <<vars, builderVars, app, at, ready, client, reaper, probe, hangs>>

\* The caller drops the future of shutdown() at an await; it may call again.
CancelShutdown ==
    /\ call # "idle" /\ call' = "idle"
    /\ handle' = IF handle = "caller" THEN "none" ELSE handle
    /\ UNCHANGED <<vars, builderVars, app, at, ready, client, reaper, result, probe, hangs>>

\* WireframePair::drop.
DropPair ==
    /\ at = "running" /\ call = "idle" /\ at' = "dropped"
    /\ client' = "closed"
    /\ IF handle = "pair" THEN DropPendingServer ELSE UNCHANGED <<stop, handle, reaper>>
    /\ UNCHANGED <<mode, controls, supervisor, workers, conn, builderVars, app, ready, call,
                   result, probe, hangs>>

\* Mutant: the timeout passes and nothing is aborted.
Reap_Forgets ==
    /\ reaper = "waiting" /\ reaper' = "done" /\ handle' = "none"
    /\ UNCHANGED <<vars, builderVars, app, at, ready, client, call, result, probe, hangs>>

\* spawn_bounded_shutdown: the task ends first, or is aborted, which happens at
\* its next await.
Reap ==
    /\ \/ reaper = "waiting" /\ stage \notin Ended /\ reaper' = "aborting" /\ UNCHANGED handle
       \/ reaper # "done" /\ reaper # "none" /\ stage \in Ended
          /\ reaper' = "done" /\ handle' = "none"
    /\ UNCHANGED <<vars, builderVars, app, at, ready, client, call, result, probe, hangs>>

\* wait_for_listener_release: connect until it is refused, or a second passes.
ProbeConnects ==
    /\ at \in {"running", "dropped"} /\ probe = "idle" /\ ListenerOpen
    /\ probe' = "connected" /\ Arrive(Probe)
    /\ UNCHANGED <<builderVars, app, at, ready, client, handle, reaper, call, result, hangs>>

ProbeEnds ==
    /\ at \in {"running", "dropped"} /\ probe \in {"idle", "connected"}
    /\ \/ ~ListenerOpen /\ probe' = "refused"
       \/ ListenerOpen /\ probe = "connected" /\ probe' = "timed_out"
    /\ UNCHANGED <<vars, builderVars, app, at, ready, client, handle, reaper, call, result, hangs>>

-----------------------------------------------------------------------------
Spawning == SpawnTask \/ NotReady \/ StartFailed \/ Ready \/ Dial \/ Connected
PairCalls == Shutdown \/ CancelShutdown \/ DropPair \/ SpawnAbandoned \/ ProbeConnects \/ ProbeEnds
PairProgress == Signal \/ Join

\* Nothing is left to run.
PairOver ==
    /\ stage \in Ended /\ LiveLoops = {}
    /\ at \in {"failed", "dropped"}
    /\ UNCHANGED allVars

PairNext ==
    \/ Construct \/ Set \/ Bind
    \/ BuildApp \/ ServerTask \/ Loops \/ (\E c \in Connections : Connection(c))
    \/ Spawning \/ PairCalls \/ PairProgress \/ Reap
    \/ PairOver

(***************************************************************************)
(* The runtime polls its tasks and fires its timers.  A connection ends    *)
(* with its peer only while the application does not hang.                 *)
(***************************************************************************)
PairFairness ==
    /\ WF_allVars(BuildApp) /\ WF_allVars(ServerTask) /\ WF_allVars(Loops)
    /\ WF_allVars(PairProgress) /\ WF_allVars(Reap)
    /\ \A c \in Connections : WF_allVars(EndsWithPeer(c))

PairSpec == PairInit /\ [][PairNext]_allVars /\ PairFairness

-----------------------------------------------------------------------------
(* Properties *)

\* Whatever builder methods ran and in whatever order: a preamble handler is one
\* for the preamble type the server decodes, the retry delays are positive and in
\* order, a preamble deadline is none or positive, and there is a worker.
ConfigurationCoherent ==
    /\ built.on_preamble_success \in {B!Absent, built.preamble}
    /\ built.on_preamble_failure \in {B!Absent, built.preamble}
    /\ built.backoff_config.initial_delay \in 1..built.backoff_config.max_delay
    /\ built.workers > 0 /\ built.preamble_timeout >= 0

\* A running server task always has an owner that will end it: the guard of
\* spawn_wireframe_pair, its caller, the pair, or the bounded shutdown.  Dropping
\* any of the futures, shutdown() included, loses no handle.  When shutdown() has
\* joined the server and answers Ok, no accept loop and no connection of it is
\* left and its listener is closed, also when an earlier call of shutdown() was
\* dropped half way.  The server it runs was configured soundly
\* (ConfigurationCoherent).
PairIsOwned ==
    /\ ConfigurationCoherent
    /\ (at # "building" /\ stage \notin Ended) => handle # "none"
    /\ result = "ok" => LiveLoops = {} /\ LiveConns = {} /\ ~ListenerOpen

\* A pair that is dropped, or whose start is given up, leaves no server behind,
\* even when the application never lets go of a connection.  shutdown() returns:
\* it closes the client before it waits for the drain, so that an application
\* that ends with its peers holds nothing up.
PairEnds ==
    /\ at \in {"failed", "dropped"} ~> stage \in Ended /\ LiveLoops = {}
    /\ (call # "idle" /\ ~hangs) ~> call = "idle"
=============================================================================
