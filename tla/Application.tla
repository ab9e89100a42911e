---------------------------- MODULE Application -----------------------------
(***************************************************************************)
(* An application from its builder to its connections: WireframeApp is     *)
(* configured, prepared once (src/app/prepared_app.rs), and the            *)
(* PreparedApp is shared by connections that run in parallel.  A request   *)
(* descends through the middleware of its route (src/middleware.rs), is    *)
(* handled, ascends again and leaves as one frame or as fragments.         *)
(*                                                                         *)
(* The frame loop around a request is the module InboundPipeline, and the  *)
(* streaming body a handler may extract is RequestBody: dispatch gives a   *)
(* handler no MessageRequest, so the two machines share no state.          *)
(***************************************************************************)
EXTENDS AppBuilder, RequestBody

CONSTANTS
    Connections,
    MaxBuilderCalls,      \* bound: calls of builder methods
    Ids, Middlewares,     \* route ids, middleware
    StateTypes,           \* connection state types of set-up hooks
    Capacities,           \* arguments of buffer_capacity
    Codecs,               \* codecs of the application
    CustomFragmentation,  \* a configuration given to fragmentation()
    PayloadLengths(_)     \* payload lengths tried under a fragmentation config

VARIABLES app, phase, calls, prepared, conns

appVars == <<app, phase, calls, prepared, conns>>
applicationVars == <<appVars, bodyVars>>

\* A connection that was not accepted yet.
NewConnection ==
    [at |-> "new", state |-> None, hooks |-> None, service |-> HandlerService(0, None),
     depth |-> 0, length |-> 0, seen |-> <<>>, result |-> "ok", torn |-> None]

ApplicationInit ==
    /\ app = with_serializer("serde") /\ phase = "building" /\ calls = 0
    /\ prepared = build_prepared(new) /\ conns = [c \in Connections |-> NewConnection]
    /\ BodyInit

-----------------------------------------------------------------------------
(* Building *)

Configured(to) ==
    /\ phase = "building" /\ calls < MaxBuilderCalls
    /\ app' = to /\ calls' = calls + 1
    /\ UNCHANGED <<phase, prepared, conns>>

Codec ==
    \/ \E codec \in Codecs : Configured(with_codec(app, codec))
    \/ \E n \in Capacities : app.codec.kind = "length" /\ Configured(buffer_capacity(app, n))
    \/ Configured(serializer(app, "bincode"))

Configure ==
    \/ Configured(read_timeout_ms(app, 0))
    \/ Configured(fragmentation(app, CustomFragmentation))
    \/ Configured(enable_fragmentation(app))
    \/ Configured(memory_budgets(app, default_memory_budgets(64)))
    \/ Configured(with_push_dlq(app, "dlq"))
    \/ Configured(app_data(app, "config", calls))

Extend ==
    \/ \E type \in StateTypes : Configured(on_connection_setup(app, type))
    \/ Configured(on_connection_teardown(app))
    \/ Configured(with_protocol(app, "protocol"))
    \/ Configured(with_message_assembler(app, "assembler"))
    \/ \E mw \in Middlewares : Configured(wrap(app, mw))
    \/ \E id \in Ids : ~DuplicateRoute(app, id) /\ Configured(route(app, id, "handler"))

\* prepare: the application is consumed.
Prepare ==
    /\ phase = "building" /\ phase' = "serving" /\ prepared' = build_prepared(app)
    /\ UNCHANGED <<app, calls, conns>>

-----------------------------------------------------------------------------
(* Serving *)

Step(c, to) ==
    /\ conns' = [conns EXCEPT ![c] = to]
    /\ UNCHANGED <<app, phase, calls, prepared>>

\* handle_connection_result: the set-up hook, and hooks of its own.
Accept(c) ==
    /\ phase = "serving" /\ conns[c].at = "new"
    /\ Step(c, [conns[c] EXCEPT !.at = "idle", !.state = prepared.on_connect,
                                !.hooks = protocol_hooks(prepared)])

\* forward_response calls the service of the route.
Dispatch(c, id, length) ==
    /\ conns[c].at = "idle" /\ id \in DOMAIN prepared.routes
    /\ Step(c, [conns[c] EXCEPT !.at = "calling", !.service = prepared.routes[id],
                                !.depth = 0, !.length = length, !.seen = <<>>])

Saw(who, way) == [who |-> who, way |-> way]

\* FnService::call: the middleware hands the request to the next service, or
\* answers itself.
Enter(c) ==
    LET conn == conns[c] IN
    /\ conn.at = "calling" /\ conn.depth < Len(conn.service.around)
    /\ LET mw == conn.service.around[conn.depth + 1] IN
       \/ Step(c, [conn EXCEPT !.depth = @ + 1, !.seen = Append(@, Saw(mw, "in"))])
       \/ Step(c, [conn EXCEPT !.at = "returning", !.depth = @ + 1,
                               !.seen = Append(@, Saw(mw, "in"))])

\* RouteService::call: the handler borrows the envelope, whose payload is
\* then the response.
Handle(c) ==
    LET conn == conns[c] IN
    /\ conn.at = "calling" /\ conn.depth = Len(conn.service.around)
    /\ Step(c, [conn EXCEPT !.at = "returning", !.seen = Append(@, Saw("handler", "in"))])

\* Next::call returns to the middleware that called it.
Return(c) ==
    LET conn == conns[c] IN
    /\ conn.at = "returning" /\ conn.depth > 0
    /\ Step(c, [conn EXCEPT !.depth = @ - 1,
                            !.seen = Append(@, Saw(conn.service.around[conn.depth], "out"))])

\* The frames of the response, for the widths the identifiers may encode to.
ResponseFrames(config, length) ==
    {EnvelopeBytes(id, corr, payload) :
        id \in {1, 5}, corr \in {0, 9},
        payload \in UNION {fragment_packet(config, length, m) : m \in Widths64}}

\* process and flush_pipeline_output: the codec refuses a frame over its
\* limit, and the connection ends.  The before_send hook keeps the length.
Respond(c) ==
    LET conn == conns[c]
        frames == ResponseFrames(prepared.fragmentation, conn.length)
        fits == Max(frames) <= prepared.codec.max_frame_length
    IN  /\ conn.at = "returning" /\ conn.depth = 0
        /\ Step(c, IF fits THEN [conn EXCEPT !.at = "idle"]
                   ELSE [conn EXCEPT !.at = "ending", !.result = "rejected"])

Close(c) ==
    /\ conns[c].at = "idle" /\ Step(c, [conns[c] EXCEPT !.at = "ending"])

\* process_connection hands the state to the teardown hook.
Teardown(c) ==
    LET conn == conns[c] IN
    /\ conn.at = "ending"
    /\ Step(c, [conn EXCEPT !.at = "closed",
                            !.torn = IF conn.state # None THEN prepared.on_disconnect ELSE None])

Serve(c) ==
    \/ Accept(c) \/ Enter(c) \/ Handle(c) \/ Return(c) \/ Respond(c) \/ Close(c) \/ Teardown(c)
    \/ \E id \in Ids, length \in PayloadLengths(prepared.fragmentation) :
        conns[c].seen = <<>> /\ Dispatch(c, id, length)

AppNext == Codec \/ Configure \/ Extend \/ Prepare \/ \E c \in Connections : Serve(c)

\* A behaviour is one of the application or one of a request body.
ApplicationNext ==
    \/ slot = "absent" /\ sent = 0 /\ sender = "open" /\ AppNext /\ UNCHANGED bodyVars
    \/ calls = 0 /\ phase = "building" /\ BodyNext /\ UNCHANGED appVars

ApplicationSpec == ApplicationInit /\ [][ApplicationNext]_applicationVars

-----------------------------------------------------------------------------
(* Properties *)

Matching(seen, way) == SelectSeq(seen, LAMBDA s : s.way = way /\ s.who # "handler")

\* On every route and in every parallel call, whatever the order of the wrap
\* and route calls and of the rebuilds between them, a request meets the
\* middleware in the order it was registered, the handler only after the last
\* of them, and the response passes the ones that were entered in the opposite
\* order (build_route_chains, FnService::call).  A teardown hook is given the
\* state its own set-up hook made, on every connection that was set up, and no
\* hook of an earlier state type survives (rebuild_with_connection_state).
HooksNest ==
    \A c \in Connections :
        LET seen == conns[c].seen
            in == Matching(seen, "in")
            out == Matching(seen, "out")
            handled == \E i \in DOMAIN seen : seen[i].who = "handler"
        IN  /\ \A i \in DOMAIN in : in[i].who = app.middleware[i]
            /\ handled => Len(in) = Len(app.middleware)
            /\ \A i \in DOMAIN out : out[i].who = in[Len(in) + 1 - i].who
            /\ conns[c].at \in {"idle", "ending"} => Len(in) = Len(out)
            /\ conns[c].torn # None => conns[c].torn = conns[c].state

=============================================================================
