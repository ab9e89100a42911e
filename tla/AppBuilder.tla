----------------------------- MODULE AppBuilder -----------------------------
(***************************************************************************)
(* The fluent builder of WireframeApp (src/app/builder) and the values it  *)
(* configures.  Every builder method takes the application and returns it  *)
(* changed: an operator from application record to application record.     *)
(* Methods that change a type parameter move every field into a new        *)
(* application (rebuild_with_params, rebuild_with_connection_state).       *)
(***************************************************************************)
EXTENDS FragmentSizes, Sequences, SequencesExt

None == "none"
NoBudgets == [per_message |-> 0, per_connection |-> 0, in_flight |-> 0]

\* LengthDelimitedFrameCodec::new clamps; a codec of the application does not.
LengthDelimited(max) == [kind |-> "length", max_frame_length |-> clamp_frame_length(max)]
CustomCodec(max) == [kind |-> "custom", max_frame_length |-> max]

\* WireframeApp::default.
new == [handlers |-> [id \in {} |-> None], middleware |-> <<>>, serializer |-> "bincode",
        app_data |-> [type \in {} |-> 0], on_connect |-> None, on_disconnect |-> None,
        protocol |-> None, push_dlq |-> None,
        codec |-> [kind |-> "length", max_frame_length |-> 1024], read_timeout_ms |-> 100,
        fragmentation |-> NoFragmentation, message_assembler |-> None,
        memory_budgets |-> NoBudgets]

with_serializer(s) == [new EXCEPT !.serializer = s]

rebuild_with_params(app, params) ==
    [app EXCEPT !.serializer = params.serializer, !.codec = params.codec,
                !.protocol = params.protocol, !.fragmentation = params.fragmentation,
                !.message_assembler = params.message_assembler,
                !.memory_budgets = params.memory_budgets]

rebuild_with_connection_state(app, setup) ==
    [app EXCEPT !.on_connect = setup, !.on_disconnect = None]

\* with_codec: a protocol or a fragment size of the old codec does not carry
\* over, the assembler and the budgets do.
with_codec(app, codec) ==
    rebuild_with_params(app, [serializer |-> app.serializer, codec |-> codec,
        protocol |-> None, fragmentation |-> NoFragmentation,
        message_assembler |-> app.message_assembler, memory_budgets |-> app.memory_budgets])

serializer(app, s) ==
    rebuild_with_params(app, [serializer |-> s, codec |-> app.codec,
        protocol |-> app.protocol, fragmentation |-> app.fragmentation,
        message_assembler |-> app.message_assembler, memory_budgets |-> app.memory_budgets])

\* buffer_capacity: for the default codec only.
buffer_capacity(app, capacity) ==
    [app EXCEPT !.codec = LengthDelimited(clamp_frame_length(capacity)),
                !.fragmentation = NoFragmentation]

\* read_timeout_ms: between one millisecond and a day.
read_timeout_ms(app, ms) ==
    [app EXCEPT !.read_timeout_ms = IF ms < 1 THEN 1 ELSE IF ms > 86400000 THEN 86400000 ELSE ms]

fragmentation(app, config) == [app EXCEPT !.fragmentation = config]
memory_budgets(app, budgets) == [app EXCEPT !.memory_budgets = budgets]

enable_fragmentation(app) ==
    [app EXCEPT !.fragmentation = default_fragmentation(app.codec.max_frame_length)]

with_push_dlq(app, dlq) == [app EXCEPT !.push_dlq = dlq]

\* app_data: AppDataStore::insert replaces the value of the type.
insert(store, type, value) ==
    [t \in DOMAIN store \cup {type} |-> IF t = type THEN value ELSE store[t]]
app_data(app, type, value) == [app EXCEPT !.app_data = insert(@, type, value)]

\* route: refused when the id is taken.
DuplicateRoute(app, id) == id \in DOMAIN app.handlers
route(app, id, handler) == [app EXCEPT !.handlers = insert(@, id, handler)]

wrap(app, mw) == [app EXCEPT !.middleware = Append(@, mw)]

\* Lifecycle hooks, each named for the connection state type C it produces or
\* takes; the compiler admits no teardown hook of another type.
on_connection_setup(app, type) == rebuild_with_connection_state(app, type)
on_connection_teardown(app) ==
    [app EXCEPT !.on_disconnect = IF app.on_connect = None THEN "unit" ELSE app.on_connect]

with_protocol(app, protocol) == [app EXCEPT !.protocol = protocol]
with_message_assembler(app, assembler) == [app EXCEPT !.message_assembler = assembler]

\* protocol_hooks: ProtocolHooks::from_protocol, or the empty hooks.
protocol_hooks(app) == app.protocol

-----------------------------------------------------------------------------
(* Services *)

\* HandlerService::new around a RouteService, and one middleware around it.
HandlerService(id, handler) == [id |-> id, handler |-> handler, around |-> <<>>]
transform(mw, service) == [service EXCEPT !.around = <<mw>> \o @]

\* Mutant: the first middleware is wrapped first, and ends up innermost.
build_route_chains_Forward(handlers, middleware) ==
    [id \in DOMAIN handlers |->
        FoldLeft(LAMBDA service, mw : transform(mw, service),
                 HandlerService(id, handlers[id]), middleware)]

\* build_route_chains: wrapped from the last middleware to the first.
build_route_chains(handlers, middleware) ==
    [id \in DOMAIN handlers |->
        FoldLeft(LAMBDA service, mw : transform(mw, service),
                 HandlerService(id, handlers[id]), Reverse(middleware))]

\* prepare: the routes are built once; handlers and middleware are consumed.
build_prepared(app) ==
    [routes |-> build_route_chains(app.handlers, app.middleware),
     serializer |-> app.serializer, codec |-> app.codec, app_data |-> app.app_data,
     on_connect |-> app.on_connect, on_disconnect |-> app.on_disconnect,
     protocol |-> app.protocol, message_assembler |-> app.message_assembler,
     push_dlq |-> app.push_dlq, fragmentation |-> app.fragmentation,
     read_timeout_ms |-> app.read_timeout_ms, memory_budgets |-> app.memory_budgets]
=============================================================================
