--------------------------- MODULE ServerBuilder ----------------------------
(***************************************************************************)
(* The fluent builder of WireframeServer (src/server/config), its          *)
(* application factories (src/server/mod.rs) and the back-off settings     *)
(* (src/server/runtime/backoff.rs).  Every builder method takes the server *)
(* and returns it changed: an operator from server record to server record.*)
(* Durations are milliseconds, listeners numbers, and zero is none.  A     *)
(* handler is named for the preamble type it was registered for.           *)
(***************************************************************************)
EXTENDS Integers

Absent == "absent"
AtLeastOne(n) == IF n < 1 THEN 1 ELSE n

\* BackoffConfig::normalized: both delays positive, the smaller one first.
normalized(cfg) ==
    LET initial == AtLeastOne(cfg.initial_delay)
        max     == AtLeastOne(cfg.max_delay)
    IN  IF initial > max
        THEN [initial_delay |-> max, max_delay |-> initial]
        ELSE [initial_delay |-> initial, max_delay |-> max]

default_backoff == [initial_delay |-> 10, max_delay |-> 1000]
DEFAULT_PREAMBLE_TIMEOUT == 10000

\* available_parallelism, or one when it is unknown (zero here).
default_worker_count(parallelism) == AtLeastOne(parallelism)

-----------------------------------------------------------------------------
(* Factories: a closure builds an application, or an error, every time; a   *)
(* pre-built one is a slot that its clones share.                           *)

Closure(fails) == [kind |-> "closure", fails |-> fails]
PrebuiltAppFactory(slot) == [kind |-> "prebuilt", slot |-> slot]

\* AppFactory::build: the closure is called; an application is taken out of
\* its slot, and an empty slot or a poisoned lock is an error.
build(factory) ==
    IF factory.kind = "closure"
    THEN [ok |-> ~factory.fails, factory |-> factory]
    ELSE [ok      |-> factory.slot = "full",
          factory |-> [factory EXCEPT !.slot = IF @ = "full" THEN "empty" ELSE @]]

-----------------------------------------------------------------------------
(* WireframeServer *)

new(factory, parallelism) ==
    [factory |-> factory, workers |-> default_worker_count(parallelism), preamble |-> "unit",
     on_preamble_success |-> Absent, on_preamble_failure |-> Absent, ready_tx |-> Absent,
     backoff_config |-> default_backoff, preamble_timeout |-> DEFAULT_PREAMBLE_TIMEOUT,
     listener |-> 0]

from_app(parallelism) == new(PrebuiltAppFactory("full"), parallelism)

workers(server, count) == [server EXCEPT !.workers = AtLeastOne(count)]
ready_signal(server, tx) == [server EXCEPT !.ready_tx = tx]
accept_backoff(server, cfg) == [server EXCEPT !.backoff_config = normalized(cfg)]

\* with_preamble: the handlers of the old type do not carry over.
with_preamble(server, type) ==
    [server EXCEPT !.preamble = type,
                   !.on_preamble_success = Absent, !.on_preamble_failure = Absent]

preamble_timeout(server, ms) == [server EXCEPT !.preamble_timeout = AtLeastOne(ms)]
disable_preamble_timeout(server) == [server EXCEPT !.preamble_timeout = 0]

on_preamble_decode_success(server) == [server EXCEPT !.on_preamble_success = server.preamble]
on_preamble_decode_failure(server) == [server EXCEPT !.on_preamble_failure = server.preamble]

\* bind_to_listener, from both type states: only the listener changes.  A
\* listener the runtime refuses is an error, and the server is gone.
bind_to_listener(server, listener, registers) ==
    IF registers
    THEN [ok |-> TRUE, server |-> [server EXCEPT !.listener = listener]]
    ELSE [ok |-> FALSE, server |-> server]

\* bind, of an unbound and of a bound server: the socket first.
Rebind(server, listener, free, registers) ==
    IF free
    THEN bind_to_listener(server, listener, registers)
    ELSE [ok |-> FALSE, server |-> server]
=============================================================================
