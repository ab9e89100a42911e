---------------------------- MODULE MCTestSupport ----------------------------
(***************************************************************************)
(* A small instance of what the tests and benchmarks stand on: drives of a *)
(* framed server over in-memory pipes, a server and client run as a pair,  *)
(* the allocation windows and the push scenarios of the benchmarks, and    *)
(* the capture of logs and metrics.  They are checked side by side and     *)
(* share no state: `part` says which of them a behaviour is about.         *)
(***************************************************************************)
EXTENDS ServerPair, AllocationWindow, Observability, PushMeasurement, MCWire

VARIABLE part

MCBackoffs == {[initial_delay |-> 0, max_delay |-> 0], [initial_delay |-> 3, max_delay |-> 2]}
MCSeries == {{"a"}, {"a", "b"}}

SupportInit ==
    /\ part \in {"wire", "pair", "window", "capture", "bench"}
    /\ WireInit /\ PairInit /\ WindowInit /\ ObservabilityInit /\ BenchInit
    /\ part # "wire" => drive = CHOOSE scenario \in Scenarios : TRUE
    /\ part # "pair" => ~hangs

SupportNext ==
    /\ UNCHANGED part
    /\ \/ /\ part = "wire"
          /\ WireNext /\ UNCHANGED <<allVars, windowVars, obsVars, benchVars>>
       \/ /\ part = "pair"
          /\ PairNext /\ UNCHANGED <<wireVars, windowVars, obsVars, benchVars>>
       \/ /\ part = "window"
          /\ WindowNext /\ UNCHANGED <<wireVars, allVars, obsVars, benchVars>>
       \/ /\ part = "capture"
          /\ ObservabilityNext /\ UNCHANGED <<wireVars, allVars, windowVars, benchVars>>
       \/ /\ part = "bench"
          /\ BenchNext /\ UNCHANGED <<wireVars, allVars, windowVars, obsVars>>

\* No step the two components call fair is enabled before they have begun.
SupportSpec ==
    /\ SupportInit
    /\ [][SupportNext]_<<part, wireVars, allVars, windowVars, obsVars, benchVars>>
    /\ PairFairness /\ BenchFairness


\* Nothing the support code starts is left running: pairs and measurements end.
SupportEnds == PairEnds /\ MeasurementsEnd
=============================================================================
