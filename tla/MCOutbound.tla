----------------------------- MODULE MCOutbound -----------------------------
(***************************************************************************)
(* Small instances of the outbound path: the connection actor and the push *)
(* queues.  They are checked side by side and share no state: `part` says  *)
(* which of them a behaviour is about.                                     *)
(*                                                                         *)
(* The actor comes in two settings.  The .cfg gives the one of "reruns":   *)
(* two calls of run(), a time slice, a fragmenter that may refuse frames.  *)
(* In "run" it runs once, with a stream-end hook and neither of the two.   *)
(***************************************************************************)
EXTENDS ConnectionActor, PushQueues

VARIABLE part

Plain == INSTANCE ConnectionActor WITH
    HasTimeSlice <- FALSE, HasStreamEndFrame <- TRUE, MayFailToFragment <- FALSE, MaxRuns <- 1

OutboundInit ==
    /\ part \in {"run", "reruns", "queues"}
    /\ Init /\ QueuesInit
    /\ part = "queues" => active_output = "None"

OutboundNext ==
    /\ UNCHANGED part
    /\ \/ part = "run" /\ Plain!Next /\ UNCHANGED queueVars
       \/ part = "reruns" /\ Next /\ UNCHANGED queueVars
       \/ part = "queues" /\ QueuesNext /\ UNCHANGED vars

\* The fairness of each component, in the behaviours that are about it.
OutboundFairness ==
    /\ WF_vars(part = "run" /\ Plain!ActorStep)
    /\ WF_vars(part = "reruns" /\ ActorStep)
    /\ \A t \in Producers : WF_queueVars(part = "queues" /\ Proceed(t))
    /\ WF_queueVars(part = "queues" /\ Recv) /\ WF_queueVars(part = "queues" /\ Refill)

OutboundSpec ==
    /\ OutboundInit /\ [][OutboundNext]_<<part, vars, queueVars>>
    /\ OutboundFairness

\* In a run() whose frames no fragmenter refuses, a buffered low frame is sent,
\* even if high frames never stop coming (FairnessTracker, after_high).
RunServesLow == part = "run" => LowEventuallyServed
=============================================================================
