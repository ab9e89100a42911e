------------------------------ MODULE PushLane ------------------------------
(***************************************************************************)
(* What one priority of the push queues promises its users (PushHandle's   *)
(* and PushQueues::recv's documentation): a bounded FIFO buffer.  A frame  *)
(* is accepted once, while there is room and the lane is open; accepted    *)
(* frames are delivered once, in order, also after the lane is closed.     *)
(***************************************************************************)
EXTENDS Naturals, Sequences

CONSTANTS Frames, Cap

VARIABLES buffer, open

lane_vars == <<buffer, open>>

Init == buffer = <<>> /\ open = TRUE

Accept(f) ==
    /\ open /\ Len(buffer) < Cap
    /\ buffer' = Append(buffer, f)
    /\ UNCHANGED open

Deliver ==
    /\ buffer # <<>>
    /\ buffer' = Tail(buffer)
    /\ UNCHANGED open

Shut == open /\ open' = FALSE /\ UNCHANGED buffer

Next == (\E f \in Frames : Accept(f)) \/ Deliver \/ Shut

Spec == Init /\ [][Next]_lane_vars
FairSpec == Spec /\ WF_lane_vars(Deliver)
=============================================================================
