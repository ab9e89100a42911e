----------------------------- MODULE MCEndpoints ----------------------------
(***************************************************************************)
(* Small instances of what stands at the two ends of a connection: an      *)
(* application with its connections and request bodies, and the pool of a  *)
(* client, its leases and its scheduler.  They are checked side by side    *)
(* and share no state: `part` says which of them a behaviour is about.     *)
(***************************************************************************)
EXTENDS Application, PoolLease, PoolScheduler

VARIABLE part

EndpointsInit ==
    /\ part \in {"application", "lease", "scheduler"}
    /\ ApplicationInit /\ LeaseInit /\ Init
    /\ part # "lease" => conn = "None"

EndpointsNext ==
    /\ UNCHANGED part
    /\ \/ part = "application" /\ ApplicationNext /\ UNCHANGED <<leaseVars, vars>>
       \/ part = "lease" /\ LeaseNext /\ UNCHANGED <<applicationVars, vars>>
       \/ part = "scheduler" /\ Next /\ UNCHANGED <<applicationVars, leaseVars>>

EndpointsSpec ==
    EndpointsInit /\ [][EndpointsNext]_<<part, applicationVars, leaseVars, vars>>

MCCodecs == {CustomCodec(300)}
MCCustomFragmentation == for_frame_budget(2000, 4000)

\* Lengths around the fragment payload cap.
MCPayloadLengths(config) ==
    LET cap == config.fragment_payload_cap
    IN  IF config = NoFragmentation THEN {2000} ELSE {cap, cap + 1}

\* The clients of a lease, and the handles, are interchangeable.
Symmetry == Permutations(Leases) \cup Permutations(Handles)
=============================================================================
