-------------------------- MODULE SessionRegistry --------------------------
(***************************************************************************)
(* The session registry (src/session.rs): a concurrent map from connection *)
(* ids to weak references to push handles.  A call is atomic on one entry  *)
(* (a DashMap shard lock) and no further: get() releases the lock between  *)
(* its look-up and its clean-up, and the traversals of prune(),            *)
(* active_handles() and active_ids() lock one shard after another.         *)
(***************************************************************************)
EXTENDS Naturals

CONSTANTS
    Ids,       \* ConnectionId, each in a shard of its own
    Handles,   \* PushHandleInner allocations; one is never used again
    Tasks,     \* callers of the registry
    None

ASSUME NoneAssumption == None \notin Handles

VARIABLES
    map,       \* the DashMap: the handle an entry's weak reference points at
    fresh,     \* handles not allocated yet
    holders,   \* who holds a strong reference to a handle
    pc, call, key, todo,   \* per task: step, operation, its id, ids left to visit
    answer,    \* per task: what the call has collected, as <<id, handle>> pairs
    \* History variables
    registered,   \* per id: the handle inserted last and not removed since
    seen,         \* per task: live registrations there were during the call
    absent,       \* per task: ids without a live registration at some time of it
    stale         \* per task: ids in its scope whose entry was dead at its start

task == <<pc, call, key, todo, answer>>
vars == <<map, fresh, holders, task, registered, seen, absent, stale>>

Owner == "owner"   \* the connection that created the handle

\* Weak::upgrade succeeds, strong_count() > 0
Live(h) == h # None /\ holders[h] # {}

Calls == {"get", "prune", "active_handles", "active_ids"}

Init ==
    /\ map = [i \in Ids |-> None] /\ fresh = Handles
    /\ holders = [h \in Handles |-> {}]
    /\ pc = [t \in Tasks |-> "Idle"] /\ call = [t \in Tasks |-> "get"]
    /\ key = [t \in Tasks |-> None] /\ todo = [t \in Tasks |-> {}]
    /\ answer = [t \in Tasks |-> {}]
    /\ registered = [i \in Ids |-> None]
    /\ seen = [t \in Tasks |-> {}] /\ absent = [t \in Tasks |-> {}]
    /\ stale = [t \in Tasks |-> {}]

\* What the calls in progress may have seen once the registrations and the
\* references are as in the next state.
Witness ==
    LET live == {i \in Ids : registered'[i] # None /\ holders'[registered'[i]] # {}}
        scope(t) == IF pc'[t] = "Idle" \/ call'[t] = "prune" THEN {}
                    ELSE IF call'[t] = "get" THEN {key'[t]} ELSE Ids
        before(t, history) == IF pc'[t] = "Idle" THEN {} ELSE history[t]
    IN  /\ seen' = [t \in Tasks |->
                       before(t, seen) \union {<<i, registered'[i]>> : i \in live \intersect scope(t)}]
        /\ absent' = [t \in Tasks |-> before(t, absent) \union (scope(t) \ live)]

-----------------------------------------------------------------------------
(* Connections *)

\* A connection is established: its handle is allocated.
Open(h) ==
    /\ h \in fresh /\ fresh' = fresh \ {h}
    /\ holders' = [holders EXCEPT ![h] = {Owner}]
    /\ UNCHANGED <<map, task, registered, stale>> /\ Witness

\* The connection ends: its strong references go.
Close(h) ==
    /\ Owner \in holders[h]
    /\ holders' = [holders EXCEPT ![h] = @ \ {Owner}]
    /\ UNCHANGED <<map, fresh, task, registered, stale>> /\ Witness

\* SessionRegistry::insert stores a weak reference, over whatever was there.
insert(i, h) ==
    /\ Owner \in holders[h]
    /\ map' = [map EXCEPT ![i] = h]
    /\ registered' = [registered EXCEPT ![i] = h]
    /\ stale' = [t \in Tasks |-> stale[t] \ {i}]
    /\ UNCHANGED <<fresh, holders, task>> /\ Witness

remove(i) ==
    /\ map[i] # None
    /\ map' = [map EXCEPT ![i] = None]
    /\ registered' = [registered EXCEPT ![i] = None]
    /\ UNCHANGED <<fresh, holders, task, stale>> /\ Witness

-----------------------------------------------------------------------------
(* Calls *)

Dead(i) == map[i] # None /\ ~Live(map[i])

Call(t, op, i) ==
    /\ pc[t] = "Idle"
    /\ pc' = [pc EXCEPT ![t] = IF op = "get" THEN "LookUp" ELSE "Walk"]
    /\ call' = [call EXCEPT ![t] = op]
    /\ key' = [key EXCEPT ![t] = IF op = "get" THEN i ELSE None]
    /\ todo' = [todo EXCEPT ![t] = IF op = "get" THEN {} ELSE Ids]
    /\ stale' = [stale EXCEPT ![t] = {j \in Ids : (op = "get" => j = i) /\ Dead(j)}]
    /\ UNCHANGED <<map, fresh, holders, answer, registered>> /\ Witness

\* get: the weak reference is upgraded under the shard lock.
LookUp(t) ==
    LET i == key[t]
    IN  /\ pc[t] = "LookUp"
        /\ IF Live(map[i])
           THEN /\ pc' = [pc EXCEPT ![t] = "Done"]
                /\ answer' = [answer EXCEPT ![t] = {<<i, map[i]>>}]
                /\ holders' = [holders EXCEPT ![map[i]] = @ \union {t}]
           ELSE pc' = [pc EXCEPT ![t] = "CleanUp"] /\ UNCHANGED <<answer, holders>>
        /\ UNCHANGED <<map, fresh, call, key, todo, registered, stale>> /\ Witness

\* Mutant: the entry is removed without looking at it again.
CleanUp_Unconditional(t) ==
    /\ pc[t] = "CleanUp"
    /\ pc' = [pc EXCEPT ![t] = "Done"]
    /\ map' = [map EXCEPT ![key[t]] = None]
    /\ UNCHANGED <<fresh, holders, call, key, todo, answer, registered, stale>> /\ Witness

\* get: remove_if, under the lock again.
CleanUp(t) ==
    /\ pc[t] = "CleanUp"
    /\ pc' = [pc EXCEPT ![t] = "Done"]
    /\ map' = IF Dead(key[t]) THEN [map EXCEPT ![key[t]] = None] ELSE map
    /\ UNCHANGED <<fresh, holders, call, key, todo, answer, registered, stale>> /\ Witness

\* Mutant: an entry is collected before its reference is upgraded.
Visit_CollectsFirst(t, i) ==
    /\ pc[t] = "Walk" /\ i \in todo[t]
    /\ todo' = [todo EXCEPT ![t] = @ \ {i}]
    /\ answer' = IF map[i] # None /\ call[t] # "prune"
                 THEN [answer EXCEPT ![t] = @ \union {<<i, map[i]>>}] ELSE answer
    /\ map' = IF Dead(i) THEN [map EXCEPT ![i] = None] ELSE map
    /\ UNCHANGED <<pc, fresh, holders, call, key, registered, stale>> /\ Witness

\* retain on one entry: a dead one goes, a live one is collected unless the
\* call is prune(); active_handles() keeps the upgraded reference.
Visit(t, i) ==
    /\ pc[t] = "Walk" /\ i \in todo[t]
    /\ todo' = [todo EXCEPT ![t] = @ \ {i}]
    /\ answer' = IF Live(map[i]) /\ call[t] # "prune"
                 THEN [answer EXCEPT ![t] = @ \union {<<i, map[i]>>}] ELSE answer
    /\ holders' = IF Live(map[i]) /\ call[t] = "active_handles"
                  THEN [holders EXCEPT ![map[i]] = @ \union {t}] ELSE holders
    /\ map' = IF Dead(i) THEN [map EXCEPT ![i] = None] ELSE map
    /\ UNCHANGED <<pc, fresh, call, key, registered, stale>> /\ Witness

WalkEnds(t) ==
    /\ pc[t] = "Walk" /\ todo[t] = {}
    /\ pc' = [pc EXCEPT ![t] = "Done"]
    /\ UNCHANGED <<map, fresh, holders, call, key, todo, answer, registered, stale>> /\ Witness

\* The caller has its answer and drops the handles in it.
Return(t) ==
    /\ pc[t] = "Done"
    /\ pc' = [pc EXCEPT ![t] = "Idle"]
    /\ call' = [call EXCEPT ![t] = "get"] /\ key' = [key EXCEPT ![t] = None]
    /\ answer' = [answer EXCEPT ![t] = {}]
    /\ holders' = [h \in Handles |-> holders[h] \ {t}]
    /\ stale' = [stale EXCEPT ![t] = {}]
    /\ UNCHANGED <<map, fresh, todo, registered>> /\ Witness

Next ==
    \/ \E h \in Handles : Open(h) \/ Close(h) \/ \E i \in Ids : insert(i, h)
    \/ \E i \in Ids : remove(i)
    \/ \E t \in Tasks :
        \/ \E op \in Calls, i \in Ids : Call(t, op, i)
        \/ LookUp(t) \/ CleanUp(t) \/ WalkEnds(t) \/ Return(t)
        \/ \E i \in Ids : Visit(t, i)

Spec == Init /\ [][Next]_vars

-----------------------------------------------------------------------------
(* Properties *)

\* Every variable holds a value of its kind.
TypeOK ==
    /\ map \in [Ids -> Handles \union {None}] /\ registered \in [Ids -> Handles \union {None}]
    /\ fresh \subseteq Handles /\ holders \in [Handles -> SUBSET (Tasks \union {Owner})]
    /\ pc \in [Tasks -> {"Idle", "LookUp", "CleanUp", "Walk", "Done"}]
    /\ call \in [Tasks -> Calls] /\ key \in [Tasks -> Ids \union {None}]
    /\ todo \in [Tasks -> SUBSET Ids] /\ answer \in [Tasks -> SUBSET (Ids \X Handles)]
    /\ seen \in [Tasks -> SUBSET (Ids \X Handles)]
    /\ absent \in [Tasks -> SUBSET Ids] /\ stale \in [Tasks -> SUBSET Ids]

\* A live connection stays registered until remove() or a newer insert():
\* no clean-up of a dead predecessor takes the entry of its successor.
LiveEntryKept == \A i \in Ids : Live(registered[i]) => map[i] = registered[i]

\* Whatever get(), active_handles() or active_ids() report was registered under
\* that id, and alive, at some moment of the call; and what they leave out was,
\* at some moment of it, not registered or dead.  A call leaves no entry in its
\* scope that was dead when it started, unless somebody registered the id anew
\* meanwhile.
AnswersWereTrue ==
    \A t \in Tasks : pc[t] = "Done" =>
        /\ \A i \in stale[t] : map[i] = None
        /\ answer[t] \subseteq seen[t]
        /\ \A i \in Ids :
            (call[t] # "prune" /\ (call[t] = "get" => i = key[t])
                /\ \A p \in answer[t] : p[1] # i) => i \in absent[t]
=============================================================================
