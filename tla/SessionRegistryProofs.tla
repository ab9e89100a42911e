----------------------- MODULE SessionRegistryProofs -----------------------
(***************************************************************************)
(* That the registry keeps the entry of every live connection, for any     *)
(* number of ids, handles and callers.                                     *)
(***************************************************************************)
EXTENDS SessionRegistry, TLAPS

\* LiveEntryKept alone is not inductive: a handle allocated later must not be
\* registered already, and a clean-up must be about some id.
IInv ==
    /\ map \in [Ids -> Handles \union {None}]
    /\ registered \in [Ids -> Handles \union {None}]
    /\ holders \in [Handles -> SUBSET (Tasks \union {Owner})]
    /\ pc \in [Tasks -> {"Idle", "LookUp", "CleanUp", "Walk", "Done"}]
    /\ \A i \in Ids : registered[i] \notin fresh
    /\ \A h \in fresh : holders[h] = {}
    /\ fresh \subseteq Handles
    /\ LiveEntryKept

\* Initially nothing is registered.
LEMMA InitIInv == Init => IInv
  BY NoneAssumption DEF Init, IInv, LiveEntryKept, Live

\* Entries that keep what they had, or lose a dead handle, stay right when no
\* handle comes back to life.
LEMMA KeptWhenOnlyDeadGo ==
  ASSUME IInv, registered' = registered,
         \A h \in Handles : holders'[h] # {} => holders[h] # {},
         \A i \in Ids : map'[i] = map[i] \/ ~Live(map[i])
  PROVE  LiveEntryKept'
  <1> SUFFICES ASSUME NEW i \in Ids, Live(registered[i])'
               PROVE  map'[i] = registered[i]
    BY DEF LiveEntryKept
  <1>1. registered[i] \in Handles
    BY DEF IInv, Live
  <1>2. Live(registered[i])
    BY <1>1 DEF Live
  <1>3. map[i] = registered[i]
    BY <1>2 DEF IInv, LiveEntryKept
  <1> QED BY <1>2, <1>3

\* Every action keeps the invariant.
LEMMA NextIInv == IInv /\ [Next]_vars => IInv'
  <1> SUFFICES ASSUME IInv, [Next]_vars PROVE IInv'
    OBVIOUS
  <1>1. ASSUME NEW h \in Handles, Open(h) PROVE IInv'
    <2>1. LiveEntryKept'
      <3> SUFFICES ASSUME NEW i \in Ids, Live(registered[i])'
                   PROVE  map[i] = registered[i]
        BY <1>1 DEF LiveEntryKept, Open
      <3>1. registered[i] # h /\ registered[i] \in Handles
        BY <1>1 DEF IInv, Open, Live
      <3>2. Live(registered[i])
        BY <1>1, <3>1 DEF IInv, Open, Live
      <3> QED BY <3>2 DEF IInv, LiveEntryKept
    <2> QED BY <1>1, <2>1 DEF IInv, Open, task
  <1>2. ASSUME NEW h \in Handles, Close(h) PROVE IInv'
    <2>1. LiveEntryKept'
      BY <1>2, KeptWhenOnlyDeadGo DEF IInv, Close
    <2> QED BY <1>2, <2>1 DEF IInv, Close, task
  <1>3. ASSUME NEW h \in Handles, NEW i \in Ids, insert(i, h) PROVE IInv'
    <2>1. LiveEntryKept'
      BY <1>3 DEF IInv, insert, LiveEntryKept, Live
    <2>2. h \notin fresh
      BY <1>3 DEF IInv, insert
    <2> QED BY <1>3, <2>1, <2>2 DEF IInv, insert, task
  <1>4. ASSUME NEW i \in Ids, remove(i) PROVE IInv'
    <2>1. LiveEntryKept'
      BY <1>4 DEF IInv, remove, LiveEntryKept, Live
    <2>2. None \notin fresh
      BY NoneAssumption DEF IInv
    <2> QED BY <1>4, <2>1, <2>2 DEF IInv, remove, task
  <1>5. ASSUME NEW t \in Tasks, NEW op \in Calls, NEW i \in Ids, Call(t, op, i) PROVE IInv'
    <2>1. LiveEntryKept'
      BY <1>5 DEF IInv, Call, LiveEntryKept, Live
    <2> QED BY <1>5, <2>1 DEF IInv, Call
  <1>6. ASSUME NEW t \in Tasks, LookUp(t) PROVE IInv'
    <2>1. CASE Live(map[key[t]])
      <3>1. \A h \in Handles : holders'[h] # {} => holders[h] # {}
        BY <1>6, <2>1 DEF IInv, LookUp, Live
      <3>2. LiveEntryKept'
        BY <1>6, <3>1, KeptWhenOnlyDeadGo DEF LookUp
      <3>3. \A h \in fresh : holders'[h] = {}
        BY <3>1 DEF IInv
      <3>4. holders' \in [Handles -> SUBSET (Tasks \union {Owner})]
        BY <1>6, <2>1 DEF IInv, LookUp
      <3> QED BY <1>6, <3>2, <3>3, <3>4 DEF IInv, LookUp
    <2>2. CASE ~Live(map[key[t]])
      <3>1. LiveEntryKept'
        BY <1>6, <2>2, KeptWhenOnlyDeadGo DEF LookUp
      <3> QED BY <1>6, <2>2, <3>1 DEF IInv, LookUp
    <2> QED BY <2>1, <2>2
  <1>7. ASSUME NEW t \in Tasks, CleanUp(t) PROVE IInv'
    <2>1. \A i \in Ids : map'[i] = map[i] \/ ~Live(map[i])
      BY <1>7 DEF IInv, CleanUp, Dead
    <2>2. LiveEntryKept'
      BY <1>7, <2>1, KeptWhenOnlyDeadGo DEF CleanUp
    <2> QED BY <1>7, <2>2 DEF IInv, CleanUp
  <1>8. ASSUME NEW t \in Tasks, NEW i \in Ids, Visit(t, i) PROVE IInv'
    <2>1. \A j \in Ids : map'[j] = map[j] \/ ~Live(map[j])
      BY <1>8 DEF IInv, Visit, Dead
    <2>2. \A h \in Handles : holders'[h] # {} => holders[h] # {}
      BY <1>8 DEF IInv, Visit, Live
    <2>3. LiveEntryKept'
      BY <1>8, <2>1, <2>2, KeptWhenOnlyDeadGo DEF Visit
    <2>4. \A h \in fresh : holders'[h] = {}
      BY <2>2 DEF IInv
    <2>5. holders' \in [Handles -> SUBSET (Tasks \union {Owner})]
      BY <1>8 DEF IInv, Visit
    <2>6. map' \in [Ids -> Handles \union {None}]
      BY <1>8 DEF IInv, Visit
    <2> QED BY <1>8, <2>3, <2>4, <2>5, <2>6 DEF IInv, Visit
  <1>9. ASSUME NEW t \in Tasks, WalkEnds(t) PROVE IInv'
    <2>1. LiveEntryKept'
      BY <1>9, KeptWhenOnlyDeadGo DEF WalkEnds
    <2> QED BY <1>9, <2>1 DEF IInv, WalkEnds
  <1>10. ASSUME NEW t \in Tasks, Return(t) PROVE IInv'
    <2>1. LiveEntryKept'
      BY <1>10, KeptWhenOnlyDeadGo DEF IInv, Return
    <2> QED BY <1>10, <2>1 DEF IInv, Return
  <1>11. CASE UNCHANGED vars
    BY <1>11 DEF IInv, vars, task, LiveEntryKept, Live
  <1> QED
    BY <1>1, <1>2, <1>3, <1>4, <1>5, <1>6, <1>7, <1>8, <1>9, <1>10, <1>11 DEF Next

\* A live connection stays registered until remove() or a newer insert(),
\* whatever the interleaving of look-ups, clean-ups and traversals.
THEOREM LiveEntryKeptHolds == Spec => []LiveEntryKept
  <1>1. IInv => LiveEntryKept
    BY DEF IInv
  <1> QED BY InitIInv, NextIInv, <1>1, PTL DEF Spec
=============================================================================
