----------------------------- MODULE DurableMap -----------------------------
(***************************************************************************)
(* What mewDb promises its caller: a map from keys to values, each update  *)
(* of which happens in one step, is durable once the call has logged it,   *)
(* and before that is either kept whole or lost whole.                     *)
(***************************************************************************)
CONSTANTS
    Key, Val,
    Absent,     \* the key has no value
    NoRequest

VARIABLES
    store,      \* the map a process that starts now would serve
    durable,    \* the map that a power loss leaves
    request     \* the update in progress: [key, val], val = Absent deletes

vars == <<store, durable, request>>

Update == [key : Key, val : Val \cup {Absent}]

Init ==
    /\ store = [k \in Key |-> Absent]
    /\ durable = store
    /\ request = NoRequest

Begin ==
    /\ request = NoRequest
    /\ request' \in Update
    /\ UNCHANGED <<store, durable>>

\* The update takes effect, whole.
Take ==
    /\ request # NoRequest
    /\ store' = [store EXCEPT ![request.key] = request.val]
    /\ UNCHANGED <<durable, request>>

\* The map reaches stable storage.
Persist ==
    /\ durable' = store
    /\ UNCHANGED <<store, request>>

\* The update is logged: it is in the map, and nothing is left to be lost.
End ==
    /\ request # NoRequest
    /\ store[request.key] = request.val
    /\ durable' = store
    /\ request' = NoRequest
    /\ UNCHANGED store

\* The process ends; an update that was not logged may or may not stay.
Crash ==
    /\ request' = NoRequest
    /\ UNCHANGED <<store, durable>>

PowerLoss ==
    /\ store' = durable
    /\ request' = NoRequest
    /\ UNCHANGED durable

Next == Begin \/ Take \/ Persist \/ End \/ Crash \/ PowerLoss

Spec == Init /\ [][Next]_vars

=============================================================================
