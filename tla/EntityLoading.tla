---------------------------- MODULE EntityLoading ----------------------------
(***************************************************************************)
(* What EntityPool::loadEntities() promises to whoever holds the pool: the    *)
(* configured entities are added all together or not at all, and which of    *)
(* the two depends on the configuration and the system, not on what happened *)
(* while the entities were created and loaded one after the other.           *)
(***************************************************************************)
CONSTANT Builtin    \* the entities a pool has from the beginning

VARIABLES
    requested,  \* the entities of the configuration
    mayLoad,    \* the configuration can be loaded
    mayFail,    \* the configuration can be refused
    present,    \* the entities of the pool
    outcome     \* "pending", "loaded", "failed" or "closed"

(* The configuration and the system belong to somebody else. *)
vars == <<present, outcome>>

Init == present = {} /\ outcome = "pending"

Make ==
    /\ outcome = "pending" /\ present = {}
    /\ present' = Builtin
    /\ UNCHANGED outcome

Succeed ==
    /\ outcome = "pending" /\ outcome' = "loaded"
    /\ mayLoad
    /\ present' = present \cup requested

Fail ==
    /\ outcome = "pending" /\ outcome' = "failed"
    /\ mayFail
    /\ UNCHANGED present

Close ==
    /\ outcome # "closed" /\ outcome' = "closed"
    /\ present' = {}

Next == Make \/ Succeed \/ Fail \/ Close

Spec == Init /\ [][Next]_vars
=============================================================================
