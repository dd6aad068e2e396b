----------------------------- MODULE LatestValue -----------------------------
(***************************************************************************)
(* What a monitor promises to the code that sets its properties: a value    *)
(* that was set may be overtaken by a later one, but values are applied in  *)
(* the order in which they were set, none is applied twice, and the last    *)
(* one is always applied.  The n-th value set for a property is the         *)
(* number n.                                                                *)
(***************************************************************************)
EXTENDS Naturals

CONSTANTS Properties, MaxWrites

VARIABLES
    issued,     \* issued[p]: the last value that was set
    applied     \* applied[p]: the last value given to the hardware

channel == <<issued, applied>>

Init ==
    /\ issued = [p \in Properties |-> 0]
    /\ applied = [p \in Properties |-> 0]

Issue(p) ==
    /\ issued[p] < MaxWrites
    /\ issued' = [issued EXCEPT ![p] = @ + 1]
    /\ UNCHANGED applied

Apply(p) ==
    /\ \E n \in (applied[p] + 1)..issued[p] : applied' = [applied EXCEPT ![p] = n]
    /\ UNCHANGED issued

Next == \E p \in Properties : Issue(p) \/ Apply(p)

SafeSpec == Init /\ [][Next]_channel

Spec ==
    /\ SafeSpec
    /\ \A p \in Properties : WF_channel(Apply(p))
=============================================================================
