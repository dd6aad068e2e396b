--------------------------- MODULE MCMonitorSystem ---------------------------
(* MonitorSystem with two displays.  Addresses, threads and displays are    *)
(* interchangeable; the symmetry is used by the safety run only.            *)
EXTENDS MonitorSystem, TLC

Interchangeable ==
    Permutations(Workers) \cup Permutations(Threads) \cup Permutations(Displays)
=============================================================================
