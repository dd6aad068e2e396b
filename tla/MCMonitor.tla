------------------------------ MODULE MCMonitor ------------------------------
(* Monitor with its two properties and three values each: enough for a       *)
(* pending write to be overwritten, for one to be popped while the next is  *)
(* added, and for a third that arrives after both.                          *)
EXTENDS Monitor
=============================================================================
