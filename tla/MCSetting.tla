------------------------------ MODULE MCSetting ------------------------------
(* Setting with two audio devices or two monitors, and a scale of five       *)
(* levels on which the two next to the ends snap to them, as 0.001 does.    *)
EXTENDS Setting
=============================================================================
