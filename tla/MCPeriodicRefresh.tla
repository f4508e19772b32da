-------------------------- MODULE MCPeriodicRefresh --------------------------
(* PeriodicRefresh for TLC: a stack that was written over may read as a     *)
(* time in the past, as now, or as one far ahead.                           *)
EXTENDS PeriodicRefresh

StackReadings == {-3, 0, 5}
================================================================================
