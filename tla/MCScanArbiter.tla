---------------------------- MODULE MCScanArbiter ----------------------------
(* Instance of ScanArbiter for TLC: a counter of sixteen ticks, so that it      *)
(* wraps, and an interval longer than the retry that is edited meanwhile.     *)
EXTENDS ScanArbiter

MCIntervals == {2, 5}
=============================================================================
