--------------------------- MODULE MCWebRtcWrapper ---------------------------
(* Widths small enough for both counters to wrap within a run, and two      *)
(* durations a tick does not divide: one half a tick over, which is the     *)
(* worst for rounding, and one three quarters.                              *)
EXTENDS WebRtcWrapper

MCVersions == {0, 1}
MCFrameTimes == {14, 15}
MCStarts == {[seq |-> 0, timestamp |-> 5], [seq |-> 1, timestamp |-> 3]}
=============================================================================
