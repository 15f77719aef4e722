----------------------------- MODULE MCTimesync -----------------------------
(* Timesync with the names of its programs.                                  *)
EXTENDS Timesync
CONSTANTS a1
=============================================================================
