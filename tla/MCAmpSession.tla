---------------------------- MODULE MCAmpSession ----------------------------
(* AmpSession with one ampperf and one ampecho.                            *)
EXTENDS AmpSession
CONSTANTS ampperf, ampecho
=============================================================================
