--------------------------- MODULE MCHrtimerEvent ---------------------------
(* HrtimerEvent with a hard timer and two soft ones, one of CLOCK_REALTIME. *)
EXTENDS HrtimerEvent
CONSTANTS tHard, tSoft, tReal
=============================================================================
