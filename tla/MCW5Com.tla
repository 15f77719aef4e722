------------------------------ MODULE MCW5Com ------------------------------
(***************************************************************************)
(* W5Com for TLC.                                                          *)
(***************************************************************************)
EXTENDS W5Com

\* A connection whose api_get_info timed out before the camera attended to it is
\* followed through its first command, and no further: every command behind that
\* multiplies the mix-ups of the answers.
Followed == late => cur <= 1

=============================================================================
