----------------------------- MODULE MCRpmsgTx -----------------------------
(* Instances of RpmsgTx for TLC.                                            *)
EXTENDS RpmsgTx

CONSTANTS s1, s2, s3
=============================================================================
