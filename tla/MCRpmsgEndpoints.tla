-------------------------- MODULE MCRpmsgEndpoints --------------------------
(* RpmsgEndpoints with two users, one of a fixed address and one of any.   *)
EXTENDS RpmsgEndpoints, TLC
CONSTANTS u1, u2, a1, a2, e1, e2, e3
MCWanted == u1 :> a1 @@ u2 :> AddrAny
=============================================================================
