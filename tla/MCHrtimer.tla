----------------------------- MODULE MCHrtimer -----------------------------
(* Hrtimer with two tasks and a timer that they share or the first sleeps on.*)
EXTENDS Hrtimer, TLC
CONSTANTS c1, c2, p1, p2, t1
MCOwner == t1 :> p1
MCHome == p1 :> c1 @@ p2 :> c2
=============================================================================
