---------------------------- MODULE MCStateBram ----------------------------
(* StateBram with a file of an older version, and one of the current       *)
(* version that lacks the last two items and whose value does not fit into *)
(* the fields of sixteen bits.                                             *)
EXTENDS StateBram
File(v, n, x) == [ver |-> v, items |-> n, val |-> x]
MCUserFiles == {File("1.5", Len(Items), 2), File(Current, Len(Items) - 2, 65539)}
=============================================================================
