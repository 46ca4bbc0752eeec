----------------------------- MODULE MCChanlun -----------------------------
(* Bars that rise, fall, lie in the last one or around it. *)
EXTENDS Chanlun
MCFirstBar == [high |-> 5, low |-> 4]
Differ(high, low) == [high |-> high, low |-> low]
MCMove == {Differ(1, 1), Differ(-1, -1), Differ(2, 2), Differ(-2, -2), Differ(-1, 1), Differ(1, -1)}
MCWalk == {Differ(1, 1), Differ(-1, -1)}
=============================================================================
