----------------------------- MODULE MCSortedSet -----------------------------
(* Instance of SortedSet for TLC.                                          *)
EXTENDS SortedSet

Three == 0..2
Indexes == {-4, -2, -1, 0, 1, 3}

Between12 == [low |-> 1, high |-> 2]
Only(i) == [low |-> i, high |-> i]
Areas == {[ranges |-> <<Only(2), Between12>>, near |-> {1, 2}],
          [ranges |-> <<Between12, Only(1)>>, near |-> {1}],
          [ranges |-> <<[low |-> 2, high |-> 1], Only(2)>>, near |-> {2}]}
=============================================================================
