---------------------------- MODULE MCReplication ----------------------------
(* Instances of Replication for TLC.                                       *)
EXTENDS Replication

CONSTANTS r1, r2, w1, w2

\* Each WAIT asks for one replica; or that of w2 for two, where there is but one.
NumOne  == [w \in Waiter |-> 1]
NumLive == [w \in Waiter |-> IF w = w1 THEN 1 ELSE 2]
=============================================================================
