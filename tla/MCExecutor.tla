---------------------------- MODULE MCExecutor ----------------------------
(* Workloads for the executor: which requests exist, as Body and IsTx.     *)
EXTENDS Executor

CONSTANTS k1, k2, b1, b2, b3, p1, t1, s1

OneKey == {k1}
TwoKeys == {k1, k2}

\* Two clients wait on two keys in opposite orders, one of them with a timeout,
\* and a third polls; a push, a transaction that pushes at either end of two
\* keys and pops, and SET.
WakeCmd == {b1, b2, b3, p1, t1, s1}
WakeTx == [c \in WakeCmd |-> c = t1]
WakeBody == b1 :> <<BLPop(<<k1, k2>>, "forever")>> @@ b2 :> <<BLPop(<<k2, k1>>, "timed")>>
         @@ b3 :> <<BLPop(<<k1>>, "none")>> @@ p1 :> <<RPush(k2, 1)>>
         @@ t1 :> <<LPush(k1, 2), LPop(k1), RPush(k2, 1)>> @@ s1 :> <<Set(k1)>>

\* Three clients wait on one key; a push of three elements.
TripleCmd == {b1, b2, b3, p1}
TripleTx == [c \in TripleCmd |-> FALSE]
TripleBody == b1 :> <<BLPop(<<k1>>, "forever")>> @@ b2 :> <<BLPop(<<k1>>, "forever")>>
           @@ b3 :> <<BLPop(<<k1>>, "forever")>> @@ p1 :> <<RPush(k1, 3)>>
=============================================================================
