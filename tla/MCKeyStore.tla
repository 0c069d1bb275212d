---------------------------- MODULE MCKeyStore ----------------------------
(* Three keys for KeyStore: a is a string that may expire and is counted,  *)
(* b may expire too, c becomes a structure or a string that stays.         *)
EXTENDS KeyStore

CONSTANTS a, b, c, w

SetTo(k, s, ttl) == [op |-> "set", key |-> k, is |-> s, ttl |-> ttl]
Opens(k, kind)   == [op |-> "open", key |-> k, kind |-> kind]

ThreeKeys == {SetTo(a, 1, None), SetTo(a, 1, 0), SetTo(b, w, 1), SetTo(b, w, None), SetTo(c, w, None),
              [op |-> "incr", key |-> a], [op |-> "incr", key |-> b],
              Opens(a, "stream"), Opens(c, "stream"), Opens(c, "sortedset")}
OldDump == {[key |-> a, is |-> 1, ttl |-> 0], [key |-> b, is |-> w, ttl |-> None]}
=============================================================================
