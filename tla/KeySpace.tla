------------------------------ MODULE KeySpace ------------------------------
(***************************************************************************)
(* What the key space promises to its clients: it holds at most one value  *)
(* for a key, a read answers the value or that there is none, a write is   *)
(* there for the next read, a command that fails changes nothing, and keys *)
(* go away between commands only: they expire, they are evicted, or the    *)
(* server starts again from its dump.                                      *)
(***************************************************************************)
CONSTANTS Key, None,
  String, Other,  \* values: strings, and structures whose kind is all that is seen of them
  Error,
  Succ(_)         \* Succ(v): what INCR makes of v; None when v is not an integer

VARIABLES value, answer, serving

vars == <<value, answer, serving>>

Vanish ==
  /\ \E gone \in SUBSET Key : value' = [k \in Key |-> IF k \in gone THEN None ELSE value[k]]
  /\ UNCHANGED <<answer, serving>>

Hear == answer' = None /\ UNCHANGED <<value, serving>>   \* the answer is with the client

Answer(a) == serving /\ answer' = a /\ UNCHANGED serving

\* A command for a value of another kind finds nothing.
Read(k) ==
  /\ Answer([value |-> value[k]]) \/ Answer([value |-> None])
  /\ UNCHANGED value

List == Answer([keys |-> {k \in Key : value[k] # None}]) /\ UNCHANGED value

Write(k, v, a) == value' = [value EXCEPT ![k] = v] /\ Answer(a)

\* The time to live of what is set may be over before it is stored.
Set(k) == \E v \in String \cup {None} : Write(k, v, [done |-> k])

Increment(k) ==
  /\ Succ(value[k]) # None
  /\ Write(k, Succ(value[k]), [value |-> Succ(value[k])])

\* LPUSH, XADD and ZADD begin with this: the structure at k, or a new one.
\* XADD may refuse its entry after that.
Open(k) == \E s \in Other :
  /\ value[k] \in {s, None}
  /\ Write(k, s, [value |-> s]) \/ Write(k, s, [error |-> "entry"])

Fail == \E e \in Error : Answer([error |-> e]) /\ UNCHANGED value

Crash ==
  /\ serving /\ ~serving'
  /\ value' = [k \in Key |-> None] /\ answer' = None

Load(k) ==
  /\ ~serving /\ ~serving'
  /\ \E v \in String : value' = [value EXCEPT ![k] = v]
  /\ UNCHANGED answer

Start == ~serving /\ serving' /\ UNCHANGED <<value, answer>>

Init == value = [k \in Key |-> None] /\ answer = None /\ ~serving

Next ==
  \/ Vanish \/ Hear \/ List \/ Fail \/ Crash \/ Start
  \/ \E k \in Key : Read(k) \/ Set(k) \/ Increment(k) \/ Open(k) \/ Load(k)

Spec == Init /\ [][Next]_vars
=============================================================================
