----------------------------- MODULE LRUTracker -----------------------------
(***************************************************************************)
(* The tracker of recent use of simis (internal/datastructure/lru.go): a   *)
(* doubly linked list from the key used last (head) to the key that was    *)
(* not used for longest (tail), and the map of its nodes.  A node carries  *)
(* its key and is named by it.  A tracker is a record; every operation     *)
(* returns the tracker it leaves behind.                                   *)
(***************************************************************************)
EXTENDS Integers

CONSTANTS Key, None   \* None is Go's nil and a result that is not there

ASSUME KeyAssumption == None \notin Key

Link == Key \cup {None}
Tracker == [head : Link, tail : Link, prev : [Key -> Link], next : [Key -> Link],
            nodes : SUBSET Key, size : Int]

NewLRUTracker ==
  [head |-> None, tail |-> None, prev |-> [k \in Key |-> None], next |-> [k \in Key |-> None],
   nodes |-> {}, size |-> 0]

\* The four assignments of addToHead: k, which is in no list, goes before the head.
AddToHead(l, k) ==
  [nodes |-> l.nodes, size |-> l.size,
   prev |-> [n \in Key |-> IF n = l.head THEN k ELSE IF n = k THEN None ELSE l.prev[n]],
   next |-> [n \in Key |-> IF n = k THEN l.head ELSE l.next[n]],
   head |-> k,
   tail |-> IF l.tail = None THEN k ELSE l.tail]

\* The neighbours of k are joined over it.
Unhook(l, k) ==
  [next |-> [n \in Key |-> IF n = k THEN None ELSE IF n = l.prev[k] THEN l.next[k] ELSE l.next[n]],
   prev |-> [n \in Key |-> IF n = k THEN None ELSE IF n = l.next[k] THEN l.prev[k] ELSE l.prev[n]]]

\* Mutant: the tail stays where it is when the last key goes.
RemoveFromListNoTail(l, k) ==
  [nodes |-> l.nodes, size |-> l.size, prev |-> Unhook(l, k).prev, next |-> Unhook(l, k).next,
   head |-> IF l.prev[k] = None THEN l.next[k] ELSE l.head, tail |-> l.tail]

\* removeFromList: head and tail move when k was the first or the last.
RemoveFromList(l, k) ==
  [nodes |-> l.nodes, size |-> l.size, prev |-> Unhook(l, k).prev, next |-> Unhook(l, k).next,
   head |-> IF l.prev[k] = None THEN l.next[k] ELSE l.head,
   tail |-> IF l.next[k] = None THEN l.prev[k] ELSE l.tail]

\* The map of the nodes and its size beside the list.
WithNodes(l, S, n) ==
  [head |-> l.head, tail |-> l.tail, prev |-> l.prev, next |-> l.next, nodes |-> S, size |-> n]

InsertNew(l, k) == WithNodes(AddToHead(l, k), l.nodes \cup {k}, l.size + 1)

\* Mutant: a key that is known keeps its place.
AccessOnce(l, k) == IF k \in l.nodes THEN l ELSE InsertNew(l, k)

Access(l, k) ==
  IF k \in l.nodes THEN AddToHead(RemoveFromList(l, k), k) ELSE InsertNew(l, k)

\* Mutant: the size only grows.
RemoveKeepsSize(l, k) ==
  IF k \in l.nodes THEN WithNodes(RemoveFromList(l, k), l.nodes \ {k}, l.size) ELSE l

Remove(l, k) ==
  IF k \in l.nodes THEN WithNodes(RemoveFromList(l, k), l.nodes \ {k}, l.size - 1) ELSE l

\* IterateFromLRU until it meets a key of S: the way from the tail over prev.
Way(l, way, n) == way[0] = l.tail /\ \A i \in 1 .. n : way[i] = l.prev[way[i-1]]
FirstFromLRU(l, S) ==
  {k \in S : \E n \in 0 .. l.size - 1 : \E way \in [0 .. n -> Key] :
               Way(l, way, n) /\ way[n] = k /\ \A i \in 0 .. n - 1 : way[i] \notin S}

-----------------------------------------------------------------------------
(* What the list stands for.  used is a relation on keys: <<a, b>> is in   *)
(* it when a's last use came before b's.                                   *)

Least(used, S, a) == a \in S /\ \A b \in S : b # a => <<a, b>> \in used
Most(used, S, a)  == a \in S /\ \A b \in S : b # a => <<b, a>> \in used
Follows(used, S, a, b) ==   \* b is the key of S used last before a
  /\ a \in S /\ b \in S
  /\ <<b, a>> \in used
  /\ \A c \in S : ~(<<b, c>> \in used /\ <<c, a>> \in used)

StrictOrder(used, S) ==
  /\ used \in SUBSET (S \X S)
  /\ \A a \in S : <<a, a>> \notin used
  /\ \A a, b \in S : a # b => <<a, b>> \in used \/ <<b, a>> \in used
  /\ \A a, b, c \in S : <<a, b>> \in used /\ <<b, c>> \in used => <<a, c>> \in used

\* k is used: it comes after every other key.
Use(used, S, k) ==
  {e \in used : e[1] # k /\ e[2] # k} \cup {<<a, k>> : a \in S \ {k}}
Forget(used, k) == {e \in used : e[1] # k /\ e[2] # k}

\* The list holds the keys of S, each once, in the order of their last use.
InOrder(l, used, S) ==
  /\ StrictOrder(used, S)
  /\ l.head = None <=> S = {}
  /\ l.tail = None <=> S = {}
  /\ \A a \in Key : l.head = a <=> Most(used, S, a)
  /\ \A a \in Key : l.tail = a <=> Least(used, S, a)
  /\ \A a, b \in Key : l.next[a] = b <=> Follows(used, S, a, b)
  /\ \A a, b \in Key : l.prev[b] = a <=> Follows(used, S, a, b)
  /\ \A a \in S : l.next[a] = None <=> Least(used, S, a)
  /\ \A a \in S : l.prev[a] = None <=> Most(used, S, a)

=============================================================================
