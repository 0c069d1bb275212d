------------------------------- MODULE SkipList -------------------------------
(* The skip list under a sorted set (internal/datastructure/skiplist.go):   *)
(* linked lists at levels 0..Cap, each link with the number of elements it   *)
(* spans, so that an element's rank is the sum of the spans on the way to it.*)
(* The loops that search it go one link or one level a step; what they found *)
(* is linked or unlinked in one.  One goroutine, the executor, runs all of it.*)
EXTENDS Integers, FiniteSets

CONSTANTS
  Member,    \* member names, as naturals in the order of the strings
  Score,     \* scores that are numbers
  NaN,       \* the score that ParseFloat makes of "nan"
  Cap,       \* MaxLevelCap
  HeadNode, Nil

ASSUME SkipListAssumption ==
  /\ Member \subseteq Nat /\ Score \subseteq Int /\ NaN \notin Int /\ Cap \in Nat
  /\ HeadNode # Nil
  /\ {HeadNode, Nil} \cap [key : Member, value : Score \cup {NaN}] = {}

Level == 0..Cap
Value == [key : Member, value : Score \cup {NaN}]
Place == Value \cup {HeadNode}

VARIABLES
  forward,     \* per level and node, the next node
  skips,       \* per level and node, the elements that link passes
  height,      \* length of a node's arrays; 0 when it is not in the list
  maxLevel, length, levelCount,
  call,        \* the operation that searches: kind, val, nth
  lv,          \* currLevel
  curr, skipped,
  hier, rank   \* per level, where the search left it and at which rank

listVars == <<forward, skips, height, maxLevel, length, levelCount>>
walkVars == <<call, lv, curr, skipped, hier, rank>>

-----------------------------------------------------------------------------
(* KeyValue.Compare: by score, then by member; NaN is before every number   *)
(* and equal to itself, whatever the member.                                *)

Before(a, b) ==
  IF a.value = NaN \/ b.value = NaN
  THEN a.value = NaN /\ b.value # NaN
  ELSE a.value < b.value \/ (a.value = b.value /\ a.key < b.key)

Same(a, b) == ~Before(a, b) /\ ~Before(b, a)

-----------------------------------------------------------------------------

\* NewComparableSkipList.
ListInit ==
  /\ forward = [l \in Level |-> [n \in Place |-> Nil]]
  /\ skips = [l \in Level |-> [n \in Place |-> IF n = HeadNode THEN 1 ELSE 0]]
  /\ height = [v \in Value |-> 0]
  /\ maxLevel = 0 /\ length = 0
  /\ levelCount = [l \in Level |-> 0]

NoCall == [kind |-> "none", val |-> Nil, nth |-> 0]

WalkInit ==
  /\ call = NoCall /\ lv = 0 /\ curr = HeadNode /\ skipped = 0
  /\ hier = [l \in Level |-> HeadNode] /\ rank = [l \in Level |-> 0]

\* What InsertAtLevel, Delete, GetRank, SearchByRank and GetLowerBound begin
\* with, in the list as the step leaves it.
Search(kind, val, nth) ==
  /\ call' = [kind |-> kind, val |-> val, nth |-> nth]
  /\ lv' = maxLevel' /\ curr' = HeadNode /\ skipped' = 0
  /\ hier' = [l \in Level |-> HeadNode] /\ rank' = [l \in Level |-> 0]

\* The search is over, its variables are gone.
Return ==
  /\ call' = NoCall /\ lv' = 0 /\ curr' = HeadNode /\ skipped' = 0
  /\ hier' = [l \in Level |-> HeadNode] /\ rank' = [l \in Level |-> 0]

\* The conditions of the inner loops.
Advances ==
  \/ /\ call.kind \in {"insert", "rank"}
     /\ forward[lv][curr] # Nil
     /\ ~Before(call.val, forward[lv][curr])
  \/ /\ call.kind \in {"delete", "bound"}
     /\ forward[lv][curr] # Nil
     /\ Before(forward[lv][curr], call.val)
  \/ /\ call.kind = "nth"
     /\ curr # Nil
     /\ skipped + skips[lv][curr] <= call.nth

\* The tests after the inner loops that end the search early.
Arrived ==
  \/ call.kind \in {"insert", "rank"} /\ curr # HeadNode /\ Same(curr, call.val)
  \/ call.kind = "nth" /\ skipped = call.nth

MoveRight ==
  /\ lv >= 0 /\ Advances
  /\ curr' = forward[lv][curr]
  /\ skipped' = skipped + skips[lv][curr]
  /\ UNCHANGED <<listVars, call, lv, hier, rank>>

MoveDown ==
  /\ lv >= 0 /\ ~Advances /\ ~Arrived
  /\ hier' = [hier EXCEPT ![lv] = curr]
  /\ rank' = [rank EXCEPT ![lv] = skipped]
  /\ lv' = lv - 1
  /\ UNCHANGED <<listVars, call, curr, skipped>>

Found == lv >= 0 /\ ~Advances /\ Arrived
Missed == lv = -1

-----------------------------------------------------------------------------

\* Mutant: the span of the link to the new node leaves that node out.
SpanBeforeNew(l) == skipped - rank[l]

\* The new span of the link that now leads to the new node.
SpanToNew(l) == skipped - rank[l] + 1

\* The end of InsertAtLevel with a random level.
Link(lvl) ==
  LET v   == call.val
      top == IF lvl > maxLevel THEN lvl ELSE maxLevel
  IN /\ forward' = [l \in Level |-> [n \in Place |->
                      IF l > lvl THEN forward[l][n]
                      ELSE IF n = v THEN forward[l][hier[l]]
                      ELSE IF n = hier[l] THEN v ELSE forward[l][n]]]
     /\ skips' = [l \in Level |-> [n \in Place |->
                      IF l <= lvl /\ n = v THEN rank[l] + skips[l][hier[l]] - skipped
                      ELSE IF l <= lvl /\ n = hier[l] THEN SpanToNew(l)
                      ELSE IF l > lvl /\ n = (IF l <= top THEN hier[l] ELSE HeadNode)
                           THEN skips[l][n] + 1
                      ELSE skips[l][n]]]
     /\ height' = [height EXCEPT ![v] = lvl + 1]
     /\ levelCount' = [l \in Level |-> IF l <= lvl THEN levelCount[l] + 1 ELSE levelCount[l]]
     /\ maxLevel' = top
     /\ length' = length + 1

\* Mutant: the search starts lower although nodes are left at the level.
TopBelow(levels) == maxLevel - Cardinality(levels)

\* The highest level when nodes at these have gone: lower by each that is empty.
TopWithout(levels) == maxLevel - Cardinality({l \in levels : levelCount[l] = 1})

\* The end of Delete.  At level 0 the search stands before the first node that
\* is not smaller; the levels at which that node is the value's are unlinked.
Unlink ==
  LET v       == call.val
      n0      == forward[0][curr]
      matched == {l \in Level : /\ l <= maxLevel
                                /\ forward[l][hier[l]] # Nil
                                /\ Same(forward[l][hier[l]], v)}
      top     == TopWithout(matched)
  IN IF n0 = Nil
     THEN UNCHANGED listVars
     ELSE /\ forward' = [l \in Level |-> [n \in Place |->
                           IF l \notin matched THEN forward[l][n]
                           ELSE IF n = hier[l] THEN forward[l][n0]
                           ELSE IF n = n0 THEN Nil ELSE forward[l][n]]]
          /\ skips' = [l \in Level |-> [n \in Place |->
                           IF l \in matched
                           THEN IF n = hier[l] THEN skips[l][n] + skips[l][n0] - 1
                                ELSE IF n = n0 THEN 0 ELSE skips[l][n]
                           ELSE IF l >= height[n0] /\ n = (IF l <= top THEN hier[l] ELSE HeadNode)
                                THEN skips[l][n] - 1
                           ELSE skips[l][n]]]
          /\ height' = [height EXCEPT ![n0] = IF matched = {} THEN @ ELSE 0]
          /\ levelCount' = [l \in Level |-> IF l \in matched THEN levelCount[l] - 1
                                            ELSE levelCount[l]]
          /\ maxLevel' = top
          /\ length' = length - 1
-----------------------------------------------------------------------------
(* What makes the list right, as long as every value in it compares as a    *)
(* number.                                                                  *)

Plain == [key : Member, value : Int]

Nodes == {v \in Value : height[v] > 0}
At(l) == {v \in Value : height[v] > l}

\* The head is before every value.
Precedes(p, v) == p = HeadNode \/ Before(p, v)

\* Rank of a place among a set of values, from 1; the end is one past the last.
PosIn(N, p) ==
  IF p = HeadNode THEN 0
  ELSE IF p = Nil THEN Cardinality(N) + 1
  ELSE Cardinality({v \in N : ~Before(p, v)})
Pos(p) == PosIn(Nodes, p)

\* In a set of values the next one after p is that, and none is left out.
InOrder(S, p, next) ==
  /\ next \in S \cup {Nil}
  /\ next # Nil => Precedes(p, next)
  /\ \A v \in S : Precedes(p, v) => next # Nil /\ ~Before(v, next)

LinksInOrder == \A l \in Level : \A p \in At(l) \cup {HeadNode} : InOrder(At(l), p, forward[l][p])

\* A span is the distance its link stands for, also at the levels above the
\* highest one in use.
SpanIsDistance(l, p) == skips[l][p] = Pos(forward[l][p]) - Pos(p)

SpansRight == \A l \in Level : \A p \in At(l) \cup {HeadNode} : SpanIsDistance(l, p)

\* The counters agree with the list: its length, the nodes of each level, and
\* the highest level, at which a search begins.
CountersRight ==
  /\ length = Cardinality(Nodes)
  /\ \A l \in Level : levelCount[l] = Cardinality(At(l))
  /\ \A l \in Level : l > maxLevel => At(l) = {}

ListType ==
  /\ forward \in [Level -> [Place -> Value \cup {Nil}]]
  /\ skips \in [Level -> [Place -> Int]]
  /\ height \in [Value -> 0..(Cap + 1)]
  /\ maxLevel \in -1..Cap /\ length \in Int
  /\ levelCount \in [Level -> Int]
  /\ IsFiniteSet(Nodes) /\ Nodes \subseteq Plain

ListRight == ListType /\ LinksInOrder /\ SpansRight /\ CountersRight

\* Where a search for a value has left a level: at the last node before it,
\* with the rank of that node.
LeftRight(l) ==
  LET next == forward[l][hier[l]]
  IN /\ hier[l] \in At(l) \cup {HeadNode}
     /\ Precedes(hier[l], call.val)
     /\ IF call.kind = "insert" THEN next # Nil => Before(call.val, next)
                                ELSE next # Nil => ~Before(next, call.val)
     /\ rank[l] = Pos(hier[l])

\* A search stands on a node of its level, knows its rank, and has not gone too
\* far; it left every level above where it had to.
WalkRight ==
  /\ lv \in -1..maxLevel
  /\ curr = HeadNode \/ (curr \in Nodes /\ height[curr] > lv)
  /\ skipped = Pos(curr)
  /\ hier \in [Level -> Place] /\ rank \in [Level -> Int]
  /\ IF call.kind = "nth"
     THEN call.nth \in 1..length /\ skipped <= call.nth /\ lv >= 0
     ELSE /\ call.val \in Plain
          /\ IF call.kind \in {"insert", "rank"}
             THEN curr = HeadNode \/ ~Before(call.val, curr)
             ELSE Precedes(curr, call.val)
          /\ call.kind # "rank" => \A l \in Level : l > lv => LeftRight(l)
          /\ call.kind = "rank" => call.val \in Nodes /\ lv >= 0
          /\ lv = -1 => curr = hier[0] /\ skipped = rank[0]
=============================================================================
