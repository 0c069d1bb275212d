--------------------------- MODULE SkipListProofs ---------------------------
(***************************************************************************)
(* Proofs about SkipList.  First, facts about ordered sets of values and   *)
(* the ranks in them, then that linking a new node and unlinking one keep  *)
(* the list right, that the steps of a search keep it where it should be,  *)
(* and what a search has found when it ends.                               *)
(***************************************************************************)
EXTENDS SkipList, FiniteSetTheorems, TLAPS

-----------------------------------------------------------------------------
(* The order of the values.                                                *)

LEMMA Places ==
  /\ HeadNode # Nil
  /\ HeadNode \notin Value /\ Nil \notin Value
  /\ Cap \in Nat /\ NaN \notin Int /\ Member \subseteq Nat
BY SkipListAssumption DEF Value

LEMMA MembersAreNumbers ==
  ASSUME NEW x \in Member
  PROVE  x \in Int
<1>1. Member \subseteq Nat
  BY SkipListAssumption
<1> QED
  BY <1>1

LEMMA PlainOrder ==
  ASSUME NEW a \in Plain, NEW b \in Plain
  PROVE  /\ Before(a, b) <=> a.value < b.value \/ (a.value = b.value /\ a.key < b.key)
         /\ a.value \in Int /\ b.value \in Int /\ a.key \in Int /\ b.key \in Int
<1>1. a.value \in Int /\ b.value \in Int
  BY DEF Plain
<1>m. a.key \in Member /\ b.key \in Member
  BY DEF Plain
<1>2. a.key \in Int /\ b.key \in Int
  BY <1>m, MembersAreNumbers
<1>3. NaN \notin Int
  BY Places
<1>4. a.value # NaN
  BY <1>1, <1>3, Zenon
<1>5. b.value # NaN
  BY <1>1, <1>3, Zenon
<1> QED
  BY <1>1, <1>2, <1>4, <1>5 DEF Before

LEMMA PlainEqual ==
  ASSUME NEW a \in Plain, NEW b \in Plain, a.value = b.value, a.key = b.key
  PROVE  a = b
BY DEF Plain

\* Before is a strict order on the values that are numbers, and a total one.
LEMMA BeforeOrder ==
  ASSUME NEW a \in Plain, NEW b \in Plain, NEW c \in Plain
  PROVE  /\ ~Before(a, a)
         /\ Before(a, b) => ~Before(b, a)
         /\ Before(a, b) /\ Before(b, c) => Before(a, c)
         /\ a # b => Before(a, b) \/ Before(b, a)
         /\ Before(a, b) => a # b
<1>1. ~Before(a, a)
  BY PlainOrder
<1>2. Before(a, b) => ~Before(b, a)
  BY PlainOrder
<1>3. Before(a, b) /\ Before(b, c) => Before(a, c)
  <2>1. Before(a, b) <=> a.value < b.value \/ (a.value = b.value /\ a.key < b.key)
    BY PlainOrder
  <2>2. Before(b, c) <=> b.value < c.value \/ (b.value = c.value /\ b.key < c.key)
    BY PlainOrder
  <2>3. Before(a, c) <=> a.value < c.value \/ (a.value = c.value /\ a.key < c.key)
    BY PlainOrder
  <2>4. /\ a.value \in Int /\ b.value \in Int /\ c.value \in Int
        /\ a.key \in Int /\ b.key \in Int /\ c.key \in Int
    BY PlainOrder
  <2> QED
    BY <2>1, <2>2, <2>3, <2>4
<1>4. a # b => Before(a, b) \/ Before(b, a)
  BY PlainOrder, PlainEqual
<1> QED
  BY <1>1, <1>2, <1>3, <1>4

LEMMA SamePlain ==
  ASSUME NEW a \in Plain, NEW b \in Plain
  PROVE  Same(a, b) <=> a = b
BY BeforeOrder DEF Same

\* If b is not before c, what is before c is before b.
LEMMA NotBefore ==
  ASSUME NEW a \in Plain, NEW b \in Plain, NEW c \in Plain, ~Before(b, c), Before(a, c)
  PROVE  Before(a, b)
<1>1. CASE b = c
  BY <1>1
<1>2. CASE b # c
  <2>1. Before(c, b)
    BY <1>2, BeforeOrder
  <2> QED
    BY <2>1, BeforeOrder
<1> QED
  BY <1>1, <1>2

-----------------------------------------------------------------------------
(* Ordered sets: a value comes in, a value goes.                           *)

LEMMA InOrderInsert ==
  ASSUME NEW S \in SUBSET Plain, S \subseteq Value, NEW v \in Plain, v \in Value, v \notin S,
         NEW h \in S \cup {HeadNode}, NEW n, InOrder(S, h, n),
         Precedes(h, v), n # Nil => Before(v, n)
  PROVE  /\ InOrder(S \cup {v}, h, v)
         /\ InOrder(S \cup {v}, v, n)
         /\ \A p \in S \cup {HeadNode} : \A m :
              p # h /\ InOrder(S, p, m) => InOrder(S \cup {v}, p, m)
<1> v # Nil /\ v # HeadNode /\ HeadNode \notin S /\ HeadNode # Nil /\ Nil \notin S
  BY Places
<1>1. InOrder(S \cup {v}, h, v)
  <2>1. \A w \in S : Precedes(h, w) => ~Before(w, v)
    <3> SUFFICES ASSUME NEW w \in S, Precedes(h, w), Before(w, v) PROVE FALSE
      OBVIOUS
    <3>1. n # Nil /\ ~Before(w, n) /\ n \in S
      BY DEF InOrder
    <3>2. Before(v, n)
      BY <3>1
    <3> QED
      BY <3>1, <3>2, BeforeOrder
  <2>2. ~Before(v, v)
    BY BeforeOrder
  <2> QED
    BY <2>1, <2>2 DEF InOrder
<1>2. InOrder(S \cup {v}, v, n)
  <2>1. \A w \in S : Before(v, w) => n # Nil /\ ~Before(w, n)
    <3> SUFFICES ASSUME NEW w \in S, Before(v, w) PROVE n # Nil /\ ~Before(w, n)
      OBVIOUS
    <3>1. Precedes(h, w)
      BY BeforeOrder DEF Precedes
    <3> QED
      BY <3>1 DEF InOrder
  <2>2. ~Before(v, v)
    BY BeforeOrder
  <2>3. n \in S \cup {Nil}
    BY DEF InOrder
  <2> QED
    BY <2>1, <2>2, <2>3 DEF InOrder, Precedes
<1>3. ASSUME NEW p \in S \cup {HeadNode}, NEW m, p # h, InOrder(S, p, m)
      PROVE  InOrder(S \cup {v}, p, m)
  <2>1. ASSUME Precedes(p, v) PROVE m # Nil /\ ~Before(v, m)
    <3>1. Precedes(p, h) /\ h \in S
      <4>1. CASE p = HeadNode
        BY <4>1, <1>3 DEF Precedes
      <4>2. CASE p \in S
        <5>1. Before(p, v)
          BY <4>2, <2>1 DEF Precedes
        <5>2. ~Precedes(h, p)
          <6> SUFFICES ASSUME Precedes(h, p) PROVE FALSE
            OBVIOUS
          <6>1. n # Nil /\ ~Before(p, n) /\ n \in S
            BY <4>2 DEF InOrder
          <6> QED
            BY <6>1, <5>1, <4>2, BeforeOrder
        <5> QED
          BY <5>2, <4>2, <1>3, BeforeOrder DEF Precedes
      <4> QED
        BY <4>1, <4>2
    <3>2. m # Nil /\ ~Before(h, m) /\ m \in S
      BY <3>1, <1>3 DEF InOrder
    <3>3. Before(h, v)
      BY <3>1 DEF Precedes
    <3> QED
      BY <3>1, <3>2, <3>3, BeforeOrder
  <2> QED
    BY <2>1, <1>3 DEF InOrder
<1> QED
  BY <1>1, <1>2, <1>3

LEMMA InOrderRemove ==
  ASSUME NEW S \in SUBSET Plain, S \subseteq Value, NEW v \in S,
         NEW h \in (S \ {v}) \cup {HeadNode}, InOrder(S, h, v),
         NEW n, InOrder(S, v, n)
  PROVE  /\ InOrder(S \ {v}, h, n)
         /\ \A p \in (S \ {v}) \cup {HeadNode} : \A m :
              p # h /\ InOrder(S, p, m) => m # v /\ InOrder(S \ {v}, p, m)
<1> v # Nil /\ v # HeadNode /\ HeadNode \notin S /\ HeadNode # Nil /\ Nil \notin S
  BY Places
<1>1. InOrder(S \ {v}, h, n)
  <2>1. n \in (S \ {v}) \cup {Nil}
    BY BeforeOrder DEF InOrder, Precedes
  <2>2. Precedes(h, v)
    BY DEF InOrder
  <2>3. n # Nil => Precedes(h, n)
    BY <2>1, <2>2, BeforeOrder DEF InOrder, Precedes
  <2>4. ASSUME NEW w \in S \ {v}, Precedes(h, w) PROVE n # Nil /\ ~Before(w, n)
    <3>1. ~Before(w, v)
      BY <2>4 DEF InOrder
    <3>2. Before(v, w)
      BY <3>1, BeforeOrder
    <3> QED
      BY <3>2 DEF InOrder, Precedes
  <2> QED
    BY <2>1, <2>3, <2>4 DEF InOrder
<1>2. ASSUME NEW p \in (S \ {v}) \cup {HeadNode}, NEW m, p # h, InOrder(S, p, m)
      PROVE  m # v /\ InOrder(S \ {v}, p, m)
  <2>1. m # v
    <3> SUFFICES ASSUME m = v PROVE FALSE
      OBVIOUS
    <3>1. Precedes(p, v)
      BY <1>2 DEF InOrder
    <3>2. CASE p = HeadNode
      <4>1. h \in S /\ Before(h, v)
        BY <3>2, <1>2 DEF InOrder, Precedes
      <4>2. ~Before(h, v)
        BY <4>1, <3>2, <1>2 DEF InOrder, Precedes
      <4> QED
        BY <4>1, <4>2
    <3>3. CASE p \in S
      <4>1. Before(p, v)
        BY <3>1, <3>3 DEF Precedes
      <4>2. ~Precedes(h, p)
        BY <4>1, <3>3 DEF InOrder
      <4>3. h \in S /\ Before(p, h)
        BY <4>2, <3>3, <1>2, BeforeOrder DEF Precedes
      <4>4. ~Before(h, v)
        BY <4>3, <1>2, <3>3 DEF InOrder, Precedes
      <4>5. Before(h, v)
        BY <4>3 DEF InOrder, Precedes
      <4> QED
        BY <4>4, <4>5
    <3> QED
      BY <3>2, <3>3
  <2> QED
    BY <2>1, <1>2 DEF InOrder
<1> QED
  BY <1>1, <1>2
-----------------------------------------------------------------------------
(* Ranks.                                                                  *)

LEMMA PosType ==
  ASSUME NEW N, IsFiniteSet(N), NEW p
  PROVE  PosIn(N, p) \in Nat
<1>1. IsFiniteSet({v \in N : ~Before(p, v)})
  BY FS_Subset
<1>2. Cardinality(N) \in Nat /\ Cardinality({v \in N : ~Before(p, v)}) \in Nat
  BY <1>1, FS_CardinalityType
<1> QED
  BY <1>2 DEF PosIn

\* A value that comes in moves those after it by one.
LEMMA PosInsert ==
  ASSUME NEW N \in SUBSET Plain, IsFiniteSet(N), N \subseteq Value,
         NEW v \in Plain, v \in Value, v \notin N
  PROVE  /\ \A p \in N \cup {HeadNode} :
              Precedes(p, v) => PosIn(N \cup {v}, p) = PosIn(N, p)
         /\ \A p \in N : Before(v, p) => PosIn(N \cup {v}, p) = PosIn(N, p) + 1
         /\ PosIn(N \cup {v}, Nil) = PosIn(N, Nil) + 1
<1> HeadNode \notin N /\ Nil \notin N /\ HeadNode # Nil
  BY Places
<1>1. ASSUME NEW p \in N \cup {HeadNode}, Precedes(p, v)
      PROVE  PosIn(N \cup {v}, p) = PosIn(N, p)
  <2>1. CASE p = HeadNode
    BY <2>1 DEF PosIn
  <2>2. CASE p \in N
    <3>1. Before(p, v)
      BY <2>2, <1>1 DEF Precedes
    <3>2. {w \in N \cup {v} : ~Before(p, w)} = {w \in N : ~Before(p, w)}
      BY <3>1
    <3> QED
      BY <2>2, <3>2 DEF PosIn
  <2> QED
    BY <2>1, <2>2
<1>2. ASSUME NEW p \in N, Before(v, p)
      PROVE  PosIn(N \cup {v}, p) = PosIn(N, p) + 1
  <2> DEFINE B == {w \in N : ~Before(p, w)}
  <2>1. {w \in N \cup {v} : ~Before(p, w)} = B \cup {v}
    BY <1>2, BeforeOrder
  <2>2. IsFiniteSet(B) /\ v \notin B
    BY FS_Subset
  <2>3. Cardinality(B \cup {v}) = Cardinality(B) + 1
    BY <2>2, FS_AddElement
  <2> QED
    BY <2>1, <2>3 DEF PosIn
<1>3. PosIn(N \cup {v}, Nil) = PosIn(N, Nil) + 1
  BY FS_AddElement, FS_CardinalityType DEF PosIn
<1> QED
  BY <1>1, <1>2, <1>3

\* The next value has the next rank.
LEMMA PosNext ==
  ASSUME NEW N \in SUBSET Plain, IsFiniteSet(N), N \subseteq Value,
         NEW p \in N \cup {HeadNode}, NEW n, InOrder(N, p, n)
  PROVE  PosIn(N, n) = PosIn(N, p) + 1
<1> HeadNode \notin N /\ Nil \notin N /\ HeadNode # Nil
  BY Places
<1> DEFINE B == IF p = HeadNode THEN {} ELSE {w \in N : ~Before(p, w)}
<1>0. IsFiniteSet(B) /\ PosIn(N, p) = Cardinality(B)
  BY FS_Subset, FS_EmptySet DEF PosIn
<1>1. CASE n = Nil
  <2>1. B = N
    <3>1. \A w \in N : ~Precedes(p, w)
      BY <1>1 DEF InOrder
    <3>2. CASE p = HeadNode
      BY <3>1, <3>2 DEF Precedes
    <3>3. CASE p # HeadNode
      BY <3>1, <3>3 DEF Precedes
    <3> QED
      BY <3>2, <3>3
  <2> QED
    BY <1>0, <1>1, <2>1 DEF PosIn
<1>2. CASE n # Nil
  <2>1. n \in N /\ Precedes(p, n)
    BY <1>2 DEF InOrder
  <2>2. n \notin B
    BY <2>1 DEF Precedes
  <2>3. {w \in N : ~Before(n, w)} = B \cup {n}
    <3>1. ASSUME NEW w \in N, ~Before(n, w) PROVE w \in B \cup {n}
      <4>1. CASE Precedes(p, w)
        <5>1. ~Before(w, n)
          BY <4>1 DEF InOrder
        <5> QED
          BY <5>1, <3>1, <2>1, BeforeOrder
      <4>2. CASE ~Precedes(p, w)
        BY <4>2 DEF Precedes
      <4> QED
        BY <4>1, <4>2
    <3>2. ASSUME NEW w \in B PROVE w \in N /\ ~Before(n, w)
      <4>1. p # HeadNode /\ w \in N /\ ~Before(p, w)
        OBVIOUS
      <4>2. Before(p, n)
        BY <4>1, <2>1 DEF Precedes
      <4> QED
        BY <4>1, <4>2, <2>1, BeforeOrder
    <3>3. ~Before(n, n)
      BY <2>1, BeforeOrder
    <3> HIDE DEF B
    <3> QED
      BY <3>1, <3>2, <3>3, <2>1
  <2>4. Cardinality(B \cup {n}) = Cardinality(B) + 1
    BY <1>0, <2>2, FS_AddElement
  <2>5. PosIn(N, n) = Cardinality({w \in N : ~Before(n, w)})
    BY <1>2, <2>1 DEF PosIn
  <2> HIDE DEF B
  <2> QED
    BY <1>0, <2>3, <2>4, <2>5
<1> QED
  BY <1>1, <1>2

\* The rank of a value that comes in.
LEMMA PosNew ==
  ASSUME NEW N \in SUBSET Plain, IsFiniteSet(N), N \subseteq Value,
         NEW v \in Plain, v \in Value, v \notin N,
         NEW h \in N \cup {HeadNode}, NEW n, InOrder(N, h, n),
         Precedes(h, v), n # Nil => Before(v, n)
  PROVE  PosIn(N \cup {v}, v) = PosIn(N, h) + 1
<1>1. InOrder(N \cup {v}, h, v)
  BY InOrderInsert
<1>2. IsFiniteSet(N \cup {v})
  BY FS_AddElement
<1>3. PosIn(N \cup {v}, v) = PosIn(N \cup {v}, h) + 1
  BY <1>1, <1>2, PosNext
<1>4. PosIn(N \cup {v}, h) = PosIn(N, h)
  BY PosInsert
<1> QED
  BY <1>3, <1>4

\* A value that goes moves those after it back by one.
LEMMA PosRemove ==
  ASSUME NEW N \in SUBSET Plain, IsFiniteSet(N), N \subseteq Value, NEW v \in N
  PROVE  /\ \A p \in (N \ {v}) \cup {HeadNode} :
              Precedes(p, v) => PosIn(N \ {v}, p) = PosIn(N, p)
         /\ \A p \in N \ {v} : Before(v, p) => PosIn(N \ {v}, p) = PosIn(N, p) - 1
         /\ PosIn(N \ {v}, Nil) = PosIn(N, Nil) - 1
<1> DEFINE M == N \ {v}
<1>1. /\ M \in SUBSET Plain /\ M \subseteq Value /\ IsFiniteSet(M)
      /\ v \in Plain /\ v \in Value /\ v \notin M /\ M \cup {v} = N
  BY FS_RemoveElement
<1>2. \A p \in M \cup {HeadNode, Nil} : PosIn(M, p) \in Int
  BY <1>1, PosType
<1> HIDE DEF M
<1>3. /\ \A p \in M \cup {HeadNode} : Precedes(p, v) => PosIn(N, p) = PosIn(M, p)
      /\ \A p \in M : Before(v, p) => PosIn(N, p) = PosIn(M, p) + 1
      /\ PosIn(N, Nil) = PosIn(M, Nil) + 1
  BY <1>1, PosInsert
<1>4. /\ \A p \in M \cup {HeadNode} : Precedes(p, v) => PosIn(M, p) = PosIn(N, p)
      /\ \A p \in M : Before(v, p) => PosIn(M, p) = PosIn(N, p) - 1
      /\ PosIn(M, Nil) = PosIn(N, Nil) - 1
  BY <1>2, <1>3
<1> QED
  BY <1>4 DEF M
-----------------------------------------------------------------------------
(* The levels of the list.                                                 *)

LEMMA LevelsNest ==
  ASSUME height \in [Value -> 0..(Cap + 1)], Nodes \subseteq Plain, IsFiniteSet(Nodes)
  PROVE  /\ At(0) = Nodes /\ 0 \in Level
         /\ \A l \in Level : /\ At(l) \subseteq Nodes /\ At(l) \subseteq Plain
                             /\ At(l) \subseteq Value /\ IsFiniteSet(At(l))
         /\ Nodes \subseteq Value /\ Nodes \in SUBSET Plain
<1>1. At(0) = Nodes
  BY DEF At, Nodes
<1>2. 0 \in Level
  BY Places DEF Level
<1>3. ASSUME NEW l \in Level PROVE At(l) \subseteq Nodes
  <2>1. l \in Int /\ l >= 0
    BY <1>3, Places DEF Level
  <2>2. \A w \in Value : height[w] \in Int
    BY Places
  <2> QED
    BY <2>1, <2>2 DEF At, Nodes
<1>4. Nodes \subseteq Value
  BY DEF Nodes
<1> QED
  BY <1>1, <1>2, <1>3, <1>4, FS_Subset

\* A new node is on the levels up to the one that was drawn for it.
LEMMA LinkLevels ==
  ASSUME NEW v \in Value, NEW lvl \in Level, height \in [Value -> 0..(Cap + 1)],
         v \notin Nodes, height' = [height EXCEPT ![v] = lvl + 1]
  PROVE  /\ Nodes' = Nodes \cup {v}
         /\ \A l \in Level : At(l)' = IF l <= lvl THEN At(l) \cup {v} ELSE At(l)
         /\ height' \in [Value -> 0..(Cap + 1)]
<1>1. lvl \in Int /\ lvl >= 0 /\ lvl <= Cap /\ Cap \in Int
  BY Places DEF Level
<1>2. lvl + 1 \in 0..(Cap + 1) /\ lvl + 1 > 0
  BY <1>1
<1>3. height' \in [Value -> 0..(Cap + 1)]
  BY <1>2
<1>4. height[v] = 0
  <2>1. height[v] \in 0..(Cap + 1) /\ ~(height[v] > 0)
    BY DEF Nodes
  <2> QED
    BY <2>1, <1>1
<1>5. Nodes' = Nodes \cup {v}
  BY <1>2 DEF Nodes
<1>6. ASSUME NEW l \in Level
      PROVE  At(l)' = IF l <= lvl THEN At(l) \cup {v} ELSE At(l)
  <2>1. l \in Int /\ l >= 0
    BY <1>6, Places DEF Level
  <2>2. lvl + 1 > l <=> l <= lvl
    BY <1>1, <2>1
  <2>3. ~(height[v] > l)
    BY <1>4, <2>1
  <2> QED
    BY <2>2, <2>3 DEF At
<1> QED
  BY <1>3, <1>5, <1>6
-----------------------------------------------------------------------------
(* InsertAtLevel.                                                          *)

\* What a search for an insertion knows when it has left every level.
Placed(v) ==
  /\ v \in Value /\ v \in Plain /\ v = call.val /\ call.kind = "insert"
  /\ hier \in [Level -> Place] /\ rank \in [Level -> Int] /\ skipped = rank[0]
  /\ \A l \in Level : LeftRight(l)

\* The neighbours of the new node at a level.
LEMMA PlacedAt ==
  ASSUME ListRight, NEW v, Placed(v), NEW l \in Level
  PROVE  /\ hier[l] \in At(l) \cup {HeadNode} /\ hier[l] \in Place /\ hier[l] # v
         /\ Precedes(hier[l], v)
         /\ InOrder(At(l), hier[l], forward[l][hier[l]])
         /\ forward[l][hier[l]] # Nil => Before(v, forward[l][hier[l]])
         /\ rank[l] = Pos(hier[l])
         /\ v \notin At(l)
<1> HeadNode \notin Value /\ HeadNode # Nil
  BY Places
<1>1. LeftRight(l)
  BY DEF Placed
<1>2. /\ hier[l] \in At(l) \cup {HeadNode}
      /\ Precedes(hier[l], v)
      /\ forward[l][hier[l]] # Nil => Before(v, forward[l][hier[l]])
      /\ rank[l] = Pos(hier[l])
  BY <1>1 DEF LeftRight, Placed
<1>3. InOrder(At(l), hier[l], forward[l][hier[l]])
  BY <1>2 DEF ListRight, LinksInOrder
<1>4. v \notin At(l)
  <2> SUFFICES ASSUME v \in At(l) PROVE FALSE
    OBVIOUS
  <2>1. forward[l][hier[l]] # Nil /\ ~Before(v, forward[l][hier[l]])
    BY <1>2, <1>3 DEF InOrder
  <2> QED
    BY <2>1, <1>2
<1>5. hier[l] # v
  BY <1>2, <1>4 DEF Placed
<1>6. hier[l] \in Place
  BY <1>2 DEF At, Place
<1> QED
  BY <1>2, <1>3, <1>4, <1>5, <1>6

LEMMA LinkedLevels ==
  ASSUME ListRight, NEW v, Placed(v), NEW lvl \in Level, Link(lvl)
  PROVE  /\ v \notin Nodes
         /\ Nodes' = Nodes \cup {v}
         /\ \A l \in Level : At(l)' = IF l <= lvl THEN At(l) \cup {v} ELSE At(l)
         /\ height' \in [Value -> 0..(Cap + 1)]
<1>1. At(0) = Nodes /\ 0 \in Level
  BY LevelsNest DEF ListRight, ListType
<1>2. v \notin Nodes
  BY <1>1, PlacedAt
<1>3. v \in Value /\ height' = [height EXCEPT ![v] = lvl + 1]
  BY DEF Placed, Link
<1>4. height \in [Value -> 0..(Cap + 1)]
  BY DEF ListRight, ListType
<1> QED
  BY <1>2, <1>3, <1>4, LinkLevels

LEMMA LinkedForward ==
  ASSUME ListRight, NEW v, Placed(v), NEW lvl \in Level, Link(lvl), NEW l \in Level
  PROVE  /\ l <= lvl => /\ forward'[l][v] = forward[l][hier[l]]
                        /\ forward'[l][hier[l]] = v
         /\ \A p \in Place : l > lvl \/ p \notin {v, hier[l]} => forward'[l][p] = forward[l][p]
<1>1. forward' = [k \in Level |-> [n \in Place |->
                      IF k > lvl THEN forward[k][n]
                      ELSE IF n = v THEN forward[k][hier[k]]
                      ELSE IF n = hier[k] THEN v ELSE forward[k][n]]]
  BY DEF Link, Placed
<1>2. v \in Place /\ hier[l] \in Place /\ hier[l] # v
  BY PlacedAt DEF Placed, Place
<1>3. l \in Int /\ lvl \in Int
  BY Places DEF Level
<1> QED
  BY <1>1, <1>2, <1>3

LEMMA LinkedSkips ==
  ASSUME ListRight, NEW v, Placed(v), NEW lvl \in Level, Link(lvl), NEW l \in Level
  PROVE  /\ l <= lvl => /\ skips'[l][v] = rank[l] + skips[l][hier[l]] - skipped
                        /\ skips'[l][hier[l]] = skipped - rank[l] + 1
         /\ l > lvl => skips'[l][hier[l]] = skips[l][hier[l]] + 1
         /\ \A p \in Place : p # v /\ p # hier[l] => skips'[l][p] = skips[l][p]
<1> DEFINE top == IF lvl > maxLevel THEN lvl ELSE maxLevel
           at(k) == IF k <= top THEN hier[k] ELSE HeadNode
<1>1. skips' = [k \in Level |-> [n \in Place |->
                      IF k <= lvl /\ n = v THEN rank[k] + skips[k][hier[k]] - skipped
                      ELSE IF k <= lvl /\ n = hier[k] THEN skipped - rank[k] + 1
                      ELSE IF k > lvl /\ n = at(k) THEN skips[k][n] + 1
                      ELSE skips[k][n]]]
  BY DEF Link, Placed, SpanToNew
<1>2. v \in Place /\ hier[l] \in Place /\ hier[l] # v
  BY PlacedAt DEF Placed, Place
<1>3. l \in Int /\ lvl \in Int /\ maxLevel \in Int
  BY Places DEF Level, ListRight, ListType
<1>4. at(l) = hier[l]
  <2>1. CASE l > maxLevel
    <3>1. At(l) = {}
      BY <2>1 DEF ListRight, CountersRight
    <3>2. hier[l] = HeadNode
      BY <3>1, PlacedAt
    <3> QED
      BY <3>2
  <2>2. CASE ~(l > maxLevel)
    BY <2>2, <1>3
  <2> QED
    BY <2>1, <2>2
<1> HIDE DEF at
<1>5. skips'[l] = [n \in Place |->
                      IF l <= lvl /\ n = v THEN rank[l] + skips[l][hier[l]] - skipped
                      ELSE IF l <= lvl /\ n = hier[l] THEN skipped - rank[l] + 1
                      ELSE IF l > lvl /\ n = hier[l] THEN skips[l][n] + 1
                      ELSE skips[l][n]]
  BY <1>1, <1>4
<1> QED
  BY <1>2, <1>3, <1>5

LEMMA LinkKeepsOrder ==
  ASSUME ListRight, NEW v, Placed(v), NEW lvl \in Level, Link(lvl)
  PROVE  LinksInOrder'
<1> SUFFICES ASSUME NEW l \in Level, NEW p \in At(l)' \cup {HeadNode}
             PROVE  InOrder(At(l)', p, forward'[l][p])
  BY DEF LinksInOrder
<1> DEFINE S == At(l)  h == hier[l]  n == forward[l][h]
<1>1. l \in Int /\ lvl \in Int
  BY Places DEF Level
<1>2. S \in SUBSET Plain /\ S \subseteq Value /\ HeadNode \notin Value
  BY LevelsNest, Places DEF ListRight, ListType
<1>3. /\ h \in S \cup {HeadNode} /\ Precedes(h, v) /\ InOrder(S, h, n)
      /\ n # Nil => Before(v, n)
      /\ v \notin S /\ h # v
  BY PlacedAt
<1>4. v \in Value /\ v \in Plain
  BY DEF Placed
<1>5. /\ l <= lvl => forward'[l][v] = n /\ forward'[l][h] = v
      /\ \A q \in Place : l > lvl \/ q \notin {v, h} => forward'[l][q] = forward[l][q]
  BY LinkedForward
<1>6. \A q \in S \cup {HeadNode} : InOrder(S, q, forward[l][q]) /\ q \in Place
  BY <1>2 DEF ListRight, LinksInOrder, Place
<1>7. At(l)' = IF l <= lvl THEN S \cup {v} ELSE S
  BY LinkedLevels
<1> HIDE DEF S, h, n
<1>8. CASE l <= lvl
  <2>1. /\ InOrder(S \cup {v}, h, v) /\ InOrder(S \cup {v}, v, n)
        /\ \A q \in S \cup {HeadNode} : \A m :
             q # h /\ InOrder(S, q, m) => InOrder(S \cup {v}, q, m)
    BY <1>2, <1>3, <1>4, InOrderInsert
  <2>2. CASE p = v
    BY <2>1, <2>2, <1>5, <1>7, <1>8
  <2>3. CASE p = h
    BY <2>1, <2>3, <1>5, <1>7, <1>8
  <2>4. CASE p # v /\ p # h
    <3>1. p \in S \cup {HeadNode}
      BY <2>4, <1>7, <1>8
    <3>2. forward'[l][p] = forward[l][p] /\ InOrder(S, p, forward[l][p])
      BY <3>1, <2>4, <1>5, <1>6
    <3> QED
      BY <3>1, <3>2, <2>1, <2>4, <1>7, <1>8
  <2> QED
    BY <2>2, <2>3, <2>4
<1>9. CASE ~(l <= lvl)
  <2>1. p \in S \cup {HeadNode} /\ l > lvl
    BY <1>1, <1>7, <1>9
  <2>2. forward'[l][p] = forward[l][p] /\ InOrder(S, p, forward[l][p])
    BY <2>1, <1>5, <1>6
  <2> QED
    BY <2>2, <1>7, <1>9
<1> QED
  BY <1>8, <1>9

LEMMA LinkKeepsSpans ==
  ASSUME ListRight, NEW v, Placed(v), NEW lvl \in Level, Link(lvl)
  PROVE  SpansRight'
<1> SUFFICES ASSUME NEW l \in Level, NEW p \in At(l)' \cup {HeadNode}
             PROVE  skips'[l][p] = PosIn(Nodes', forward'[l][p]) - PosIn(Nodes', p)
  BY DEF SpansRight, SpanIsDistance, Pos
<1> DEFINE S == At(l)  h == hier[l]  n == forward[l][h]  N == Nodes  M == N \cup {v}
           h0 == hier[0]
<1>1. l \in Int /\ lvl \in Int /\ 0 \in Level
  BY Places DEF Level
<1>2. /\ S \subseteq N /\ S \subseteq Plain /\ N \in SUBSET Plain /\ N \subseteq Value
      /\ IsFiniteSet(N) /\ HeadNode \notin Value /\ Nil \notin Value /\ At(0) = N
      /\ HeadNode # Nil
  BY LevelsNest, Places DEF ListRight, ListType
<1>3. /\ h \in S \cup {HeadNode} /\ Precedes(h, v) /\ InOrder(S, h, n)
      /\ n # Nil => Before(v, n)
      /\ v \notin S /\ h # v /\ rank[l] = PosIn(N, h)
  BY PlacedAt DEF Pos
<1>4. v \in Value /\ v \in Plain /\ v \notin N /\ skipped = rank[0]
  BY LinkedLevels DEF Placed
<1>5. /\ l <= lvl => forward'[l][v] = n /\ forward'[l][h] = v
      /\ \A q \in Place : l > lvl \/ q \notin {v, h} => forward'[l][q] = forward[l][q]
  BY LinkedForward
<1>6. /\ l <= lvl => /\ skips'[l][v] = rank[l] + skips[l][h] - skipped
                     /\ skips'[l][h] = skipped - rank[l] + 1
      /\ l > lvl => skips'[l][h] = skips[l][h] + 1
      /\ \A q \in Place : q # v /\ q # h => skips'[l][q] = skips[l][q]
  BY LinkedSkips
<1>7. /\ At(l)' = IF l <= lvl THEN S \cup {v} ELSE S
      /\ Nodes' = M
  BY LinkedLevels
<1>8. /\ h0 \in N \cup {HeadNode} /\ Precedes(h0, v)
      /\ InOrder(N, h0, forward[0][h0])
      /\ forward[0][h0] # Nil => Before(v, forward[0][h0])
      /\ skipped = PosIn(N, h0)
  BY <1>1, <1>2, <1>4, PlacedAt DEF Pos
<1>9. \A q \in S \cup {HeadNode} :
        /\ InOrder(S, q, forward[l][q]) /\ q \in Place
        /\ skips[l][q] = PosIn(N, forward[l][q]) - PosIn(N, q)
  BY <1>2 DEF ListRight, LinksInOrder, SpansRight, SpanIsDistance, Place, Pos
<1>10. \A q : PosIn(N, q) \in Int /\ PosIn(M, q) \in Int
  <2>1. IsFiniteSet(M)
    BY <1>2, FS_AddElement
  <2> QED
    BY <1>2, <2>1, PosType
<1> HIDE DEF S, h, n, N, M, h0
\* How the ranks move.
<1>11. PosIn(M, v) = PosIn(N, h0) + 1
  <2> DEFINE n0 == forward[0][h0]
  <2>1. InOrder(N, h0, n0) /\ (n0 # Nil => Before(v, n0))
    BY <1>8
  <2> HIDE DEF n0
  <2>2. PosIn(N \cup {v}, v) = PosIn(N, h0) + 1
    BY <2>1, <1>2, <1>4, <1>8, PosNew
  <2> QED
    BY <2>2 DEF M
<1>12. /\ \A q \in N \cup {HeadNode} : Precedes(q, v) => PosIn(M, q) = PosIn(N, q)
       /\ \A q \in N : Before(v, q) => PosIn(M, q) = PosIn(N, q) + 1
       /\ PosIn(M, Nil) = PosIn(N, Nil) + 1
  BY <1>2, <1>4, PosInsert DEF M
<1>13. PosIn(M, h) = PosIn(N, h)
  BY <1>2, <1>3, <1>12
<1>14. PosIn(M, n) = PosIn(N, n) + 1
  <2>1. n \in S \cup {Nil}
    BY <1>3 DEF InOrder
  <2> QED
    BY <2>1, <1>2, <1>3, <1>12
<1>15. skips[l][h] = PosIn(N, n) - PosIn(N, h)
  BY <1>3, <1>9 DEF n
<1>16. CASE l <= lvl /\ p = v
  <2>1. forward'[l][p] = n /\ skips'[l][p] = rank[l] + skips[l][h] - skipped
    BY <1>5, <1>6, <1>16
  <2>2. skips'[l][p] = PosIn(N, h) + (PosIn(N, n) - PosIn(N, h)) - PosIn(N, h0)
    BY <2>1, <1>3, <1>8, <1>15
  <2>3. skips'[l][p] = PosIn(M, n) - PosIn(M, v)
    BY <2>2, <1>10, <1>11, <1>14
  <2> QED
    BY <2>1, <2>3, <1>7, <1>16
<1>17. CASE l <= lvl /\ p = h
  <2>1. forward'[l][p] = v /\ skips'[l][p] = skipped - rank[l] + 1
    BY <1>5, <1>6, <1>17
  <2>2. skips'[l][p] = PosIn(M, v) - PosIn(M, h)
    BY <2>1, <1>3, <1>8, <1>10, <1>11, <1>13
  <2> QED
    BY <2>1, <2>2, <1>7, <1>17
<1>18. CASE l > lvl /\ p = h
  <2>1. h \in Place
    BY <1>3, <1>9
  <2>2. forward'[l][p] = n /\ skips'[l][p] = skips[l][h] + 1
    BY <2>1, <1>5, <1>6, <1>18 DEF n
  <2>3. skips'[l][p] = PosIn(M, n) - PosIn(M, h)
    BY <2>2, <1>10, <1>13, <1>14, <1>15
  <2> QED
    BY <2>2, <2>3, <1>7, <1>18
<1>19. CASE p # v /\ p # h
  <2>1. p \in S \cup {HeadNode}
    BY <1>7, <1>19
  <2> DEFINE m == forward[l][p]
  <2>2. /\ p \in Place /\ InOrder(S, p, m)
        /\ skips[l][p] = PosIn(N, m) - PosIn(N, p)
    BY <2>1, <1>9
  <2>3. forward'[l][p] = m /\ skips'[l][p] = skips[l][p]
    BY <2>2, <1>5, <1>6, <1>19
  <2> HIDE DEF m
  <2>4. InOrder(S \cup {v}, p, m)
    BY <2>1, <2>2, <1>2, <1>3, <1>4, <1>19, InOrderInsert
  <2>5. m \in S \cup {Nil} /\ (m # Nil => Precedes(p, m))
    BY <2>2 DEF InOrder
  <2>6. CASE Precedes(p, v)
    <3>1. m # Nil /\ ~Before(v, m)
      BY <2>4, <2>6 DEF InOrder
    <3>2. m \in S /\ m # v /\ m \in Plain
      BY <3>1, <2>5, <1>2, <1>3
    <3>3. Precedes(m, v)
      BY <3>1, <3>2, <1>4, BeforeOrder DEF Precedes
    <3>4. PosIn(M, m) = PosIn(N, m) /\ PosIn(M, p) = PosIn(N, p)
      BY <3>2, <3>3, <2>1, <2>6, <1>2, <1>12
    <3> QED
      BY <3>4, <2>2, <2>3, <1>7
  <2>7. CASE ~Precedes(p, v)
    <3>1. p # HeadNode /\ p \in S /\ p \in Plain /\ ~Before(p, v)
      BY <2>1, <2>7, <1>2 DEF Precedes
    <3>2. Before(v, p)
      BY <3>1, <1>4, <1>19, BeforeOrder
    <3>3. m # Nil => m \in Plain /\ Before(v, m)
      BY <2>5, <3>1, <3>2, <1>2, <1>4, BeforeOrder DEF Precedes
    <3>4. PosIn(M, m) = PosIn(N, m) + 1
      BY <3>3, <2>5, <1>2, <1>12
    <3>5. PosIn(M, p) = PosIn(N, p) + 1
      BY <3>1, <3>2, <1>2, <1>12
    <3> QED
      BY <3>4, <3>5, <2>2, <2>3, <1>7, <1>10
  <2> QED
    BY <2>6, <2>7
<1>20. p = v => l <= lvl
  BY <1>2, <1>3, <1>4, <1>7
<1> QED
  BY <1>1, <1>16, <1>17, <1>18, <1>19, <1>20

LEMMA LinkKeepsCounters ==
  ASSUME ListRight, NEW v, Placed(v), NEW lvl \in Level, Link(lvl)
  PROVE  CountersRight' /\ ListType'
<1>1. /\ v \notin Nodes /\ Nodes' = Nodes \cup {v}
      /\ \A l \in Level : At(l)' = IF l <= lvl THEN At(l) \cup {v} ELSE At(l)
      /\ height' \in [Value -> 0..(Cap + 1)]
  BY LinkedLevels
<1>2. /\ IsFiniteSet(Nodes) /\ Nodes \subseteq Plain
      /\ \A l \in Level : IsFiniteSet(At(l)) /\ v \notin At(l)
  BY LevelsNest, PlacedAt DEF ListRight, ListType
<1>3. v \in Value /\ v \in Plain
  BY DEF Placed
<1>4. /\ length' = length + 1
      /\ levelCount' = [l \in Level |-> IF l <= lvl THEN levelCount[l] + 1 ELSE levelCount[l]]
      /\ maxLevel' = IF lvl > maxLevel THEN lvl ELSE maxLevel
  BY DEF Link
<1>5. /\ length = Cardinality(Nodes)
      /\ \A l \in Level : levelCount[l] = Cardinality(At(l)) /\ (l > maxLevel => At(l) = {})
  BY DEF ListRight, CountersRight
<1>6. IsFiniteSet(Nodes') /\ length' = Cardinality(Nodes')
  BY <1>1, <1>2, <1>4, <1>5, FS_AddElement
<1>7. ASSUME NEW l \in Level PROVE levelCount'[l] = Cardinality(At(l)')
  <2>1. Cardinality(At(l) \cup {v}) = Cardinality(At(l)) + 1
    BY <1>2, FS_AddElement
  <2> QED
    BY <2>1, <1>1, <1>4, <1>5
<1>8. maxLevel \in -1..Cap /\ lvl \in 0..Cap /\ Cap \in Int
  BY Places DEF ListRight, ListType, Level
<1>9. ASSUME NEW l \in Level, l > maxLevel' PROVE At(l)' = {}
  <2>1. l > maxLevel /\ ~(l <= lvl)
    BY <1>4, <1>8, <1>9 DEF Level
  <2> QED
    BY <2>1, <1>1, <1>5
<1>10. maxLevel' \in -1..Cap
  BY <1>4, <1>8
<1>11. length' \in Int /\ levelCount' \in [Level -> Int]
  BY <1>4 DEF ListRight, ListType
<1>12. forward' \in [Level -> [Place -> Value \cup {Nil}]]
  <2>1. \A l \in Level : \A n \in Place : forward[l][n] \in Value \cup {Nil}
    BY DEF ListRight, ListType
  <2>2. \A l \in Level : hier[l] \in Place
    BY PlacedAt
  <2> QED
    BY <2>1, <2>2, <1>3 DEF Link, Placed
<1>13. skips' \in [Level -> [Place -> Int]]
  <2>1. \A l \in Level : \A n \in Place : skips[l][n] \in Int
    BY DEF ListRight, ListType
  <2>2. \A l \in Level : hier[l] \in Place /\ rank[l] \in Int
    BY PlacedAt DEF Placed
  <2>3. skipped \in Int
    BY <2>2, Places DEF Placed, Level
  <2> QED
    BY <2>1, <2>2, <2>3 DEF Link, SpanToNew
<1>14. Nodes' \subseteq Plain
  BY <1>1, <1>2, <1>3
<1> QED
  BY <1>1, <1>6, <1>7, <1>9, <1>10, <1>11, <1>12, <1>13, <1>14 DEF CountersRight, ListType

LEMMA LinkKeepsList ==
  ASSUME ListRight, NEW v, Placed(v), NEW lvl \in Level, Link(lvl)
  PROVE  ListRight' /\ Nodes' = Nodes \cup {v}
BY LinkKeepsOrder, LinkKeepsSpans, LinkKeepsCounters, LinkedLevels DEF ListRight
-----------------------------------------------------------------------------
(* Delete.                                                                 *)

\* What a search for a deletion knows when it has left every level.
Reached(v) ==
  /\ v \in Nodes /\ v = call.val /\ call.kind = "delete"
  /\ hier \in [Level -> Place] /\ curr = hier[0]
  /\ \A l \in Level : LeftRight(l)

\* At a level of the node, the link before it is where the search left it.
LEMMA ReachedAt ==
  ASSUME ListRight, NEW v, Reached(v), NEW l \in Level
  PROVE  /\ hier[l] \in (At(l) \ {v}) \cup {HeadNode} /\ hier[l] \in Place /\ hier[l] # v
         /\ Precedes(hier[l], v)
         /\ InOrder(At(l), hier[l], forward[l][hier[l]])
         /\ v \in At(l) => forward[l][hier[l]] = v
         /\ v \notin At(l) => forward[l][hier[l]] = Nil
                              \/ (forward[l][hier[l]] \in At(l) /\ Before(v, forward[l][hier[l]]))
<1> DEFINE h == hier[l]  n == forward[l][h]
<1>0. HeadNode \notin Value /\ HeadNode # Nil /\ Nil \notin Value
  BY Places
<1>1. At(l) \subseteq Plain /\ At(l) \subseteq Value /\ v \in Plain /\ v \in Value
  BY LevelsNest DEF ListRight, ListType, Reached
<1>2. LeftRight(l) /\ v = call.val /\ call.kind = "delete"
  BY DEF Reached
<1>3. /\ h \in At(l) \cup {HeadNode}
      /\ Precedes(h, v)
      /\ n # Nil => ~Before(n, v)
  BY <1>2 DEF LeftRight
<1>4. InOrder(At(l), h, n)
  BY <1>3 DEF ListRight, LinksInOrder
<1> HIDE DEF h, n
<1>5. h # v
  BY <1>0, <1>1, <1>3, BeforeOrder DEF Precedes
<1>6. n \in At(l) \cup {Nil}
  BY <1>4 DEF InOrder
<1>7. ASSUME v \in At(l) PROVE n = v
  <2>1. n # Nil /\ ~Before(v, n)
    BY <1>3, <1>4, <1>7 DEF InOrder
  <2>2. n \in Plain /\ ~Before(n, v)
    BY <2>1, <1>1, <1>3, <1>6
  <2> QED
    BY <2>1, <2>2, <1>1, BeforeOrder
<1>8. ASSUME v \notin At(l) PROVE n = Nil \/ (n \in At(l) /\ Before(v, n))
  <2>1. CASE n = Nil
    BY <2>1
  <2>2. CASE n # Nil
    <3>1. n \in At(l) /\ n \in Plain /\ n # v /\ ~Before(n, v)
      BY <2>2, <1>1, <1>3, <1>6, <1>8
    <3> QED
      BY <3>1, <1>1, BeforeOrder
  <2> QED
    BY <2>1, <2>2
<1>9. h \in Place
  BY <1>1, <1>3 DEF Place
<1> QED
  BY <1>3, <1>4, <1>5, <1>7, <1>8, <1>9 DEF h, n

\* The levels that lose their only node: a search begins below them.
Emptied(v) == {l \in Level : v \in At(l) /\ levelCount[l] = 1}

LEMMA EmptiedLevels ==
  ASSUME ListRight, NEW v \in Nodes
  PROVE  /\ maxLevel - Cardinality(Emptied(v)) \in -1..Cap
         /\ \A l \in Level : l > maxLevel - Cardinality(Emptied(v)) => At(l) \subseteq {v}
<1> DEFINE E == Emptied(v)
<1>0. Cap \in Int /\ maxLevel \in Int /\ maxLevel >= -1 /\ maxLevel <= Cap
  BY Places DEF ListRight, ListType
<1>1. \A k \in Level : k \in Int /\ k >= 0
  BY Places DEF Level
<1>2. ASSUME NEW k \in E PROVE k \in Level /\ At(k) = {v} /\ k <= maxLevel
  <2>1. k \in Level /\ v \in At(k) /\ levelCount[k] = 1
    BY DEF Emptied
  <2>2. IsFiniteSet(At(k)) /\ Cardinality(At(k)) = 1
    BY <2>1, LevelsNest DEF ListRight, ListType, CountersRight
  <2>3. PICK x : At(k) = {x}
    BY <2>2, FS_Singleton
  <2>4. ~(k > maxLevel)
    BY <2>1 DEF ListRight, CountersRight
  <2> QED
    BY <2>1, <2>3, <2>4, <1>0, <1>1
<1>3. E \subseteq 0..maxLevel
  BY <1>0, <1>1, <1>2
<1>4. IsFiniteSet(0..maxLevel) /\ Cardinality(0..maxLevel) = maxLevel + 1
  BY <1>0, FS_Interval
<1>5. IsFiniteSet(E) /\ Cardinality(E) <= maxLevel + 1
  BY <1>3, <1>4, FS_Subset
<1>6. Cardinality(E) \in Nat
  BY <1>5, FS_CardinalityType
<1> HIDE DEF E
<1>7. maxLevel - Cardinality(E) \in -1..Cap
  BY <1>0, <1>5, <1>6
<1>8. ASSUME NEW l \in Level, l > maxLevel - Cardinality(E), NEW w \in At(l), w # v
      PROVE  FALSE
  <2>1. l <= maxLevel
    BY <1>0, <1>1, <1>8 DEF ListRight, CountersRight
  <2>2. ASSUME NEW k \in E PROVE k \in (l + 1)..maxLevel
    <3>1. k \in Level /\ At(k) = {v} /\ k <= maxLevel
      BY <1>2
    <3>2. ~(k <= l)
      <4> SUFFICES ASSUME k <= l PROVE FALSE
        OBVIOUS
      <4>1. height[w] \in Int /\ height[w] > l /\ w \in Value
        BY <1>8, <1>0 DEF At, ListRight, ListType
      <4>2. height[w] > k
        BY <4>1, <3>1, <1>1
      <4>3. w \in At(k)
        BY <4>1, <4>2 DEF At
      <4> QED
        BY <4>3, <3>1, <1>8
    <3> QED
      BY <3>1, <3>2, <1>0, <1>1
  <2>3. IsFiniteSet((l + 1)..maxLevel) /\ Cardinality((l + 1)..maxLevel) = maxLevel - l
    <3>1. l + 1 \in Int /\ l \in Int
      BY <1>1
    <3>2. /\ IsFiniteSet((l + 1)..maxLevel)
          /\ Cardinality((l + 1)..maxLevel) = IF l + 1 > maxLevel THEN 0 ELSE maxLevel - (l + 1) + 1
      BY <3>1, <1>0, FS_Interval
    <3> QED
      BY <3>1, <3>2, <2>1, <1>0
  <2>4. Cardinality(E) <= maxLevel - l
    <3>1. E \in SUBSET ((l + 1)..maxLevel)
      BY <2>2
    <3> QED
      BY <3>1, <2>3, FS_Subset
  <2> QED
    BY <2>4, <1>0, <1>1, <1>6, <1>8
<1> QED
  BY <1>7, <1>8 DEF E

\* Unlink, in terms of the node it takes out.
LEMMA UnlinkedFields ==
  ASSUME ListRight, NEW v, Reached(v), Unlink
  PROVE  /\ forward' = [l \in Level |-> [n \in Place |->
                          IF v \notin At(l) THEN forward[l][n]
                          ELSE IF n = hier[l] THEN forward[l][v]
                          ELSE IF n = v THEN Nil ELSE forward[l][n]]]
         /\ skips' = [l \in Level |-> [n \in Place |->
                          IF v \in At(l)
                          THEN IF n = hier[l] THEN skips[l][n] + skips[l][v] - 1
                               ELSE IF n = v THEN 0 ELSE skips[l][n]
                          ELSE IF n = hier[l] THEN skips[l][n] - 1 ELSE skips[l][n]]]
         /\ height' = [height EXCEPT ![v] = 0]
         /\ levelCount' = [l \in Level |-> IF v \in At(l) THEN levelCount[l] - 1
                                           ELSE levelCount[l]]
         /\ maxLevel' = maxLevel - Cardinality(Emptied(v))
         /\ length' = length - 1
<1> DEFINE matched == {l \in Level : /\ l <= maxLevel
                                     /\ forward[l][hier[l]] # Nil
                                     /\ Same(forward[l][hier[l]], v)}
           top == maxLevel - Cardinality({l \in matched : levelCount[l] = 1})
           at(l) == IF l <= top THEN hier[l] ELSE HeadNode
<1>0. /\ Nil \notin Value /\ Nodes \subseteq Plain /\ Nodes \subseteq Value
      /\ At(0) = Nodes /\ 0 \in Level
      /\ maxLevel \in Int /\ \A l \in Level : l \in Int /\ At(l) \subseteq Plain
  BY LevelsNest, Places DEF ListRight, ListType, Level
<1>1. v \in Plain /\ v \in Value /\ v = call.val
  BY <1>0 DEF Reached
<1>2. forward[0][curr] = v /\ v # Nil
  BY <1>0, <1>1, ReachedAt DEF Reached
<1>3. ASSUME NEW l \in Level PROVE l \in matched <=> v \in At(l)
  <2>1. CASE v \in At(l)
    <3>1. forward[l][hier[l]] = v
      BY <2>1, ReachedAt
    <3>2. Same(v, v)
      BY <1>1, SamePlain
    <3>3. l <= maxLevel
      BY <2>1, <1>0 DEF ListRight, CountersRight
    <3> QED
      BY <2>1, <3>1, <3>2, <3>3, <1>2
  <2>2. CASE v \notin At(l)
    <3>1. \/ forward[l][hier[l]] = Nil
          \/ forward[l][hier[l]] \in At(l) /\ Before(v, forward[l][hier[l]])
      BY <2>2, ReachedAt
    <3>2. l \notin matched
      BY <3>1 DEF Same
    <3> QED
      BY <2>2, <3>2
  <2> QED
    BY <2>1, <2>2
<1>4. {l \in matched : levelCount[l] = 1} = Emptied(v)
  BY <1>3 DEF Emptied
<1>5. top = maxLevel - Cardinality(Emptied(v))
  BY <1>4
<1>6. ASSUME NEW l \in Level, v \notin At(l) PROVE at(l) = hier[l]
  <2>1. CASE l <= top
    BY <2>1
  <2>2. CASE ~(l <= top)
    <3>1. maxLevel - Cardinality(Emptied(v)) \in Int
      BY EmptiedLevels DEF Reached
    <3>2. l > top
      BY <2>2, <3>1, <1>0, <1>5
    <3>3. At(l) \subseteq {v}
      BY <3>2, <1>5, EmptiedLevels DEF Reached
    <3>4. At(l) = {}
      BY <3>3, <1>6
    <3>5. hier[l] = HeadNode
      BY <3>4, ReachedAt
    <3> QED
      BY <2>2, <3>5
  <2> QED
    BY <2>1, <2>2
<1>7. ASSUME NEW l \in Level PROVE l >= height[v] <=> v \notin At(l)
  <2>1. height[v] \in Int
    BY <1>1, Places DEF ListRight, ListType
  <2> QED
    BY <2>1, <1>0, <1>1 DEF At
<1>8. matched # {}
  BY <1>0, <1>3 DEF Reached
<1>9. /\ forward' = [l \in Level |-> [n \in Place |->
                           IF l \notin matched THEN forward[l][n]
                           ELSE IF n = hier[l] THEN forward[l][v]
                           ELSE IF n = v THEN Nil ELSE forward[l][n]]]
      /\ skips' = [l \in Level |-> [n \in Place |->
                           IF l \in matched
                           THEN IF n = hier[l] THEN skips[l][n] + skips[l][v] - 1
                                ELSE IF n = v THEN 0 ELSE skips[l][n]
                           ELSE IF l >= height[v] /\ n = at(l)
                                THEN skips[l][n] - 1
                           ELSE skips[l][n]]]
      /\ height' = [height EXCEPT ![v] = IF matched = {} THEN @ ELSE 0]
      /\ levelCount' = [l \in Level |-> IF l \in matched THEN levelCount[l] - 1
                                        ELSE levelCount[l]]
      /\ maxLevel' = top
      /\ length' = length - 1
  BY <1>1, <1>2 DEF Unlink, TopWithout
<1> HIDE DEF matched, top, at
<1>10. forward' = [l \in Level |-> [n \in Place |->
                          IF v \notin At(l) THEN forward[l][n]
                          ELSE IF n = hier[l] THEN forward[l][v]
                          ELSE IF n = v THEN Nil ELSE forward[l][n]]]
  BY <1>3, <1>9
<1>11. skips' = [l \in Level |-> [n \in Place |->
                          IF v \in At(l)
                          THEN IF n = hier[l] THEN skips[l][n] + skips[l][v] - 1
                               ELSE IF n = v THEN 0 ELSE skips[l][n]
                          ELSE IF n = hier[l] THEN skips[l][n] - 1 ELSE skips[l][n]]]
  <2> DEFINE F(l) == [n \in Place |->
                           IF l \in matched
                           THEN IF n = hier[l] THEN skips[l][n] + skips[l][v] - 1
                                ELSE IF n = v THEN 0 ELSE skips[l][n]
                           ELSE IF l >= height[v] /\ n = at(l)
                                THEN skips[l][n] - 1
                           ELSE skips[l][n]]
             G(l) == [n \in Place |->
                          IF v \in At(l)
                          THEN IF n = hier[l] THEN skips[l][n] + skips[l][v] - 1
                               ELSE IF n = v THEN 0 ELSE skips[l][n]
                          ELSE IF n = hier[l] THEN skips[l][n] - 1 ELSE skips[l][n]]
  <2>1. skips' = [l \in Level |-> F(l)]
    BY <1>9
  <2>2. ASSUME NEW l \in Level PROVE F(l) = G(l)
    <3>1. CASE v \in At(l)
      <4>1. l \in matched
        BY <3>1, <1>3
      <4> QED
        BY <3>1, <4>1
    <3>2. CASE v \notin At(l)
      <4>1. l \notin matched /\ l >= height[v] /\ at(l) = hier[l]
        BY <3>2, <1>3, <1>6, <1>7
      <4> QED
        BY <3>2, <4>1
    <3> QED
      BY <3>1, <3>2
  <2> HIDE DEF F, G
  <2>3. skips' = [l \in Level |-> G(l)]
    BY <2>1, <2>2
  <2> QED
    BY <2>3 DEF G
<1>12. height' = [height EXCEPT ![v] = 0]
  BY <1>8, <1>9
<1>13. levelCount' = [l \in Level |-> IF v \in At(l) THEN levelCount[l] - 1 ELSE levelCount[l]]
  BY <1>3, <1>9
<1> QED
  BY <1>5, <1>9, <1>10, <1>11, <1>12, <1>13
LEMMA UnlinkedLevels ==
  ASSUME ListRight, NEW v, Reached(v), Unlink
  PROVE  /\ Nodes' = Nodes \ {v}
         /\ \A l \in Level : At(l)' = At(l) \ {v}
         /\ height' \in [Value -> 0..(Cap + 1)]
<1>1. height' = [height EXCEPT ![v] = 0] /\ v \in Value
  BY UnlinkedFields DEF Reached, Nodes
<1>2. Cap \in Int /\ height \in [Value -> 0..(Cap + 1)]
  BY Places DEF ListRight, ListType
<1>3. Cap >= 0
  BY Places
<1>4. height' \in [Value -> 0..(Cap + 1)]
  BY <1>1, <1>2, <1>3
<1>5. Nodes' = Nodes \ {v}
  BY <1>1, <1>2 DEF Nodes
<1>6. ASSUME NEW l \in Level PROVE At(l)' = At(l) \ {v}
  <2>1. l \in Int /\ l >= 0
    BY Places DEF Level
  <2> QED
    BY <2>1, <1>1, <1>2 DEF At
<1> QED
  BY <1>4, <1>5, <1>6

LEMMA UnlinkedLinks ==
  ASSUME ListRight, NEW v, Reached(v), Unlink, NEW l \in Level
  PROVE  /\ v \in At(l) => /\ forward'[l][hier[l]] = forward[l][v]
                           /\ skips'[l][hier[l]] = skips[l][hier[l]] + skips[l][v] - 1
         /\ v \notin At(l) => skips'[l][hier[l]] = skips[l][hier[l]] - 1
         /\ \A p \in Place : v \notin At(l) \/ p \notin {v, hier[l]} => forward'[l][p] = forward[l][p]
         /\ \A p \in Place : p # v /\ p # hier[l] => skips'[l][p] = skips[l][p]
<1>1. hier[l] \in Place /\ hier[l] # v
  BY ReachedAt
<1> QED
  BY <1>1, UnlinkedFields

LEMMA UnlinkKeepsOrder ==
  ASSUME ListRight, NEW v, Reached(v), Unlink
  PROVE  LinksInOrder'
<1> SUFFICES ASSUME NEW l \in Level, NEW p \in At(l)' \cup {HeadNode}
             PROVE  InOrder(At(l)', p, forward'[l][p])
  BY DEF LinksInOrder
<1> DEFINE S == At(l)  h == hier[l]
<1>1. S \in SUBSET Plain /\ S \subseteq Value /\ HeadNode \notin Value
  BY LevelsNest, Places DEF ListRight, ListType
<1>2. /\ h \in (S \ {v}) \cup {HeadNode} /\ InOrder(S, h, forward[l][h])
      /\ v \in S => forward[l][h] = v
  BY ReachedAt
<1>3. \A q \in S \cup {HeadNode} : InOrder(S, q, forward[l][q]) /\ q \in Place
  BY <1>1 DEF ListRight, LinksInOrder, Place
<1>4. /\ v \in S => forward'[l][h] = forward[l][v]
      /\ \A q \in Place : v \notin S \/ q \notin {v, h} => forward'[l][q] = forward[l][q]
  BY UnlinkedLinks
<1>5. At(l)' = S \ {v}
  BY UnlinkedLevels
<1> HIDE DEF S, h
<1>6. CASE v \in S
  <2> DEFINE nv == forward[l][v]
  <2>1. InOrder(S, h, v) /\ InOrder(S, v, nv)
    BY <1>2, <1>3, <1>6
  <2>n. forward'[l][h] = nv
    BY <1>4, <1>6
  <2> HIDE DEF nv
  <2>2. /\ InOrder(S \ {v}, h, nv)
        /\ \A q \in (S \ {v}) \cup {HeadNode} : \A m :
             q # h /\ InOrder(S, q, m) => m # v /\ InOrder(S \ {v}, q, m)
    BY <2>1, <1>1, <1>2, <1>6, InOrderRemove
  <2>3. CASE p = h
    BY <2>2, <2>3, <2>n, <1>5
  <2>4. CASE p # h
    <3>1. p \in (S \ {v}) \cup {HeadNode} /\ p # v
      BY <1>1, <1>5, <1>6
    <3>2. forward'[l][p] = forward[l][p] /\ InOrder(S, p, forward[l][p])
      BY <3>1, <2>4, <1>3, <1>4
    <3> QED
      BY <3>1, <3>2, <2>2, <2>4, <1>5
  <2> QED
    BY <2>3, <2>4
<1>7. CASE v \notin S
  <2>1. S \ {v} = S /\ p \in S \cup {HeadNode}
    BY <1>5, <1>7
  <2>2. forward'[l][p] = forward[l][p] /\ InOrder(S, p, forward[l][p])
    BY <2>1, <1>3, <1>4, <1>7
  <2> QED
    BY <2>1, <2>2, <1>5
<1> QED
  BY <1>6, <1>7

LEMMA UnlinkKeepsSpans ==
  ASSUME ListRight, NEW v, Reached(v), Unlink
  PROVE  SpansRight'
<1> SUFFICES ASSUME NEW l \in Level, NEW p \in At(l)' \cup {HeadNode}
             PROVE  skips'[l][p] = PosIn(Nodes', forward'[l][p]) - PosIn(Nodes', p)
  BY DEF SpansRight, SpanIsDistance, Pos
<1> DEFINE S == At(l)  h == hier[l]  n == forward[l][h]  N == Nodes  M == N \ {v}
<1>1. /\ S \subseteq N /\ S \subseteq Plain /\ N \in SUBSET Plain /\ N \subseteq Value
      /\ IsFiniteSet(N) /\ HeadNode \notin Value /\ Nil \notin Value /\ HeadNode # Nil
  BY LevelsNest, Places DEF ListRight, ListType
<1>2. /\ h \in (S \ {v}) \cup {HeadNode} /\ Precedes(h, v) /\ InOrder(S, h, n)
      /\ v \in S => n = v
      /\ v \notin S => n = Nil \/ (n \in S /\ Before(v, n))
  BY ReachedAt
<1>3. v \in N /\ v \in Plain
  BY <1>1 DEF Reached
<1>4. /\ v \in S => forward'[l][h] = forward[l][v] /\ skips'[l][h] = skips[l][h] + skips[l][v] - 1
      /\ v \notin S => skips'[l][h] = skips[l][h] - 1
      /\ \A q \in Place : v \notin S \/ q \notin {v, h} => forward'[l][q] = forward[l][q]
      /\ \A q \in Place : q # v /\ q # h => skips'[l][q] = skips[l][q]
  BY UnlinkedLinks
<1>5. At(l)' = S \ {v} /\ Nodes' = M
  BY UnlinkedLevels
<1>6. \A q \in S \cup {HeadNode} :
        /\ InOrder(S, q, forward[l][q]) /\ q \in Place
        /\ skips[l][q] = PosIn(N, forward[l][q]) - PosIn(N, q)
  BY <1>1 DEF ListRight, LinksInOrder, SpansRight, SpanIsDistance, Place, Pos
<1>7. \A q : PosIn(N, q) \in Int /\ PosIn(M, q) \in Int
  <2>1. IsFiniteSet(M)
    BY <1>1, FS_RemoveElement
  <2> QED
    BY <1>1, <2>1, PosType
<1>8. skips[l][h] = PosIn(N, n) - PosIn(N, h)
  BY <1>2, <1>6
<1>9. /\ \A q \in (N \ {v}) \cup {HeadNode} : Precedes(q, v) => PosIn(M, q) = PosIn(N, q)
      /\ \A q \in N \ {v} : Before(v, q) => PosIn(M, q) = PosIn(N, q) - 1
      /\ PosIn(M, Nil) = PosIn(N, Nil) - 1
  BY <1>1, <1>3, PosRemove
<1>n. n = forward[l][h]
  OBVIOUS
<1> HIDE DEF S, h, n, N, M
<1>10. PosIn(M, h) = PosIn(N, h)
  BY <1>1, <1>2, <1>9
\* What comes after v at a level loses one in rank.
<1>11. ASSUME NEW m, m = Nil \/ (m \in S /\ m # v /\ Before(v, m))
       PROVE  PosIn(M, m) = PosIn(N, m) - 1
  BY <1>1, <1>9, <1>11
<1>12. CASE p = h /\ v \in S
  <2> DEFINE m == forward[l][v]
  <2>1. InOrder(S, v, m) /\ skips[l][v] = PosIn(N, m) - PosIn(N, v)
    BY <1>6, <1>12
  <2>2. forward'[l][p] = m /\ skips'[l][p] = skips[l][h] + skips[l][v] - 1
    BY <1>4, <1>12
  <2> HIDE DEF m
  <2>3. m = Nil \/ (m \in S /\ m # v /\ Before(v, m))
    <3>1. m \in S \cup {Nil} /\ (m # Nil => Precedes(v, m))
      BY <2>1 DEF InOrder
    <3> QED
      BY <3>1, <1>1, <1>3, BeforeOrder DEF Precedes
  <2>4. PosIn(M, m) = PosIn(N, m) - 1
    BY <2>3, <1>11
  <2>5. skips'[l][p] = PosIn(M, m) - PosIn(M, h)
    BY <2>1, <2>2, <2>4, <1>2, <1>7, <1>8, <1>10, <1>12
  <2> QED
    BY <2>2, <2>5, <1>5, <1>12
<1>13. CASE p = h /\ v \notin S
  <2>1. h \in Place
    BY <1>2, <1>6
  <2>2. forward'[l][p] = n /\ skips'[l][p] = skips[l][h] - 1
    BY <2>1, <1>4, <1>13, <1>n
  <2>3. PosIn(M, n) = PosIn(N, n) - 1
    BY <1>2, <1>11, <1>13
  <2>4. skips'[l][p] = PosIn(M, n) - PosIn(M, h)
    BY <2>2, <2>3, <1>7, <1>8, <1>10
  <2> QED
    BY <2>2, <2>4, <1>5, <1>13
<1>14. CASE p # h
  <2>1. p \in (S \ {v}) \cup {HeadNode} /\ p # v
    BY <1>1, <1>3, <1>5
  <2> DEFINE m == forward[l][p]
  <2>2. /\ p \in Place /\ InOrder(S, p, m)
        /\ skips[l][p] = PosIn(N, m) - PosIn(N, p)
    BY <2>1, <1>6
  <2>3. forward'[l][p] = m /\ skips'[l][p] = skips[l][p]
    BY <2>1, <2>2, <1>4, <1>14
  <2> HIDE DEF m
  <2>4. m \in S \cup {Nil} /\ (m # Nil => Precedes(p, m))
    BY <2>2 DEF InOrder
  <2>5. m # v
    <3>1. CASE v \in S
      <4> DEFINE nv == forward[l][v]
      <4>1. InOrder(S, h, v) /\ InOrder(S, v, nv)
        BY <3>1, <1>2, <1>6
      <4>2. S \in SUBSET Plain /\ S \subseteq Value
        BY <1>1
      <4> HIDE DEF nv
      <4>3. \A q \in (S \ {v}) \cup {HeadNode} : \A k : q # h /\ InOrder(S, q, k) => k # v
        BY <4>1, <4>2, <3>1, <1>2, InOrderRemove
      <4> QED
        BY <4>3, <2>1, <2>2, <1>14
    <3>2. CASE v \notin S
      BY <3>2, <2>4, <1>1, <1>3
    <3> QED
      BY <3>1, <3>2
  <2>6. CASE Precedes(p, v)
    <3>1. CASE p \in S /\ Precedes(h, p)
      <4>1. Before(p, v)
        BY <3>1, <2>6, <1>1 DEF Precedes
      <4>2. n # Nil /\ ~Before(p, n)
        BY <3>1, <1>2 DEF InOrder
      <4>3. n \in Plain /\ ~Before(n, v)
        <5>1. CASE v \in S
          BY <5>1, <1>2, <1>3, BeforeOrder
        <5>2. CASE v \notin S
          <6>1. n \in S /\ Before(v, n)
            BY <5>2, <4>2, <1>2
          <6>2. Before(p, n)
            BY <6>1, <4>1, <3>1, <1>1, <1>3, BeforeOrder
          <6> QED
            BY <6>2, <4>2
        <5> QED
          BY <5>1, <5>2
      <4>4. CASE v \in S
        BY <4>1, <4>2, <4>4, <1>2
      <4>5. CASE v \notin S
        <5>1. Before(v, n)
          BY <4>2, <4>5, <1>2
        <5>2. Before(p, n)
          BY <5>1, <4>1, <4>3, <3>1, <1>1, <1>3, BeforeOrder
        <5> QED
          BY <5>2, <4>2
      <4> QED
        BY <4>4, <4>5
    <3>2. CASE ~(p \in S /\ Precedes(h, p))
      <4>1. h \in S /\ Precedes(p, h)
        <5>1. CASE p = HeadNode
          BY <5>1, <1>2, <1>14 DEF Precedes
        <5>2. CASE p # HeadNode
          <6>1. p \in S /\ h # HeadNode /\ ~Before(h, p)
            BY <5>2, <3>2, <2>1 DEF Precedes
          <6> QED
            BY <6>1, <1>1, <1>2, <1>14, BeforeOrder DEF Precedes
        <5> QED
          BY <5>1, <5>2
      <4>2. m # Nil /\ ~Before(h, m)
        BY <4>1, <2>2 DEF InOrder
      <4>3. Before(h, v) /\ h \in Plain /\ m \in Plain
        BY <4>1, <4>2, <2>4, <1>1, <1>2 DEF Precedes
      <4>4. Before(m, v)
        BY <4>2, <4>3, <1>3, BeforeOrder
      <4>5. PosIn(M, m) = PosIn(N, m) /\ PosIn(M, p) = PosIn(N, p)
        <5>1. m \in (N \ {v}) \cup {HeadNode} /\ p \in (N \ {v}) \cup {HeadNode}
          BY <4>2, <2>1, <2>4, <2>5, <1>1
        <5> QED
          BY <5>1, <4>4, <2>6, <1>9 DEF Precedes
      <4> QED
        BY <4>5, <2>2, <2>3, <1>5
    <3> QED
      BY <3>1, <3>2
  <2>7. CASE ~Precedes(p, v)
    <3>1. p \in S /\ p \in Plain /\ ~Before(p, v) /\ p # HeadNode
      BY <2>1, <2>7, <1>1 DEF Precedes
    <3>2. Before(v, p)
      BY <3>1, <2>1, <1>3, BeforeOrder
    <3>3. m # Nil => m \in Plain /\ Before(v, m)
      BY <3>1, <3>2, <2>4, <1>1, <1>3, BeforeOrder DEF Precedes
    <3>4. PosIn(M, m) = PosIn(N, m) - 1
      BY <3>3, <2>4, <2>5, <1>11
    <3>5. PosIn(M, p) = PosIn(N, p) - 1
      BY <3>1, <3>2, <2>1, <1>11
    <3> QED
      BY <3>4, <3>5, <2>2, <2>3, <1>5, <1>7
  <2> QED
    BY <2>6, <2>7
<1> QED
  BY <1>12, <1>13, <1>14

LEMMA UnlinkKeepsCounters ==
  ASSUME ListRight, NEW v, Reached(v), Unlink
  PROVE  CountersRight' /\ ListType'
<1>1. /\ Nodes' = Nodes \ {v} /\ v \in Nodes
      /\ \A l \in Level : At(l)' = At(l) \ {v}
      /\ height' \in [Value -> 0..(Cap + 1)]
  BY UnlinkedLevels DEF Reached
<1>2. /\ IsFiniteSet(Nodes) /\ Nodes \subseteq Plain /\ Nodes \subseteq Value
      /\ \A l \in Level : IsFiniteSet(At(l))
  BY LevelsNest DEF ListRight, ListType
<1>3. /\ length' = length - 1
      /\ levelCount' = [l \in Level |-> IF v \in At(l) THEN levelCount[l] - 1 ELSE levelCount[l]]
      /\ maxLevel' = maxLevel - Cardinality(Emptied(v))
  BY UnlinkedFields
<1>4. /\ length = Cardinality(Nodes) /\ length \in Int
      /\ \A l \in Level : levelCount[l] = Cardinality(At(l)) /\ levelCount[l] \in Int
  BY DEF ListRight, CountersRight, ListType
<1>5. IsFiniteSet(Nodes') /\ length' = Cardinality(Nodes')
  BY <1>1, <1>2, <1>3, <1>4, FS_RemoveElement
<1>6. ASSUME NEW l \in Level PROVE levelCount'[l] = Cardinality(At(l)')
  <2>1. Cardinality(At(l) \ {v}) = IF v \in At(l) THEN Cardinality(At(l)) - 1 ELSE Cardinality(At(l))
    BY <1>2, FS_RemoveElement
  <2> QED
    BY <2>1, <1>1, <1>3, <1>4
<1>7. ASSUME NEW l \in Level, l > maxLevel' PROVE At(l)' = {}
  <2>1. At(l) \subseteq {v}
    BY <1>1, <1>3, <1>7, EmptiedLevels
  <2> QED
    BY <2>1, <1>1
<1>8. maxLevel' \in -1..Cap
  BY <1>1, <1>3, EmptiedLevels
<1>9. length' \in Int /\ levelCount' \in [Level -> Int]
  BY <1>3, <1>4
<1>10. v \in Place
  BY <1>1, <1>2 DEF Place
<1>11. forward' \in [Level -> [Place -> Value \cup {Nil}]]
  <2>1. \A l \in Level : \A n \in Place : forward[l][n] \in Value \cup {Nil}
    BY DEF ListRight, ListType
  <2> QED
    BY <2>1, <1>10, UnlinkedFields
<1>12. skips' \in [Level -> [Place -> Int]]
  <2>1. \A l \in Level : \A n \in Place : skips[l][n] \in Int
    BY DEF ListRight, ListType
  <2> QED
    BY <2>1, <1>10, UnlinkedFields
<1>13. Nodes' \subseteq Plain
  BY <1>1, <1>2
<1> QED
  BY <1>1, <1>5, <1>6, <1>7, <1>8, <1>9, <1>11, <1>12, <1>13 DEF CountersRight, ListType

LEMMA UnlinkKeepsList ==
  ASSUME ListRight, NEW v, Reached(v), Unlink
  PROVE  ListRight' /\ Nodes' = Nodes \ {v}
BY UnlinkKeepsOrder, UnlinkKeepsSpans, UnlinkKeepsCounters, UnlinkedLevels DEF ListRight
-----------------------------------------------------------------------------
(* The searches.                                                           *)

Kinds == {"insert", "delete", "rank", "bound", "nth"}

\* A search begins right in a list that is right.
LEMMA SearchBegins ==
  ASSUME ListRight', NEW kind \in Kinds, NEW val, NEW nth, Search(kind, val, nth),
         kind = "nth" => nth \in 1..length',
         kind # "nth" => val \in Plain,
         kind = "rank" => val \in Nodes'
  PROVE  WalkRight'
<1>0. Cap \in Nat /\ HeadNode # Nil
  BY Places
<1>1. /\ call' = [kind |-> kind, val |-> val, nth |-> nth]
      /\ lv' = maxLevel' /\ curr' = HeadNode /\ skipped' = 0
      /\ hier' = [l \in Level |-> HeadNode] /\ rank' = [l \in Level |-> 0]
  BY DEF Search
<1>2. /\ maxLevel' \in -1..Cap
      /\ length' = Cardinality(Nodes') /\ IsFiniteSet(Nodes')
      /\ \A l \in Level : l > maxLevel' => At(l)' = {}
      /\ \A l \in Level : InOrder(At(l)', HeadNode, forward'[l][HeadNode])
  BY DEF ListRight, ListType, CountersRight, LinksInOrder
<1>3. call'.kind = kind /\ call'.val = val /\ call'.nth = nth
  BY <1>1
<1>4. Pos(HeadNode)' = 0
  BY DEF Pos, PosIn
<1>5. hier' \in [Level -> Place] /\ rank' \in [Level -> Int]
  BY <1>1 DEF Place
<1>6. lv' \in -1..maxLevel' /\ 0 \in Level
  BY <1>0, <1>1, <1>2 DEF Level
<1>7. maxLevel' = -1 => Nodes' = {}
  <2>1. At(0)' = Nodes'
    BY DEF At, Nodes
  <2> QED
    BY <2>1, <1>2, <1>6
<1>8. CASE kind = "nth"
  <2>1. length' # 0
    BY <1>8
  <2>2. Nodes' # {}
    BY <2>1, <1>2, FS_EmptySet
  <2>3. lv' >= 0
    BY <2>2, <1>1, <1>2, <1>7
  <2>4. skipped' <= call'.nth
    BY <1>1, <1>3, <1>8, <1>2, FS_CardinalityType
  <2>5. skipped' = Pos(curr)'
    BY <1>1, <1>4
  <2> QED
    BY <2>3, <2>4, <2>5, <1>1, <1>3, <1>5, <1>6, <1>8 DEF WalkRight
<1>9. CASE kind # "nth"
  <2>1. kind = "rank" => lv' >= 0
    BY <1>1, <1>2, <1>7
  <2>2. ASSUME NEW l \in Level, l > lv' PROVE LeftRight(l)'
    <3>1. At(l)' = {}
      BY <2>2, <1>1, <1>2
    <3>2. forward'[l][HeadNode] = Nil
      BY <3>1, <1>2 DEF InOrder
    <3>3. hier'[l] = HeadNode /\ rank'[l] = 0
      BY <1>1
    <3> QED
      BY <3>2, <3>3, <1>4 DEF LeftRight, Precedes
  <2>3. lv' = -1 => curr' = hier'[0] /\ skipped' = rank'[0]
    BY <1>1, <1>6
  <2>4. skipped' = Pos(curr)'
    BY <1>1, <1>4
  <2> QED
    BY <2>1, <2>2, <2>3, <2>4, <1>1, <1>3, <1>5, <1>6, <1>9 DEF WalkRight, Precedes
<1> QED
  BY <1>8, <1>9

\* Where a search stands, and the link before it.
LEMMA Standing ==
  ASSUME ListRight, WalkRight, lv >= 0
  PROVE  /\ lv \in Level /\ lv \in Int
         /\ curr \in At(lv) \cup {HeadNode} /\ curr \in Place
         /\ InOrder(At(lv), curr, forward[lv][curr])
         /\ forward[lv][curr] \in At(lv) \cup {Nil}
         /\ skipped = Pos(curr) /\ skipped \in Int
         /\ skipped + skips[lv][curr] = Pos(forward[lv][curr])
         /\ At(lv) \subseteq Plain /\ At(lv) \subseteq Nodes /\ Nodes \subseteq Plain
<1>1. lv \in Level /\ lv \in Int
  BY Places DEF WalkRight, ListRight, ListType, Level
<1>2. curr \in At(lv) \cup {HeadNode}
  BY DEF WalkRight, At, Nodes
<1>3. curr \in Place
  BY <1>2 DEF At, Place
<1>4. InOrder(At(lv), curr, forward[lv][curr])
  BY <1>1, <1>2 DEF ListRight, LinksInOrder
<1>5. skips[lv][curr] = Pos(forward[lv][curr]) - Pos(curr)
  BY <1>1, <1>2 DEF ListRight, SpansRight, SpanIsDistance
<1>6. Pos(curr) \in Int /\ Pos(forward[lv][curr]) \in Int
  BY PosType DEF ListRight, ListType, Pos
<1>7. skipped = Pos(curr)
  BY DEF WalkRight
<1>8. At(lv) \subseteq Plain /\ At(lv) \subseteq Nodes /\ Nodes \subseteq Plain
  BY <1>1, LevelsNest DEF ListRight, ListType
<1> QED
  BY <1>1, <1>2, <1>3, <1>4, <1>5, <1>6, <1>7, <1>8 DEF InOrder

LEMMA SameList ==
  ASSUME UNCHANGED listVars
  PROVE  /\ Nodes' = Nodes /\ \A l : At(l)' = At(l)
         /\ \A p : Pos(p)' = Pos(p)
         /\ ListRight => ListRight'
BY DEF listVars, Nodes, At, Pos, ListRight, ListType, LinksInOrder, SpansRight, SpanIsDistance,
       CountersRight

\* A step along a link.
LEMMA MoveRightKeeps ==
  ASSUME ListRight, WalkRight, call.kind \in Kinds, MoveRight
  PROVE  ListRight' /\ WalkRight'
<1>1. /\ lv >= 0 /\ Advances
      /\ curr' = forward[lv][curr] /\ skipped' = skipped + skips[lv][curr]
      /\ UNCHANGED listVars /\ UNCHANGED <<call, lv, hier, rank>>
  BY DEF MoveRight
<1>2. /\ ListRight' /\ Nodes' = Nodes /\ \A l : At(l)' = At(l)
      /\ \A p : Pos(p)' = Pos(p)
      /\ forward' = forward /\ height' = height /\ maxLevel' = maxLevel /\ length' = length
  BY <1>1, SameList DEF listVars
<1> DEFINE n == forward[lv][curr]
<1>3. /\ n \in At(lv) \cup {Nil} /\ skipped + skips[lv][curr] = Pos(n)
      /\ lv \in Level /\ lv \in Int /\ curr \in Place
      /\ At(lv) \subseteq Nodes /\ At(lv) \subseteq Plain
  BY <1>1, Standing
<1>n. n = forward[lv][curr]
  OBVIOUS
<1> HIDE DEF n
<1>4. n # Nil
  <2>1. CASE call.kind = "nth"
    <3>1. skipped + skips[lv][curr] <= call.nth
      BY <2>1, <1>1 DEF Advances
    <3>2. call.nth <= length /\ call.nth \in Int /\ length \in Int
      BY <2>1 DEF WalkRight, ListRight, ListType
    <3>3. Pos(Nil) = length + 1
      BY Places DEF Pos, PosIn, ListRight, CountersRight
    <3> SUFFICES ASSUME n = Nil PROVE FALSE
      OBVIOUS
    <3> QED
      BY <3>1, <3>2, <3>3, <1>3
  <2>2. CASE call.kind # "nth"
    BY <2>2, <1>1, <1>n DEF Advances
  <2> QED
    BY <2>1, <2>2
<1>5. n \in At(lv) /\ n \in Nodes /\ height[n] > lv /\ n \in Plain
  BY <1>3, <1>4 DEF At
<1>6. /\ curr' \in Nodes' /\ height'[curr'] > lv' /\ skipped' = Pos(curr)'
  BY <1>1, <1>2, <1>3, <1>5, <1>n
<1>7. \A l \in Level : LeftRight(l) => LeftRight(l)'
  BY <1>1, <1>2 DEF LeftRight
<1>8. CASE call.kind = "nth"
  <2>1. skipped' <= call'.nth
    BY <1>1, <1>8 DEF Advances
  <2> QED
    BY <2>1, <1>1, <1>2, <1>6, <1>8 DEF WalkRight
<1>9. CASE call.kind # "nth"
  <2>1. call'.kind \in {"insert", "rank"} => ~Before(call'.val, curr')
    BY <1>1, <1>9 DEF Advances
  <2>2. call'.kind \notin {"insert", "rank"} => Precedes(curr', call'.val)
    BY <1>1, <1>9 DEF Advances, Precedes, Kinds
  <2>3. lv' # -1
    BY <1>1
  <2> QED
    BY <2>1, <2>2, <2>3, <1>1, <1>2, <1>6, <1>7, <1>9 DEF WalkRight
<1> QED
  BY <1>2, <1>8, <1>9

\* On the lowest level, the search for the rank of a node and the one for the
\* node of a rank do not miss.
LEMMA BottomFinds ==
  ASSUME ListRight, WalkRight, call.kind \in {"rank", "nth"}, lv = 0, ~Advances
  PROVE  Arrived
<1> DEFINE n == forward[lv][curr]
<1>1. /\ InOrder(At(lv), curr, n)
      /\ n \in At(lv) \cup {Nil}
      /\ curr \in At(lv) \cup {HeadNode}
      /\ skipped = Pos(curr) /\ skipped \in Int /\ skipped + skips[lv][curr] = Pos(n)
      /\ At(lv) \subseteq Plain
  BY Standing
<1>2. At(lv) = Nodes /\ Nodes \in SUBSET Plain /\ Nodes \subseteq Value /\ IsFiniteSet(Nodes)
  BY LevelsNest DEF ListRight, ListType
<1>h. HeadNode \notin Value /\ Nil \notin Value /\ HeadNode # Nil
  BY Places
<1>n. n = forward[lv][curr]
  OBVIOUS
<1> HIDE DEF n
<1>3. CASE call.kind = "rank"
  <2>1. call.val \in Nodes /\ (curr = HeadNode \/ ~Before(call.val, curr))
    BY <1>3 DEF WalkRight
  <2>2. n # Nil => Before(call.val, n)
    BY <1>3, <1>n DEF Advances
  <2>3. ~Precedes(curr, call.val)
    <3> SUFFICES ASSUME Precedes(curr, call.val) PROVE FALSE
      OBVIOUS
    <3>1. n # Nil /\ ~Before(call.val, n)
      BY <2>1, <1>1, <1>2 DEF InOrder
    <3> QED
      BY <3>1, <2>2
  <2>4. curr # HeadNode /\ curr \in Plain /\ call.val \in Plain /\ Same(curr, call.val)
    BY <2>1, <2>3, <1>1, <1>2 DEF Precedes, Same
  <2> QED
    BY <2>4, <1>3 DEF Arrived
<1>4. CASE call.kind = "nth"
  <2>1. call.nth \in Int /\ skipped <= call.nth
    BY <1>4 DEF WalkRight
  <2>2. curr # Nil
    BY <1>1, <1>2, <1>h
  <2>3. ~(skipped + skips[lv][curr] <= call.nth)
    BY <2>2, <1>4 DEF Advances
  <2>4. PosIn(Nodes, n) = PosIn(Nodes, curr) + 1
    BY <1>1, <1>2, PosNext
  <2>5. skipped = call.nth
    BY <2>1, <2>3, <2>4, <1>1 DEF Pos
  <2> QED
    BY <2>5, <1>4 DEF Arrived
<1> QED
  BY <1>3, <1>4

\* A step down a level.
LEMMA MoveDownKeeps ==
  ASSUME ListRight, WalkRight, call.kind \in Kinds, MoveDown
  PROVE  ListRight' /\ WalkRight'
<1>1. /\ lv >= 0 /\ ~Advances /\ ~Arrived
      /\ hier' = [hier EXCEPT ![lv] = curr] /\ rank' = [rank EXCEPT ![lv] = skipped]
      /\ lv' = lv - 1
      /\ UNCHANGED listVars /\ UNCHANGED <<call, curr, skipped>>
  BY DEF MoveDown
<1>2. /\ ListRight' /\ Nodes' = Nodes /\ \A l : At(l)' = At(l)
      /\ \A p : Pos(p)' = Pos(p)
      /\ forward' = forward /\ height' = height /\ maxLevel' = maxLevel /\ length' = length
  BY <1>1, SameList DEF listVars
<1> DEFINE n == forward[lv][curr]
<1>3. /\ lv \in Level /\ lv \in Int /\ curr \in Place
      /\ curr \in At(lv) \cup {HeadNode}
      /\ n \in At(lv) \cup {Nil} /\ skipped = Pos(curr) /\ skipped \in Int
      /\ At(lv) \subseteq Plain
  BY <1>1, Standing
<1>n. n = forward[lv][curr]
  OBVIOUS
<1> HIDE DEF n
<1>4. hier \in [Level -> Place] /\ rank \in [Level -> Int]
  BY DEF WalkRight
<1>5. hier' \in [Level -> Place] /\ rank' \in [Level -> Int]
  BY <1>1, <1>3, <1>4
<1>6. /\ hier'[lv] = curr /\ rank'[lv] = skipped
      /\ \A l \in Level : l # lv => hier'[l] = hier[l] /\ rank'[l] = rank[l]
  BY <1>1, <1>3, <1>4
<1>7. lv' \in -1..maxLevel'
  BY <1>1, <1>2, <1>3 DEF WalkRight, ListRight, ListType
<1>8. curr' = HeadNode \/ (curr' \in Nodes' /\ height'[curr'] > lv')
  <2>1. CASE curr = HeadNode
    BY <2>1, <1>1
  <2>2. CASE curr \in Nodes /\ height[curr] > lv
    <3>1. height[curr] \in Int
      BY <2>2, Places DEF Nodes, ListRight, ListType
    <3> QED
      BY <2>2, <3>1, <1>1, <1>2, <1>3
  <2> QED
    BY <2>1, <2>2 DEF WalkRight
<1>9. skipped' = Pos(curr)'
  BY <1>1, <1>2, <1>3
<1>10. call.kind \in {"rank", "nth"} => lv' >= 0
  <2> SUFFICES ASSUME call.kind \in {"rank", "nth"} PROVE lv # 0
    BY <1>1, <1>3
  <2> QED
    BY <1>1, BottomFinds
<1>11. CASE call.kind = "nth"
  BY <1>1, <1>2, <1>5, <1>7, <1>8, <1>9, <1>10, <1>11 DEF WalkRight
<1>12. CASE call.kind # "nth"
  <2>1. call.val \in Plain
    BY <1>12 DEF WalkRight
  <2>2. IF call'.kind \in {"insert", "rank"}
        THEN curr' = HeadNode \/ ~Before(call'.val, curr')
        ELSE Precedes(curr', call'.val)
    BY <1>1, <1>12 DEF WalkRight
  <2>3. ASSUME call.kind # "rank", NEW l \in Level, l > lv' PROVE LeftRight(l)'
    <3>1. CASE l = lv
      <4>1. Precedes(curr, call.val)
        <5>1. CASE call.kind = "insert"
          <6>1. curr = HeadNode \/ (~Before(call.val, curr) /\ ~Same(curr, call.val))
            BY <5>1, <1>1 DEF WalkRight, Arrived
          <6> QED
            BY <6>1, <2>1, <1>3 DEF Precedes, Same
        <5>2. CASE call.kind # "insert"
          BY <5>2, <2>3, <1>12 DEF WalkRight
        <5> QED
          BY <5>1, <5>2
      <4>2. IF call.kind = "insert" THEN n # Nil => Before(call.val, n)
                                    ELSE n # Nil => ~Before(n, call.val)
        BY <2>3, <1>1, <1>12, <1>n DEF Advances, Kinds
      <4> QED
        BY <3>1, <4>1, <4>2, <1>1, <1>2, <1>3, <1>6, <1>n DEF LeftRight
    <3>2. CASE l # lv
      <4>1. l > lv
        BY <3>2, <2>3, <1>1, <1>3, Places DEF Level
      <4>2. LeftRight(l)
        BY <4>1, <2>3, <1>12 DEF WalkRight
      <4> QED
        BY <4>2, <3>2, <1>1, <1>2, <1>6 DEF LeftRight
    <3> QED
      BY <3>1, <3>2
  <2>4. lv' = -1 => curr' = hier'[0] /\ skipped' = rank'[0]
    BY <1>1, <1>3, <1>6
  <2>5. call.kind = "rank" => call.val \in Nodes'
    BY <1>2, <1>12 DEF WalkRight
  <2> QED
    BY <2>1, <2>2, <2>3, <2>4, <2>5, <1>1, <1>2, <1>5, <1>7, <1>8, <1>9, <1>10, <1>12 DEF WalkRight
<1> QED
  BY <1>2, <1>11, <1>12

-----------------------------------------------------------------------------
(* What the searches find.                                                 *)

LEMMA InsertionIsPlaced ==
  ASSUME ListRight, WalkRight, call.kind = "insert", Missed, call.val \in Value
  PROVE  Placed(call.val)
<1>1. \A l \in Level : l > lv
  BY Places DEF Missed, Level
<1>2. /\ call.val \in Plain
      /\ hier \in [Level -> Place] /\ rank \in [Level -> Int] /\ skipped = rank[0]
      /\ \A l \in Level : LeftRight(l)
  BY <1>1 DEF WalkRight, Missed
<1> QED
  BY <1>2 DEF Placed

\* An insertion stops early only at the value itself.
LEMMA InsertionFinds ==
  ASSUME ListRight, WalkRight, call.kind = "insert", Found
  PROVE  call.val \in Nodes
<1>1. lv >= 0 /\ curr # HeadNode /\ Same(curr, call.val)
  BY DEF Found, Arrived
<1>2. curr \in Nodes /\ curr \in Plain /\ call.val \in Plain
  BY <1>1, Standing DEF WalkRight
<1> QED
  BY <1>1, <1>2, SamePlain

LEMMA DeletionReaches ==
  ASSUME ListRight, WalkRight, call.kind = "delete", Missed, call.val \in Nodes
  PROVE  Reached(call.val)
<1>1. \A l \in Level : l > lv
  BY Places DEF Missed, Level
<1> QED
  BY <1>1 DEF WalkRight, Missed, Reached

\* GetRank: the search ends at the node and has counted the nodes up to it.
THEOREM RankIsPosition ==
  ASSUME ListRight, WalkRight, call.kind = "rank"
  PROVE  /\ Found => curr = call.val /\ skipped = Cardinality({v \in Nodes : ~Before(call.val, v)})
         /\ ~Missed
<1>1. ASSUME Found PROVE curr = call.val /\ skipped = Cardinality({v \in Nodes : ~Before(call.val, v)})
  <2>1. lv >= 0 /\ curr # HeadNode /\ Same(curr, call.val)
    BY <1>1 DEF Found, Arrived
  <2>2. curr \in Plain /\ curr \in Nodes /\ call.val \in Plain /\ skipped = Pos(curr)
    BY <2>1, Standing DEF WalkRight
  <2>3. curr = call.val
    BY <2>1, <2>2, SamePlain
  <2>4. curr # HeadNode /\ curr # Nil
    BY <2>1, <2>2, Places DEF Nodes
  <2> QED
    BY <2>2, <2>3, <2>4 DEF Pos, PosIn
<1>2. ~Missed
  BY DEF WalkRight, Missed
<1> QED
  BY <1>1, <1>2

\* SearchByRank: the search ends at the node with that many nodes up to it.
THEOREM NodeOfRankIsFound ==
  ASSUME ListRight, WalkRight, call.kind = "nth"
  PROVE  /\ Found => curr \in Nodes /\ Cardinality({v \in Nodes : ~Before(curr, v)}) = call.nth
         /\ ~Missed
<1>1. ASSUME Found PROVE curr \in Nodes /\ Cardinality({v \in Nodes : ~Before(curr, v)}) = call.nth
  <2>1. lv >= 0 /\ skipped = call.nth
    BY <1>1 DEF Found, Arrived
  <2>2. skipped = Pos(curr) /\ curr \in At(lv) \cup {HeadNode} /\ At(lv) \subseteq Nodes
    BY <2>1, Standing
  <2>3. call.nth >= 1
    BY DEF WalkRight
  <2>4. curr # HeadNode
    BY <2>1, <2>2, <2>3 DEF Pos, PosIn
  <2>5. curr \in Nodes /\ curr # Nil
    BY <2>2, <2>4, Places DEF Nodes
  <2> QED
    BY <2>1, <2>2, <2>4, <2>5 DEF Pos, PosIn
<1>2. ~Missed
  BY DEF WalkRight, Missed
<1> QED
  BY <1>1, <1>2

\* GetLowerBound: the node after it is the first that is not before the value.
THEOREM BoundIsLowest ==
  ASSUME ListRight, WalkRight, call.kind = "bound", Missed
  PROVE  LET first == forward[0][curr]
         IN  /\ first = Nil => \A v \in Nodes : Before(v, call.val)
             /\ first # Nil => /\ first \in Nodes /\ ~Before(first, call.val)
                               /\ \A v \in Nodes : Before(v, first) => Before(v, call.val)
<1> DEFINE n == forward[0][curr]
<1>1. 0 \in Level /\ 0 > lv /\ At(0) = Nodes /\ Nodes \subseteq Plain
  BY LevelsNest, Places DEF Missed, ListRight, ListType
<1>2. LeftRight(0) /\ curr = hier[0] /\ call.val \in Plain
  BY <1>1 DEF WalkRight, Missed
<1>3. /\ n # Nil => ~Before(n, call.val)
      /\ curr \in Nodes \cup {HeadNode}
      /\ Precedes(curr, call.val)
  BY <1>1, <1>2 DEF LeftRight
<1>4. InOrder(Nodes, curr, n)
  BY <1>1, <1>3 DEF ListRight, LinksInOrder
<1>h. HeadNode \notin Nodes
  BY Places DEF Nodes
<1> HIDE DEF n
<1>5. ASSUME NEW v \in Nodes, ~Precedes(curr, v) PROVE Before(v, call.val)
  <2>1. curr \in Plain /\ v \in Plain /\ ~Before(curr, v) /\ Before(curr, call.val)
    BY <1>1, <1>3, <1>5 DEF Precedes
  <2> QED
    BY <2>1, <1>2, BeforeOrder
<1>6. n = Nil => \A v \in Nodes : Before(v, call.val)
  BY <1>4, <1>5 DEF InOrder
<1>7. n # Nil => \A v \in Nodes : Before(v, n) => Before(v, call.val)
  BY <1>4, <1>5 DEF InOrder
<1>8. n # Nil => n \in Nodes
  BY <1>4 DEF InOrder
<1> QED
  BY <1>3, <1>6, <1>7, <1>8 DEF n
=============================================================================
