--------------------------- MODULE KeyStoreProofs ---------------------------
(***************************************************************************)
(* Proofs about KeyStore.  First the doubly linked list: taking a key out  *)
(* of it and putting one before its head keep it in the order of use, for  *)
(* any set of keys; then the state machine on top of it, and what of it    *)
(* the clients see.                                                        *)
(***************************************************************************)
EXTENDS KeyStore, FiniteSetTheorems, WellFoundedInduction, TLAPS

-----------------------------------------------------------------------------
(* The list.                                                               *)

\* The fields of the tracker that removeFromList and addToHead return.
LEMMA UnlinkFields ==
  ASSUME NEW l \in Tracker, NEW k \in Key
  PROVE  LET m == RemoveFromList(l, k)
             p == l.prev[k]
             s == l.next[k]
         IN  /\ m \in Tracker
             /\ m.nodes = l.nodes /\ m.size = l.size
             /\ m.head = IF p = None THEN s ELSE l.head
             /\ m.tail = IF s = None THEN p ELSE l.tail
             /\ \A n \in Key : m.next[n] = IF n = k THEN None ELSE IF n = p THEN s ELSE l.next[n]
             /\ \A n \in Key : m.prev[n] = IF n = k THEN None ELSE IF n = s THEN p ELSE l.prev[n]
  BY DEF Tracker, Link, RemoveFromList, Unhook

LEMMA PushFields ==
  ASSUME NEW l \in Tracker, NEW k \in Key
  PROVE  LET m == AddToHead(l, k)
         IN  /\ m \in Tracker
             /\ m.nodes = l.nodes /\ m.size = l.size
             /\ m.head = k
             /\ m.tail = IF l.tail = None THEN k ELSE l.tail
             /\ \A n \in Key : m.next[n] = IF n = k THEN l.head ELSE l.next[n]
             /\ \A n \in Key : m.prev[n] = IF n = l.head THEN k ELSE IF n = k THEN None ELSE l.prev[n]
  BY DEF Tracker, Link, AddToHead

\* Taking k out of the list of S leaves the list of the others.
LEMMA Unlink ==
  ASSUME NEW l \in Tracker, NEW S \in SUBSET Key, NEW u, NEW k \in S, InOrder(l, u, S)
  PROVE  InOrder(RemoveFromList(l, k), Forget(u, k), S \ {k})
<1> DEFINE m == RemoveFromList(l, k)
           p == l.prev[k]
           s == l.next[k]
           v == Forget(u, k)
           R == S \ {k}
<1> USE KeyAssumption
<1>k. k \in Key
  OBVIOUS
<1>fh. m.head = IF p = None THEN s ELSE l.head
  BY <1>k, UnlinkFields
<1>ft. m.tail = IF s = None THEN p ELSE l.tail
  BY <1>k, UnlinkFields
<1>fn. \A n \in Key : m.next[n] = IF n = k THEN None ELSE IF n = p THEN s ELSE l.next[n]
  BY <1>k, UnlinkFields
<1>fp. \A n \in Key : m.prev[n] = IF n = k THEN None ELSE IF n = s THEN p ELSE l.prev[n]
  BY <1>k, UnlinkFields
<1>t. /\ p \in Link /\ s \in Link
      /\ \A n \in Key : l.next[n] \in Link /\ l.prev[n] \in Link
  BY <1>k DEF Tracker
<1>ih. \A x \in Key : l.head = x <=> Most(u, S, x)
  BY DEF InOrder
<1>it. \A x \in Key : l.tail = x <=> Least(u, S, x)
  BY DEF InOrder
<1>in. \A x, y \in Key : l.next[x] = y <=> Follows(u, S, x, y)
  BY DEF InOrder
<1>ip. \A x, y \in Key : l.prev[y] = x <=> Follows(u, S, x, y)
  BY DEF InOrder
<1>nn. \A x \in S : l.next[x] = None <=> Least(u, S, x)
  BY DEF InOrder
<1>pn. \A x \in S : l.prev[x] = None <=> Most(u, S, x)
  BY DEF InOrder
<1>v. \A x, y : <<x, y>> \in v <=> x # k /\ y # k /\ <<x, y>> \in u
  <2> SUFFICES ASSUME NEW x, NEW y PROVE <<x, y>> \in v <=> x # k /\ y # k /\ <<x, y>> \in u
    OBVIOUS
  <2> QED BY DEF Forget
<1>o. /\ u \in SUBSET (S \X S)
      /\ \A x \in S : <<x, x>> \notin u
      /\ \A x, y \in S : x # y => <<x, y>> \in u \/ <<y, x>> \in u
      /\ \A x, y, z \in S : <<x, y>> \in u /\ <<y, z>> \in u => <<x, z>> \in u
  BY DEF InOrder, StrictOrder
<1>1. StrictOrder(v, R)
  <2>1. v \in SUBSET (R \X R)
    BY <1>o DEF Forget
  <2> HIDE DEF v
  <2>2. QED
    BY <2>1, <1>o, <1>v DEF StrictOrder
<1>pN. p = None => Most(u, S, k)
  BY <1>pn
<1>pK. p # None => p \in Key /\ Follows(u, S, p, k)
  BY <1>ip, <1>t, <1>k DEF Link
<1>sN. s = None => Least(u, S, k)
  BY <1>nn
<1>sK. s # None => s \in Key /\ Follows(u, S, k, s)
  BY <1>in, <1>t, <1>k DEF Link
<1> HIDE DEF m, v, p, s
<1>2. ASSUME NEW x \in Key PROVE m.head = x <=> Most(v, R, x)
  <2>1. CASE p = None
    BY <2>1, <1>fh, <1>o, <1>v, <1>pN, <1>sN, <1>sK DEF Most, Least, Follows
  <2>2. CASE p # None
    <3>1. m.head = x <=> Most(u, S, x)
      BY <2>2, <1>fh, <1>ih
    <3>2. Most(u, S, x) => Most(v, R, x)
      BY <2>2, <1>o, <1>v, <1>pK DEF Most, Follows
    <3>3. Most(v, R, x) => Most(u, S, x)
      BY <2>2, <1>o, <1>v, <1>pK DEF Most, Follows
    <3> QED BY <3>1, <3>2, <3>3
  <2> QED BY <2>1, <2>2
<1>3. ASSUME NEW x \in Key PROVE m.tail = x <=> Least(v, R, x)
  <2>1. CASE s = None
    BY <2>1, <1>ft, <1>o, <1>v, <1>sN, <1>pN, <1>pK DEF Most, Least, Follows
  <2>2. CASE s # None
    <3>1. m.tail = x <=> Least(u, S, x)
      BY <2>2, <1>ft, <1>it
    <3>2. Least(u, S, x) => Least(v, R, x)
      BY <2>2, <1>o, <1>v, <1>sK DEF Least, Follows
    <3>3. Least(v, R, x) => Least(u, S, x)
      BY <2>2, <1>o, <1>v, <1>sK DEF Least, Follows
    <3> QED BY <3>1, <3>2, <3>3
  <2> QED BY <2>1, <2>2
\* A pair of neighbours in R is one in S, or joined over k.
<1>n. ASSUME NEW x \in Key, NEW y \in Key, x # k, y # k
      PROVE  Follows(v, R, x, y) <=> Follows(u, S, x, y) \/ (Follows(u, S, x, k) /\ Follows(u, S, k, y))
  <2>1. Follows(u, S, x, y) => Follows(v, R, x, y)
    BY <1>n, <1>v DEF Follows
  <2>2. Follows(u, S, x, k) /\ Follows(u, S, k, y) => Follows(v, R, x, y)
    BY <1>n, <1>o, <1>v DEF Follows
  <2>3. ASSUME Follows(v, R, x, y), ~Follows(u, S, x, y) PROVE Follows(u, S, x, k) /\ Follows(u, S, k, y)
    <3>1. x \in S /\ y \in S /\ <<y, x>> \in u /\ <<y, k>> \in u /\ <<k, x>> \in u
      BY <2>3, <1>n, <1>v DEF Follows
    <3>2. ASSUME NEW z \in S PROVE ~(<<y, z>> \in u /\ <<z, k>> \in u) /\ ~(<<k, z>> \in u /\ <<z, x>> \in u)
      BY <3>1, <2>3, <1>n, <1>o, <1>v DEF Follows
    <3> QED BY <3>1, <3>2 DEF Follows
  <2> QED BY <2>1, <2>2, <2>3
<1>4. ASSUME NEW x \in Key, NEW y \in Key PROVE m.next[x] = y <=> Follows(v, R, x, y)
  <2>1. CASE x = k \/ y = k
    <3>1. ~Follows(v, R, x, y)
      BY <2>1 DEF Follows
    <3>2. s # k
      BY <1>sK, <1>o DEF Follows
    <3>3. l.next[x] = k /\ x # k => x = p
      BY <1>in, <1>ip, <1>k DEF p
    <3> QED BY <3>1, <3>2, <3>3, <2>1, <1>fn
  <2>2. CASE x # k /\ y # k /\ x = p
    <3>1. m.next[x] = y <=> s = y
      BY <2>2, <1>fn
    <3>2. Follows(u, S, x, k)
      BY <2>2, <1>pK
    <3>3. ~Follows(u, S, x, y)
      BY <3>2, <2>2, <1>in, <1>k
    <3>4. s = y <=> Follows(u, S, k, y)
      BY <1>in, <1>k DEF s
    <3> QED BY <3>1, <3>2, <3>3, <3>4, <1>n, <2>2
  <2>3. CASE x # k /\ y # k /\ x # p
    <3>1. m.next[x] = y <=> Follows(u, S, x, y)
      BY <2>3, <1>fn, <1>in
    <3>2. ~Follows(u, S, x, k)
      BY <2>3, <1>ip, <1>k DEF p
    <3> QED BY <3>1, <3>2, <1>n, <2>3
  <2> QED BY <2>1, <2>2, <2>3
<1>5. ASSUME NEW x \in Key, NEW y \in Key PROVE m.prev[y] = x <=> Follows(v, R, x, y)
  <2>1. CASE x = k \/ y = k
    <3>1. ~Follows(v, R, x, y)
      BY <2>1 DEF Follows
    <3>2. p # k
      BY <1>pK, <1>o DEF Follows
    <3>3. l.prev[y] = k /\ y # k => y = s
      BY <1>in, <1>ip, <1>k DEF s
    <3> QED BY <3>1, <3>2, <3>3, <2>1, <1>fp
  <2>2. CASE x # k /\ y # k /\ y = s
    <3>1. m.prev[y] = x <=> p = x
      BY <2>2, <1>fp
    <3>2. Follows(u, S, k, y)
      BY <2>2, <1>sK
    <3>3. ~Follows(u, S, x, y)
      BY <3>2, <2>2, <1>ip, <1>k
    <3>4. p = x <=> Follows(u, S, x, k)
      BY <1>ip, <1>k DEF p
    <3> QED BY <3>1, <3>2, <3>3, <3>4, <1>n, <2>2
  <2>3. CASE x # k /\ y # k /\ y # s
    <3>1. m.prev[y] = x <=> Follows(u, S, x, y)
      BY <2>3, <1>fp, <1>ip
    <3>2. ~Follows(u, S, k, y)
      BY <2>3, <1>in, <1>k DEF s
    <3> QED BY <3>1, <3>2, <1>n, <2>3
  <2> QED BY <2>1, <2>2, <2>3
<1>6. ASSUME NEW x \in R PROVE m.next[x] = None <=> Least(v, R, x)
  <2>1. CASE x = p
    <3>1. Follows(u, S, x, k) /\ (m.next[x] = None <=> s = None)
      BY <2>1, <1>fn, <1>pK
    <3>2. s = None <=> Least(u, S, k)
      BY <1>nn DEF s
    <3>3. Least(u, S, k) => Least(v, R, x)
      BY <3>1, <1>o, <1>v DEF Least, Follows
    <3>4. Least(v, R, x) => Least(u, S, k)
      BY <3>1, <1>o, <1>v DEF Least, Follows
    <3> QED BY <3>1, <3>2, <3>3, <3>4
  <2>2. CASE x # p
    <3>1. m.next[x] = None <=> Least(u, S, x)
      BY <2>2, <1>fn, <1>nn
    <3>2. Least(u, S, x) => Least(v, R, x)
      BY <1>v DEF Least
    <3>3. ASSUME Least(v, R, x), ~Least(u, S, x) PROVE FALSE
      <4>1. <<k, x>> \in u
        BY <3>3, <1>o, <1>v DEF Least
      <4>2. Follows(u, S, x, k)
        BY <4>1, <3>3, <1>o, <1>v DEF Least, Follows
      <4> QED BY <4>2, <2>2, <1>ip, <1>k DEF p
    <3> QED BY <3>1, <3>2, <3>3
  <2> QED BY <2>1, <2>2
<1>7. ASSUME NEW x \in R PROVE m.prev[x] = None <=> Most(v, R, x)
  <2>1. CASE x = s
    <3>1. Follows(u, S, k, x) /\ (m.prev[x] = None <=> p = None)
      BY <2>1, <1>fp, <1>sK
    <3>2. p = None <=> Most(u, S, k)
      BY <1>pn DEF p
    <3>3. Most(u, S, k) => Most(v, R, x)
      BY <3>1, <1>o, <1>v DEF Most, Follows
    <3>4. Most(v, R, x) => Most(u, S, k)
      BY <3>1, <1>o, <1>v DEF Most, Follows
    <3> QED BY <3>1, <3>2, <3>3, <3>4
  <2>2. CASE x # s
    <3>1. m.prev[x] = None <=> Most(u, S, x)
      BY <2>2, <1>fp, <1>pn
    <3>2. Most(u, S, x) => Most(v, R, x)
      BY <1>v DEF Most
    <3>3. ASSUME Most(v, R, x), ~Most(u, S, x) PROVE FALSE
      <4>1. <<x, k>> \in u
        BY <3>3, <1>o, <1>v DEF Most
      <4>2. Follows(u, S, k, x)
        BY <4>1, <3>3, <1>o, <1>v DEF Most, Follows
      <4> QED BY <4>2, <2>2, <1>in, <1>k DEF s
    <3> QED BY <3>1, <3>2, <3>3
  <2> QED BY <2>1, <2>2
<1>8. (m.head = None <=> R = {}) /\ (m.tail = None <=> R = {})
  <2>1. l.head # None /\ l.tail # None
    BY DEF InOrder
  <2>2. p = None /\ s = None <=> R = {}
    <3>1. p = None /\ s = None => R = {}
      BY <1>pN, <1>sN, <1>o DEF Most, Least
    <3>2. R = {} => p = None /\ s = None
      BY <1>pK, <1>sK, <1>o DEF Follows
    <3> QED BY <3>1, <3>2
  <2> QED BY <2>1, <2>2, <1>fh, <1>ft
<1> QED
  BY <1>1, <1>2, <1>3, <1>4, <1>5, <1>6, <1>7, <1>8 DEF InOrder, m, v

\* Putting k, which is not in it, before the head of the list of S.
LEMMA Push ==
  ASSUME NEW l \in Tracker, NEW S \in SUBSET Key, NEW u, NEW k \in Key \ S, InOrder(l, u, S)
  PROVE  InOrder(AddToHead(l, k), Use(u, S, k), S \cup {k})
<1> DEFINE m == AddToHead(l, k)
           v == Use(u, S, k)
           R == S \cup {k}
<1> USE KeyAssumption
<1>f. /\ m.head = k
      /\ m.tail = IF l.tail = None THEN k ELSE l.tail
      /\ \A n \in Key : m.next[n] = IF n = k THEN l.head ELSE l.next[n]
      /\ \A n \in Key : m.prev[n] = IF n = l.head THEN k ELSE IF n = k THEN None ELSE l.prev[n]
  BY PushFields
<1>t. /\ l.head \in Link /\ l.tail \in Link
      /\ \A n \in Key : l.next[n] \in Link /\ l.prev[n] \in Link
  BY DEF Tracker
<1>ih. \A x \in Key : l.head = x <=> Most(u, S, x)
  BY DEF InOrder
<1>it. \A x \in Key : l.tail = x <=> Least(u, S, x)
  BY DEF InOrder
<1>in. \A x, y \in Key : l.next[x] = y <=> Follows(u, S, x, y)
  BY DEF InOrder
<1>ip. \A x, y \in Key : l.prev[y] = x <=> Follows(u, S, x, y)
  BY DEF InOrder
<1>nn. \A x \in S : l.next[x] = None <=> Least(u, S, x)
  BY DEF InOrder
<1>pn. \A x \in S : l.prev[x] = None <=> Most(u, S, x)
  BY DEF InOrder
<1>e. (l.head = None <=> S = {}) /\ (l.tail = None <=> S = {})
  BY DEF InOrder
<1>o. /\ u \in SUBSET (S \X S)
      /\ \A x \in S : <<x, x>> \notin u
      /\ \A x, y \in S : x # y => <<x, y>> \in u \/ <<y, x>> \in u
      /\ \A x, y, z \in S : <<x, y>> \in u /\ <<y, z>> \in u => <<x, z>> \in u
  BY DEF InOrder, StrictOrder
<1>v. \A x, y \in R : <<x, y>> \in v <=> (x \in S /\ y = k) \/ (x \in S /\ y \in S /\ <<x, y>> \in u)
  BY <1>o DEF Use
<1>1. StrictOrder(v, R)
  <2>1. v \in SUBSET (R \X R)
    BY <1>o DEF Use
  <2> HIDE DEF v
  <2>2. QED
    BY <2>1, <1>o, <1>v DEF StrictOrder
<1> HIDE DEF m, v
<1>2. ASSUME NEW x \in Key PROVE m.head = x <=> Most(v, R, x)
  <2>1. Most(v, R, k)
    BY <1>v DEF Most
  <2>2. Most(v, R, x) => x = k
    BY <1>v, <1>o DEF Most
  <2> QED BY <2>1, <2>2, <1>f
<1>3. ASSUME NEW x \in Key PROVE m.tail = x <=> Least(v, R, x)
  <2>1. CASE S = {}
    BY <2>1, <1>e, <1>f DEF Least
  <2>2. CASE S # {}
    <3>1. m.tail = x <=> Least(u, S, x)
      BY <2>2, <1>e, <1>f, <1>it
    <3>2. Least(u, S, x) => Least(v, R, x)
      BY <1>v DEF Least
    <3>3. Least(v, R, x) => Least(u, S, x)
      BY <2>2, <1>v, <1>o DEF Least
    <3> QED BY <3>1, <3>2, <3>3
  <2> QED BY <2>1, <2>2
<1>n. ASSUME NEW x \in Key, NEW y \in Key
      PROVE  Follows(v, R, x, y) <=> Follows(u, S, x, y) \/ (x = k /\ Most(u, S, y))
  <2>1. Follows(u, S, x, y) => Follows(v, R, x, y)
    BY <1>v, <1>o DEF Follows
  <2>2. x = k /\ Most(u, S, y) => Follows(v, R, x, y)
    BY <1>v, <1>o DEF Follows, Most
  <2>3. Follows(v, R, x, y) /\ x # k => Follows(u, S, x, y)
    BY <1>v, <1>o DEF Follows
  <2>4. Follows(v, R, x, y) /\ x = k => Most(u, S, y)
    BY <1>v, <1>o DEF Follows, Most
  <2> QED BY <2>1, <2>2, <2>3, <2>4
<1>s. ASSUME NEW y \in Key PROVE ~Follows(u, S, k, y) /\ ~Follows(u, S, y, k)
  BY DEF Follows
<1>4. ASSUME NEW x \in Key, NEW y \in Key PROVE m.next[x] = y <=> Follows(v, R, x, y)
  <2>1. CASE x = k
    BY <2>1, <1>n, <1>s, <1>f, <1>ih
  <2>2. CASE x # k
    BY <2>2, <1>n, <1>f, <1>in
  <2> QED BY <2>1, <2>2
<1>5. ASSUME NEW x \in Key, NEW y \in Key PROVE m.prev[y] = x <=> Follows(v, R, x, y)
  <2>1. CASE y = l.head
    <3>1. Most(u, S, y) /\ m.prev[y] = k
      BY <2>1, <1>ih, <1>f
    <3>2. ~Follows(u, S, x, y)
      BY <3>1, <1>o DEF Most, Follows
    <3> QED BY <3>1, <3>2, <1>n
  <2>2. CASE y # l.head /\ y = k
    <3>1. ~Most(u, S, y) /\ m.prev[y] = None
      BY <2>2, <1>ih, <1>f
    <3> QED BY <3>1, <1>n, <1>s, <2>2
  <2>3. CASE y # l.head /\ y # k
    BY <2>3, <1>n, <1>f, <1>ip, <1>ih
  <2> QED BY <2>1, <2>2, <2>3
<1>6. ASSUME NEW x \in R PROVE m.next[x] = None <=> Least(v, R, x)
  <2>1. CASE x = k
    <3>1. m.next[x] = None <=> S = {}
      BY <2>1, <1>f, <1>e
    <3>2. Least(v, R, k) <=> S = {}
      BY <1>v, <1>o DEF Least
    <3> QED BY <3>1, <3>2, <2>1
  <2>2. CASE x # k
    <3>1. x \in S /\ (m.next[x] = None <=> Least(u, S, x))
      BY <2>2, <1>f, <1>nn
    <3>2. Least(v, R, x) <=> Least(u, S, x)
      BY <3>1, <1>v, <1>o DEF Least
    <3> QED BY <3>1, <3>2
  <2> QED BY <2>1, <2>2
<1>7. ASSUME NEW x \in R PROVE m.prev[x] = None <=> Most(v, R, x)
  <2>1. CASE x = k
    <3>1. Most(v, R, k)
      BY <1>v DEF Most
    <3>2. l.head # k
      BY <1>ih DEF Most
    <3> QED BY <3>1, <3>2, <2>1, <1>f
  <2>2. CASE x # k
    <3>1. ~Most(v, R, x)
      BY <2>2, <1>v DEF Most
    <3>2. m.prev[x] # None
      BY <2>2, <1>f, <1>pn, <1>ih
    <3> QED BY <3>1, <3>2
  <2> QED BY <2>1, <2>2
<1>8. (m.head = None <=> R = {}) /\ (m.tail = None <=> R = {})
  BY <1>f, <1>e
<1> QED
  BY <1>1, <1>2, <1>3, <1>4, <1>5, <1>6, <1>7, <1>8 DEF InOrder, m, v

-----------------------------------------------------------------------------
(* The state machine.                                                      *)

\* The order is a matter of the links alone.
LEMMA SameLinks ==
  ASSUME NEW l, NEW m, NEW u, NEW S, InOrder(l, u, S),
         m.head = l.head, m.tail = l.tail, m.next = l.next, m.prev = l.prev
  PROVE  InOrder(m, u, S)
  BY DEF InOrder

\* A used key is put back at the head, or a new one is inserted.
LEMMA AccessKeepsOrder ==
  ASSUME NEW l \in Tracker, NEW u, NEW k \in Key, InOrder(l, u, l.nodes)
  PROVE  /\ Access(l, k) \in Tracker
         /\ Access(l, k).nodes = l.nodes \cup {k}
         /\ Access(l, k).size = IF k \in l.nodes THEN l.size ELSE l.size + 1
         /\ InOrder(Access(l, k), Use(u, l.nodes, k), l.nodes \cup {k})
<1> DEFINE S == l.nodes
<1>1. S \in SUBSET Key /\ l.size \in Int
  BY DEF Tracker
<1>2. CASE k \in S
  <2> DEFINE m == RemoveFromList(l, k)
             v == Forget(u, k)
             T == S \ {k}
  <2>1. m \in Tracker /\ m.nodes = S /\ m.size = l.size
    BY UnlinkFields
  <2>2. InOrder(m, v, T)
    BY <1>1, <1>2, Unlink
  <2>3. Use(v, T, k) = Use(u, S, k)
    BY DEF Use, Forget
  <2>4. T \cup {k} = S
    BY <1>2
  <2>5. Access(l, k) = AddToHead(m, k)
    BY <1>2 DEF Access
  <2>6. AddToHead(m, k) \in Tracker /\ AddToHead(m, k).nodes = S /\ AddToHead(m, k).size = l.size
    BY <2>1, PushFields
  <2>7. InOrder(AddToHead(m, k), Use(v, T, k), T \cup {k})
    <3> HIDE DEF m, v, T
    <3>1. T \in SUBSET Key /\ k \in Key \ T
      BY <1>1 DEF T
    <3> QED BY <2>1, <2>2, <3>1, Push
  <2> QED BY <1>2, <2>3, <2>4, <2>5, <2>6, <2>7
<1>3. CASE k \notin S
  <2> DEFINE m == AddToHead(l, k)
             w == Access(l, k)
  <2>1. m \in Tracker /\ m.nodes = S /\ m.size = l.size
    BY PushFields
  <2>2. InOrder(m, Use(u, S, k), S \cup {k})
    BY <1>1, <1>3, Push
  <2>3. w = WithNodes(m, S \cup {k}, l.size + 1)
    BY <1>3 DEF Access, InsertNew
  <2>4. /\ w \in Tracker /\ w.nodes = S \cup {k} /\ w.size = l.size + 1
        /\ w.head = m.head /\ w.tail = m.tail /\ w.next = m.next /\ w.prev = m.prev
    <3> HIDE DEF m, w
    <3> QED BY <2>1, <2>3, <1>1 DEF Tracker, Link, WithNodes
  <2>5. InOrder(w, Use(u, S, k), S \cup {k})
    <3> HIDE DEF m, w
    <3> QED BY <2>2, <2>4, SameLinks
  <2> QED BY <1>3, <2>4, <2>5
<1> QED BY <1>2, <1>3

LEMMA RemoveKeepsOrder ==
  ASSUME NEW l \in Tracker, NEW u, NEW k \in l.nodes, InOrder(l, u, l.nodes)
  PROVE  /\ Remove(l, k) \in Tracker
         /\ Remove(l, k).nodes = l.nodes \ {k}
         /\ Remove(l, k).size = l.size - 1
         /\ InOrder(Remove(l, k), Forget(u, k), l.nodes \ {k})
<1> DEFINE S == l.nodes
           m == RemoveFromList(l, k)
           w == Remove(l, k)
<1>1. S \in SUBSET Key /\ k \in Key
  BY DEF Tracker
<1>2. m \in Tracker /\ m.nodes = S /\ m.size = l.size
  BY <1>1, UnlinkFields
<1>3. InOrder(m, Forget(u, k), S \ {k})
  BY <1>1, Unlink
<1>4. w = WithNodes(m, S \ {k}, l.size - 1)
  BY DEF Remove
<1>5. /\ w \in Tracker /\ w.nodes = S \ {k} /\ w.size = l.size - 1
      /\ w.head = m.head /\ w.tail = m.tail /\ w.next = m.next /\ w.prev = m.prev
  <2> HIDE DEF m, w
  <2> QED BY <1>2, <1>4, <1>1 DEF Tracker, Link, WithNodes
<1>6. InOrder(w, Forget(u, k), S \ {k})
  <2> HIDE DEF m, w
  <2> QED BY <1>3, <1>5, SameLinks
<1> QED BY <1>5, <1>6

\* The part of the invariant that is about the map and the tracker.
StoreOK ==
  /\ syncMap \in [Key -> Object \cup {None}]
  /\ lruTracker \in Tracker
  /\ used \in SUBSET (Key \X Key)
  /\ TrackerAgrees

LEMMA StoredFinite ==
  ASSUME NEW S \in SUBSET Key
  PROVE  IsFiniteSet(S) /\ Cardinality(S) \in Nat
  BY ConstantsAssumption, FS_Subset, FS_CardinalityType

LEMMA PutKeeps ==
  ASSUME StoreOK, NEW k \in Key, NEW o \in Object, Put(k, o)
  PROVE  StoreOK' /\ Stored \subseteq Stored'
<1>1. Stored' = Stored \cup {k}
  BY ConstantsAssumption DEF Stored, Put, StoreOK
<1>2. lruTracker' = Access(lruTracker, k) /\ used' = Use(used, lruTracker.nodes, k)
  BY DEF Put, StoreOK, TrackerAgrees
<1>3. lruTracker.nodes = Stored /\ InOrder(lruTracker, used, lruTracker.nodes)
  BY DEF StoreOK, TrackerAgrees
<1>4. /\ lruTracker' \in Tracker
      /\ lruTracker'.nodes = Stored'
      /\ lruTracker'.size = IF k \in Stored THEN lruTracker.size ELSE lruTracker.size + 1
      /\ InOrder(lruTracker', used', Stored')
  BY <1>1, <1>2, <1>3, AccessKeepsOrder DEF StoreOK
<1>5. lruTracker'.size = Cardinality(Stored')
  <2>1. Stored \in SUBSET Key
    BY DEF Stored
  <2>2. Cardinality(Stored \cup {k}) = IF k \in Stored THEN Cardinality(Stored) ELSE Cardinality(Stored) + 1
    BY <2>1, StoredFinite, FS_AddElement
  <2> QED BY <2>2, <1>1, <1>4 DEF StoreOK, TrackerAgrees
<1>6. syncMap' \in [Key -> Object \cup {None}]
  BY DEF StoreOK, Put
<1>7. used' \in SUBSET (Key \X Key)
  BY <1>4 DEF InOrder, StrictOrder, Stored
<1> QED BY <1>1, <1>4, <1>5, <1>6, <1>7 DEF StoreOK, TrackerAgrees

LEMMA DeleteKeeps ==
  ASSUME StoreOK, NEW k \in Stored, Delete(k)
  PROVE  StoreOK' /\ Stored' = Stored \ {k}
<1>1. Stored' = Stored \ {k}
  BY DEF Stored, Delete, StoreOK
<1>2. lruTracker' = Remove(lruTracker, k) /\ used' = Forget(used, k)
  BY DEF Delete
<1>3. lruTracker.nodes = Stored /\ InOrder(lruTracker, used, lruTracker.nodes)
  BY DEF StoreOK, TrackerAgrees
<1>4. /\ lruTracker' \in Tracker
      /\ lruTracker'.nodes = Stored'
      /\ lruTracker'.size = lruTracker.size - 1
      /\ InOrder(lruTracker', used', Stored')
  BY <1>1, <1>2, <1>3, RemoveKeepsOrder DEF StoreOK
<1>5. lruTracker'.size = Cardinality(Stored')
  <2>1. Stored \in SUBSET Key
    BY DEF Stored
  <2>2. Cardinality(Stored \ {k}) = Cardinality(Stored) - 1
    BY <2>1, StoredFinite, FS_RemoveElement
  <2> QED BY <2>2, <1>1, <1>4 DEF StoreOK, TrackerAgrees
<1>6. syncMap' \in [Key -> Object \cup {None}]
  BY DEF StoreOK, Delete
<1>7. used' \in SUBSET (Key \X Key)
  BY <1>4 DEF InOrder, StrictOrder, Stored
<1> QED BY <1>1, <1>4, <1>5, <1>6, <1>7 DEF StoreOK, TrackerAgrees

LEMMA GetValueKeeps ==
  ASSUME StoreOK, NEW k \in Key, GetValue(k)
  PROVE  StoreOK'
<1>1. CASE syncMap[k] = None
  BY <1>1 DEF GetValue, storeVars, StoreOK, TrackerAgrees, Stored
<1>2. CASE syncMap[k] # None /\ Expired(syncMap[k])
  BY <1>2, DeleteKeeps DEF GetValue, Stored
<1>3. CASE syncMap[k] # None /\ ~Expired(syncMap[k])
  <2>1. syncMap[k] \in Object
    BY <1>3 DEF StoreOK
  <2> QED BY <1>3, <2>1, PutKeeps DEF GetValue, Touch
<1> QED BY <1>1, <1>2, <1>3

\* Whatever the policy, evictOne takes a key that is stored.
LEMMA VictimsAreStored ==
  ASSUME StoreOK
  PROVE  Victims \subseteq Stored
<1>1. lruTracker.tail # None => Least(used, Stored, lruTracker.tail)
  BY DEF StoreOK, TrackerAgrees, InOrder, Tracker, Link
<1>2. {lruTracker.tail} \ {None} \subseteq Stored
  BY <1>1 DEF Least
<1>3. lruTracker.nodes \subseteq Stored
  BY DEF StoreOK, TrackerAgrees
<1>4. FirstFromLRU(lruTracker, Volatile) \subseteq Stored /\ Volatile \subseteq Stored
  BY DEF FirstFromLRU, Volatile
<1>5. {k \in Key : Soonest(k)} \subseteq Stored
  BY <1>4 DEF Soonest
<1> QED BY <1>2, <1>3, <1>4, <1>5 DEF Victims

-----------------------------------------------------------------------------
(* The invariant.                                                          *)

\* The rest of the invariant: what the map and the tracker do not say.
EnvOK ==
  /\ serving \in BOOLEAN
  /\ now \in 0 .. MaxTime /\ memory \in Memory
  /\ policy \in StartPolicies \cup SetPolicies
  /\ command \in Commands \cup {None}

LEMMA InvariantInParts == KInv <=> StoreOK /\ EnvOK /\ CommandsServed
  BY DEF KInv, TypeOK, StoreOK, EnvOK

LEMMA EmptyStore ==
  ASSUME syncMap = [k \in Key |-> None], lruTracker = NewLRUTracker, used = {}
  PROVE  StoreOK
<1>1. Stored = {}
  BY DEF Stored
<1>2. lruTracker \in Tracker /\ lruTracker.size = 0 /\ lruTracker.nodes = {}
  BY DEF NewLRUTracker, Tracker, Link
<1>3. InOrder(lruTracker, used, {})
  BY KeyAssumption DEF InOrder, StrictOrder, NewLRUTracker, Most, Least, Follows
<1> QED BY <1>1, <1>2, <1>3, FS_EmptySet DEF StoreOK, TrackerAgrees

LEMMA StoreStutters == ASSUME StoreOK, UNCHANGED storeVars PROVE StoreOK' /\ Stored' = Stored
  BY DEF StoreOK, TrackerAgrees, Stored, storeVars

LEMMA StartsRight == Init => KInv
<1> SUFFICES ASSUME Init PROVE KInv
  OBVIOUS
<1>0. syncMap = [k \in Key |-> None] /\ lruTracker = NewLRUTracker /\ used = {}
  BY DEF Init
<1>1. StoreOK
  BY <1>0, EmptyStore
<1>2. EnvOK
  <2>1. MaxTime \in Nat
    BY ConstantsAssumption
  <2>2. serving \in BOOLEAN
    BY DEF Init
  <2> QED BY <2>1, <2>2 DEF Init, EnvOK
<1>3. CommandsServed
  BY DEF Init, CommandsServed
<1> QED BY <1>1, <1>2, <1>3, InvariantInParts

\* What a client sends, by its operation.
LEMMA Requests ==
  ASSUME command \in Commands \cup {None}, command # None
  PROVE  /\ command.key \in Key
         /\ command.op = "set" => command.is \in Strings /\ command.ttl \in Nat \cup {None}
         /\ command.op = "open" => command.kind \in Structures
  BY ConstantsAssumption DEF Commands

LEMMA DueIsRequest == ASSUME EnvOK, NEW c \in Commands PROVE Due(c) \in Commands
<1>1. now \in Nat
  BY ConstantsAssumption DEF EnvOK
<1>2. CASE c.op = "set" /\ c.ttl # None
  <2>1. c \in [op : {"set"}, key : Key, is : Strings, ttl : Nat \cup {None}]
    BY <1>2 DEF Commands
  <2>2. [c EXCEPT !.ttl = now + @] \in [op : {"set"}, key : Key, is : Strings, ttl : Nat \cup {None}]
    BY <1>1, <1>2, <2>1
  <2> QED BY <1>2, <2>2 DEF Due, Commands
<1>3. CASE ~(c.op = "set" /\ c.ttl # None)
  BY <1>3 DEF Due
<1> QED BY <1>2, <1>3

LEMMA SetKeeps ==
  ASSUME StoreOK, NEW k \in Key, NEW s \in Strings, NEW due \in Nat \cup {None}, Set(k, s, due)
  PROVE  StoreOK' /\ Stored \subseteq Stored'
<1> DEFINE o == [kind |-> "string", is |-> s, ttl |-> due]
<1>2. o \in Object
  BY DEF Object
<1>3. Put(k, o)
  BY DEF Set
<1> HIDE DEF o
<1> QED BY <1>2, <1>3, PutKeeps

LEMMA IncrKeeps ==
  ASSUME StoreOK, NEW k \in Key, Incr(k)
  PROVE  StoreOK' /\ Stored \subseteq Stored'
<1> DEFINE o == syncMap[k]
           one == [kind |-> "string", is |-> 1, ttl |-> None]
           up == [o EXCEPT !.is = Plus1(@)]
<1>1. CASE ~Live(k)
  <2>1. one \in Object
    BY ConstantsAssumption DEF Object, Strings
  <2>2. Put(k, one)
    BY <1>1 DEF Incr
  <2> QED BY <2>1, <2>2, PutKeeps
<1>2. CASE Live(k) /\ o.kind = "string" /\ o.is \notin Word
  <2>1. o \in [kind : {"string"}, is : Strings, ttl : Nat \cup {None}]
    BY <1>2 DEF StoreOK, Live, Stored, Object, Structures
  <2>2. o.is \in MinInt .. MaxInt
    BY <1>2, <2>1 DEF Strings
  <2>3. Plus1(o.is) \in Strings
    BY <2>2, ConstantsAssumption DEF Plus1, Strings
  <2>4. up \in Object
    BY <2>1, <2>3 DEF Object
  <2>5. Put(k, up)
    BY <1>2 DEF Incr
  <2> HIDE DEF up
  <2> QED BY <2>4, <2>5, PutKeeps
<1>3. CASE Live(k) /\ ~(o.kind = "string" /\ o.is \notin Word)
  BY <1>3, StoreStutters DEF Incr
<1> QED BY <1>1, <1>2, <1>3

LEMMA OpenKeeps ==
  ASSUME StoreOK, NEW k \in Key, NEW kind \in Structures, Open(k, kind)
  PROVE  StoreOK' /\ Stored \subseteq Stored'
<1>1. CASE syncMap[k] = None
  <2> DEFINE o == [kind |-> kind, is |-> None, ttl |-> None]
  <2>1. o \in Object
    BY DEF Object
  <2>2. Put(k, o)
    BY <1>1 DEF Open
  <2> QED BY <2>1, <2>2, PutKeeps
<1>2. CASE syncMap[k] # None
  <2>1. syncMap[k] \in Object
    BY <1>2 DEF StoreOK
  <2>2. Put(k, syncMap[k])
    BY <1>2 DEF Open, Touch
  <2> QED BY <2>1, <2>2, PutKeeps
<1> QED BY <1>1, <1>2

LEMMA RunKeeps == ASSUME StoreOK, EnvOK, Run PROVE StoreOK' /\ EnvOK' /\ Stored \subseteq Stored'
<1>1. command.key \in Key
  BY Requests DEF EnvOK, Run
<1>2. CASE command.op = "set" /\ Set(command.key, command.is, command.ttl)
  <2>1. command.is \in Strings /\ command.ttl \in Nat \cup {None}
    BY <1>2, Requests DEF EnvOK, Run
  <2>2. StoreOK' /\ Stored \subseteq Stored'
    BY <1>1, <1>2, <2>1, SetKeeps
  <2>3. EnvOK'
    BY <1>2 DEF Set, Reply, EnvOK, envVars
  <2> QED BY <2>2, <2>3
<1>3. CASE command.op = "incr" /\ Incr(command.key)
  <2>1. StoreOK' /\ Stored \subseteq Stored'
    BY <1>1, <1>3, IncrKeeps
  <2>2. UNCHANGED <<serving, envVars>> /\ command' = None
    BY <1>3 DEF Incr, Reply
  <2> QED BY <2>1, <2>2 DEF EnvOK, envVars
<1>4. CASE command.op = "open" /\ Open(command.key, command.kind)
  <2>1. command.kind \in Structures
    BY <1>4, Requests DEF EnvOK, Run
  <2>2. StoreOK' /\ Stored \subseteq Stored'
    BY <1>1, <1>4, <2>1, OpenKeeps
  <2>3. UNCHANGED <<serving, envVars>> /\ command' = None
    BY <1>4 DEF Open, Reply
  <2> QED BY <2>2, <2>3 DEF EnvOK, envVars
<1> QED BY <1>2, <1>3, <1>4 DEF Run

LEMMA EvictOneKeeps == ASSUME StoreOK, EnvOK, EvictOne PROVE StoreOK' /\ EnvOK'
<1>1. EnvOK'
  BY DEF EvictOne, EnvOK, envVars
<1>2. CASE Victims = {}
  <2>1. UNCHANGED storeVars
    BY <1>2 DEF EvictOne
  <2> QED BY <1>1, <2>1, StoreStutters
<1>3. CASE Victims # {}
  <2>1. PICK k \in Victims : Delete(k)
    BY <1>3 DEF EvictOne
  <2> QED BY <1>1, <2>1, VictimsAreStored, DeleteKeeps
<1> QED BY <1>1, <1>2, <1>3

\* A command is taken when the server serves, and goes with the process.
LEMMA ServedKeeps == ASSUME CommandsServed, [Next]_vars PROVE CommandsServed'
<1>1. CASE Keys \/ ConfigSet \/ Start \/ Tick \/ HeapChanges \/ UNCHANGED vars
  BY <1>1 DEF Keys, ConfigSet, Start, Tick, HeapChanges, vars, CommandsServed
<1>2. ASSUME NEW c \in Sent, Take(c) PROVE CommandsServed'
  BY <1>2 DEF Take, Idle, CommandsServed
<1>3. ASSUME NEW k \in Key, NEW kind \in Kinds, Read(k, kind) PROVE CommandsServed'
  BY <1>3 DEF Read, CommandsServed
<1>4. ASSUME NEW e \in Dump, LoadEntry(e) PROVE CommandsServed'
  BY <1>4 DEF LoadEntry, CommandsServed
<1>5. CASE EvictOne \/ RejectOOM \/ Panic
  BY <1>5 DEF EvictOne, RejectOOM, Reply, Panic, CommandsServed
<1>6. CASE Run
  <2>1. (command' = command \/ command' = None) /\ serving' = serving
    BY <1>6 DEF Run, Set, Incr, Open, Reply
  <2> QED BY <2>1 DEF CommandsServed
<1> QED BY <1>1, <1>2, <1>3, <1>4, <1>5, <1>6 DEF Next, Execute

LEMMA StepKeeps == KInv /\ [Next]_vars => KInv'
<1> SUFFICES ASSUME StoreOK, EnvOK, CommandsServed, [Next]_vars PROVE StoreOK' /\ EnvOK'
  <2>1. KInv' <=> StoreOK' /\ EnvOK' /\ CommandsServed'
    BY DEF KInv, TypeOK, StoreOK, EnvOK, TrackerAgrees
  <2> QED BY <2>1, InvariantInParts, ServedKeeps
<1>1. CASE Keys \/ ConfigSet \/ RejectOOM \/ Start \/ Tick \/ HeapChanges \/ UNCHANGED vars
  <2>1. UNCHANGED storeVars
    BY <1>1 DEF Keys, ConfigSet, RejectOOM, Start, Tick, HeapChanges, vars
  <2>2. CASE Keys \/ RejectOOM \/ Start \/ UNCHANGED vars
    <3>1. UNCHANGED envVars /\ serving' \in {serving, TRUE} /\ command' \in {command, None}
      BY <2>2 DEF Keys, RejectOOM, Reply, Start, vars
    <3> QED BY <3>1, <2>1, StoreStutters DEF EnvOK, envVars
  <2>3. CASE ConfigSet
    <3>1. EnvOK'
      BY <2>3 DEF ConfigSet, EnvOK
    <3> QED BY <3>1, <2>1, StoreStutters
  <2>4. CASE Tick
    <3>1. MaxTime \in Nat
      BY ConstantsAssumption
    <3>2. EnvOK'
      BY <2>4, <3>1 DEF Tick, EnvOK
    <3> QED BY <3>2, <2>1, StoreStutters
  <2>5. CASE HeapChanges
    <3>1. EnvOK'
      BY <2>5 DEF HeapChanges, EnvOK, Memory
    <3> QED BY <3>1, <2>1, StoreStutters
  <2> QED BY <1>1, <2>2, <2>3, <2>4, <2>5
<1>2. ASSUME NEW c \in Sent, Take(c) PROVE StoreOK' /\ EnvOK'
  <2>1. UNCHANGED storeVars
    BY <1>2 DEF Take
  <2>2. command' \in Commands
    BY <1>2, ConstantsAssumption, DueIsRequest DEF Take
  <2> QED BY <1>2, <2>1, <2>2, StoreStutters DEF Take, EnvOK, envVars
<1>3. ASSUME NEW k \in Key, NEW kind \in Kinds, Read(k, kind) PROVE StoreOK' /\ EnvOK'
  <2>1. GetValue(k) /\ UNCHANGED <<serving, envVars, command>>
    BY <1>3 DEF Read
  <2> QED BY <2>1, GetValueKeeps DEF EnvOK, envVars
<1>4. ASSUME NEW e \in Dump, LoadEntry(e) PROVE StoreOK' /\ EnvOK'
  <2> DEFINE o == [kind |-> "string", is |-> e.is, ttl |-> e.ttl]
  <2>1. e.key \in Key /\ o \in Object
    BY ConstantsAssumption DEF Entries, Object
  <2>2. Put(e.key, o) /\ UNCHANGED <<serving, envVars, command>>
    BY <1>4 DEF LoadEntry
  <2> HIDE DEF o
  <2> QED BY <2>1, <2>2, PutKeeps DEF EnvOK, envVars
<1>5. CASE EvictOne
  BY <1>5, EvictOneKeeps
<1>6. CASE Run
  BY <1>6, RunKeeps
<1>7. CASE Panic
  <2>1. StoreOK'
    <3>1. Stored' = {}
      BY <1>7 DEF Panic, Stored
    <3>2. lruTracker' = NewLRUTracker /\ used' = {} /\ syncMap' \in [Key -> Object \cup {None}]
      BY <1>7 DEF Panic
    <3>3. lruTracker' \in Tracker /\ lruTracker'.size = 0 /\ lruTracker'.nodes = {}
      BY <3>2 DEF NewLRUTracker, Tracker, Link
    <3>4. InOrder(lruTracker', used', {})
      BY <3>2, KeyAssumption DEF InOrder, StrictOrder, NewLRUTracker, Most, Least, Follows
    <3> QED BY <3>1, <3>2, <3>3, <3>4, FS_EmptySet DEF StoreOK, TrackerAgrees
  <2>2. EnvOK'
    BY <1>7 DEF Panic, EnvOK
  <2> QED BY <2>1, <2>2
<1> QED BY <1>1, <1>2, <1>3, <1>4, <1>5, <1>6, <1>7 DEF Next, Execute

\* KInv: the map of objects and the tracker of recent use never part (kvstore.go stores,
\* deletes, expires and evicts in both; lru.go keeps a list, a map and a size), and the list
\* runs from the key used last to the key not used for longest.
THEOREM KeyStoreInductive == Spec => []KInv
<1>1. Init => KInv
  BY StartsRight
<1>2. KInv /\ [Next]_vars => KInv'
  BY StepKeeps
<1> QED BY <1>1, <1>2, PTL DEF Spec

\* Only evictOne makes a key go while a command is under way and the process lives.
LEMMA OnlyEvictionRemoves ==
  ASSUME StoreOK, EnvOK, [Next]_vars, command # None, serving', NEW k \in Stored, k \notin Stored'
  PROVE  EvictOne /\ Delete(k) /\ k \in Victims
<1>2. ~Keys /\ ~ConfigSet /\ ~\E c \in Sent : Take(c)
  BY DEF Keys, ConfigSet, Take, Idle
<1>3. ~\E x \in Key, kind \in Kinds : Read(x, kind)
  BY DEF Read, Idle
<1>4. ~\E e \in Dump : LoadEntry(e)
  BY DEF LoadEntry
<1>5. ~(RejectOOM \/ Start \/ Tick \/ HeapChanges \/ UNCHANGED vars)
  <2>1. ~UNCHANGED storeVars
    BY StoreStutters
  <2> QED BY <2>1 DEF RejectOOM, Start, Tick, HeapChanges, vars
<1>6. ~Run
  BY RunKeeps
<1>7. ~Panic
  BY DEF Panic
<1>8. EvictOne
  BY <1>2, <1>3, <1>4, <1>5, <1>6, <1>7 DEF Next, Execute
<1>9. Victims # {}
  <2>1. ~UNCHANGED storeVars
    BY StoreStutters
  <2> QED BY <1>8, <2>1 DEF EvictOne
<1>10. PICK j \in Victims : Delete(j)
  BY <1>8, <1>9 DEF EvictOne
<1>11. j = k
  BY <1>10, VictimsAreStored, DeleteKeeps
<1> QED BY <1>8, <1>10, <1>11

-----------------------------------------------------------------------------
(* What a client sees of the store.                                        *)

LEMMA NoneIsNothing ==
  /\ \A o \in Object : o # None /\ Value(o) \in Texts \cup News
  /\ \A v \in Texts \cup News : v # None
<1>1. \A v \in Texts \cup News : v # None
  BY ConstantsAssumption
<1>2. ASSUME NEW o \in Object PROVE Value(o) \in Texts \cup News
  <2>1. CASE o \in [kind : {"string"}, is : Strings, ttl : Nat \cup {None}]
    BY <2>1 DEF Value, Texts, Text
  <2>2. CASE o \in [kind : Structures, is : {None}, ttl : {None}]
    BY <2>2 DEF Value, News, New
  <2> QED BY <2>1, <2>2 DEF Object
<1> QED BY <1>1, <1>2, ConstantsAssumption

LEMMA SeenAt ==
  ASSUME NEW k \in Key
  PROVE  Seen[k] = IF Live(k) THEN Value(syncMap[k]) ELSE None
BY DEF Seen

LEMMA SeenStays ==
  ASSUME UNCHANGED <<syncMap, now>>
  PROVE  Seen' = Seen
BY DEF Seen, Live, Stored, Expired

LEMMA SeenAfterPut ==
  ASSUME StoreOK, NEW k \in Key, NEW o \in Object, Put(k, o), UNCHANGED now
  PROVE  Seen' = [Seen EXCEPT ![k] = IF Expired(o) THEN None ELSE Value(o)]
<1>1. syncMap' = [syncMap EXCEPT ![k] = o] /\ syncMap \in [Key -> Object \cup {None}] /\ o # None
  BY NoneIsNothing DEF Put, StoreOK
<1>2. \A j \in Key \ {k} : Live(j)' = Live(j) /\ syncMap'[j] = syncMap[j]
  BY <1>1 DEF Live, Stored, Expired
<1>3. syncMap'[k] = o /\ (Live(k)' <=> ~Expired(o))
  BY <1>1 DEF Live, Stored, Expired
<1> QED BY <1>2, <1>3 DEF Seen

LEMMA SeenAfterDelete ==
  ASSUME StoreOK, NEW k \in Key, Delete(k), UNCHANGED now
  PROVE  Seen' = [Seen EXCEPT ![k] = None]
<1>1. syncMap' = [syncMap EXCEPT ![k] = None] /\ syncMap \in [Key -> Object \cup {None}]
  BY DEF Delete, StoreOK
<1>2. \A j \in Key \ {k} : Live(j)' = Live(j) /\ syncMap'[j] = syncMap[j]
  BY <1>1 DEF Live, Stored, Expired
<1>3. ~Live(k)'
  BY <1>1 DEF Live, Stored
<1> QED BY <1>2, <1>3 DEF Seen

\* To use a key, or to look for it, changes nothing that a client sees.
LEMMA SeenAfterTouch ==
  ASSUME StoreOK, NEW k \in Stored, Touch(k), UNCHANGED now
  PROVE  Seen' = Seen
<1>1. syncMap' = [syncMap EXCEPT ![k] = syncMap[k]] /\ syncMap \in [Key -> Object \cup {None}]
  BY DEF Touch, Put, StoreOK
<1>2. syncMap' = syncMap
  BY <1>1
<1> QED BY <1>2, SeenStays

LEMMA SeenAfterLook ==
  ASSUME StoreOK, NEW k \in Key, GetValue(k), UNCHANGED now
  PROVE  Seen' = Seen
<1>1. CASE syncMap[k] = None
  BY <1>1, SeenStays DEF GetValue, storeVars
<1>2. CASE syncMap[k] # None /\ Expired(syncMap[k])
  <2>1. Seen' = [Seen EXCEPT ![k] = None]
    BY <1>2, SeenAfterDelete DEF GetValue
  <2>2. Seen[k] = None /\ Seen = [j \in Key |-> Seen[j]]
    BY <1>2 DEF Seen, Live
  <2> QED BY <2>1, <2>2
<1>3. CASE syncMap[k] # None /\ ~Expired(syncMap[k])
  BY <1>3, SeenAfterTouch DEF GetValue, Stored
<1> QED BY <1>1, <1>2, <1>3

-----------------------------------------------------------------------------
(* Every step is one of the key space.                                     *)

LEMMA LookShown ==
  ASSUME StoreOK, NEW k \in Key, NEW kind \in Kinds, Read(k, kind)
  PROVE  KS!Read(k)
<1>1. GetValue(k) /\ serving /\ answer' = [value |-> Result(k, kind)] /\ UNCHANGED <<serving, now>>
  BY DEF Read, Idle, envVars
<1>2. Seen' = Seen
  BY <1>1, SeenAfterLook
<1>3. Result(k, kind) \in {Seen[k], None}
  BY DEF Result, Seen
<1> QED BY <1>1, <1>2, <1>3 DEF KS!Read, KS!Answer

LEMMA KeysShown ==
  ASSUME StoreOK, Keys
  PROVE  KS!List
<1>1. Seen' = Seen
  BY SeenStays DEF Keys, storeVars, envVars
<1>2. \A k \in Key : Live(k) <=> Seen[k] # None
  <2> TAKE k \in Key
  <2>1. Live(k) => syncMap[k] \in Object
    BY DEF Live, Stored, StoreOK
  <2> QED BY <2>1, SeenAt, NoneIsNothing
<1>3. {k \in Key : Live(k)} = {k \in Key : Seen[k] # None}
  BY <1>2
<1> QED BY <1>1, <1>3 DEF Keys, Idle, KS!List, KS!Answer

LEMMA SetShown ==
  ASSUME StoreOK, serving, NEW k \in Key, NEW s \in Strings, NEW due \in Nat \cup {None}, Set(k, s, due)
  PROVE  KS!Set(k)
<1> DEFINE o == [kind |-> "string", is |-> s, ttl |-> due]
<1>1. Put(k, o) /\ answer' = [done |-> k] /\ UNCHANGED <<serving, now>>
  BY DEF Set, Reply, envVars
<1>2. o \in Object /\ Value(o) = Text(s)
  BY DEF Object, Value, Text
<1>3. PICK v : v = IF Expired(o) THEN None ELSE Value(o)
  OBVIOUS
<1> HIDE DEF o
<1>4. Seen' = [Seen EXCEPT ![k] = v]
  BY <1>1, <1>2, <1>3, SeenAfterPut
<1>5. v \in Texts \cup {None}
  BY <1>2, <1>3 DEF Texts
<1> QED BY <1>1, <1>4, <1>5 DEF KS!Set, KS!Write, KS!Answer

LEMMA IncrShown ==
  ASSUME StoreOK, serving, NEW k \in Key, Incr(k)
  PROVE  KS!Increment(k) \/ KS!Fail
<1> DEFINE o == syncMap[k]
           one == [kind |-> "string", is |-> 1, ttl |-> None]
           up == [o EXCEPT !.is = Plus1(@)]
<1>1. Text(1) # None /\ 1 \in Strings
  BY ConstantsAssumption DEF Texts, Strings
<1>2. CASE ~Live(k)
  <2>1. Put(k, one) /\ answer' = [value |-> Text(1)] /\ UNCHANGED <<serving, now>>
    BY <1>2 DEF Incr, Reply, envVars
  <2>2. one \in Object /\ Value(one) = Text(1) /\ ~Expired(one)
    BY <1>1 DEF Object, Value, Text, Expired
  <2> HIDE DEF one
  <2>3. Seen' = [Seen EXCEPT ![k] = Text(1)]
    BY <2>1, <2>2, SeenAfterPut
  <2>4. Seen[k] = None
    BY <1>2, SeenAt
  <2>5. Succ(Seen[k]) = Text(1)
    BY <2>4 DEF Succ
  <2> QED BY <1>1, <2>1, <2>3, <2>5 DEF KS!Increment, KS!Write, KS!Answer
<1>3. CASE Live(k) /\ o.kind = "string" /\ o.is \notin Word
  <2>1. Put(k, up) /\ answer' = [value |-> Text(Plus1(o.is))] /\ UNCHANGED <<serving, now>>
    BY <1>3 DEF Incr, Reply, envVars
  <2>2. o \in Object /\ Seen[k] = Value(o) /\ Seen[k] # None
    BY <1>3, SeenAt, NoneIsNothing DEF Live, Stored, StoreOK
  <2>3. o \in [kind : {"string"}, is : Strings, ttl : Nat \cup {None}]
    BY <1>3, <2>2 DEF Object, Structures
  <2>4. o.is \in MinInt .. MaxInt
    BY <1>3, <2>3 DEF Strings
  <2>5. Plus1(o.is) \in MinInt .. MaxInt
    BY <2>4, ConstantsAssumption DEF Plus1
  <2>6. PICK n \in Strings : n = Plus1(o.is)
    BY <2>5 DEF Strings
  <2>7. up = [kind |-> "string", is |-> n, ttl |-> o.ttl]
    BY <2>3, <2>6
  <2>8. up \in Object /\ Value(up) = Text(n)
    BY <2>3, <2>7 DEF Object, Value, Text
  <2>9. ~Expired(up)
    BY <1>3, <2>7 DEF Live, Expired
  <2>10. Succ(Seen[k]) = Text(n)
    <3>1. Seen[k].kind = "string" /\ Seen[k].is = o.is
      BY <1>3, <2>2 DEF Value
    <3> QED BY <1>3, <2>2, <2>6, <3>1 DEF Succ
  <2>11. Text(n) # None
    BY ConstantsAssumption DEF Texts
  <2> HIDE DEF up
  <2>12. Seen' = [Seen EXCEPT ![k] = Text(n)]
    BY <2>1, <2>8, <2>9, SeenAfterPut
  <2> QED BY <2>1, <2>6, <2>10, <2>11, <2>12 DEF KS!Increment, KS!Write, KS!Answer
<1>4. CASE Live(k) /\ ~(o.kind = "string" /\ o.is \notin Word)
  <2>1. UNCHANGED storeVars /\ answer' = [error |-> "type"] /\ UNCHANGED <<serving, now>>
    BY <1>4 DEF Incr, Reply, envVars
  <2>2. Seen' = Seen
    BY <2>1, SeenStays DEF storeVars
  <2> QED BY <2>1, <2>2 DEF KS!Fail, KS!Answer
<1> QED BY <1>2, <1>3, <1>4

LEMMA OpenShown ==
  ASSUME StoreOK, serving, NEW k \in Key, NEW kind \in Structures, Open(k, kind)
  PROVE  KS!Open(k) \/ KS!Fail
<1> DEFINE o == syncMap[k]
           fresh == [kind |-> kind, is |-> None, ttl |-> None]
<1>1. PICK s \in News : s = New(kind)
  BY DEF News
<1>2. UNCHANGED <<serving, now>>
  BY DEF Open, Reply, envVars
<1>3. CASE o = None
  <2>1. Put(k, fresh) /\ answer' \in {[value |-> s], [error |-> "entry"]}
    BY <1>1, <1>3 DEF Open, Reply
  <2>2. fresh \in Object /\ Value(fresh) = s /\ ~Expired(fresh)
    BY <1>1 DEF Object, Value, New, Expired
  <2> HIDE DEF fresh
  <2>3. Seen' = [Seen EXCEPT ![k] = s]
    BY <1>2, <2>1, <2>2, SeenAfterPut
  <2>4. Seen[k] = None
    BY <1>3, SeenAt DEF Live, Stored
  <2> QED BY <1>1, <1>2, <2>1, <2>3, <2>4 DEF KS!Open, KS!Write, KS!Answer
<1>4. CASE o # None
  <2>1. Touch(k) /\ k \in Stored
    BY <1>4 DEF Open, Stored
  <2>2. Seen' = Seen
    BY <1>2, <2>1, SeenAfterTouch
  <2>3. CASE o.kind = kind
    <3>1. answer' \in {[value |-> s], [error |-> "entry"]}
      BY <1>1, <1>4, <2>3 DEF Open, Reply
    <3>2. o \in Object
      BY <2>1 DEF Stored, StoreOK
    <3>3. o.is = None /\ o.ttl = None
      BY <2>3, <3>2 DEF Object, Structures
    <3>4. Live(k) /\ Value(o) = s
      BY <1>1, <2>1, <2>3, <3>3 DEF Live, Expired, Value, New
    <3>5. Seen[k] = s
      BY <3>4, SeenAt
    <3>6. Seen' = [Seen EXCEPT ![k] = s]
      BY <2>2, <3>5 DEF Seen
    <3> QED BY <1>1, <1>2, <3>1, <3>5, <3>6 DEF KS!Open, KS!Write, KS!Answer
  <2>4. CASE o.kind # kind
    <3>1. answer' = [error |-> "type"]
      BY <1>4, <2>4 DEF Open, Reply
    <3> QED BY <1>2, <2>2, <3>1 DEF KS!Fail, KS!Answer
  <2> QED BY <2>3, <2>4
<1> QED BY <1>3, <1>4

\* What a client sees of the store has gone, all of it or a part.
LEMMA VanishShown ==
  ASSUME \A k \in Key : Seen'[k] \in {Seen[k], None}, UNCHANGED <<answer, serving>>
  PROVE  KS!Vanish
<1> DEFINE gone == {k \in Key : Seen'[k] = None}
<1>1. \A k \in Key : Seen'[k] = IF k \in gone THEN None ELSE Seen[k]
  OBVIOUS
<1>2. Seen' = [k \in Key |-> Seen'[k]]
  BY DEF Seen
<1>3. Seen' = [k \in Key |-> IF k \in gone THEN None ELSE Seen[k]]
  BY <1>1, <1>2
<1> QED BY <1>3 DEF KS!Vanish

LEMMA EvictOneShown == ASSUME StoreOK, EvictOne PROVE KS!Vanish
<1>1. UNCHANGED <<answer, serving, now>>
  BY DEF EvictOne, envVars
<1>2. CASE Victims = {}
  <2>1. Seen' = Seen
    BY <1>1, <1>2, SeenStays DEF EvictOne, storeVars
  <2> QED BY <1>1, <2>1, VanishShown
<1>3. CASE Victims # {}
  <2>1. PICK k \in Victims : Delete(k)
    BY <1>3 DEF EvictOne
  <2>2. k \in Key
    BY VictimsAreStored DEF Stored
  <2>3. Seen' = [Seen EXCEPT ![k] = None]
    BY <1>1, <2>1, <2>2, SeenAfterDelete
  <2>4. \A j \in Key : Seen'[j] \in {Seen[j], None}
    BY <2>3 DEF Seen
  <2> QED BY <1>1, <2>4, VanishShown
<1> QED BY <1>2, <1>3

\* Time passes: a key that is not there any more does not come back.
LEMMA TickShown == ASSUME StoreOK, EnvOK, Tick PROVE KS!Vanish
<1>1. UNCHANGED <<answer, serving, syncMap>> /\ now' = now + 1 /\ now \in Nat
  BY ConstantsAssumption DEF Tick, EnvOK, storeVars
<1>2. ASSUME NEW k \in Key, ~Live(k) PROVE ~Live(k)'
  <2>1. CASE syncMap[k] = None
    BY <1>1, <2>1 DEF Live, Stored
  <2>2. CASE syncMap[k] # None
    <3>1. syncMap[k] \in Object /\ syncMap[k].ttl # None /\ syncMap[k].ttl < now
      BY <1>2, <2>2 DEF Live, Stored, Expired, StoreOK
    <3>2. syncMap[k].ttl \in Nat
      BY <3>1 DEF Object
    <3>3. syncMap[k].ttl < now + 1
      BY <1>1, <3>1, <3>2
    <3> QED BY <1>1, <3>1, <3>3 DEF Live, Expired
  <2> QED BY <2>1, <2>2
<1>3. \A k \in Key : Seen'[k] \in {Seen[k], None}
  BY <1>1, <1>2 DEF Seen
<1> QED BY <1>1, <1>3, VanishShown

\* An entry of the dump may have expired before it is loaded.
LEMMA LoadEntryShown ==
  ASSUME StoreOK, NEW e \in Dump, LoadEntry(e)
  PROVE  KS!Vanish \/ \E k \in Key : KS!Load(k)
<1> DEFINE o == [kind |-> "string", is |-> e.is, ttl |-> e.ttl]
<1>1. e.key \in Key /\ o \in Object /\ Value(o) \in Texts
  BY ConstantsAssumption DEF Entries, Object, Value, Texts, Text
<1>2. Put(e.key, o) /\ ~serving /\ UNCHANGED <<serving, now, answer>>
  BY DEF LoadEntry, envVars
<1>3. PICK k \in Key : k = e.key
  BY <1>1
<1> HIDE DEF o
<1>4. Seen' = [Seen EXCEPT ![k] = IF Expired(o) THEN None ELSE Value(o)]
  BY <1>1, <1>2, <1>3, SeenAfterPut
<1>5. CASE Expired(o)
  <2>1. \A j \in Key : Seen'[j] \in {Seen[j], None}
    BY <1>4, <1>5 DEF Seen
  <2> QED BY <1>2, <2>1, VanishShown
<1>6. CASE ~Expired(o)
  BY <1>1, <1>2, <1>4, <1>6 DEF KS!Load
<1> QED BY <1>5, <1>6

LEMMA PanicShown == ASSUME CommandsServed, Panic PROVE KS!Crash
<1>1. Seen' = [k \in Key |-> None]
  BY DEF Panic, Seen, Live, Stored
<1> QED BY <1>1 DEF Panic, CommandsServed, KS!Crash

LEMMA RunShown ==
  ASSUME StoreOK, EnvOK, CommandsServed, Run
  PROVE  KS!Next
<1>1. serving /\ command \in Commands /\ command # None
  BY DEF Run, CommandsServed, EnvOK
<1>2. PICK k \in Key : k = command.key
  BY <1>1, Requests
<1>3. CASE command.op = "set" /\ Set(k, command.is, command.ttl)
  <2>1. KS!Set(k)
    BY <1>1, <1>3, Requests, SetShown
  <2> QED BY <2>1 DEF KS!Next
<1>4. CASE Incr(k)
  <2>1. KS!Increment(k) \/ KS!Fail
    BY <1>1, <1>4, IncrShown
  <2> QED BY <2>1 DEF KS!Next
<1>5. CASE command.op = "open" /\ Open(k, command.kind)
  <2>1. KS!Open(k) \/ KS!Fail
    BY <1>1, <1>5, Requests, OpenShown
  <2> QED BY <2>1 DEF KS!Next
<1> QED BY <1>2, <1>3, <1>4, <1>5 DEF Run

LEMMA StepShown ==
  ASSUME StoreOK, EnvOK, CommandsServed, [Next]_vars
  PROVE  KS!Next \/ UNCHANGED <<Seen, answer, serving>>
<1>1. CASE UNCHANGED vars \/ HeapChanges
  <2>1. UNCHANGED <<syncMap, now, answer, serving>>
    BY <1>1 DEF vars, HeapChanges, storeVars, envVars
  <2> QED BY <2>1, SeenStays
<1>2. CASE Keys
  BY <1>2, KeysShown DEF KS!Next
<1>3. ASSUME ConfigSet \/ \E c \in Sent : Take(c) PROVE KS!Next
  <2>1. UNCHANGED <<syncMap, now, serving>> /\ answer' = None
    BY <1>3 DEF ConfigSet, Take, storeVars, envVars
  <2> QED BY <2>1, SeenStays DEF KS!Hear, KS!Next
<1>4. CASE Start
  <2>1. UNCHANGED <<syncMap, now, answer>> /\ ~serving /\ serving'
    BY <1>4 DEF Start, storeVars, envVars
  <2> QED BY <2>1, SeenStays DEF KS!Start, KS!Next
<1>5. CASE Tick \/ EvictOne
  BY <1>5, TickShown, EvictOneShown DEF KS!Next
<1>6. CASE RejectOOM
  <2>1. UNCHANGED <<syncMap, now, serving>> /\ serving /\ answer' = [error |-> "oom"]
    BY <1>6 DEF RejectOOM, Reply, CommandsServed, storeVars, envVars
  <2> QED BY <2>1, SeenStays DEF KS!Fail, KS!Answer, KS!Next
<1>7. CASE Run
  BY <1>7, RunShown
<1>8. CASE Panic
  BY <1>8, PanicShown DEF KS!Next
<1>9. ASSUME NEW k \in Key, NEW kind \in Kinds, Read(k, kind) PROVE KS!Next
  BY <1>9, LookShown DEF KS!Next
<1>10. ASSUME NEW e \in Dump, LoadEntry(e) PROVE KS!Next
  BY <1>10, LoadEntryShown DEF KS!Next
<1> QED BY <1>1, <1>2, <1>3, <1>4, <1>5, <1>6, <1>7, <1>8, <1>9, <1>10 DEF Next, Execute

\* Whatever the clients send, whenever keys expire and whatever is evicted, the store keeps
\* the promise of KeySpace: a read answers what was written last, if it is still there, and
\* never what has expired; only a write brings a value.
THEOREM StoreKeepsPromise == Spec => KeysPromise
<1>1. Init => KS!Init
  BY DEF Init, KS!Init, Seen, Live, Stored
<1>2. KInv /\ [Next]_vars => [KS!Next]_(KS!vars)
  BY StepShown, InvariantInParts DEF KS!vars
<1>3. KInv /\ [Next]_vars => KInv'
  BY StepKeeps
<1> QED BY <1>1, <1>2, <1>3, StartsRight, PTL DEF Spec, KeysPromise, KS!Spec

-----------------------------------------------------------------------------
(* The way from the tail.                                                  *)

\* Of some numbers one is the least.
LEMMA LeastNumber ==
  ASSUME NEW S \in SUBSET Nat, S # {}
  PROVE  \E x \in S : \A y \in S : x <= y
<1> DEFINE R == {p \in Nat \X Nat : p[1] < p[2]}
<1>1. IsWellFoundedOn(R, Nat)
  BY NatLessThanWellFounded DEF OpToRel
<1>2. PICK x \in S : \A y \in S : <<y, x>> \notin R
  BY <1>1, WFMin
<1>3. ASSUME NEW y \in S, y < x PROVE FALSE
  <2>1. <<y, x>> \in R
    BY <1>3
  <2> QED BY <1>2, <2>1
<1> QED BY <1>3

\* What was used before a key on the way lies behind.
LeavesNoneOut(S, u, way, n) ==
  \A i \in 0 .. n :
    way[i] \in S /\ \A c \in S : <<c, way[i]>> \in u => \E j \in 0 .. i - 1 : way[j] = c

\* The way meets the keys in the order of their use and leaves none out.
LEMMA WayLeavesNoneOut ==
  ASSUME NEW l \in Tracker, NEW S \in SUBSET Key, NEW u, InOrder(l, u, S),
         NEW n \in Nat, NEW way \in [0 .. n -> Key], Way(l, way, n)
  PROVE  LeavesNoneOut(S, u, way, n)
<1> DEFINE Good(i) ==
      way[i] \in S /\ \A c \in S : <<c, way[i]>> \in u => \E j \in 0 .. i - 1 : way[j] = c
<1>1. /\ StrictOrder(u, S)
      /\ \A a \in Key : l.tail = a <=> Least(u, S, a)
      /\ \A a, b \in Key : l.prev[b] = a <=> Follows(u, S, a, b)
  BY DEF InOrder
<1>2. Good(0)
  <2>1. way[0] \in Key /\ way[0] = l.tail
    BY DEF Way
  <2>2. Least(u, S, way[0])
    BY <1>1, <2>1
  <2>3. ASSUME NEW c \in S, <<c, way[0]>> \in u PROVE FALSE
    <3>1. PICK w \in S : w = way[0] /\ \A b \in S : b # w => <<w, b>> \in u
      BY <2>2 DEF Least
    <3>2. <<c, w>> \in u /\ c # w /\ <<w, w>> \notin u
      BY <1>1, <2>3, <3>1 DEF StrictOrder
    <3>3. <<w, c>> \in u
      BY <3>1, <3>2
    <3> QED BY <1>1, <3>2, <3>3 DEF StrictOrder
  <2> QED BY <2>2, <2>3 DEF Least
<1>3. ASSUME NEW i \in 1 .. n, Good(i - 1) PROVE Good(i)
  <2>1. /\ i - 1 \in 0 .. n /\ way[i] \in Key /\ way[i-1] \in Key
        /\ way[i] = l.prev[way[i-1]]
    BY DEF Way
  <2>2. Follows(u, S, way[i], way[i-1])
    BY <1>1, <2>1
  <2>3. ASSUME NEW c \in S, <<c, way[i]>> \in u PROVE \E j \in 0 .. i - 1 : way[j] = c
    <3>1. CASE c = way[i-1]
      BY <3>1
    <3>2. CASE c # way[i-1]
      <4>1. <<c, way[i-1]>> \in u
        BY <1>1, <2>2, <2>3, <3>2 DEF Follows, StrictOrder
      <4>2. PICK j \in 0 .. (i - 1) - 1 : way[j] = c
        BY <1>3, <4>1
      <4> QED BY <4>2
    <3> QED BY <3>1, <3>2
  <2> QED BY <2>2, <2>3 DEF Follows
<1>4. ASSUME NEW i \in 0 .. n, ~Good(i) PROVE FALSE
  <2> DEFINE B == {k \in 0 .. n : ~Good(k)}
  <2>1. B \in SUBSET Nat /\ B # {}
    BY <1>4
  <2>2. PICK x \in B : \A y \in B : x <= y
    BY <2>1, LeastNumber
  <2>3. x # 0
    BY <1>2, <2>2
  <2>4. x \in 1 .. n /\ x - 1 \in 0 .. n /\ ~(x <= x - 1)
    BY <2>2, <2>3
  <2>5. Good(x - 1)
    BY <2>2, <2>4
  <2>6. Good(x)
    BY <1>3, <2>4, <2>5
  <2> QED BY <2>2, <2>6
<1> QED BY <1>4 DEF LeavesNoneOut

LEMMA FirstIsLeast ==
  ASSUME NEW l \in Tracker, NEW S \in SUBSET Key, NEW u, InOrder(l, u, S),
         NEW V \in SUBSET S, NEW k \in FirstFromLRU(l, V)
  PROVE  Least({e \in u : {e[1], e[2]} \subseteq V}, V, k)
<1>1. l.size \in Int
  BY DEF Tracker
<1>2. PICK n \in 0 .. l.size - 1 : \E way \in [0 .. n -> Key] :
        Way(l, way, n) /\ way[n] = k /\ \A i \in 0 .. n - 1 : way[i] \notin V
  BY DEF FirstFromLRU
<1> PICK way \in [0 .. n -> Key] :
      Way(l, way, n) /\ way[n] = k /\ \A i \in 0 .. n - 1 : way[i] \notin V
  BY <1>2
<1>3. n \in Nat /\ n \in 0 .. n
  BY <1>1
<1>4. k \in V
  BY DEF FirstFromLRU
<1>5. \A c \in S : <<c, k>> \in u => \E j \in 0 .. n - 1 : way[j] = c
  <2>1. LeavesNoneOut(S, u, way, n)
    BY <1>3, WayLeavesNoneOut
  <2> QED BY <1>3, <2>1 DEF LeavesNoneOut
<1>6. ASSUME NEW b \in V, b # k PROVE <<k, b>> \in u
  <2>1. <<b, k>> \notin u
    BY <1>5
  <2> QED BY <1>4, <1>6, <2>1 DEF InOrder, StrictOrder
<1> QED BY <1>4, <1>6 DEF Least

\* EvictionFollowsPolicy: before a command a key leaves the store only with the limit
\* exceeded, and it is the key not used for longest under allkeys-lru, of those with a time
\* to live under volatile-lru, one with a time to live under volatile-random, and one that
\* expires soonest under volatile-ttl (evictIfNeeded, evictOne).
THEOREM PolicyIsFollowed == Spec => EvictionFollowsPolicy
<1> DEFINE ToGo(k) ==
      /\ memory = "over"
      /\ \/ policy = "allkeys-lru"  /\ Least(used, Stored, k)
         \/ policy = "allkeys-random"
         \/ policy = "volatile-lru" /\ Least({e \in used : {e[1], e[2]} \subseteq Volatile}, Volatile, k)
         \/ policy = "volatile-random" /\ k \in Volatile
         \/ policy = "volatile-ttl" /\ Soonest(k)
<1>1. ASSUME KInv, [Next]_vars, NEW k \in Stored, k \notin Stored', command # None, serving'
      PROVE  ToGo(k)
  <2>1. StoreOK /\ EnvOK
    BY <1>1, InvariantInParts
  <2>2. EvictOne /\ k \in Victims
    BY <1>1, <2>1, OnlyEvictionRemoves
  <2>3. memory = "over"
    BY <2>2 DEF EvictOne, MustEvict
  <2>4. k \in Key
    BY DEF Stored
  <2>5. ASSUME policy = "allkeys-lru" PROVE Least(used, Stored, k)
    <3>1. lruTracker.tail = k
      BY <2>2, <2>5 DEF Victims
    <3> QED BY <3>1, <2>1, <2>4 DEF StoreOK, TrackerAgrees, InOrder
  <2>6. ASSUME policy = "volatile-random" PROVE k \in Volatile
    BY <2>2, <2>6 DEF Victims
  <2>7. ASSUME policy = "volatile-ttl" PROVE Soonest(k)
    BY <2>2, <2>7 DEF Victims
  <2>8. ASSUME policy = "volatile-lru"
        PROVE  Least({e \in used : {e[1], e[2]} \subseteq Volatile}, Volatile, k)
    <3>1. k \in FirstFromLRU(lruTracker, Volatile)
      BY <2>2, <2>8 DEF Victims
    <3>2. lruTracker \in Tracker /\ InOrder(lruTracker, used, Stored)
      BY <2>1 DEF StoreOK, TrackerAgrees
    <3>3. Volatile \in SUBSET Stored /\ Stored \in SUBSET Key
      BY DEF Volatile, Stored
    <3> QED BY <3>1, <3>2, <3>3, FirstIsLeast
  <2>9. policy \in {"allkeys-lru", "allkeys-random", "volatile-lru", "volatile-random", "volatile-ttl"}
    BY <2>2 DEF Victims
  <2> QED BY <2>3, <2>5, <2>6, <2>7, <2>8, <2>9
<1>2. KInv /\ [Next]_vars =>
        [\A k \in Stored : k \notin Stored' /\ command # None /\ serving' => ToGo(k)]_vars
  BY <1>1
<1> QED BY <1>2, KeyStoreInductive, PTL DEF Spec, EvictionFollowsPolicy
=============================================================================
