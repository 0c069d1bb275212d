------------------------ MODULE ConsumerGroupsProofs ------------------------
(***************************************************************************)
(* Proofs about ConsumerGroups: first the order of IDs and the scan of a   *)
(* range, then what each operation does to one group, stated on values,    *)
(* then the state machine.                                                 *)
(***************************************************************************)
EXTENDS ConsumerGroups, FiniteSetTheorems, TLAPS

-----------------------------------------------------------------------------
(* The order of IDs.                                                       *)

LEMMA IDParts ==
  ASSUME NEW a \in ID
  PROVE  a[1] \in 0 .. MaxUint /\ a[2] \in 0 .. MaxUint /\ a = <<a[1], a[2]>>
  BY DEF ID

LEMMA Irreflexive ==
  ASSUME NEW a \in ID
  PROVE  ~Before(a, a)
  BY IDParts, MaxAssumption DEF Before

LEMMA Transitive ==
  ASSUME NEW a \in ID, NEW b \in ID, NEW c \in ID
  PROVE  /\ Before(a, b) /\ Before(b, c) => Before(a, c)
         /\ AtMost(a, b) /\ Before(b, c) => Before(a, c)
         /\ Before(a, b) /\ AtMost(b, c) => Before(a, c)
         /\ AtMost(a, b) /\ AtMost(b, c) => AtMost(a, c)
<1>1. /\ a[1] \in Int /\ b[1] \in Int /\ c[1] \in Int
      /\ a[2] \in Int /\ b[2] \in Int /\ c[2] \in Int
  BY IDParts, MaxAssumption
<1>2. Before(a, b) /\ Before(b, c) => Before(a, c)
  BY <1>1 DEF Before
<1> QED
  BY <1>2 DEF AtMost

LEMMA Total ==
  ASSUME NEW a \in ID, NEW b \in ID
  PROVE  /\ AtMost(a, b) \/ Before(b, a)
         /\ ~(AtMost(a, b) /\ Before(b, a))
<1>1. /\ a[1] \in Int /\ b[1] \in Int
      /\ a[2] \in Int /\ b[2] \in Int
  BY IDParts, MaxAssumption
<1>2. a = <<a[1], a[2]>> /\ b = <<b[1], b[2]>>
  BY IDParts
<1>3. a = b \/ Before(a, b) \/ Before(b, a)
  BY <1>1, <1>2 DEF Before
<1>4. ~(a = b /\ Before(b, a)) /\ ~(Before(a, b) /\ Before(b, a))
  BY <1>1 DEF Before
<1> QED
  BY <1>3, <1>4 DEF AtMost

LEMMA TopIsLast ==
  ASSUME NEW a \in ID
  PROVE  AtMost(a, Top)
<1>1. a[1] \in 0 .. MaxUint /\ a[2] \in 0 .. MaxUint /\ a = <<a[1], a[2]>>
  BY IDParts
<1> QED
  BY <1>1, MaxAssumption DEF AtMost, Before, Top

LEMMA Ends ==
  Zero \in ID /\ Top \in ID /\ None \notin ID
  BY MaxAssumption DEF Zero, Top, ID

\* Unless the number wraps, nothing is between an ID and the one after it.
LEMMA AfterIsNext ==
  ASSUME NEW a \in ID
  PROVE  /\ After(a) \in ID
         /\ a[2] # MaxUint => \A i \in ID : AtMost(After(a), i) <=> Before(a, i)
<1>1. a[1] \in 0 .. MaxUint /\ a[2] \in 0 .. MaxUint
  BY IDParts
<1>2. After(a) \in ID
  BY <1>1, MaxAssumption DEF After, ID
<1>3. ASSUME a[2] # MaxUint, NEW i \in ID
      PROVE  AtMost(After(a), i) <=> Before(a, i)
  <2>1. i[1] \in 0 .. MaxUint /\ i[2] \in 0 .. MaxUint /\ i = <<i[1], i[2]>>
    BY IDParts
  <2>2. After(a) = <<a[1], a[2] + 1>>
    BY <1>3 DEF After
  <2> QED
    BY <1>1, <2>1, <2>2, MaxAssumption DEF AtMost, Before
<1> QED
  BY <1>2, <1>3

LEMMA AfterIsNotFar ==
  ASSUME NEW a \in ID, NEW i \in ID, Before(a, i)
  PROVE  AtMost(After(a), i)
<1>1. CASE a[2] # MaxUint
  BY <1>1, AfterIsNext
<1>2. CASE a[2] = MaxUint
  <2>1. /\ a[1] \in 0 .. MaxUint /\ i[1] \in 0 .. MaxUint /\ i[2] \in 0 .. MaxUint
        /\ i = <<i[1], i[2]>>
    BY IDParts
  <2>2. After(a) = <<a[1], 0>>
    BY <1>2 DEF After
  <2> QED
    BY <1>2, <2>1, <2>2, MaxAssumption DEF AtMost, Before
<1> QED
  BY <1>1, <1>2

LEMMA IDFinite == IsFiniteSet(ID)
<1>1. IsFiniteSet(0 .. MaxUint)
  BY FS_Interval, MaxAssumption
<1> QED
  BY <1>1, FS_Product DEF ID

LEMMA SubsetFinite ==
  ASSUME NEW S \in SUBSET ID
  PROVE  IsFiniteSet(S) /\ Cardinality(S) \in Nat
  BY IDFinite, FS_Subset, FS_CardinalityType

-----------------------------------------------------------------------------
(* Streams.                                                                *)

\* In a stream positions and IDs have the same order.
LEMMA Positions ==
  ASSUME NEW s \in Seq(ID), Increasing(s), NEW i \in DOMAIN s, NEW j \in DOMAIN s
  PROVE  i <= j <=> AtMost(s[i], s[j])
<1>1. s[i] \in ID /\ s[j] \in ID /\ i \in Int /\ j \in Int
  OBVIOUS
<1>2. CASE i < j
  BY <1>1, <1>2 DEF Increasing, AtMost
<1>3. CASE i = j
  BY <1>1, <1>3 DEF AtMost
<1>4. CASE j < i
  <2>1. Before(s[j], s[i])
    BY <1>4 DEF Increasing
  <2>2. ~AtMost(s[i], s[j])
    BY <1>1, <2>1, Total
  <2> QED
    BY <1>1, <1>4, <2>2
<1> QED
  BY <1>1, <1>2, <1>3, <1>4

\* RangeScan of a stream whose IDs increase is inclusive when its end is an entry or the maximum.
LEMMA ScanIsInclusive ==
  ASSUME NEW s \in Seq(ID), Increasing(s), NEW a \in ID, NEW b \in ID,
         b = Top \/ \E j \in DOMAIN s : s[j] = b
  PROVE  Scan(s, a, b) = {i \in DOMAIN s : AtMost(a, s[i]) /\ AtMost(s[i], b)}
<1>1. ASSUME NEW i \in DOMAIN s
      PROVE  Reached(s, a, i) <=> AtMost(a, s[i])
  <2>1. s[i] \in ID /\ i \in Nat /\ i \in 1 .. Len(s) /\ i \in 1 .. i
    OBVIOUS
  <2>2. ASSUME NEW j \in 1 .. i, AtMost(a, s[j])
        PROVE  AtMost(a, s[i])
    <3>1. j \in DOMAIN s /\ s[j] \in ID /\ j <= i
      BY <2>1
    <3>2. AtMost(s[j], s[i])
      BY <3>1, Positions
    <3> QED
      BY <2>1, <2>2, <3>1, <3>2, Transitive
  <2> QED
    BY <2>1, <2>2 DEF Reached
<1>2. ASSUME NEW i \in DOMAIN s
      PROVE  (\A j \in DOMAIN s : AtMost(b, s[j]) => i <= j) <=> AtMost(s[i], b)
  <2>1. s[i] \in ID
    OBVIOUS
  <2>2. ASSUME AtMost(s[i], b), NEW j \in DOMAIN s, AtMost(b, s[j])
        PROVE  i <= j
    <3>1. AtMost(s[i], s[j])
      BY <2>1, <2>2, s[j] \in ID, Transitive
    <3> QED
      BY <3>1, Positions
  <2>3. ASSUME \A j \in DOMAIN s : AtMost(b, s[j]) => i <= j
        PROVE  AtMost(s[i], b)
    <3>1. CASE b = Top
      BY <2>1, <3>1, TopIsLast
    <3>2. ASSUME NEW j \in DOMAIN s, s[j] = b
          PROVE  AtMost(s[i], b)
      <4>1. i <= j
        BY <2>3, <3>2 DEF AtMost
      <4> QED
        BY <3>2, <4>1, Positions
    <3> QED
      BY <3>1, <3>2
  <2> QED
    BY <2>2, <2>3
<1> QED
  BY <1>1, <1>2 DEF Scan

\* An ID that XADD takes makes the stream one longer, and is after all that is there.
LEMMA AppendIncreases ==
  ASSUME NEW s \in Seq(ID), Increasing(s), NEW id \in ID, Accepts(s, id)
  PROVE  /\ Increasing(Append(s, id))
         /\ \A j \in DOMAIN s : Before(s[j], id)
<1> DEFINE z == Append(s, id)
<1>1. /\ Len(z) = Len(s) + 1 /\ Len(s) \in Nat /\ DOMAIN z = 1 .. Len(s) + 1
      /\ DOMAIN s = 1 .. Len(s)
      /\ z[Len(s) + 1] = id /\ \A j \in 1 .. Len(s) : z[j] = s[j]
  OBVIOUS
<1>2. ASSUME NEW j \in DOMAIN s
      PROVE  Before(s[j], id)
  <2>1. s # <<>> /\ j \in 1 .. Len(s) /\ Len(s) \in DOMAIN s
    BY <1>1
  <2>2. Before(s[Len(s)], id)
    BY <2>1 DEF Accepts
  <2>3. AtMost(s[j], s[Len(s)])
    BY <2>1, Positions
  <2>4. s[j] \in ID /\ s[Len(s)] \in ID
    BY <2>1
  <2> QED
    BY <2>2, <2>3, <2>4, Transitive
<1> HIDE DEF z
<1>3. ASSUME NEW i \in DOMAIN z, NEW j \in DOMAIN z, i < j
      PROVE  Before(z[i], z[j])
  <2>1. i \in 1 .. Len(s)
    BY <1>1, <1>3
  <2>2. CASE j \in 1 .. Len(s)
    BY <1>1, <1>3, <2>1, <2>2 DEF Increasing
  <2>3. CASE j = Len(s) + 1
    BY <1>1, <1>2, <2>1, <2>3
  <2> QED
    BY <1>1, <2>2, <2>3
<1> QED
  BY <1>2, <1>3 DEF Increasing, z

\* D is made of entries of s after the ID a, with no entry left out between a and one of D.
Follow(D, s, a) ==
  /\ \A d \in D : \E j \in DOMAIN s : s[j] = d
  /\ \A d \in D, j \in DOMAIN s : AtMost(s[j], d) /\ AtMost(After(a), s[j]) => s[j] \in D
  /\ \A d \in D : AtMost(After(a), d)

Largest(a, D) == \A d \in D : AtMost(d, a)

LEMMA NewEntries ==
  ASSUME NEW s \in Seq(ID), Increasing(s), NEW a \in ID, NEW n \in Nat
  PROVE  LET D == IdsAt(s, FirstOf(Scan(s, After(a), Top), n))
         IN  D \in SUBSET ID /\ Follow(D, s, a)
<1> DEFINE I == Scan(s, After(a), Top)
           F == FirstOf(I, n)
           D == IdsAt(s, F)
<1>1. I = {i \in DOMAIN s : AtMost(After(a), s[i])}
  BY ScanIsInclusive, AfterIsNext, Ends, TopIsLast
<1> HIDE DEF I
<1>2. F \subseteq I /\ I \subseteq DOMAIN s
  BY <1>1 DEF FirstOf
<1>3. ASSUME NEW i \in F, NEW j \in I, j <= i
      PROVE  j \in F
  <2>1. /\ i \in Int /\ j \in Int /\ n \in Int
        /\ \A k \in I : k \in Int
    BY <1>2
  <2>2. n = 0 \/ ~ \E k \in I : k + n <= i
    BY DEF FirstOf
  <2>3. ASSUME NEW k \in I, k + n <= j
        PROVE  k + n <= i
    BY <1>3, <2>1, <2>3
  <2> QED
    BY <2>2, <2>3 DEF FirstOf
<1> HIDE DEF F
<1>4. ASSUME NEW d \in D, NEW j \in DOMAIN s, AtMost(s[j], d), AtMost(After(a), s[j])
      PROVE  s[j] \in D
  <2>1. PICK i \in F : d = s[i]
    BY DEF IdsAt
  <2>2. i \in DOMAIN s /\ j \in I
    BY <1>1, <1>2, <1>4
  <2>3. j <= i
    BY <1>4, <2>1, <2>2, Positions
  <2> QED
    BY <1>3, <2>2, <2>3 DEF IdsAt
<1>5. /\ D \in SUBSET ID
      /\ \A d \in D : \E j \in DOMAIN s : s[j] = d
      /\ \A d \in D : AtMost(After(a), d)
  BY <1>1, <1>2 DEF IdsAt
<1> HIDE DEF D
<1>6. Follow(D, s, a)
  BY <1>4, <1>5 DEF Follow
<1> QED
  BY <1>5, <1>6 DEF D, F, I

-----------------------------------------------------------------------------
(* One group: the last ID l, the numbers nm of the consumers, the owners   *)
(* ow of the pending entries, and the histories ac, pa and rw.             *)

PendingOf(ow) == {i \in ID : ow[i] # None}
OwnedOf(ow, c) == {i \in ID : ow[i] = c}

GroupType(l, nm, ow, ac, pa, rw) ==
  /\ l \in ID \cup {None}
  /\ nm \in [Consumer -> Nat \cup {None}]
  /\ ow \in [ID -> Consumer \cup {Nobody, None}]
  /\ ac \in SUBSET ID /\ pa \in SUBSET ID
  /\ rw \in BOOLEAN

KnownIn(s, nm, ow) ==
  \A i \in ID : ow[i] # None =>
    /\ \E j \in DOMAIN s : s[j] = i
    /\ ow[i] \in Consumer => nm[ow[i]] # None

CoveredIn(s, l, ow, ac, pa) ==
  \A i \in ID : AtMost(i, l) =>
    \/ i \in PendingOf(ow) \cup ac \cup pa
    \/ \E n \in DOMAIN s : AtMost(i, s[n]) /\ \A j \in DOMAIN s : s[j] # i

CountedIn(nm, ow, rw) ==
  \A c \in Consumer : nm[c] # None =>
    /\ nm[c] >= Cardinality(OwnedOf(ow, c))
    /\ ~rw => nm[c] = Cardinality(OwnedOf(ow, c))

BehindIn(l, ow, ac) == \A i \in PendingOf(ow) \cup ac : AtMost(i, l)

Good(s, l, nm, ow, ac, pa, rw) ==
  /\ l = None => PendingOf(ow) \cup ac \cup pa = {}
  /\ KnownIn(s, nm, ow)
  /\ l # None => CoveredIn(s, l, ow, ac, pa)
  /\ CountedIn(nm, ow, rw)
  /\ ~rw => ac \cap PendingOf(ow) = {}
  /\ l # None /\ ~rw => BehindIn(l, ow, ac)

\* The numbers and the owners after XGROUP DELCONSUMER, XREADGROUP, XACK and XCLAIM.
Without(nm, c)  == [nm EXCEPT ![c] = None]
Orphaned(ow, c) == [i \in ID |-> IF ow[i] = c THEN Nobody ELSE ow[i]]
Plus(nm, c, n)  == [nm EXCEPT ![c] = (IF nm[c] = None THEN 0 ELSE nm[c]) + n]
To(ow, c, D)    == [i \in ID |-> IF i \in D THEN c ELSE ow[i]]

AckedNums(nm, ow, A) ==
  [c \in Consumer |-> IF nm[c] = None THEN None ELSE nm[c] - Cardinality(A \cap OwnedOf(ow, c))]

ClaimedNums(nm, ow, c, C) ==
  [b \in Consumer |->
     IF b = c THEN (IF nm[c] = None THEN 0 ELSE nm[c]) + Cardinality(C \ OwnedOf(ow, c))
     ELSE IF nm[b] = None THEN None
     ELSE nm[b] - Cardinality(C \cap OwnedOf(ow, b))]

LEMMA NobodyIsNone == Nobody # None /\ \A c \in Consumer : c # None /\ c # Nobody
  BY ConstantsAssumption

LEMMA GoodEmpty ==
  ASSUME NEW s \in Seq(ID)
  PROVE  /\ Good(s, None, NoNums, NoOwners, {}, {}, FALSE)
         /\ \A a \in ID : Good(s, a, NoNums, NoOwners, {}, Upto(a), FALSE)
<1>1. PendingOf(NoOwners) = {}
  BY DEF PendingOf, NoOwners
<1>2. KnownIn(s, NoNums, NoOwners) /\ CountedIn(NoNums, NoOwners, FALSE)
  BY DEF KnownIn, CountedIn, NoNums, NoOwners
<1>3. ASSUME NEW a \in ID
      PROVE  CoveredIn(s, a, NoOwners, {}, Upto(a)) /\ BehindIn(a, NoOwners, {})
  BY <1>1 DEF CoveredIn, BehindIn, Upto
<1> QED
  BY <1>1, <1>2, <1>3, Ends DEF Good

\* A new entry is after all that is covered.
LEMMA GoodAppend ==
  ASSUME NEW s \in Seq(ID), Increasing(s), NEW id \in ID, Accepts(s, id),
         NEW l, NEW nm, NEW ow, NEW ac, NEW pa, NEW rw,
         GroupType(l, nm, ow, ac, pa, rw), Good(s, l, nm, ow, ac, pa, rw)
  PROVE  Good(Append(s, id), l, nm, ow, ac, pa, rw)
<1> DEFINE z == Append(s, id)
<1>1. /\ DOMAIN s \subseteq DOMAIN z
      /\ \A j \in DOMAIN s : z[j] = s[j]
      /\ \A j \in DOMAIN z : j \in DOMAIN s \/ z[j] = id
  OBVIOUS
<1> HIDE DEF z
<1>2. KnownIn(z, nm, ow)
  BY <1>1 DEF Good, KnownIn
<1>3. ASSUME NEW i \in ID, NEW n \in DOMAIN s, AtMost(i, s[n]), \A j \in DOMAIN s : s[j] # i
      PROVE  AtMost(i, z[n]) /\ \A j \in DOMAIN z : z[j] # i
  <2>1. s[n] \in ID /\ Before(s[n], id)
    BY AppendIncreases
  <2>2. i # id
    BY <1>3, <2>1, Transitive, Irreflexive
  <2> QED
    BY <1>1, <1>3, <2>2
<1>4. l # None => CoveredIn(z, l, ow, ac, pa)
  BY <1>1, <1>3 DEF Good, CoveredIn
<1> QED
  BY <1>2, <1>4 DEF Good, z

LEMMA GoodSetID ==
  ASSUME NEW s \in Seq(ID), NEW l, NEW nm, NEW ow, NEW ac, NEW pa, NEW rw,
         GroupType(l, nm, ow, ac, pa, rw), Good(s, l, nm, ow, ac, pa, rw),
         l # None, NEW a \in ID, NEW rr \in BOOLEAN, rw \/ Before(a, l) => rr
  PROVE  Good(s, a, nm, ow, ac, pa \cup Upto(a), rr)
<1>1. l \in ID /\ ow \in [ID -> Consumer \cup {Nobody, None}] /\ ac \subseteq ID /\ rw \in BOOLEAN
  BY DEF GroupType
<1>2. CoveredIn(s, a, ow, ac, pa \cup Upto(a))
  BY DEF CoveredIn, Upto
<1>3. ASSUME ~rr
      PROVE  BehindIn(a, ow, ac)
  <2>1. AtMost(l, a)
    BY <1>1, <1>3, Total
  <2>2. BehindIn(l, ow, ac)
    BY <1>3 DEF Good
  <2>3. PendingOf(ow) \cup ac \subseteq ID
    BY <1>1 DEF PendingOf
  <2> QED
    BY <1>1, <2>1, <2>2, <2>3, Transitive DEF BehindIn
<1>4. CountedIn(nm, ow, rr)
  BY DEF Good, CountedIn
<1>5. ~rr => ac \cap PendingOf(ow) = {}
  BY DEF Good
<1> QED
  BY <1>2, <1>3, <1>4, <1>5, Ends DEF Good

LEMMA GoodDelete ==
  ASSUME NEW s \in Seq(ID), NEW l, NEW nm, NEW ow, NEW ac, NEW pa, NEW rw,
         GroupType(l, nm, ow, ac, pa, rw), Good(s, l, nm, ow, ac, pa, rw),
         NEW c \in Consumer
  PROVE  /\ GroupType(l, Without(nm, c), Orphaned(ow, c), ac, pa, rw)
         /\ Good(s, l, Without(nm, c), Orphaned(ow, c), ac, pa, rw)
<1> DEFINE nn == Without(nm, c)
           oo == Orphaned(ow, c)
<1>1. nm \in [Consumer -> Nat \cup {None}] /\ ow \in [ID -> Consumer \cup {Nobody, None}]
  BY DEF GroupType
<1>2. /\ nn \in [Consumer -> Nat \cup {None}] /\ oo \in [ID -> Consumer \cup {Nobody, None}]
      /\ nn[c] = None /\ \A b \in Consumer : b # c => nn[b] = nm[b]
      /\ \A i \in ID : oo[i] = IF ow[i] = c THEN Nobody ELSE ow[i]
  BY <1>1 DEF Without, Orphaned
<1> HIDE DEF nn, oo
<1>3. PendingOf(oo) = PendingOf(ow)
  BY <1>2, NobodyIsNone DEF PendingOf
<1>4. ASSUME NEW b \in Consumer, b # c
      PROVE  OwnedOf(oo, b) = OwnedOf(ow, b)
  BY <1>2, <1>4, NobodyIsNone DEF OwnedOf
<1>5. KnownIn(s, nn, oo)
  BY <1>2, NobodyIsNone DEF Good, KnownIn
<1>6. CountedIn(nn, oo, rw)
  BY <1>2, <1>4 DEF Good, CountedIn
<1>7. l # None => CoveredIn(s, l, oo, ac, pa)
  BY <1>3 DEF Good, CoveredIn
<1>8. BehindIn(l, ow, ac) => BehindIn(l, oo, ac)
  BY <1>3 DEF BehindIn
<1>9. Good(s, l, nn, oo, ac, pa, rw)
  BY <1>3, <1>5, <1>6, <1>7, <1>8 DEF Good
<1> QED
  BY <1>2, <1>9 DEF GroupType, nn, oo

\* XREADGROUP hands out entries after the last ID and leaves none aside; the last ID is then the
\* largest of them.
LEMMA GoodRead ==
  ASSUME NEW s \in Seq(ID), NEW l, NEW nm, NEW ow, NEW ac, NEW pa, NEW rw,
         GroupType(l, nm, ow, ac, pa, rw), Good(s, l, nm, ow, ac, pa, rw),
         l # None, NEW c \in Consumer,
         NEW D \in SUBSET ID, Follow(D, s, l),
         NEW a \in D \cup {l}, Largest(a, D \cup {l}),
         NEW rr \in BOOLEAN, rw \/ l[2] = MaxUint => rr
  PROVE  /\ GroupType(a, Plus(nm, c, Cardinality(D)), To(ow, c, D), ac, pa, rr)
         /\ Good(s, a, Plus(nm, c, Cardinality(D)), To(ow, c, D), ac, pa, rr)
<1> DEFINE N == IF nm[c] = None THEN 0 ELSE nm[c]
           nn == Plus(nm, c, Cardinality(D))
           oo == To(ow, c, D)
<1>1. /\ nm \in [Consumer -> Nat \cup {None}] /\ ow \in [ID -> Consumer \cup {Nobody, None}]
      /\ l \in ID /\ a \in ID /\ ac \subseteq ID /\ pa \subseteq ID
  BY DEF GroupType
<1>2. Cardinality(D) \in Nat /\ IsFiniteSet(D)
  BY SubsetFinite
<1>3. N \in Nat
  BY <1>1
<1>4. /\ nn \in [Consumer -> Nat \cup {None}] /\ oo \in [ID -> Consumer \cup {Nobody, None}]
      /\ nn[c] = N + Cardinality(D) /\ \A b \in Consumer : b # c => nn[b] = nm[b]
      /\ \A i \in ID : oo[i] = IF i \in D THEN c ELSE ow[i]
  BY <1>1, <1>2, <1>3 DEF Plus, To
<1> HIDE DEF nn, oo, N
<1>5. PendingOf(oo) = PendingOf(ow) \cup D
  BY <1>4, NobodyIsNone DEF PendingOf
<1>6. nn[c] # None
  BY <1>2, <1>3, <1>4, MaxAssumption
<1>7. KnownIn(s, nn, oo)
  BY <1>4, <1>6 DEF Good, KnownIn, Follow
<1>8. AtMost(l, a) /\ \A d \in D : AtMost(d, a)
  BY DEF Largest
<1>9. CoveredIn(s, a, oo, ac, pa)
  <2>1. SUFFICES ASSUME NEW i \in ID, AtMost(i, a), i \notin PendingOf(oo) \cup ac \cup pa
                 PROVE  \E n \in DOMAIN s : AtMost(i, s[n]) /\ \A j \in DOMAIN s : s[j] # i
    BY DEF CoveredIn
  <2>2. i \notin PendingOf(ow) \cup ac \cup pa /\ i \notin D
    BY <1>5, <2>1
  <2>3. CASE AtMost(i, l)
    BY <2>2, <2>3 DEF Good, CoveredIn
  <2>4. CASE ~AtMost(i, l)
    <3>1. Before(l, i) /\ a # l /\ a \in D
      BY <1>1, <2>1, <2>4, Total
    <3>2. PICK n \in DOMAIN s : s[n] = a
      BY <3>1 DEF Follow
    <3>3. AtMost(After(l), i)
      BY <1>1, <3>1, AfterIsNotFar
    <3>4. \A j \in DOMAIN s : s[j] # i
      BY <2>1, <2>2, <3>1, <3>3 DEF Follow
    <3> QED
      BY <2>1, <3>2, <3>4
  <2> QED
    BY <2>3, <2>4
<1>10. ASSUME ~rr
       PROVE  /\ BehindIn(l, ow, ac) /\ ~rw
              /\ D \cap (PendingOf(ow) \cup ac) = {}
  <2>1. BehindIn(l, ow, ac) /\ ~rw /\ l[2] # MaxUint
    BY <1>10 DEF Good
  <2>2. \A d \in D : Before(l, d)
    BY <1>1, <2>1, AfterIsNext DEF Follow
  <2> QED
    BY <1>1, <2>1, <2>2, Total DEF BehindIn
<1>11. CountedIn(nn, oo, rr)
  <2>1. SUFFICES ASSUME NEW b \in Consumer, nn[b] # None
                 PROVE  /\ nn[b] >= Cardinality(OwnedOf(oo, b))
                        /\ ~rr => nn[b] = Cardinality(OwnedOf(oo, b))
    BY DEF CountedIn
  <2> DEFINE O == OwnedOf(ow, b)
  <2>2. O \in SUBSET ID /\ IsFiniteSet(O) /\ Cardinality(O) \in Nat
    BY SubsetFinite DEF OwnedOf
  <2>3. ~rr => D \cap O = {}
    BY <1>10, NobodyIsNone DEF PendingOf, OwnedOf
  <2>4. CASE b = c
    <3>1. OwnedOf(oo, b) = O \cup D
      BY <1>4, <2>4 DEF OwnedOf
    <3>2. Cardinality(O \cup D) = Cardinality(O) + Cardinality(D) - Cardinality(O \cap D)
      BY <1>2, <2>2, FS_Union
    <3>3. Cardinality(O \cap D) \in Nat
      BY <2>2, SubsetFinite
    <3>4. N >= Cardinality(O) /\ (~rr => N = Cardinality(O))
      <4>1. CASE nm[c] = None
        <5>1. \A i \in ID : ow[i] # b
          BY <2>4, <4>1, NobodyIsNone DEF Good, KnownIn
        <5>2. O = {}
          BY <5>1 DEF OwnedOf
        <5>3. Cardinality(O) = 0
          BY <5>2, FS_EmptySet
        <5>4. N = 0
          BY <4>1 DEF N
        <5> QED
          BY <5>3, <5>4
      <4>2. CASE nm[c] # None
        <5>1. N = nm[c]
          BY <4>2 DEF N
        <5>2. N >= Cardinality(O) /\ (~rw => N = Cardinality(O))
          BY <2>4, <4>2, <5>1 DEF Good, CountedIn
        <5> QED
          BY <5>2, <1>10
      <4> QED
        BY <4>1, <4>2
    <3>5. ~rr => Cardinality(O \cap D) = 0
      <4>1. O \cap D = D \cap O
        OBVIOUS
      <4> QED
        BY <2>3, <4>1, FS_EmptySet
    <3> HIDE DEF O
    <3> QED
      BY <1>2, <1>3, <1>4, <2>2, <2>4, <3>1, <3>2, <3>3, <3>4, <3>5
  <2>5. CASE b # c
    <3>1. OwnedOf(oo, b) = O \ D
      BY <1>4, <2>5 DEF OwnedOf
    <3>2. nn[b] = nm[b] /\ nm[b] \in Nat
      BY <1>1, <1>4, <2>1, <2>5
    <3>3. nm[b] >= Cardinality(O) /\ (~rw => nm[b] = Cardinality(O))
      BY <2>1, <3>2 DEF Good, CountedIn
    <3>4. Cardinality(O \ D) \in Nat /\ Cardinality(O \ D) <= Cardinality(O)
      BY <2>2, SubsetFinite, FS_Subset
    <3>5. ~rr => O \ D = O
      BY <2>3
    <3>6. ~rr => Cardinality(O \ D) = Cardinality(O) /\ ~rw
      BY <3>5, <1>10
    <3> HIDE DEF O
    <3>7. nm[b] >= Cardinality(O \ D)
      BY <2>2, <3>2, <3>3, <3>4
    <3>8. ~rr => nm[b] = Cardinality(O \ D)
      BY <3>3, <3>6
    <3> QED
      BY <3>1, <3>2, <3>7, <3>8
  <2> QED
    BY <2>4, <2>5
<1>12. ~rr => ac \cap PendingOf(oo) = {}
  BY <1>5, <1>10 DEF Good
<1>13. ~rr => BehindIn(a, oo, ac)
  <2>1. ASSUME ~rr, NEW i \in PendingOf(oo) \cup ac
        PROVE  AtMost(i, a)
    <3>1. CASE i \in D
      BY <1>8, <3>1
    <3>2. CASE i \notin D
      <4>1. i \in PendingOf(ow) \cup ac /\ i \in ID
        BY <1>1, <1>5, <2>1, <3>2 DEF PendingOf
      <4>2. AtMost(i, l)
        BY <1>10, <2>1, <4>1 DEF BehindIn
      <4> QED
        BY <1>1, <1>8, <4>1, <4>2, Transitive
    <3> QED
      BY <3>1, <3>2
  <2> QED
    BY <2>1 DEF BehindIn
<1>14. Good(s, a, nn, oo, ac, pa, rr)
  BY <1>1, <1>7, <1>9, <1>11, <1>12, <1>13, Ends DEF Good
<1>15. GroupType(a, nn, oo, ac, pa, rr)
  BY <1>1, <1>4 DEF GroupType
<1> QED
  BY <1>14, <1>15 DEF nn, oo

\* What leaves a consumer's list leaves its number too.
LEMMA Parted ==
  ASSUME NEW O \in SUBSET ID, NEW A \in SUBSET ID
  PROVE  /\ Cardinality(O) \in Nat /\ Cardinality(A \cap O) \in Nat /\ Cardinality(O \ A) \in Nat
         /\ Cardinality(O \ A) = Cardinality(O) - Cardinality(A \cap O)
<1>1. A \cap O = O \cap A
  OBVIOUS
<1>2. /\ IsFiniteSet(O) /\ Cardinality(O) \in Nat /\ Cardinality(O \cap A) \in Nat
      /\ Cardinality(O \ A) \in Nat
  BY SubsetFinite
<1>3. Cardinality(O \ A) = Cardinality(O) - Cardinality(O \cap A)
  BY <1>2, FS_Difference
<1> QED
  BY <1>1, <1>2, <1>3

LEMMA GoodAck ==
  ASSUME NEW s \in Seq(ID), NEW l, NEW nm, NEW ow, NEW ac, NEW pa, NEW rw,
         GroupType(l, nm, ow, ac, pa, rw), Good(s, l, nm, ow, ac, pa, rw),
         l # None, NEW A \in SUBSET PendingOf(ow)
  PROVE  /\ GroupType(l, AckedNums(nm, ow, A), To(ow, None, A), ac \cup A, pa, rw)
         /\ Good(s, l, AckedNums(nm, ow, A), To(ow, None, A), ac \cup A, pa, rw)
<1> DEFINE nn == AckedNums(nm, ow, A)
           oo == To(ow, None, A)
<1>1. /\ nm \in [Consumer -> Nat \cup {None}] /\ ow \in [ID -> Consumer \cup {Nobody, None}]
      /\ l \in ID /\ ac \subseteq ID /\ pa \subseteq ID /\ A \subseteq ID
  BY DEF GroupType, PendingOf
<1>2. /\ oo \in [ID -> Consumer \cup {Nobody, None}]
      /\ \A i \in ID : oo[i] = IF i \in A THEN None ELSE ow[i]
  BY <1>1 DEF To
<1>3. ASSUME NEW c \in Consumer
      PROVE  nn[c] = IF nm[c] = None THEN None ELSE nm[c] - Cardinality(A \cap OwnedOf(ow, c))
  BY DEF AckedNums
<1>4. nn = [c \in Consumer |-> nn[c]]
  BY DEF AckedNums
<1> HIDE DEF nn, oo
<1>5. ASSUME NEW c \in Consumer, nm[c] # None
      PROVE  /\ nn[c] \in Nat
             /\ nn[c] >= Cardinality(OwnedOf(oo, c))
             /\ ~rw => nn[c] = Cardinality(OwnedOf(oo, c))
  <2> DEFINE O == OwnedOf(ow, c)
  <2>1. O \in SUBSET ID
    BY DEF OwnedOf
  <2>2. OwnedOf(oo, c) = O \ A
    BY <1>2, NobodyIsNone DEF OwnedOf
  <2>3. nn[c] = nm[c] - Cardinality(A \cap O) /\ nm[c] \in Nat
    BY <1>1, <1>3, <1>5
  <2>4. nm[c] >= Cardinality(O) /\ (~rw => nm[c] = Cardinality(O))
    BY <1>5 DEF Good, CountedIn
  <2> HIDE DEF O
  <2>5. /\ Cardinality(O) \in Nat /\ Cardinality(A \cap O) \in Nat /\ Cardinality(O \ A) \in Nat
        /\ Cardinality(O \ A) = Cardinality(O) - Cardinality(A \cap O)
    BY <1>1, <2>1, Parted
  <2>6. nn[c] \in Nat /\ nn[c] >= Cardinality(O \ A)
    BY <2>3, <2>4, <2>5
  <2>7. ~rw => nn[c] = Cardinality(O \ A)
    BY <2>3, <2>4, <2>5
  <2> QED
    BY <2>2, <2>6, <2>7
<1>6. \A c \in Consumer : nn[c] \in Nat \cup {None} /\ (nn[c] = None <=> nm[c] = None)
  BY <1>3, <1>5, MaxAssumption
<1>7. PendingOf(oo) = PendingOf(ow) \ A
  BY <1>2 DEF PendingOf
<1>8. KnownIn(s, nn, oo)
  <2>1. \A i \in ID : oo[i] # None => oo[i] = ow[i]
    BY <1>2
  <2> QED
    BY <1>6, <2>1 DEF Good, KnownIn
<1>9. CountedIn(nn, oo, rw)
  BY <1>5, <1>6 DEF CountedIn
<1>10. CoveredIn(s, l, oo, ac \cup A, pa)
  BY <1>7 DEF Good, CoveredIn
<1>11. ~rw => (ac \cup A) \cap PendingOf(oo) = {}
  BY <1>7 DEF Good
<1>12. BehindIn(l, ow, ac) => BehindIn(l, oo, ac \cup A)
  BY <1>7 DEF BehindIn
<1>13. Good(s, l, nn, oo, ac \cup A, pa, rw)
  BY <1>1, <1>8, <1>9, <1>10, <1>11, <1>12, Ends DEF Good
<1>14. nn \in [Consumer -> Nat \cup {None}]
  BY <1>4, <1>6
<1>15. GroupType(l, nn, oo, ac \cup A, pa, rw)
  BY <1>1, <1>2, <1>14 DEF GroupType
<1> QED
  BY <1>13, <1>15 DEF nn, oo

LEMMA GoodClaim ==
  ASSUME NEW s \in Seq(ID), NEW l, NEW nm, NEW ow, NEW ac, NEW pa, NEW rw,
         GroupType(l, nm, ow, ac, pa, rw), Good(s, l, nm, ow, ac, pa, rw),
         l # None, NEW c \in Consumer, NEW C \in SUBSET PendingOf(ow)
  PROVE  /\ GroupType(l, ClaimedNums(nm, ow, c, C), To(ow, c, C), ac, pa, rw)
         /\ Good(s, l, ClaimedNums(nm, ow, c, C), To(ow, c, C), ac, pa, rw)
<1> DEFINE N  == IF nm[c] = None THEN 0 ELSE nm[c]
           nn == ClaimedNums(nm, ow, c, C)
           oo == To(ow, c, C)
<1>1. /\ nm \in [Consumer -> Nat \cup {None}] /\ ow \in [ID -> Consumer \cup {Nobody, None}]
      /\ l \in ID /\ ac \subseteq ID /\ pa \subseteq ID /\ C \subseteq ID
  BY DEF GroupType, PendingOf
<1>2. /\ oo \in [ID -> Consumer \cup {Nobody, None}]
      /\ \A i \in ID : oo[i] = IF i \in C THEN c ELSE ow[i]
  BY <1>1 DEF To
<1>3. nn[c] = N + Cardinality(C \ OwnedOf(ow, c))
  BY DEF ClaimedNums
<1>4. ASSUME NEW b \in Consumer, b # c
      PROVE  nn[b] = IF nm[b] = None THEN None ELSE nm[b] - Cardinality(C \cap OwnedOf(ow, b))
  BY <1>4 DEF ClaimedNums
<1>5. nn = [b \in Consumer |-> nn[b]]
  BY DEF ClaimedNums
<1> HIDE DEF nn, oo
<1>6. ASSUME NEW b \in Consumer, nm[b] # None, b # c
      PROVE  /\ nn[b] \in Nat
             /\ nn[b] >= Cardinality(OwnedOf(oo, b))
             /\ ~rw => nn[b] = Cardinality(OwnedOf(oo, b))
  <2> DEFINE O == OwnedOf(ow, b)
  <2>1. O \in SUBSET ID
    BY DEF OwnedOf
  <2>2. OwnedOf(oo, b) = O \ C
    BY <1>2, <1>6 DEF OwnedOf
  <2>3. nn[b] = nm[b] - Cardinality(C \cap O) /\ nm[b] \in Nat
    BY <1>1, <1>4, <1>6
  <2>4. nm[b] >= Cardinality(O) /\ (~rw => nm[b] = Cardinality(O))
    BY <1>6 DEF Good, CountedIn
  <2> HIDE DEF O
  <2>5. /\ Cardinality(O) \in Nat /\ Cardinality(C \cap O) \in Nat /\ Cardinality(O \ C) \in Nat
        /\ Cardinality(O \ C) = Cardinality(O) - Cardinality(C \cap O)
    BY <1>1, <2>1, Parted
  <2>6. nn[b] \in Nat /\ nn[b] >= Cardinality(O \ C)
    BY <2>3, <2>4, <2>5
  <2>7. ~rw => nn[b] = Cardinality(O \ C)
    BY <2>3, <2>4, <2>5
  <2> QED
    BY <2>2, <2>6, <2>7
<1>7. /\ nn[c] \in Nat
      /\ nn[c] >= Cardinality(OwnedOf(oo, c))
      /\ ~rw => nn[c] = Cardinality(OwnedOf(oo, c))
  <2> DEFINE O == OwnedOf(ow, c)
  <2>1. O \in SUBSET ID /\ C \ O \in SUBSET ID
    BY <1>1 DEF OwnedOf
  <2>2. OwnedOf(oo, c) = O \cup (C \ O)
    <3>1. \A i \in ID : oo[i] = c <=> (i \in C \/ ow[i] = c)
      BY <1>2
    <3> HIDE DEF O
    <3>2. \A i \in ID : i \in O <=> ow[i] = c
      BY DEF O, OwnedOf
    <3>3. OwnedOf(oo, c) \subseteq O \cup (C \ O)
      BY <3>1, <3>2 DEF OwnedOf
    <3>4. O \cup (C \ O) \subseteq OwnedOf(oo, c)
      BY <1>1, <2>1, <3>1, <3>2 DEF OwnedOf
    <3> QED
      BY <3>3, <3>4
  <2>3. N \in Nat
    BY <1>1
  <2>4. N >= Cardinality(O) /\ (~rw => N = Cardinality(O))
    <3>1. CASE nm[c] = None
      <4>1. O = {}
        BY <3>1, NobodyIsNone DEF Good, KnownIn, OwnedOf
      <4>2. Cardinality(O) = 0
        BY <4>1, FS_EmptySet
      <4>3. N = 0
        BY <3>1
      <4> QED
        BY <4>2, <4>3
    <3>2. CASE nm[c] # None
      <4>1. N = nm[c]
        BY <3>2
      <4> QED
        BY <3>2, <4>1 DEF Good, CountedIn
    <3> QED
      BY <3>1, <3>2
  <2>5. nn[c] = N + Cardinality(C \ O)
    BY <1>3
  <2> HIDE DEF O, N
  <2>6. /\ IsFiniteSet(O) /\ Cardinality(O) \in Nat
        /\ IsFiniteSet(C \ O) /\ Cardinality(C \ O) \in Nat
    BY <2>1, SubsetFinite
  <2>7. Cardinality(O \cup (C \ O)) = Cardinality(O) + Cardinality(C \ O) - Cardinality(O \cap (C \ O))
    BY <2>6, FS_Union
  <2>8. Cardinality(O \cap (C \ O)) = 0
    <3>1. O \cap (C \ O) = {}
      OBVIOUS
    <3> QED
      BY <3>1, FS_EmptySet
  <2>9. Cardinality(O \cup (C \ O)) = Cardinality(O) + Cardinality(C \ O)
    BY <2>6, <2>7, <2>8
  <2>10. nn[c] \in Nat /\ nn[c] >= Cardinality(O \cup (C \ O))
    BY <2>3, <2>4, <2>5, <2>6, <2>9
  <2>11. ~rw => nn[c] = Cardinality(O \cup (C \ O))
    BY <2>4, <2>5, <2>9
  <2> QED
    BY <2>2, <2>10, <2>11
<1>8. /\ \A b \in Consumer : nn[b] \in Nat \cup {None} /\ (nn[b] = None => nm[b] = None)
      /\ nn[c] # None
  BY <1>4, <1>6, <1>7, MaxAssumption
<1>9. PendingOf(oo) = PendingOf(ow)
  BY <1>2, NobodyIsNone DEF PendingOf
<1>10. KnownIn(s, nn, oo)
  BY <1>2, <1>8 DEF Good, KnownIn, PendingOf
<1>11. CountedIn(nn, oo, rw)
  <2>1. SUFFICES ASSUME NEW b \in Consumer, nn[b] # None
                 PROVE  /\ nn[b] >= Cardinality(OwnedOf(oo, b))
                        /\ ~rw => nn[b] = Cardinality(OwnedOf(oo, b))
    BY DEF CountedIn
  <2>2. CASE b = c
    BY <1>7, <2>2
  <2>3. CASE b # c
    BY <1>4, <1>6, <2>1, <2>3
  <2> QED
    BY <2>2, <2>3
<1>12. Good(s, l, nn, oo, ac, pa, rw)
  BY <1>1, <1>9, <1>10, <1>11, Ends DEF Good, CoveredIn, BehindIn
<1>13. nn \in [Consumer -> Nat \cup {None}]
  BY <1>5, <1>8
<1>14. GroupType(l, nn, oo, ac, pa, rw)
  BY <1>1, <1>2, <1>13 DEF GroupType
<1> QED
  BY <1>12, <1>14 DEF nn, oo

-----------------------------------------------------------------------------
(* The state machine: the invariant, by groups, and the types of what the  *)
(* executor does besides.                                                  *)

GoodAt(g) == Good(Entries, last[g], num[g], owner[g], acked[g], passed[g], rewound[g])

IInv ==
  /\ TypeOK
  /\ Increasing(Entries)
  /\ stream = None => \A g \in Group : last[g] = None
  /\ \A g \in Group : GoodAt(g)

RestOK ==
  /\ parked \in Seq(Waiting)
  /\ sent \in [Reader -> (SUBSET ID) \cup {None}]
  /\ now \in FirstMs .. LastMs

LEMMA TypeParts ==
  ASSUME TypeOK
  PROVE  /\ RestOK
         /\ Entries \in Seq(ID) /\ now \in Nat /\ (stream # None => stream = Entries)
         /\ \A g \in Group :
              /\ GroupType(last[g], num[g], owner[g], acked[g], passed[g], rewound[g])
              /\ since[g] \in [ID -> Nat]
<1>1. RestOK
  BY DEF TypeOK, RestOK
<1>2. Entries \in Seq(ID) /\ (stream # None => stream = Entries)
  BY DEF TypeOK, Entries
<1>3. now \in Nat
  BY ConstantsAssumption DEF TypeOK
<1>4. ASSUME NEW g \in Group
      PROVE  /\ GroupType(last[g], num[g], owner[g], acked[g], passed[g], rewound[g])
             /\ since[g] \in [ID -> Nat]
  <2>1. rewound[g] \in BOOLEAN
    BY DEF TypeOK
  <2>2. /\ last[g] \in ID \cup {None}
        /\ num[g] \in [Consumer -> Nat \cup {None}]
        /\ owner[g] \in [ID -> Consumer \cup {Nobody, None}]
        /\ acked[g] \in SUBSET ID /\ passed[g] \in SUBSET ID
        /\ since[g] \in [ID -> Nat]
    BY DEF TypeOK
  <2> QED
    BY <2>1, <2>2 DEF GroupType
<1> QED
  BY <1>1, <1>2, <1>3, <1>4

LEMMA InvParts ==
  ASSUME IInv, OncePerReader
  PROVE  GInv
<1>1. TypeOK
  BY DEF IInv
<1>2. ASSUME NEW g \in Group
      PROVE  /\ Pending(g) = PendingOf(owner[g])
             /\ \A c \in Consumer : Owned(g, c) = OwnedOf(owner[g], c)
  BY DEF Pending, PendingOf, Owned, OwnedOf
<1>3. ASSUME NEW g \in Group, ~Is(g)
      PROVE  last[g] = None /\ Pending(g) \cup acked[g] \cup passed[g] = {}
  BY <1>2, <1>3 DEF IInv, GoodAt, Good, Is
<1>4. ASSUME NEW g \in Group, NEW i \in ID, owner[g][i] # None
      PROVE  /\ \E j \in DOMAIN Entries : Entries[j] = i
             /\ owner[g][i] \in Consumer => num[g][owner[g][i]] # None
  BY <1>4 DEF IInv, GoodAt, Good, KnownIn
<1>5. Shape
  BY <1>3, <1>4 DEF Shape, IInv
<1>6. Covered
  <2>1. SUFFICES ASSUME NEW g \in Group, Is(g), NEW i \in ID, AtMost(i, last[g])
                 PROVE  \/ i \in Handled(g)
                        \/ \E n \in DOMAIN stream :
                             AtMost(i, stream[n]) /\ \A j \in DOMAIN stream : stream[j] # i
    BY DEF Covered
  <2>2. stream = Entries /\ last[g] # None
    BY <2>1 DEF Is, Entries
  <2>3. CoveredIn(Entries, last[g], owner[g], acked[g], passed[g])
    BY <2>2 DEF IInv, GoodAt, Good
  <2> QED
    BY <1>2, <2>1, <2>2, <2>3 DEF CoveredIn, Handled
<1>7. CountsAgree
  <2>1. SUFFICES ASSUME NEW g \in Group, NEW c \in Consumer, num[g][c] # None
                 PROVE  /\ num[g][c] >= Cardinality(Owned(g, c))
                        /\ ~rewound[g] => num[g][c] = Cardinality(Owned(g, c))
    BY DEF CountsAgree
  <2>2. CountedIn(num[g], owner[g], rewound[g])
    BY DEF IInv, GoodAt, Good
  <2> QED
    BY <1>2, <2>1, <2>2 DEF CountedIn
<1>8. AckIsFinal
  BY <1>2 DEF AckIsFinal, IInv, GoodAt, Good
<1>9. Behind
  BY <1>2 DEF Behind, Is, IInv, GoodAt, Good, BehindIn
<1> QED
  BY <1>1, <1>5, <1>6, <1>7, <1>8, <1>9 DEF GInv

LEMMA AnswerType ==
  ASSUME NEW s \in Seq(ID), NEW w
  PROVE  Answer(w, s) \in (SUBSET ID) \cup {None}
<1>1. \A i \in Scan(s, After(w.from), Top) : i \in DOMAIN s
  BY DEF Scan
<1>2. IdsAt(s, Scan(s, After(w.from), Top)) \in SUBSET ID
  BY <1>1 DEF IdsAt
<1> QED
  BY <1>2 DEF Answer

LEMMA LastType ==
  ASSUME NEW s \in Seq(ID)
  PROVE  LastOrZero(s) \in ID /\ Last(s) \in ID \cup {None}
<1>1. CASE s = <<>>
  BY <1>1, Ends DEF LastOrZero, Last
<1>2. CASE s # <<>>
  <2>1. s[Len(s)] \in ID
    BY <1>2
  <2> QED
    BY <1>2, <2>1 DEF LastOrZero, Last
<1> QED
  BY <1>1, <1>2

LEMMA NothingSentType ==
  ASSUME NothingSent
  PROVE  sent' \in [Reader -> (SUBSET ID) \cup {None}]
  BY DEF NothingSent

LEMMA WakeType ==
  ASSUME NEW s \in Seq(ID), parked \in Seq(Waiting), Wake(s)
  PROVE  parked' \in Seq(Waiting) /\ sent' \in [Reader -> (SUBSET ID) \cup {None}]
<1>1. PICK n \in 0 .. Len(parked) :
        /\ sent' = [r \in Reader |-> IF \E i \in 1 .. n : parked[i].reader = r
                      THEN Answer(parked[CHOOSE i \in 1 .. n : parked[i].reader = r], s)
                      ELSE None]
        /\ parked' = [i \in 1 .. Len(parked) - n |->
                        IF i = 1 THEN [parked[n + 1] EXCEPT !.from = LastOrZero(s)]
                        ELSE parked[n + i]]
  BY DEF Wake
<1>2. sent' \in [Reader -> (SUBSET ID) \cup {None}]
  BY <1>1, AnswerType
<1>3. Len(parked) \in Nat /\ Len(parked) - n \in Nat
  OBVIOUS
<1>4. ASSUME NEW i \in 1 .. Len(parked) - n
      PROVE  n + i \in 1 .. Len(parked) /\ parked[n + i] \in Waiting
  <2>1. n + i \in 1 .. Len(parked)
    BY <1>3
  <2> QED
    BY <2>1
<1>5. ASSUME NEW w \in Waiting
      PROVE  [w EXCEPT !.from = LastOrZero(s)] \in Waiting
  BY LastType DEF Waiting
<1>6. ASSUME NEW i \in 1 .. Len(parked) - n
      PROVE  parked'[i] \in Waiting
  <2>1. CASE i = 1
    <3>1. parked'[i] = [parked[n + 1] EXCEPT !.from = LastOrZero(s)]
      BY <1>1, <2>1
    <3>2. parked[n + 1] \in Waiting
      BY <1>4, <2>1
    <3> QED
      BY <1>5, <3>1, <3>2
  <2>2. CASE i # 1
    <3>1. parked'[i] = parked[n + i]
      BY <1>1, <2>2
    <3> QED
      BY <1>4, <3>1
  <2> QED
    BY <2>1, <2>2
<1>7. parked' = [i \in 1 .. Len(parked) - n |-> parked'[i]]
  BY <1>1
<1>8. parked' \in [1 .. Len(parked) - n -> Waiting]
  BY <1>6, <1>7
<1>9. parked' \in Seq(Waiting)
  BY <1>3, <1>8
<1> QED
  BY <1>2, <1>9

LEMMA ParkType ==
  ASSUME TypeOK, NEW r \in Reader, NEW kind \in {"xread", "xreadgroup"}, stream # None,
         Park(r, kind)
  PROVE  parked' \in Seq(Waiting) /\ sent' \in [Reader -> (SUBSET ID) \cup {None}]
<1>1. parked \in Seq(Waiting) /\ stream \in Seq(ID)
  BY DEF TypeOK
<1>2. [reader |-> r, kind |-> kind, from |-> LastOrZero(stream)] \in Waiting
  BY <1>1, LastType DEF Waiting
<1> QED
  BY <1>1, <1>2, NothingSentType DEF Park

LEMMA NextIDType ==
  ASSUME NEW top \in ID \cup {None}, NEW req \in Requests, NEW t \in 0 .. MaxUint
  PROVE  NextID(top, req, t) \in ID \cup {None}
<1>1. top # None => After(top) \in ID /\ top[1] \in 0 .. MaxUint
  BY AfterIsNext, IDParts
<1>2. CASE req.kind = "exact"
  <2>1. req.id \in ID
    BY <1>2 DEF Requests
  <2> QED
    BY <1>2, <2>1 DEF NextID
<1>3. CASE req.kind = "clock"
  <2>1. <<t, 0>> \in ID
    BY MaxAssumption DEF ID
  <2> QED
    BY <1>1, <1>3, <2>1 DEF NextID
<1>4. CASE req.kind = "ms"
  <2>1. req.ms \in 0 .. MaxUint
    BY <1>4 DEF Requests
  <2>2. <<req.ms, 0>> \in ID /\ <<req.ms, 1>> \in ID
    BY <2>1, MaxAssumption DEF ID
  <2>3. CASE top = None
    BY <1>4, <2>2, <2>3 DEF NextID
  <2>4. CASE top # None
    BY <1>1, <1>4, <2>2, <2>4 DEF NextID
  <2> QED
    BY <2>3, <2>4
<1> QED
  BY <1>2, <1>3, <1>4 DEF Requests

-----------------------------------------------------------------------------
(* What a step may do to the groups: nothing, change one, or drop all.     *)

\* No group changes; a stream may have been made.
LEMMA NoGroup ==
  ASSUME IInv, stream' \in {stream, Entries}, RestOK', UNCHANGED <<groupVars, historyVars>>
  PROVE  IInv'
<1>1. Entries' = Entries /\ Entries \in Seq(ID)
  <2>1. Entries \in Seq(ID) /\ None \notin Seq(ID)
    BY TypeParts, MaxAssumption DEF IInv
  <2> QED
    BY <2>1 DEF Entries
<1>2. last' = last /\ num' = num /\ owner' = owner /\ since' = since
  BY DEF groupVars
<1>3. acked' = acked /\ passed' = passed /\ rewound' = rewound
  BY DEF historyVars
<1>4. stream' \in Seq(ID) \cup {None}
  BY <1>1 DEF IInv, TypeOK
<1>5. TypeOK'
  <2>1. rewound' \in [Group -> BOOLEAN]
    BY <1>3 DEF IInv, TypeOK
  <2> QED
    BY <1>2, <1>3, <1>4, <2>1 DEF IInv, TypeOK, RestOK
<1>6. Increasing(Entries)'
  BY <1>1 DEF IInv, Increasing
<1>7. stream' = None => \A g \in Group : last'[g] = None
  <2>1. None \notin Seq(ID)
    BY MaxAssumption
  <2> QED
    BY <1>1, <1>2, <2>1 DEF IInv
<1>8. ASSUME NEW g \in Group
      PROVE  GoodAt(g)'
  <2>1. GoodAt(g)
    BY DEF IInv
  <2> QED
    BY <1>1, <1>2, <1>3, <2>1 DEF GoodAt
<1> QED
  BY <1>5, <1>6, <1>7, <1>8 DEF IInv

\* One group changes, in a stream that is there.
LEMMA OneGroup ==
  ASSUME IInv, stream' = Entries, RestOK', NEW g \in Group,
         NEW l, NEW nm, NEW ow, NEW si, NEW ac, NEW pa, NEW rw,
         last'    = [last    EXCEPT ![g] = l],
         num'     = [num     EXCEPT ![g] = nm],
         owner'   = [owner   EXCEPT ![g] = ow],
         since'   = [since   EXCEPT ![g] = si],
         acked'   = [acked   EXCEPT ![g] = ac],
         passed'  = [passed  EXCEPT ![g] = pa],
         rewound' = [rewound EXCEPT ![g] = rw],
         si \in [ID -> Nat], GroupType(l, nm, ow, ac, pa, rw),
         Good(Entries, l, nm, ow, ac, pa, rw)
  PROVE  IInv'
<1>1. Entries' = Entries /\ Entries \in Seq(ID) /\ stream' # None
  <2>1. Entries \in Seq(ID) /\ None \notin Seq(ID)
    BY TypeParts, MaxAssumption DEF IInv
  <2> QED
    BY <2>1 DEF Entries
<1>2. rewound \in [Group -> BOOLEAN] /\ rw \in BOOLEAN
  BY DEF IInv, TypeOK, GroupType
<1>3. rewound' \in [Group -> BOOLEAN]
  BY <1>2
<1>4. /\ last' \in [Group -> ID \cup {None}]
      /\ num' \in [Group -> [Consumer -> Nat \cup {None}]]
      /\ owner' \in [Group -> [ID -> Consumer \cup {Nobody, None}]]
  BY DEF IInv, TypeOK, GroupType
<1>5. /\ since' \in [Group -> [ID -> Nat]]
      /\ acked' \in [Group -> SUBSET ID] /\ passed' \in [Group -> SUBSET ID]
  BY DEF IInv, TypeOK, GroupType
<1>6. TypeOK'
  BY <1>1, <1>3, <1>4, <1>5 DEF TypeOK, RestOK
<1>7. Increasing(Entries)'
  BY <1>1 DEF IInv, Increasing
<1>8. ASSUME NEW h \in Group
      PROVE  GoodAt(h)'
  <2>1. CASE h = g
    <3>1. /\ last'[h] = l /\ num'[h] = nm /\ owner'[h] = ow
          /\ acked'[h] = ac /\ passed'[h] = pa
      BY <2>1 DEF IInv, TypeOK
    <3>2. rewound'[h] = rw
      BY <1>2, <2>1
    <3> QED
      BY <1>1, <3>1, <3>2 DEF GoodAt
  <2>2. CASE h # g
    <3>1. /\ last'[h] = last[h] /\ num'[h] = num[h] /\ owner'[h] = owner[h]
          /\ acked'[h] = acked[h] /\ passed'[h] = passed[h]
      BY <2>2 DEF IInv, TypeOK
    <3>2. rewound'[h] = rewound[h]
      BY <1>2, <2>2
    <3>3. GoodAt(h)
      BY DEF IInv
    <3> QED
      BY <1>1, <3>1, <3>2, <3>3 DEF GoodAt
  <2> QED
    BY <2>1, <2>2
<1> QED
  BY <1>1, <1>6, <1>7, <1>8 DEF IInv

LEMMA Emptiness ==
  ASSUME RestOK, stream = None,
         last = [g \in Group |-> None], num = [g \in Group |-> NoNums],
         owner = [g \in Group |-> NoOwners], since = [g \in Group |-> NoTimes],
         acked = [g \in Group |-> {}], passed = [g \in Group |-> {}],
         rewound = [g \in Group |-> FALSE]
  PROVE  IInv
<1>1. TypeOK
  <2>1. rewound \in [Group -> BOOLEAN]
    OBVIOUS
  <2>2. NoNums \in [Consumer -> Nat \cup {None}]
    BY DEF NoNums
  <2>3. NoOwners \in [ID -> Consumer \cup {Nobody, None}]
    BY DEF NoOwners
  <2>4. NoTimes \in [ID -> Nat]
    BY DEF NoTimes
  <2> QED
    BY <2>1, <2>2, <2>3, <2>4 DEF TypeOK, RestOK
<1>2. Entries = <<>>
  BY DEF Entries
<1>3. Increasing(Entries)
  BY <1>2 DEF Increasing
<1>4. ASSUME NEW g \in Group
      PROVE  GoodAt(g)
  <2>1. Good(<<>>, None, NoNums, NoOwners, {}, {}, FALSE)
    BY GoodEmpty, <<>> \in Seq(ID)
  <2>2. rewound[g] = FALSE
    OBVIOUS
  <2> QED
    BY <1>2, <2>1, <2>2 DEF GoodAt
<1> QED
  BY <1>1, <1>3, <1>4 DEF IInv

LEMMA InitInv ==
  ASSUME Init
  PROVE  IInv
<1>1. parked \in Seq(Waiting) /\ now \in FirstMs .. LastMs
  BY ConstantsAssumption DEF Init
<1>2. sent \in [Reader -> (SUBSET ID) \cup {None}]
  BY DEF Init
<1>3. RestOK
  BY <1>1, <1>2 DEF RestOK
<1> QED
  BY <1>3, Emptiness DEF Init

LEMMA Vanishing ==
  ASSUME IInv, GroupsVanish, stream' = None, RestOK'
  PROVE  IInv'
<1>1. TypeOK'
  <2>1. rewound' \in [Group -> BOOLEAN]
    BY DEF GroupsVanish
  <2>2. NoNums \in [Consumer -> Nat \cup {None}]
    BY DEF NoNums
  <2>3. NoOwners \in [ID -> Consumer \cup {Nobody, None}]
    BY DEF NoOwners
  <2>4. NoTimes \in [ID -> Nat]
    BY DEF NoTimes
  <2>5. /\ last' = [g \in Group |-> None] /\ num' = [g \in Group |-> NoNums]
        /\ owner' = [g \in Group |-> NoOwners] /\ since' = [g \in Group |-> NoTimes]
        /\ acked' = [g \in Group |-> {}] /\ passed' = [g \in Group |-> {}]
    BY DEF GroupsVanish
  <2> QED
    BY <2>1, <2>2, <2>3, <2>4, <2>5 DEF TypeOK, RestOK
<1>2. Entries' = <<>>
  BY DEF Entries
<1>3. Increasing(Entries)'
  BY <1>2 DEF Increasing
<1>4. ASSUME NEW g \in Group
      PROVE  GoodAt(g)' /\ last'[g] = None
  <2>1. Good(<<>>, None, NoNums, NoOwners, {}, {}, FALSE)
    BY GoodEmpty, <<>> \in Seq(ID)
  <2>2. rewound'[g] = FALSE
    BY DEF GroupsVanish
  <2>3. /\ last'[g] = None /\ num'[g] = NoNums /\ owner'[g] = NoOwners
        /\ acked'[g] = {} /\ passed'[g] = {}
    BY DEF GroupsVanish
  <2> QED
    BY <1>2, <2>1, <2>2, <2>3 DEF GoodAt
<1> QED
  BY <1>1, <1>3, <1>4 DEF IInv

LEMMA Appending ==
  ASSUME IInv, NEW id \in ID, Accepts(Entries, id), stream' = Append(Entries, id), RestOK',
         UNCHANGED <<groupVars, historyVars>>
  PROVE  IInv'
<1>1. Entries \in Seq(ID) /\ Increasing(Entries)
  BY TypeParts DEF IInv
<1>2. stream' \in Seq(ID) /\ stream' # None
  BY <1>1, MaxAssumption
<1>3. Entries' = Append(Entries, id)
  BY <1>2 DEF Entries
<1>4. last' = last /\ num' = num /\ owner' = owner /\ since' = since
  BY DEF groupVars
<1>5. acked' = acked /\ passed' = passed /\ rewound' = rewound
  BY DEF historyVars
<1>6. TypeOK'
  <2>1. rewound' \in [Group -> BOOLEAN]
    BY <1>5 DEF IInv, TypeOK
  <2> QED
    BY <1>2, <1>4, <1>5, <2>1 DEF IInv, TypeOK, RestOK
<1>7. Increasing(Entries)'
  <2>1. Increasing(Append(Entries, id))
    BY <1>1, AppendIncreases
  <2> QED
    BY <1>3, <2>1 DEF Increasing
<1>8. ASSUME NEW g \in Group
      PROVE  GoodAt(g)'
  <2>1. GoodAt(g) /\ GroupType(last[g], num[g], owner[g], acked[g], passed[g], rewound[g])
    BY TypeParts DEF IInv
  <2>2. Good(Append(Entries, id), last[g], num[g], owner[g], acked[g], passed[g], rewound[g])
    BY <1>1, <2>1, GoodAppend DEF GoodAt
  <2> QED
    BY <1>3, <1>4, <1>5, <2>2 DEF GoodAt
<1> QED
  BY <1>2, <1>6, <1>7, <1>8 DEF IInv

-----------------------------------------------------------------------------
(* One lemma per operation on a group: it keeps the invariant.             *)

\* What the lemmas below all start from.
LEMMA Present ==
  ASSUME IInv, NEW g \in Group, Is(g)
  PROVE  /\ stream = Entries /\ stream \in Seq(ID) /\ Increasing(stream)
         /\ last[g] # None /\ last[g] \in ID
         /\ GroupType(last[g], num[g], owner[g], acked[g], passed[g], rewound[g])
         /\ Good(Entries, last[g], num[g], owner[g], acked[g], passed[g], rewound[g])
         /\ since[g] \in [ID -> Nat]
<1>1. stream # None /\ last[g] # None
  BY DEF Is
<1>2. /\ stream = Entries /\ Entries \in Seq(ID)
      /\ GroupType(last[g], num[g], owner[g], acked[g], passed[g], rewound[g])
      /\ since[g] \in [ID -> Nat]
  BY <1>1, TypeParts DEF IInv
<1>3. Increasing(stream) /\ GoodAt(g)
  BY <1>2 DEF IInv
<1> QED
  BY <1>1, <1>2, <1>3 DEF GroupType, GoodAt

LEMMA WakeRest ==
  ASSUME TypeOK, NEW s \in Seq(ID), Wake(s), UNCHANGED now
  PROVE  RestOK'
<1>1. parked \in Seq(Waiting) /\ now \in FirstMs .. LastMs
  BY DEF TypeOK
<1> QED
  BY <1>1, WakeType DEF RestOK

LEMMA StillRest ==
  ASSUME TypeOK, NothingSent, UNCHANGED <<parked, now>>
  PROVE  RestOK'
<1>1. parked \in Seq(Waiting) /\ now \in FirstMs .. LastMs
  BY DEF TypeOK
<1> QED
  BY <1>1, NothingSentType DEF RestOK

LEMMA CreateStep ==
  ASSUME IInv, stream' = Entries, RestOK', NEW g \in Group, NEW a \in ID, CreateGroup(g, a)
  PROVE  IInv'
<1>1. /\ last' = [last EXCEPT ![g] = a]
      /\ num' = [num EXCEPT ![g] = NoNums]
      /\ owner' = [owner EXCEPT ![g] = NoOwners]
      /\ since' = [since EXCEPT ![g] = NoTimes]
      /\ acked' = [acked EXCEPT ![g] = {}]
      /\ passed' = [passed EXCEPT ![g] = Upto(a)]
      /\ rewound' = [rewound EXCEPT ![g] = FALSE]
  BY DEF CreateGroup
<1>2. NoTimes \in [ID -> Nat]
  BY DEF NoTimes
<1>3. GroupType(a, NoNums, NoOwners, {}, Upto(a), FALSE)
  <2>1. NoNums \in [Consumer -> Nat \cup {None}] /\ NoOwners \in [ID -> Consumer \cup {Nobody, None}]
    BY DEF NoNums, NoOwners
  <2> QED
    BY <2>1 DEF GroupType, Upto
<1>4. Good(Entries, a, NoNums, NoOwners, {}, Upto(a), FALSE)
  BY GoodEmpty, TypeParts DEF IInv
<1> QED
  BY <1>1, <1>2, <1>3, <1>4, OneGroup

LEMMA DestroyStep ==
  ASSUME IInv, stream' = Entries, RestOK', NEW g \in Group, DestroyGroup(g)
  PROVE  IInv'
<1>1. /\ last' = [last EXCEPT ![g] = None]
      /\ num' = [num EXCEPT ![g] = NoNums]
      /\ owner' = [owner EXCEPT ![g] = NoOwners]
      /\ since' = [since EXCEPT ![g] = NoTimes]
      /\ acked' = [acked EXCEPT ![g] = {}]
      /\ passed' = [passed EXCEPT ![g] = {}]
      /\ rewound' = [rewound EXCEPT ![g] = FALSE]
  BY DEF DestroyGroup
<1>2. NoTimes \in [ID -> Nat]
  BY DEF NoTimes
<1>3. GroupType(None, NoNums, NoOwners, {}, {}, FALSE)
  <2>1. NoNums \in [Consumer -> Nat \cup {None}] /\ NoOwners \in [ID -> Consumer \cup {Nobody, None}]
    BY DEF NoNums, NoOwners
  <2> QED
    BY <2>1 DEF GroupType
<1>4. Good(Entries, None, NoNums, NoOwners, {}, {}, FALSE)
  BY GoodEmpty, TypeParts DEF IInv
<1> QED
  BY <1>1, <1>2, <1>3, <1>4, OneGroup

\* A variable that is not changed is changed nowhere.
LEMMA Same ==
  ASSUME TypeOK, NEW g \in Group
  PROVE  /\ last = [last EXCEPT ![g] = last[g]] /\ num = [num EXCEPT ![g] = num[g]]
         /\ owner = [owner EXCEPT ![g] = owner[g]] /\ since = [since EXCEPT ![g] = since[g]]
         /\ acked = [acked EXCEPT ![g] = acked[g]] /\ passed = [passed EXCEPT ![g] = passed[g]]
         /\ rewound = [rewound EXCEPT ![g] = rewound[g]]
<1>1. rewound = [rewound EXCEPT ![g] = rewound[g]]
  BY DEF TypeOK
<1> QED
  BY <1>1 DEF TypeOK

LEMMA SetIDStep ==
  ASSUME IInv, stream' = Entries, RestOK', NEW g \in Group, Is(g), NEW a \in ID, SetGroupID(g, a)
  PROVE  IInv'
<1> DEFINE rr == rewound[g] \/ Before(a, last[g])
           pa == passed[g] \cup Upto(a)
<1>1. /\ last' = [last EXCEPT ![g] = a]
      /\ passed' = [passed EXCEPT ![g] = pa]
      /\ rewound' = [rewound EXCEPT ![g] = rr]
      /\ num' = num /\ owner' = owner /\ since' = since /\ acked' = acked
  BY DEF SetGroupID
<1>2. /\ num' = [num EXCEPT ![g] = num[g]] /\ owner' = [owner EXCEPT ![g] = owner[g]]
      /\ since' = [since EXCEPT ![g] = since[g]] /\ acked' = [acked EXCEPT ![g] = acked[g]]
  BY <1>1, Same DEF IInv
<1>3. /\ Entries \in Seq(ID) /\ last[g] # None /\ since[g] \in [ID -> Nat]
      /\ GroupType(last[g], num[g], owner[g], acked[g], passed[g], rewound[g])
      /\ Good(Entries, last[g], num[g], owner[g], acked[g], passed[g], rewound[g])
  BY Present
<1>4. rr \in BOOLEAN /\ (rewound[g] \/ Before(a, last[g]) => rr)
  OBVIOUS
<1> HIDE DEF rr
<1>5. Good(Entries, a, num[g], owner[g], acked[g], pa, rr)
  BY <1>3, <1>4, GoodSetID
<1>6. GroupType(a, num[g], owner[g], acked[g], pa, rr)
  BY <1>3, <1>4 DEF GroupType, Upto
<1> HIDE DEF pa
<1>7. /\ last' = [last EXCEPT ![g] = a] /\ passed' = [passed EXCEPT ![g] = pa]
      /\ rewound' = [rewound EXCEPT ![g] = rr]
  BY <1>1
<1>8. since[g] \in [ID -> Nat]
  BY <1>3
<1> QED
  BY <1>2, <1>5, <1>6, <1>7, <1>8, OneGroup

LEMMA DeleteStep ==
  ASSUME IInv, stream' = Entries, RestOK', NEW g \in Group, Is(g), NEW c \in Consumer,
         DeleteConsumer(g, c)
  PROVE  IInv'
<1> DEFINE nn == Without(num[g], c)
           oo == Orphaned(owner[g], c)
<1>1. num' = [num EXCEPT ![g] = nn] /\ owner' = [owner EXCEPT ![g] = oo]
  BY DEF DeleteConsumer, Without, Orphaned
<1>2. /\ last' = [last EXCEPT ![g] = last[g]] /\ since' = [since EXCEPT ![g] = since[g]]
      /\ acked' = [acked EXCEPT ![g] = acked[g]] /\ passed' = [passed EXCEPT ![g] = passed[g]]
      /\ rewound' = [rewound EXCEPT ![g] = rewound[g]]
  BY Same DEF DeleteConsumer, historyVars, IInv
<1>3. /\ Entries \in Seq(ID) /\ since[g] \in [ID -> Nat]
      /\ GroupType(last[g], num[g], owner[g], acked[g], passed[g], rewound[g])
      /\ Good(Entries, last[g], num[g], owner[g], acked[g], passed[g], rewound[g])
  BY Present
<1>4. /\ GroupType(last[g], nn, oo, acked[g], passed[g], rewound[g])
      /\ Good(Entries, last[g], nn, oo, acked[g], passed[g], rewound[g])
  BY <1>3, GoodDelete
<1> HIDE DEF nn, oo
<1> QED
  BY <1>1, <1>2, <1>3, <1>4, OneGroup

LEMMA ReadStep ==
  ASSUME IInv, stream' = Entries, RestOK', NEW g \in Group, Is(g), NEW c \in Consumer,
         NEW n \in Nat, ReadGroupNewEntries(g, c, n)
  PROVE  IInv'
<1> DEFINE l == last[g]
           D == New(g, n)
           nn == Plus(num[g], c, Cardinality(D))
           oo == To(owner[g], c, D)
           tt == [i \in ID |-> IF i \in D THEN now ELSE since[g][i]]
           rr == rewound[g] \/ l[2] = MaxUint
<1>1. PICK a \in D \cup {l} :
        /\ \A i \in D \cup {l} : AtMost(i, a)
        /\ last' = [last EXCEPT ![g] = a]
  BY DEF ReadGroupNewEntries, AddPending
<1>2. /\ num' = [num EXCEPT ![g] = nn] /\ owner' = [owner EXCEPT ![g] = oo]
      /\ since' = [since EXCEPT ![g] = tt]
  BY DEF ReadGroupNewEntries, AddPending, Number, Plus, To
<1>3. /\ rewound' = [rewound EXCEPT ![g] = rr]
      /\ rr \in BOOLEAN /\ (rewound[g] \/ l[2] = MaxUint => rr)
  BY DEF ReadGroupNewEntries, Wraps
<1>4. acked' = [acked EXCEPT ![g] = acked[g]] /\ passed' = [passed EXCEPT ![g] = passed[g]]
  BY Same DEF ReadGroupNewEntries, IInv
<1>5. /\ stream = Entries /\ Entries \in Seq(ID) /\ Increasing(Entries)
      /\ l # None /\ l \in ID /\ since[g] \in [ID -> Nat]
      /\ GroupType(l, num[g], owner[g], acked[g], passed[g], rewound[g])
      /\ Good(Entries, l, num[g], owner[g], acked[g], passed[g], rewound[g])
  BY Present
<1>6. D = IdsAt(Entries, FirstOf(Scan(Entries, After(l), Top), n))
  BY <1>5 DEF New
<1> HIDE DEF D, l, rr
<1>7. D \in SUBSET ID /\ Follow(D, Entries, l)
  BY <1>5, <1>6, NewEntries
<1>8. /\ GroupType(a, nn, oo, acked[g], passed[g], rr)
      /\ Good(Entries, a, nn, oo, acked[g], passed[g], rr)
  <2>1. rr \in BOOLEAN /\ (rewound[g] \/ l[2] = MaxUint => rr)
    BY <1>3
  <2>2. Largest(a, D \cup {l})
    BY <1>1 DEF Largest
  <2>3. /\ Entries \in Seq(ID) /\ l # None
        /\ GroupType(l, num[g], owner[g], acked[g], passed[g], rewound[g])
        /\ Good(Entries, l, num[g], owner[g], acked[g], passed[g], rewound[g])
    BY <1>5
  <2> HIDE DEF tt
  <2> QED
    BY <1>7, <2>1, <2>2, <2>3, GoodRead
<1>9. tt \in [ID -> Nat]
  BY <1>5, TypeParts DEF IInv
<1> HIDE DEF nn, oo, tt
<1> QED
  BY <1>1, <1>2, <1>3, <1>4, <1>8, <1>9, OneGroup

LEMMA AckStep ==
  ASSUME IInv, stream' = Entries, RestOK', NEW g \in Group, Is(g),
         NEW A \in SUBSET Pending(g), AckEntries(g, A)
  PROVE  IInv'
<1> DEFINE nn == AckedNums(num[g], owner[g], A)
           oo == To(owner[g], None, A)
           tt == [i \in ID |-> IF i \in A THEN 0 ELSE since[g][i]]
<1>1. /\ num' = [num EXCEPT ![g] = nn] /\ owner' = [owner EXCEPT ![g] = oo]
      /\ since' = [since EXCEPT ![g] = tt] /\ acked' = [acked EXCEPT ![g] = acked[g] \cup A]
  BY DEF AckEntries, Owned, OwnedOf, AckedNums, To
<1>2. /\ last' = [last EXCEPT ![g] = last[g]] /\ passed' = [passed EXCEPT ![g] = passed[g]]
      /\ rewound' = [rewound EXCEPT ![g] = rewound[g]]
  BY Same DEF AckEntries, IInv
<1>3. /\ Entries \in Seq(ID) /\ last[g] # None /\ since[g] \in [ID -> Nat]
      /\ GroupType(last[g], num[g], owner[g], acked[g], passed[g], rewound[g])
      /\ Good(Entries, last[g], num[g], owner[g], acked[g], passed[g], rewound[g])
  BY Present
<1>4. A \in SUBSET PendingOf(owner[g])
  BY DEF Pending, PendingOf
<1>5. /\ GroupType(last[g], nn, oo, acked[g] \cup A, passed[g], rewound[g])
      /\ Good(Entries, last[g], nn, oo, acked[g] \cup A, passed[g], rewound[g])
  BY <1>3, <1>4, GoodAck
<1>6. tt \in [ID -> Nat]
  BY <1>3
<1> HIDE DEF nn, oo, tt
<1> QED
  BY <1>1, <1>2, <1>5, <1>6, OneGroup

LEMMA ClaimStep ==
  ASSUME IInv, stream' = Entries, RestOK', NEW g \in Group, Is(g), NEW c \in Consumer,
         NEW C \in SUBSET Pending(g), ClaimEntries(g, c, C)
  PROVE  IInv'
<1> DEFINE nn == ClaimedNums(num[g], owner[g], c, C)
           oo == To(owner[g], c, C)
           tt == [i \in ID |-> IF i \in C THEN now ELSE since[g][i]]
<1>1. /\ num' = [num EXCEPT ![g] = nn] /\ owner' = [owner EXCEPT ![g] = oo]
      /\ since' = [since EXCEPT ![g] = tt]
  BY DEF ClaimEntries, Number, Owned, OwnedOf, ClaimedNums, To
<1>2. /\ last' = [last EXCEPT ![g] = last[g]]
      /\ acked' = [acked EXCEPT ![g] = acked[g]] /\ passed' = [passed EXCEPT ![g] = passed[g]]
      /\ rewound' = [rewound EXCEPT ![g] = rewound[g]]
  BY Same DEF ClaimEntries, historyVars, IInv
<1>3. /\ Entries \in Seq(ID) /\ last[g] # None /\ since[g] \in [ID -> Nat]
      /\ GroupType(last[g], num[g], owner[g], acked[g], passed[g], rewound[g])
      /\ Good(Entries, last[g], num[g], owner[g], acked[g], passed[g], rewound[g])
  BY Present
<1>4. C \in SUBSET PendingOf(owner[g])
  BY DEF Pending, PendingOf
<1>5. /\ GroupType(last[g], nn, oo, acked[g], passed[g], rewound[g])
      /\ Good(Entries, last[g], nn, oo, acked[g], passed[g], rewound[g])
  BY <1>3, <1>4, GoodClaim
<1>6. tt \in [ID -> Nat]
  BY <1>3, TypeParts DEF IInv
<1> HIDE DEF nn, oo, tt
<1> QED
  BY <1>1, <1>2, <1>5, <1>6, OneGroup

-----------------------------------------------------------------------------
(* Every step keeps the invariant.                                         *)

LEMMA AddStep ==
  ASSUME IInv, NEW req \in Added, XAdd(req)
  PROVE  IInv'
<1> DEFINE id == NextID(Last(Entries), req, now)
<1>1. TypeOK /\ Entries \in Seq(ID) /\ UNCHANGED <<groupVars, historyVars, now>>
  BY TypeParts DEF IInv, XAdd
<1>2. id \in ID \cup {None}
  <2>1. now \in 0 .. MaxUint
    BY <1>1, ConstantsAssumption, MaxAssumption DEF TypeOK
  <2>2. Last(Entries) \in ID \cup {None} /\ req \in Requests
    BY <1>1, LastType, ConstantsAssumption
  <2> QED
    BY <2>1, <2>2, NextIDType
<1> HIDE DEF id
<1>3. CASE Accepts(Entries, id)
  <2>1. stream' = Append(Entries, id) /\ Wake(stream') /\ id \in ID
    BY <1>2, <1>3 DEF XAdd, id, Accepts
  <2>2. stream' \in Seq(ID)
    BY <1>1, <2>1
  <2>3. RestOK'
    BY <1>1, <2>1, <2>2, WakeRest
  <2> QED
    BY <1>1, <1>3, <2>1, <2>3, Appending
<1>4. CASE ~Accepts(Entries, id)
  <2>1. stream' = Entries /\ NothingSent /\ UNCHANGED parked
    BY <1>4 DEF XAdd, id
  <2>2. RestOK'
    BY <1>1, <2>1, StillRest
  <2> QED
    BY <1>1, <2>1, <2>2, NoGroup
<1> QED
  BY <1>3, <1>4

LEMMA ReaderStep ==
  ASSUME IInv, NEW r \in Reader, XRead(r) \/ Timeout(r)
  PROVE  IInv'
<1>1. TypeOK /\ UNCHANGED <<stream, groupVars, historyVars, now>>
  BY DEF IInv, XRead, Timeout
<1>2. parked' \in Seq(Waiting) /\ sent' \in [Reader -> (SUBSET ID) \cup {None}]
  <2>1. CASE XRead(r)
    BY <1>1, <2>1, ParkType DEF XRead
  <2>2. CASE Timeout(r)
    <3>1. PICK n \in DOMAIN parked :
            /\ parked' = [i \in 1 .. Len(parked) - 1 |-> IF i < n THEN parked[i] ELSE parked[i + 1]]
            /\ sent' = [q \in Reader |-> IF q = r THEN {} ELSE None]
      BY <2>2 DEF Timeout
    <3>2. parked \in Seq(Waiting) /\ Len(parked) - 1 \in Nat
      BY <1>1, <3>1 DEF TypeOK
    <3>3. \A i \in 1 .. Len(parked) - 1 : parked[i] \in Waiting /\ parked[i + 1] \in Waiting
      BY <3>2
    <3>4. parked' \in [1 .. Len(parked) - 1 -> Waiting]
      BY <3>1, <3>3
    <3>5. parked' \in Seq(Waiting)
      BY <3>2, <3>4
    <3> QED
      BY <3>1, <3>5
  <2> QED
    BY <2>1, <2>2
<1>3. RestOK'
  BY <1>1, <1>2 DEF RestOK, TypeOK
<1> QED
  BY <1>1, <1>3, NoGroup

LEMMA VanishStep ==
  ASSUME IInv, Evict \/ Panic
  PROVE  IInv'
<1>1. TypeOK /\ GroupsVanish /\ stream' = None /\ NothingSent /\ UNCHANGED now
  BY DEF IInv, Evict, Panic
<1>2. parked' = parked \/ parked' = <<>>
  BY DEF Evict, Panic
<1>3. parked' \in Seq(Waiting)
  <2>1. parked \in Seq(Waiting) /\ <<>> \in Seq(Waiting)
    BY <1>1 DEF TypeOK
  <2> QED
    BY <1>2, <2>1
<1>4. RestOK'
  BY <1>1, <1>3, NothingSentType DEF RestOK, TypeOK
<1> QED
  BY <1>1, <1>4, Vanishing

LEMMA TickStep ==
  ASSUME IInv, Tick
  PROVE  IInv'
<1>1. TypeOK /\ NothingSent /\ now' = now + 1 /\ now < LastMs
  BY DEF IInv, Tick
<1>2. now' \in FirstMs .. LastMs /\ parked' \in Seq(Waiting)
  BY <1>1, ConstantsAssumption DEF Tick, TypeOK
<1>3. RestOK'
  BY <1>1, <1>2, NothingSentType DEF RestOK
<1>4. stream' = stream /\ UNCHANGED <<groupVars, historyVars>>
  BY DEF Tick
<1> QED
  BY <1>3, <1>4, NoGroup

LEMMA GroupCreateStep ==
  ASSUME IInv, NEW g \in Group, NEW mkstream \in BOOLEAN, XGroupCreate(g, mkstream)
  PROVE  IInv'
<1>1. TypeOK /\ Entries \in Seq(ID) /\ stream' = Entries /\ UNCHANGED now
  BY TypeParts DEF IInv, XGroupCreate
<1>2. CASE stream = None /\ ~mkstream
  <2>1. NothingSent /\ UNCHANGED <<groupVars, historyVars, parked>>
    BY <1>2 DEF XGroupCreate
  <2>2. RestOK'
    BY <1>1, <2>1, StillRest
  <2> QED
    BY <1>1, <2>1, <2>2, NoGroup
<1>3. CASE ~(stream = None /\ ~mkstream)
  <2>1. PICK a \in Ids(Entries) : CreateGroup(g, a)
    BY <1>3 DEF XGroupCreate
  <2>2. a \in ID
    BY <1>1, <2>1, LastType, ConstantsAssumption DEF Ids
  <2>3. Wake(Entries)
    BY <1>3 DEF XGroupCreate
  <2>4. RestOK'
    BY <1>1, <2>3, WakeRest
  <2> QED
    BY <1>1, <2>1, <2>2, <2>4, CreateStep
<1> QED
  BY <1>2, <1>3

LEMMA GroupStep ==
  ASSUME IInv, NEW g \in Group,
         \/ XGroupDestroy(g) \/ XGroupSetID(g)
         \/ \E A \in SUBSET Pending(g) : XAck(g, A)
         \/ \E c \in Consumer :
              \/ XGroupDelConsumer(g, c)
              \/ \E idle \in MinIdles, A \in SUBSET Pending(g) : XClaim(g, c, idle, A)
  PROVE  IInv'
<1>1. Is(g) /\ Wake(stream) /\ UNCHANGED <<stream, now>>
  BY DEF XGroupDestroy, XGroupSetID, XAck, XGroupDelConsumer, XClaim
<1>2. stream = Entries /\ stream \in Seq(ID) /\ TypeOK
  BY <1>1, Present DEF IInv
<1>3. RestOK' /\ stream' = Entries
  BY <1>1, <1>2, WakeRest
<1>4. CASE XGroupDestroy(g)
  BY <1>3, <1>4, DestroyStep DEF XGroupDestroy
<1>5. CASE XGroupSetID(g)
  <2>1. PICK a \in Ids(stream) : SetGroupID(g, a)
    BY <1>5 DEF XGroupSetID
  <2>2. a \in ID
    BY <1>2, <2>1, LastType, ConstantsAssumption DEF Ids
  <2> QED
    BY <1>1, <1>3, <2>1, <2>2, SetIDStep
<1>6. ASSUME NEW A \in SUBSET Pending(g), XAck(g, A)
      PROVE  IInv'
  BY <1>1, <1>3, <1>6, AckStep DEF XAck
<1>7. ASSUME NEW c \in Consumer, XGroupDelConsumer(g, c)
      PROVE  IInv'
  <2>1. CASE num[g][c] = None
    <3>1. UNCHANGED <<groupVars, historyVars>>
      BY <1>7, <2>1 DEF XGroupDelConsumer
    <3> QED
      BY <1>3, <3>1, NoGroup
  <2>2. CASE num[g][c] # None
    <3>1. DeleteConsumer(g, c)
      BY <1>7, <2>2 DEF XGroupDelConsumer
    <3> QED
      BY <1>1, <1>3, <3>1, DeleteStep
  <2> QED
    BY <2>1, <2>2
<1>8. ASSUME NEW c \in Consumer, NEW idle \in MinIdles, NEW A \in SUBSET Pending(g),
             XClaim(g, c, idle, A)
      PROVE  IInv'
  <2> DEFINE C == {i \in A : now - since[g][i] >= idle}
  <2>1. ClaimEntries(g, c, C) /\ C \in SUBSET Pending(g)
    BY <1>8 DEF XClaim
  <2> HIDE DEF C
  <2> QED
    BY <1>1, <1>3, <2>1, ClaimStep
<1> QED
  BY <1>4, <1>5, <1>6, <1>7, <1>8

LEMMA ReadGroupStep ==
  ASSUME IInv, NEW g \in Group, NEW c \in Consumer,
         \/ \E n \in Counts : XReadGroup(g, c, n)
         \/ \E r \in Reader : XReadGroupBlock(r, g, c)
  PROVE  IInv'
<1>1. Is(g) /\ UNCHANGED <<stream, now>>
  BY DEF XReadGroup, XReadGroupBlock
<1>2. stream = Entries /\ stream' = Entries /\ stream # None /\ TypeOK
  BY <1>1, Present DEF IInv, Is
<1>3. ASSUME NEW n \in Counts, XReadGroup(g, c, n)
      PROVE  IInv'
  <2>1. NothingSent /\ UNCHANGED <<parked, now>> /\ ReadGroupNewEntries(g, c, n)
    BY <1>3 DEF XReadGroup
  <2>2. RestOK' /\ n \in Nat
    BY <1>2, <2>1, StillRest, ConstantsAssumption
  <2> QED
    BY <1>1, <1>2, <2>1, <2>2, ReadStep
<1>4. ASSUME NEW r \in Reader, XReadGroupBlock(r, g, c)
      PROVE  IInv'
  <2>1. Park(r, "xreadgroup")
    BY <1>4 DEF XReadGroupBlock
  <2>2. RestOK'
    <3>1. parked' \in Seq(Waiting) /\ sent' \in [Reader -> (SUBSET ID) \cup {None}]
      BY <1>2, <2>1, ParkType
    <3> QED
      BY <1>1, <1>2, <3>1 DEF RestOK, TypeOK
  <2>3. CASE ReadGroupNewEntries(g, c, 0)
    BY <1>1, <1>2, <2>2, <2>3, ReadStep
  <2>4. CASE UNCHANGED <<groupVars, historyVars>>
    BY <1>2, <2>2, <2>4, NoGroup
  <2> QED
    BY <1>4, <2>3, <2>4 DEF XReadGroupBlock
<1> QED
  BY <1>3, <1>4

LEMMA StutterStep ==
  ASSUME IInv, UNCHANGED vars
  PROVE  IInv'
<1>1. UNCHANGED <<stream, groupVars, historyVars, parked, sent, now>>
  BY DEF vars
<1>2. RestOK'
  BY <1>1 DEF IInv, TypeOK, RestOK
<1> QED
  BY <1>1, <1>2, NoGroup

-----------------------------------------------------------------------------
(* The reads that wait.                                                    *)

\* What Wake does with the first n of the waiting reads answered.
WokenUpTo(n, s) ==
  /\ \A i \in 1 .. n : ~Blocks(parked[i], s)
  /\ n < Len(parked) => Blocks(parked[n + 1], s)
  /\ sent' = [r \in Reader |-> IF \E i \in 1 .. n : parked[i].reader = r
                               THEN Answer(parked[CHOOSE i \in 1 .. n : parked[i].reader = r], s)
                               ELSE None]
  /\ parked' = [i \in 1 .. Len(parked) - n |->
                  IF i = 1 THEN [parked[n + 1] EXCEPT !.from = LastOrZero(s)] ELSE parked[n + i]]

\* The reads that wait on are the later ones, of the same clients.
LEMMA WaitOn ==
  ASSUME parked \in Seq(Waiting), NEW s, NEW n \in 0 .. Len(parked), WokenUpTo(n, s)
  PROVE  /\ DOMAIN parked' = 1 .. Len(parked) - n
         /\ \A i \in DOMAIN parked' : /\ n + i \in DOMAIN parked /\ n + i > n
                                      /\ parked'[i].reader = parked[n + i].reader
<1>1. /\ DOMAIN parked' = 1 .. Len(parked) - n
      /\ \A i \in 1 .. Len(parked) - n :
           parked'[i] = IF i = 1 THEN [parked[n + 1] EXCEPT !.from = LastOrZero(s)]
                        ELSE parked[n + i]
  BY DEF WokenUpTo
<1>2. Len(parked) \in Nat /\ DOMAIN parked = 1 .. Len(parked) /\ n \in Nat
  OBVIOUS
<1>3. ASSUME NEW i \in 1 .. Len(parked) - n
      PROVE  /\ n + i \in DOMAIN parked /\ n + i > n
             /\ parked'[i].reader = parked[n + i].reader
  <2>1. n + i \in DOMAIN parked /\ n + i > n
    BY <1>2
  <2>2. parked[n + i] \in Waiting
    BY <2>1
  <2>3. CASE i = 1
    <3>1. parked'[i] = [parked[n + i] EXCEPT !.from = LastOrZero(s)]
      BY <1>1, <2>3
    <3> QED
      BY <2>1, <2>2, <3>1 DEF Waiting
  <2>4. CASE i # 1
    BY <1>1, <2>1, <2>4
  <2> QED
    BY <2>3, <2>4
<1> QED
  BY <1>1, <1>3

LEMMA OnceWake ==
  ASSUME parked \in Seq(Waiting), OncePerReader, NEW s, Wake(s)
  PROVE  OncePerReader'
<1>1. PICK n \in 0 .. Len(parked) : WokenUpTo(n, s)
  BY DEF Wake, WokenUpTo
<1>2. ASSUME NEW i \in DOMAIN parked', NEW j \in DOMAIN parked', parked'[i].reader = parked'[j].reader
      PROVE  i = j
  <2>1. /\ n + i \in DOMAIN parked /\ n + j \in DOMAIN parked
        /\ parked[n + i].reader = parked[n + j].reader
    BY <1>1, <1>2, WaitOn
  <2>2. n + i = n + j
    BY <2>1 DEF OncePerReader
  <2>3. i \in Int /\ j \in Int /\ n \in Int
    BY <1>1, WaitOn
  <2> QED
    BY <2>2, <2>3
<1> QED
  BY <1>2 DEF OncePerReader

LEMMA OncePark ==
  ASSUME parked \in Seq(Waiting), OncePerReader, NEW r, NEW kind, Park(r, kind)
  PROVE  OncePerReader'
<1>1. PICK w : w = [reader |-> r, kind |-> kind, from |-> LastOrZero(stream)]
  OBVIOUS
<1>2. /\ parked' = Append(parked, w) /\ w.reader = r
      /\ \A i \in DOMAIN parked : parked[i].reader # r
  BY <1>1 DEF Park, Free
<1>3. /\ Len(parked) \in Nat /\ DOMAIN parked = 1 .. Len(parked)
      /\ DOMAIN parked' = 1 .. Len(parked) + 1
      /\ parked'[Len(parked) + 1] = w /\ \A i \in 1 .. Len(parked) : parked'[i] = parked[i]
  BY <1>2
<1> QED
  BY <1>2, <1>3 DEF OncePerReader

LEMMA OnceTimeout ==
  ASSUME parked \in Seq(Waiting), OncePerReader, NEW r, Timeout(r)
  PROVE  OncePerReader'
<1>1. PICK n \in DOMAIN parked :
        parked' = [i \in 1 .. Len(parked) - 1 |-> IF i < n THEN parked[i] ELSE parked[i + 1]]
  BY DEF Timeout
<1>2. /\ Len(parked) \in Nat /\ DOMAIN parked = 1 .. Len(parked) /\ n \in Nat
      /\ DOMAIN parked' = 1 .. Len(parked) - 1
      /\ \A i \in 1 .. Len(parked) - 1 : parked'[i] = IF i < n THEN parked[i] ELSE parked[i + 1]
  BY <1>1
<1> QED
  BY <1>2 DEF OncePerReader

LEMMA OnceStep ==
  ASSUME IInv, OncePerReader, [Next]_vars
  PROVE  OncePerReader'
<1>1. parked \in Seq(Waiting)
  BY DEF IInv, TypeOK
<1>2. ASSUME parked' \in {parked, <<>>}
      PROVE  OncePerReader'
  BY <1>2 DEF OncePerReader
<1>3. CASE Evict \/ Panic \/ Tick
  BY <1>2, <1>3 DEF Evict, Panic, Tick
<1>4. ASSUME NEW req \in Added, XAdd(req)
      PROVE  OncePerReader'
  BY <1>1, <1>2, <1>4, OnceWake DEF XAdd
<1>5. ASSUME NEW r \in Reader, XRead(r) \/ Timeout(r)
      PROVE  OncePerReader'
  BY <1>1, <1>5, OncePark, OnceTimeout DEF XRead
<1>6. ASSUME NEW g \in Group, NEW mkstream \in BOOLEAN, XGroupCreate(g, mkstream)
      PROVE  OncePerReader'
  BY <1>1, <1>2, <1>6, OnceWake DEF XGroupCreate
<1>7. ASSUME NEW g \in Group,
             \/ XGroupDestroy(g) \/ XGroupSetID(g)
             \/ \E A \in SUBSET Pending(g) : XAck(g, A)
             \/ \E c \in Consumer :
                  \/ XGroupDelConsumer(g, c)
                  \/ \E idle \in MinIdles, A \in SUBSET Pending(g) : XClaim(g, c, idle, A)
      PROVE  OncePerReader'
  <2>1. Wake(stream)
    BY <1>7 DEF XGroupDestroy, XGroupSetID, XAck, XGroupDelConsumer, XClaim
  <2> QED
    BY <1>1, <2>1, OnceWake
<1>8. ASSUME NEW g \in Group, NEW c \in Consumer, NEW n \in Counts, XReadGroup(g, c, n)
      PROVE  OncePerReader'
  BY <1>2, <1>8 DEF XReadGroup
<1>9. ASSUME NEW g \in Group, NEW c \in Consumer, NEW r \in Reader, XReadGroupBlock(r, g, c)
      PROVE  OncePerReader'
  BY <1>1, <1>9, OncePark DEF XReadGroupBlock
<1>10. CASE UNCHANGED vars
  BY <1>2, <1>10 DEF vars
<1>11. CASE Next
  BY <1>3, <1>4, <1>5, <1>6, <1>7, <1>8, <1>9, <1>11 DEF Next
<1> QED
  BY <1>10, <1>11

\* A waiting XREAD does not wait on when the stream has an entry after the ID it waits from,
\* and the answer has that entry.
LEMMA NewEntryAnswers ==
  ASSUME NEW s \in Seq(ID), Increasing(s), s # <<>>, NEW w \in Waiting, w.kind = "xread",
         Before(w.from, s[Len(s)])
  PROVE  /\ ~Blocks(w, s)
         /\ s[Len(s)] \in Answer(w, s)
         /\ w.from[2] # MaxUint => \A i \in Answer(w, s) : Before(w.from, i)
<1> DEFINE S == Scan(s, After(w.from), Top)
<1>1. w.from \in ID /\ After(w.from) \in ID /\ Top \in ID
  BY AfterIsNext, Ends DEF Waiting
<1>2. S = {i \in DOMAIN s : AtMost(After(w.from), s[i]) /\ AtMost(s[i], Top)}
  BY <1>1, ScanIsInclusive
<1>3. Len(s) \in DOMAIN s /\ s[Len(s)] \in ID
  OBVIOUS
<1>4. AtMost(After(w.from), s[Len(s)]) /\ AtMost(s[Len(s)], Top)
  BY <1>1, <1>3, AfterIsNotFar, TopIsLast
<1>5. Len(s) \in S
  BY <1>2, <1>3, <1>4
<1>6. Answer(w, s) = {s[i] : i \in S}
  BY DEF Answer, IdsAt
<1>7. ASSUME w.from[2] # MaxUint, NEW i \in S
      PROVE  Before(w.from, s[i])
  BY <1>1, <1>2, <1>7, s[i] \in ID, AfterIsNext
<1>8. ~Blocks(w, s)
  BY <1>5 DEF Blocks
<1> HIDE DEF S
<1> QED
  BY <1>5, <1>6, <1>7, <1>8

\* Only XADD makes a stream longer, and it then looks at the reads that wait.
LEMMA NewEntryWakes ==
  ASSUME IInv, [Next]_vars, stream' \notin {None, stream, <<>>}
  PROVE  /\ stream' \in Seq(ID) /\ Increasing(stream') /\ stream' # <<>>
         /\ Wake(stream')
<1>1. Entries \in Seq(ID) /\ Increasing(Entries) /\ (stream # None => stream = Entries)
  BY TypeParts DEF IInv
<1>2. stream' # Entries
  BY DEF Entries
<1>3. \E req \in Added : XAdd(req)
  BY <1>2 DEF Next, vars, Evict, Panic, Tick, XRead, Timeout, XGroupCreate, XGroupDestroy,
              XGroupSetID, XGroupDelConsumer, XAck, XClaim, XReadGroup, XReadGroupBlock
<1>4. PICK req \in Added : XAdd(req)
  BY <1>3
<1>5. PICK id : id = NextID(Last(Entries), req, now)
  OBVIOUS
<1>6. Accepts(Entries, id) /\ stream' = Append(Entries, id) /\ Wake(stream')
  BY <1>2, <1>4, <1>5 DEF XAdd
<1>7. id \in ID
  <2>1. now \in 0 .. MaxUint
    BY ConstantsAssumption, MaxAssumption DEF IInv, TypeOK
  <2>2. Last(Entries) \in ID \cup {None} /\ req \in Requests
    BY <1>1, LastType, ConstantsAssumption
  <2>3. id \in ID \cup {None}
    BY <1>5, <2>1, <2>2, NextIDType
  <2> QED
    BY <1>6, <2>3 DEF Accepts
<1>8. Increasing(Append(Entries, id))
  BY <1>1, <1>6, <1>7, AppendIncreases
<1> QED
  BY <1>1, <1>6, <1>7, <1>8

LEMMA Inductive == Spec => [](IInv /\ OncePerReader)
<1>1. Init => IInv
  BY InitInv
<1>2. IInv /\ [Next]_vars => IInv'
  <2>1. SUFFICES ASSUME IInv, [Next]_vars
                 PROVE  IInv'
    OBVIOUS
  <2>2. CASE Evict \/ Panic
    BY <2>1, <2>2, VanishStep
  <2>3. CASE Tick
    BY <2>1, <2>3, TickStep
  <2>4. CASE \E req \in Added : XAdd(req)
    BY <2>1, <2>4, AddStep
  <2>5. CASE \E r \in Reader : XRead(r) \/ Timeout(r)
    BY <2>1, <2>5, ReaderStep
  <2>6. ASSUME NEW g \in Group, \E mkstream \in BOOLEAN : XGroupCreate(g, mkstream)
        PROVE  IInv'
    BY <2>1, <2>6, GroupCreateStep
  <2>7. ASSUME NEW g \in Group,
               \/ XGroupDestroy(g) \/ XGroupSetID(g)
               \/ \E A \in SUBSET Pending(g) : XAck(g, A)
               \/ \E c \in Consumer :
                    \/ XGroupDelConsumer(g, c)
                    \/ \E idle \in MinIdles, A \in SUBSET Pending(g) : XClaim(g, c, idle, A)
        PROVE  IInv'
    BY <2>1, <2>7, GroupStep
  <2>8. ASSUME NEW g \in Group, NEW c \in Consumer,
               \/ \E n \in Counts : XReadGroup(g, c, n)
               \/ \E r \in Reader : XReadGroupBlock(r, g, c)
        PROVE  IInv'
    BY <2>1, <2>8, ReadGroupStep
  <2>9. CASE UNCHANGED vars
    BY <2>1, <2>9, StutterStep
  <2>10. CASE Next
    BY <2>2, <2>3, <2>4, <2>5, <2>6, <2>7, <2>8, <2>10 DEF Next
  <2> QED
    BY <2>1, <2>9, <2>10
<1>3. Init => OncePerReader
  BY DEF Init, OncePerReader
<1>4. IInv /\ OncePerReader /\ [Next]_vars => OncePerReader'
  BY OnceStep
<1> QED
  BY <1>1, <1>2, <1>3, <1>4, PTL DEF Spec

\* The types, the shape of a stream with its groups, and what the properties need to be kept.
THEOREM Invariance == Spec => []GInv
<1>1. IInv /\ OncePerReader => GInv
  BY InvParts
<1> QED
  BY <1>1, Inductive, PTL

\* COUNT, several consumers, claims, acknowledgements and consumers that are removed leave no
\* entry of the stream behind the last ID of a group.
THEOREM NoEntryIsSkipped == Spec => []NothingSkipped
<1>1. GInv => NothingSkipped
  <2>1. SUFFICES ASSUME GInv, NEW g \in Group, Is(g), NEW j \in DOMAIN stream,
                        AtMost(stream[j], last[g])
                 PROVE  stream[j] \in Handled(g)
    BY DEF NothingSkipped
  <2>2. stream \in Seq(ID)
    BY <2>1 DEF GInv, TypeOK, Is
  <2>3. stream[j] \in ID
    BY <2>2
  <2> QED
    BY <2>1, <2>3 DEF GInv, Covered
<1> QED
  BY <1>1, Invariance, PTL

\* The number of a consumer's pending entries and the list of them do not part.
THEOREM NumbersAgree == Spec => []CountsAgree
<1>1. GInv => CountsAgree
  BY DEF GInv
<1> QED
  BY <1>1, Invariance, PTL

\* Unless SETID goes back or a number wraps, XREADGROUP does not hand out what was acknowledged.
THEOREM AcknowledgedForGood == Spec => []AckIsFinal
<1>1. GInv => AckIsFinal
  BY DEF GInv
<1> QED
  BY <1>1, Invariance, PTL

\* RangeScan gives what lies between its two ends.
THEOREM RangesAreInclusive == Spec => []RangeIsInclusive
<1>1. GInv => RangeIsInclusive
  <2>1. SUFFICES ASSUME GInv, NEW a \in ID,
                        NEW b \in {Entries[j] : j \in DOMAIN Entries} \cup {Top}
                 PROVE  Scan(Entries, a, b)
                          = {i \in DOMAIN Entries : AtMost(a, Entries[i]) /\ AtMost(Entries[i], b)}
    BY DEF RangeIsInclusive
  <2>2. Entries \in Seq(ID) /\ Increasing(Entries)
    BY <2>1, TypeParts DEF GInv, Shape
  <2>3. b = Top \/ \E j \in DOMAIN Entries : Entries[j] = b
    OBVIOUS
  <2>4. b \in ID
    BY <2>2, <2>3, Ends
  <2> QED
    BY <2>2, <2>3, <2>4, ScanIsInclusive
<1> QED
  BY <1>1, Invariance, PTL

\* An entry that XADD puts in reaches every waiting XREAD up to the first one that waits for a
\* later ID, with all that came after the ID the read waits from, and ends the wait.
THEOREM NewEntryReachesReaders == Spec => ReadersMissNothing
<1> DEFINE Due(n, e) == /\ parked[n].kind = "xread"
                        /\ \A i \in 1 .. n : parked[i].kind = "xread" => Before(parked[i].from, e)
<1>1. ASSUME IInv, OncePerReader, [Next]_vars, NEW n \in DOMAIN parked,
             stream' \notin {None, stream, <<>>}, Due(n, Last(stream'))
      PROVE  LET got == sent'[parked[n].reader] IN
             /\ got # None /\ Last(stream') \in got
             /\ parked[n].from[2] # MaxUint => \A i \in got : Before(parked[n].from, i)
             /\ \A i \in DOMAIN parked' : parked'[i].reader # parked[n].reader
  <2>1. PICK s : s = stream'
    OBVIOUS
  <2>2. s \in Seq(ID) /\ Increasing(s) /\ s # <<>> /\ Wake(s) /\ Last(s) = s[Len(s)]
    BY <1>1, <2>1, NewEntryWakes DEF Last
  <2>3. parked \in Seq(Waiting) /\ \A i \in DOMAIN parked : parked[i] \in Waiting
    BY <1>1 DEF IInv, TypeOK
  <2>4. DOMAIN parked = 1 .. Len(parked) /\ Len(parked) \in Nat
    BY <2>3
  <2>5. PICK k \in 0 .. Len(parked) : WokenUpTo(k, s)
    BY <2>2 DEF Wake, WokenUpTo
  <2>6. ASSUME NEW i \in 1 .. n
        PROVE  ~Blocks(parked[i], s)
    <3>1. parked[i] \in Waiting
      BY <2>3, <2>4
    <3>2. CASE parked[i].kind = "xread"
      <4>1. Before(parked[i].from, s[Len(s)])
        BY <1>1, <2>1, <2>2, <3>2
      <4> QED
        BY <2>2, <3>1, <3>2, <4>1, NewEntryAnswers
    <3>3. CASE parked[i].kind # "xread"
      BY <3>3 DEF Blocks
    <3> QED
      BY <3>2, <3>3
  <2>7. n \in 1 .. k
    <3>1. SUFFICES ASSUME k < n
                   PROVE  FALSE
      BY <2>4
    <3>2. k < Len(parked) /\ k + 1 \in 1 .. n
      BY <2>4, <3>1
    <3>3. Blocks(parked[k + 1], s)
      BY <2>5, <3>2 DEF WokenUpTo
    <3> QED
      BY <2>6, <3>2, <3>3
  <2>8. \A i \in 1 .. k : parked[i].reader = parked[n].reader <=> i = n
    <3>1. \A i \in 1 .. k : i \in DOMAIN parked
      BY <2>4
    <3> QED
      BY <1>1, <2>7, <3>1 DEF OncePerReader
  <2>9. sent'[parked[n].reader] = Answer(parked[n], s)
    <3>1. parked[n].reader \in Reader
      BY <2>3 DEF Waiting
    <3>2. (CHOOSE i \in 1 .. k : parked[i].reader = parked[n].reader) = n
      BY <2>7, <2>8
    <3>3. \E i \in 1 .. k : parked[i].reader = parked[n].reader
      BY <2>7
    <3> QED
      BY <2>5, <3>1, <3>2, <3>3 DEF WokenUpTo
  <2>10. /\ s[Len(s)] \in Answer(parked[n], s)
         /\ parked[n].from[2] # MaxUint => \A i \in Answer(parked[n], s) : Before(parked[n].from, i)
    <3>1. parked[n] \in Waiting /\ parked[n].kind = "xread"
      BY <1>1, <2>3
    <3>2. n \in 1 .. n
      BY <2>4
    <3>3. Before(parked[n].from, s[Len(s)])
      BY <1>1, <2>1, <2>2, <3>1, <3>2
    <3> QED
      BY <2>2, <3>1, <3>3, NewEntryAnswers
  <2>11. Answer(parked[n], s) # None
    <3>1. Answer(parked[n], s) \in SUBSET ID
      <4>1. \A i \in Scan(s, After(parked[n].from), Top) : i \in DOMAIN s
        BY DEF Scan
      <4>2. IdsAt(s, Scan(s, After(parked[n].from), Top)) \in SUBSET ID
        BY <2>2, <4>1 DEF IdsAt
      <4> QED
        BY <1>1, <4>2 DEF Answer
    <3> QED
      BY <3>1, ConstantsAssumption
  <2>12. ASSUME NEW i \in DOMAIN parked'
         PROVE  parked'[i].reader # parked[n].reader
    <3>1. k + i \in DOMAIN parked /\ k + i > k /\ parked'[i].reader = parked[k + i].reader
      BY <2>3, <2>5, WaitOn
    <3>2. k + i # n
      BY <2>4, <2>7, <3>1
    <3> QED
      BY <1>1, <3>1, <3>2 DEF OncePerReader
  <2> QED
    BY <2>1, <2>2, <2>9, <2>10, <2>11, <2>12
<1>2. IInv /\ OncePerReader /\ [Next]_vars => [ReadersServed]_vars
  BY <1>1 DEF ReadersServed
<1> QED
  BY <1>2, Inductive, PTL DEF Spec, ReadersMissNothing
=============================================================================
