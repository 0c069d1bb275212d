-------------------------- MODULE ReplicationProofs --------------------------
(***************************************************************************)
(* What Replication guarantees for every number of slaves, writes and      *)
(* WAITs, by the inductive invariant RInv.  Its parts, in the order of the *)
(* module, each proved with the ones before it:                            *)
(*   Delivery  a slave's writes come in order and without a gap, and what  *)
(*             it acknowledges it has processed;                           *)
(*   AcksRise  its acknowledgements are in the order of their offsets, all *)
(*             the way to the one that counts;                             *)
(*   Offsets   it has not processed more bytes than the master has sent;   *)
(*   Waits     a slave that lacks a write a WAIT is about has not          *)
(*             acknowledged the offset that WAIT asks for (if FewWaits).   *)
(***************************************************************************)
EXTENDS Replication, SequenceTheorems, FiniteSetTheorems, FunctionTheorems, TLAPS

-----------------------------------------------------------------------------
(* Sequences: what a direction of a connection holds after one step.       *)

\* The members of a concatenation.
LEMMA ConcatMembers ==
  ASSUME NEW T, NEW s \in Seq(T), NEW t \in Seq(T)
  PROVE  s \o t \in Seq(T) /\ ToSet(s \o t) = ToSet(s) \cup ToSet(t)
<1> DEFINE u == s \o t
<1>1. /\ u \in Seq(T) /\ Len(u) = Len(s) + Len(t)
      /\ \A i \in 1..Len(s) + Len(t) : u[i] = IF i <= Len(s) THEN s[i] ELSE t[i - Len(s)]
  BY ConcatProperties
<1>2. /\ DOMAIN s = 1..Len(s) /\ DOMAIN t = 1..Len(t) /\ DOMAIN u = 1..Len(s) + Len(t)
      /\ Len(s) \in Nat /\ Len(t) \in Nat
  BY <1>1, LenProperties
<1> HIDE DEF u
<1>3. ASSUME NEW i \in DOMAIN u PROVE u[i] \in ToSet(s) \cup ToSet(t)
  <2>1. CASE i <= Len(s)
    BY <1>1, <1>2, <2>1 DEF ToSet
  <2>2. CASE ~(i <= Len(s))
    <3>1. i - Len(s) \in DOMAIN t /\ u[i] = t[i - Len(s)]
      BY <1>1, <1>2, <2>2
    <3> QED
      BY <3>1 DEF ToSet
  <2> QED
    BY <2>1, <2>2
<1>4. ASSUME NEW i \in DOMAIN s PROVE s[i] \in ToSet(u)
  <2>1. i \in DOMAIN u /\ u[i] = s[i]
    BY <1>1, <1>2
  <2> QED
    BY <2>1 DEF ToSet
<1>5. ASSUME NEW i \in DOMAIN t PROVE t[i] \in ToSet(u)
  <2>1. i + Len(s) \in DOMAIN u /\ u[i + Len(s)] = t[i]
    BY <1>1, <1>2
  <2> QED
    BY <2>1 DEF ToSet
<1>6. ToSet(u) \subseteq ToSet(s) \cup ToSet(t)
  BY <1>3 DEF ToSet
<1>7. ToSet(s) \subseteq ToSet(u)
  BY <1>4 DEF ToSet
<1>8. ToSet(t) \subseteq ToSet(u)
  BY <1>5 DEF ToSet
<1> QED
  BY <1>1, <1>6, <1>7, <1>8 DEF u

\* A piece of a sequence has no other members.
LEMMA PieceMembers ==
  ASSUME NEW T, NEW s \in Seq(T), NEW a \in Nat \ {0}, NEW b \in Int, b <= Len(s)
  PROVE  SubSeq(s, a, b) \in Seq(T) /\ ToSet(SubSeq(s, a, b)) \subseteq ToSet(s)
<1> DEFINE u == SubSeq(s, a, b)
<1>1. DOMAIN s = 1..Len(s) /\ Len(s) \in Nat /\ \A i \in 1..Len(s) : s[i] \in T
  BY LenProperties, ElementOfSeq
<1>2. \A i \in a..b : s[i] \in T
  BY <1>1
<1>3. /\ u \in Seq(T)
      /\ Len(u) = IF a <= b THEN b - a + 1 ELSE 0
      /\ \A i \in 1..b - a + 1 : u[i] = s[a + i - 1]
  BY <1>2, SubSeqProperties
<1>4. DOMAIN u = 1..Len(u)
  BY <1>3, LenProperties
<1> HIDE DEF u
<1>5. ASSUME NEW i \in DOMAIN u PROVE u[i] \in ToSet(s)
  <2>1. a + i - 1 \in DOMAIN s /\ u[i] = s[a + i - 1]
    BY <1>1, <1>3, <1>4
  <2> QED
    BY <2>1 DEF ToSet
<1>6. ToSet(u) \subseteq ToSet(s)
  BY <1>5 DEF ToSet
<1> QED
  BY <1>3, <1>6 DEF u

\* A sequence that has lost its first element.
LEMMA Dropped ==
  ASSUME NEW T, NEW q \in Seq(T), q # <<>>
  PROVE  LET u == SubSeq(q, 2, Len(q))
         IN /\ u \in Seq(T) /\ 1 \in DOMAIN q /\ Head(q) = q[1]
            /\ \A i \in DOMAIN u : i \in Nat /\ i + 1 \in DOMAIN q /\ u[i] = q[i + 1]
            /\ \A i \in DOMAIN q : i # 1 => i - 1 \in DOMAIN u /\ u[i - 1] = q[i]
<1> DEFINE u == SubSeq(q, 2, Len(q))
<1>1. DOMAIN q = 1..Len(q) /\ Len(q) \in Nat \ {0} /\ \A i \in 1..Len(q) : q[i] \in T
  BY LenProperties, ElementOfSeq, EmptySeq
<1>2. /\ u \in Seq(T) /\ Len(u) = Len(q) - 1
      /\ \A i \in 1..Len(q) - 1 : u[i] = q[i + 1]
  <2>1. \A i \in 2..Len(q) : q[i] \in T
    BY <1>1
  <2>2. /\ u \in Seq(T)
        /\ Len(u) = IF 2 <= Len(q) THEN Len(q) - 2 + 1 ELSE 0
        /\ \A i \in 1..Len(q) - 2 + 1 : u[i] = q[2 + i - 1]
    BY <1>1, <2>1, SubSeqProperties
  <2> HIDE DEF u
  <2>3. ASSUME NEW i \in 1..Len(q) - 1 PROVE u[i] = q[i + 1]
    <3>1. i \in 1..Len(q) - 2 + 1 /\ 2 + i - 1 = i + 1
      BY <1>1
    <3> QED
      BY <2>2, <3>1
  <2>4. Len(u) = Len(q) - 1
    <3>1. CASE 2 <= Len(q)
      BY <1>1, <2>2, <3>1
    <3>2. CASE ~(2 <= Len(q))
      <4>1. Len(q) = 1 /\ Len(u) = 0
        BY <1>1, <2>2, <3>2
      <4> QED
        BY <4>1
    <3> QED
      BY <3>1, <3>2
  <2> QED
    BY <2>2, <2>3, <2>4
<1>3. DOMAIN u = 1..Len(q) - 1
  BY <1>1, <1>2, LenProperties
<1>4. Head(q) = q[1]
  BY SMT
<1> HIDE DEF u
<1>5. \A i \in DOMAIN u : i \in Nat /\ i + 1 \in DOMAIN q /\ u[i] = q[i + 1]
  BY <1>1, <1>2, <1>3
<1>6. \A i \in DOMAIN q : i # 1 => i - 1 \in DOMAIN u /\ u[i - 1] = q[i]
  BY <1>1, <1>2, <1>3
<1> QED
  BY <1>1, <1>2, <1>4, <1>5, <1>6 DEF u

\* A sequence that has got one element more.
LEMMA Appended ==
  ASSUME NEW T, NEW q \in Seq(T), NEW m \in T
  PROVE  LET u == Append(q, m)
         IN /\ u \in Seq(T)
            /\ \A i \in DOMAIN q : i \in DOMAIN u /\ u[i] = q[i]
            /\ \E k \in DOMAIN u : /\ k \notin DOMAIN q /\ u[k] = m
                                   /\ \A i \in DOMAIN u : i = k \/ (i \in DOMAIN q /\ i < k)
<1> DEFINE u == Append(q, m)
<1>1. /\ u \in Seq(T) /\ Len(u) = Len(q) + 1 /\ u[Len(q) + 1] = m
      /\ \A i \in 1..Len(q) : u[i] = q[i]
  BY AppendProperties
<1>2. DOMAIN q = 1..Len(q) /\ Len(q) \in Nat /\ DOMAIN u = 1..Len(q) + 1
  BY <1>1, LenProperties
<1> HIDE DEF u
<1>3. \A i \in DOMAIN q : i \in DOMAIN u /\ u[i] = q[i]
  BY <1>1, <1>2
<1>4. ASSUME NEW i \in DOMAIN u PROVE i = Len(q) + 1 \/ (i \in DOMAIN q /\ i < Len(q) + 1)
  <2>1. i \in 1..Len(q) + 1
    BY <1>2
  <2>2. i = Len(q) + 1 \/ (i \in 1..Len(q) /\ i < Len(q) + 1)
    BY <1>2, <2>1
  <2> QED
    BY <1>2, <2>2
<1>5. Len(q) + 1 \in DOMAIN u /\ Len(q) + 1 \notin DOMAIN q /\ u[Len(q) + 1] = m
  BY <1>1, <1>2
<1>6. \E k \in DOMAIN u : /\ k \notin DOMAIN q /\ u[k] = m
                          /\ \A i \in DOMAIN u : i = k \/ (i \in DOMAIN q /\ i < k)
  BY <1>4, <1>5
<1> QED
  BY <1>1, <1>3, <1>6 DEF u

-----------------------------------------------------------------------------
(* The writes on their way, after a step on the connection.                *)

\* A message that is not a write leaves the others as they are.
LEMMA PlainAppended ==
  ASSUME NEW q \in Seq(DownMsg), NEW m \in DownMsg, m.kind # "write"
  PROVE  LET u == Append(q, m)
         IN /\ u \in Seq(DownMsg)
            /\ OnTheWay(u) = OnTheWay(q) /\ Numbers(u) = Numbers(q)
            /\ Ordered(q) => Ordered(u)
<1> DEFINE u == Append(q, m)
<1>1. /\ u \in Seq(DownMsg)
      /\ \A i \in DOMAIN q : i \in DOMAIN u /\ u[i] = q[i]
  BY Appended
<1>2. \E k \in DOMAIN u : /\ k \notin DOMAIN q /\ u[k] = m
                          /\ \A i \in DOMAIN u : i = k \/ (i \in DOMAIN q /\ i < k)
  BY Appended
<1> HIDE DEF u
<1>3. OnTheWay(u) = OnTheWay(q)
  BY <1>1, <1>2 DEF OnTheWay
<1>4. \A i \in OnTheWay(q) : u[i] = q[i]
  BY <1>1 DEF OnTheWay
<1>5. Numbers(u) = Numbers(q)
  BY <1>3, <1>4 DEF Numbers
<1>6. Ordered(q) => Ordered(u)
  BY <1>3, <1>4 DEF Ordered
<1> QED
  BY <1>1, <1>3, <1>5, <1>6 DEF u

\* A write that comes behind those that are there.
LEMMA WriteAppended ==
  ASSUME NEW q \in Seq(DownMsg), NEW m \in DownMsg, m.kind = "write",
         NEW a \in Int, NEW b \in Int, a <= b + 1,
         Numbers(q) = a..b, Ordered(q), m.n = b + 1
  PROVE  LET u == Append(q, m)
         IN u \in Seq(DownMsg) /\ Numbers(u) = a..b + 1 /\ Ordered(u)
<1> DEFINE u == Append(q, m)
<1>1. /\ u \in Seq(DownMsg)
      /\ \A i \in DOMAIN q : i \in DOMAIN u /\ u[i] = q[i]
  BY Appended
<1>2. \E k \in DOMAIN u : /\ k \notin DOMAIN q /\ u[k] = m
                          /\ \A i \in DOMAIN u : i = k \/ (i \in DOMAIN q /\ i < k)
  BY Appended
<1> HIDE DEF u
<1>3. PICK k \in DOMAIN u : /\ k \notin DOMAIN q /\ u[k] = m
                            /\ \A i \in DOMAIN u : i = k \/ (i \in DOMAIN q /\ i < k)
  BY <1>2
<1>4. OnTheWay(u) = OnTheWay(q) \cup {k}
  BY <1>1, <1>3 DEF OnTheWay
<1>5. \A i \in OnTheWay(q) : u[i] = q[i] /\ i \in DOMAIN u /\ i # k
  BY <1>1, <1>3 DEF OnTheWay
<1>6. Numbers(u) = Numbers(q) \cup {b + 1}
  BY <1>3, <1>4, <1>5 DEF Numbers
<1>7. (a..b) \cup {b + 1} = a..b + 1
  OBVIOUS
<1>8. ASSUME NEW i \in OnTheWay(u), NEW j \in OnTheWay(u), i < j PROVE u[i].n < u[j].n
  <2>1. CASE i \in OnTheWay(q) /\ j \in OnTheWay(q)
    BY <1>5, <1>8, <2>1 DEF Ordered
  <2>2. CASE i \in OnTheWay(q) /\ j = k
    <3>1. u[i].n \in a..b
      BY <1>5, <2>2 DEF Numbers
    <3> QED
      BY <1>3, <2>2, <3>1
  <2>3. CASE i = k
    <3>1. j = k \/ (j \in DOMAIN q /\ j < k)
      BY <1>3 DEF OnTheWay
    <3>2. DOMAIN u \subseteq Int
      BY <1>1, LenProperties
    <3>3. j \in Int /\ k \in Int
      BY <1>3, <3>2 DEF OnTheWay
    <3> QED
      BY <1>8, <2>3, <3>1, <3>3
  <2> QED
    BY <1>4, <2>1, <2>2, <2>3
<1> QED
  BY <1>1, <1>6, <1>7, <1>8 DEF u, Ordered

\* Reading something else at the head leaves the writes.
LEMMA PlainDropped ==
  ASSUME NEW q \in Seq(DownMsg), q # <<>>, q[1].kind # "write"
  PROVE  LET u == SubSeq(q, 2, Len(q))
         IN /\ u \in Seq(DownMsg)
            /\ OnTheWay(q) = {} => OnTheWay(u) = {}
            /\ Numbers(u) = Numbers(q)
            /\ Ordered(q) => Ordered(u)
<1> DEFINE u == SubSeq(q, 2, Len(q))
<1>1. /\ u \in Seq(DownMsg)
      /\ \A i \in DOMAIN u : i \in Nat /\ i + 1 \in DOMAIN q /\ u[i] = q[i + 1]
      /\ \A i \in DOMAIN q : i # 1 => i - 1 \in DOMAIN u /\ u[i - 1] = q[i]
  BY Dropped
<1> HIDE DEF u
<1>2. \A i \in OnTheWay(u) : i \in Nat /\ i + 1 \in OnTheWay(q) /\ u[i] = q[i + 1]
  BY <1>1 DEF OnTheWay
<1>3. \A i \in OnTheWay(q) : i - 1 \in OnTheWay(u) /\ u[i - 1] = q[i]
  BY <1>1 DEF OnTheWay
<1>4. Numbers(u) \subseteq Numbers(q)
  BY <1>2 DEF Numbers
<1>5. Numbers(q) \subseteq Numbers(u)
  BY <1>3 DEF Numbers
<1>6. ASSUME Ordered(q), NEW i \in OnTheWay(u), NEW j \in OnTheWay(u), i < j
      PROVE  u[i].n < u[j].n
  <2>1. i \in Nat /\ j \in Nat /\ i + 1 < j + 1
    BY <1>2, <1>6
  <2> QED
    BY <1>2, <1>6, <2>1 DEF Ordered
<1>7. Ordered(q) => Ordered(u)
  BY <1>6 DEF Ordered
<1> QED
  BY <1>1, <1>2, <1>4, <1>5, <1>7 DEF u

\* A write at the head is the one with the least number.
LEMMA WriteDropped ==
  ASSUME NEW q \in Seq(DownMsg), q # <<>>, q[1].kind = "write",
         NEW a \in Int, NEW b \in Int, Numbers(q) = a..b, Ordered(q)
  PROVE  LET u == SubSeq(q, 2, Len(q))
         IN /\ u \in Seq(DownMsg) /\ a <= b /\ q[1].n = a
            /\ Numbers(u) = a + 1 .. b /\ Ordered(u)
<1> DEFINE u == SubSeq(q, 2, Len(q))
<1>1. /\ u \in Seq(DownMsg) /\ 1 \in DOMAIN q
      /\ \A i \in DOMAIN u : i \in Nat /\ i + 1 \in DOMAIN q /\ u[i] = q[i + 1]
      /\ \A i \in DOMAIN q : i # 1 => i - 1 \in DOMAIN u /\ u[i - 1] = q[i]
  BY Dropped
<1> HIDE DEF u
<1>2. 1 \in OnTheWay(q) /\ q[1].n \in a..b
  BY <1>1 DEF OnTheWay, Numbers
<1>3. DOMAIN q \subseteq Int /\ DOMAIN u \subseteq Int /\ 0 \notin DOMAIN u
  BY <1>1, LenProperties
<1>4. \A i \in OnTheWay(u) : i \in Nat \ {0} /\ i + 1 \in OnTheWay(q) /\ u[i] = q[i + 1]
  BY <1>1, <1>3 DEF OnTheWay
<1>5. \A i \in OnTheWay(q) : i # 1 => i - 1 \in OnTheWay(u) /\ u[i - 1] = q[i]
  BY <1>1 DEF OnTheWay
<1>6. \A i \in OnTheWay(q) : i # 1 => q[1].n < q[i].n
  <2>1. \A i \in DOMAIN q : i # 1 => 1 < i
    BY LenProperties
  <2> QED
    BY <1>2, <2>1 DEF Ordered, OnTheWay
<1>7. q[1].n = a
  <2>1. a \in Numbers(q)
    BY <1>2
  <2>2. PICK i \in OnTheWay(q) : q[i].n = a
    BY <2>1 DEF Numbers
  <2> QED
    BY <1>2, <1>6, <2>2
<1>8. Numbers(u) \subseteq a + 1 .. b
  <2> SUFFICES ASSUME NEW i \in OnTheWay(u) PROVE u[i].n \in a + 1 .. b
    BY DEF Numbers
  <2>1. i + 1 \in OnTheWay(q) /\ i + 1 # 1 /\ u[i] = q[i + 1]
    BY <1>4
  <2>2. q[i + 1].n \in a..b
    BY <2>1 DEF Numbers
  <2> QED
    BY <1>6, <1>7, <2>1, <2>2
<1>9. a + 1 .. b \subseteq Numbers(u)
  <2> SUFFICES ASSUME NEW n \in a + 1 .. b PROVE n \in Numbers(u)
    OBVIOUS
  <2>1. n \in a..b /\ n # a
    OBVIOUS
  <2>2. PICK i \in OnTheWay(q) : q[i].n = n
    BY <2>1 DEF Numbers
  <2>3. i # 1
    BY <1>7, <2>1, <2>2
  <2> QED
    BY <1>5, <2>2, <2>3 DEF Numbers
<1>10. ASSUME NEW i \in OnTheWay(u), NEW j \in OnTheWay(u), i < j PROVE u[i].n < u[j].n
  <2>1. i \in Nat /\ j \in Nat /\ i + 1 < j + 1
    BY <1>4, <1>10
  <2> QED
    BY <1>4, <2>1 DEF Ordered
<1>11. Ordered(u)
  BY <1>10 DEF Ordered
<1>12. Numbers(u) = a + 1 .. b
  BY <1>8, <1>9
<1>13. a <= b
  BY <1>2, <1>7
<1> QED
  BY <1>1, <1>7, <1>11, <1>12, <1>13 DEF u

-----------------------------------------------------------------------------
(* What a conjunct of the invariant depends on.                            *)

LEMMA SendersKept ==
  ASSUME Senders, UNCHANGED <<message, todo, written, handshaken>>
  PROVE  Senders'
BY DEF Senders, Msg

LEMMA HandshakesKept ==
  ASSUME Handshakes, UNCHANGED <<phase, psync, handshaken, inbox, leftover, up, down>>
  PROVE  Handshakes'
BY DEF Handshakes, HandshakeOf, Heard, PlainAt

LEMMA AcksKept ==
  ASSUME Acks, UNCHANGED <<lastAck, slaveOffset, phase, inbox, leftover, up>>
  PROVE  Acks'
BY DEF Acks, AcksOf, Heard

LEMMA WritesKept ==
  ASSUME Writes, UNCHANGED <<down, applied, base, todo, written, handshaken, phase>>
  PROVE  Writes'
BY DEF Writes, WritesOf, Numbers, OnTheWay, Ordered, SentTo

\* The same for one replica, when what was sent or heard changes a little.
Grows(r) == \A i \in DOMAIN down[r] : i \in DOMAIN down'[r] /\ down'[r][i] = down[r][i]

KeepsWrites(r) ==
  /\ Numbers(down'[r]) = Numbers(down[r])
  /\ OnTheWay(down[r]) = {} => OnTheWay(down'[r]) = {}
  /\ Ordered(down[r]) => Ordered(down'[r])

LEMMA HandshakeKeptOf ==
  ASSUME NEW r \in Replica, HandshakeOf(r), Grows(r),
         phase'[r] = phase[r], psync'[r] = psync[r], r \in handshaken' <=> r \in handshaken,
         \A m \in Heard(r)' : m \in Heard(r) \/ m.kind # "psync"
  PROVE  HandshakeOf(r)'
<1>1. \A i : PlainAt(down[r], i) => PlainAt(down'[r], i)
  BY DEF PlainAt, Grows
<1> QED
  BY <1>1 DEF HandshakeOf

LEMMA AcksKeptOf ==
  ASSUME NEW r \in Replica, AcksOf(r), Heard(r) \subseteq UpMsg,
         lastAck[r] \in Int, slaveOffset[r] \in Int, slaveOffset'[r] \in Int,
         lastAck'[r] = lastAck[r], slaveOffset[r] <= slaveOffset'[r],
         \/ phase'[r] \in {"stream", "failed", "dead"}
         \/ phase[r] \notin {"stream", "failed", "dead"}
         \/ phase'[r] = phase[r],
         \A m \in Heard(r)' : m \in Heard(r) \/ m.kind # "ack"
  PROVE  AcksOf(r)'
<1>1. \A m \in UpMsg : m.n \in Int
  BY DEF UpMsg
<1>2. lastAck'[r] > 0 => lastAck'[r] <= slaveOffset'[r]
  BY DEF AcksOf
<1>3. ASSUME NEW m \in Heard(r)', m.kind = "ack" PROVE m.n <= slaveOffset'[r]
  <2>1. m \in Heard(r) /\ m.n \in Int
    BY <1>1, <1>3
  <2>2. m.n <= slaveOffset[r]
    BY <1>3, <2>1 DEF AcksOf
  <2> QED
    BY <2>1, <2>2
<1>4. ASSUME phase'[r] \notin {"stream", "failed", "dead"}
      PROVE  lastAck'[r] = 0 /\ \A m \in Heard(r)' : m.kind # "ack"
  <2>1. phase[r] \notin {"stream", "failed", "dead"}
    BY <1>4
  <2> QED
    BY <2>1 DEF AcksOf
<1> QED
  BY <1>2, <1>3, <1>4 DEF AcksOf

LEMMA WritesKeptOf ==
  ASSUME NEW r \in Replica, WritesOf(r), KeepsWrites(r),
         applied'[r] = applied[r], base'[r] = base[r], SentTo(r)' = SentTo(r),
         r \in handshaken' <=> r \in handshaken,
         phase'[r] = "dead" \/ phase[r] # "dead"
  PROVE  WritesOf(r)'
BY DEF WritesOf, KeepsWrites

\* What is heard of a replica is well formed.
LEMMA HeardType ==
  ASSUME TypeOK, NEW r \in Replica
  PROVE  Heard(r) \subseteq UpMsg
<1>1. \A q \in Seq(UpMsg) : ToSet(q) \subseteq UpMsg
  BY LenProperties, ElementOfSeq DEF ToSet
<1>2. inbox[r] \in Seq(UpMsg) /\ leftover[r] \in Seq(UpMsg) /\ up[r] \in Seq(UpMsg)
  BY DEF TypeOK
<1> QED
  BY <1>1, <1>2 DEF Heard

-----------------------------------------------------------------------------
(* The master's session.                                                   *)

Plain == {"pong", "ok", "fullresync", "rdb", "error"}

\* A reply goes behind what is on its way to its replica, and is not a write.
LEMMA TellStep ==
  ASSUME TypeOK, NEW r \in Replica, NEW kind \in Plain, Tell(r, kind)
  PROVE  /\ down' \in [Replica -> Seq(DownMsg)]
         /\ \A x \in Replica : Grows(x) /\ KeepsWrites(x)
<1> DEFINE m == Msg(kind, 0)
<1>1. m \in DownMsg /\ m.kind # "write"
  BY DEF Msg, DownMsg, Plain
<1>2. down \in [Replica -> Seq(DownMsg)] /\ down[r] \in Seq(DownMsg)
  BY DEF TypeOK
<1>3. CASE phase[r] = "dead"
  <2>1. down' = down
    BY <1>3 DEF Tell
  <2> QED
    BY <1>2, <2>1 DEF Grows, KeepsWrites
<1>4. CASE phase[r] # "dead"
  <2>1. down' = [down EXCEPT ![r] = Append(down[r], m)]
    BY <1>4 DEF Tell
  <2> HIDE DEF m
  <2>2. /\ Append(down[r], m) \in Seq(DownMsg)
        /\ \A i \in DOMAIN down[r] : i \in DOMAIN Append(down[r], m)
                                     /\ Append(down[r], m)[i] = down[r][i]
    BY <1>1, <1>2, Appended
  <2>3. LET u == Append(down[r], m)
        IN /\ OnTheWay(u) = OnTheWay(down[r]) /\ Numbers(u) = Numbers(down[r])
           /\ Ordered(down[r]) => Ordered(u)
    BY <1>1, <1>2, PlainAppended
  <2>4. down' \in [Replica -> Seq(DownMsg)]
    BY <1>2, <2>1, <2>2
  <2>5. down'[r] = Append(down[r], m) /\ \A x \in Replica \ {r} : down'[x] = down[x]
    BY <1>2, <2>1
  <2>6. Grows(r) /\ KeepsWrites(r)
    BY <2>2, <2>3, <2>5 DEF Grows, KeepsWrites
  <2>7. \A x \in Replica \ {r} : Grows(x) /\ KeepsWrites(x)
    BY <2>5 DEF Grows, KeepsWrites
  <2> QED
    BY <2>4, <2>6, <2>7
<1> QED
  BY <1>3, <1>4

\* A command that is routed was heard, and nothing new is heard by routing it.
LEMMA RoutedStep ==
  ASSUME TypeOK, NEW r \in Replica, NEW kind, Routed(r, kind), UNCHANGED <<leftover, up>>
  PROVE  /\ inbox' \in [Replica -> Seq(UpMsg)]
         /\ Head(inbox[r]) \in Heard(r) /\ Head(inbox[r]).kind = kind
         /\ \A x \in Replica : Heard(x)' \subseteq Heard(x)
<1>1. inbox \in [Replica -> Seq(UpMsg)] /\ inbox[r] \in Seq(UpMsg) /\ inbox[r] # <<>>
  BY DEF TypeOK, Routed
<1> DEFINE q == inbox[r]
<1>2. Head(q) = q[1] /\ 1 \in DOMAIN q
  BY <1>1, Dropped
<1>3. Tail(q) \in Seq(UpMsg) /\ ToSet(Tail(q)) \subseteq ToSet(q)
  <2>1. Tail(q) = SubSeq(q, 2, Len(q))
    BY <1>1, TailIsSubSeq
  <2>2. Len(q) \in Int /\ Len(q) <= Len(q)
    BY <1>1, LenProperties
  <2> HIDE DEF q
  <2>3. q \in Seq(UpMsg)
    BY <1>1 DEF q
  <2>4. SubSeq(q, 2, Len(q)) \in Seq(UpMsg) /\ ToSet(SubSeq(q, 2, Len(q))) \subseteq ToSet(q)
    BY <2>2, <2>3, PieceMembers
  <2> QED
    BY <2>1, <2>4
<1>4. Head(q) \in ToSet(q)
  BY <1>2 DEF ToSet
<1>5. inbox' = [inbox EXCEPT ![r] = Tail(inbox[r])]
  BY DEF Routed
<1>6. inbox'[r] = Tail(q) /\ \A x \in Replica \ {r} : inbox'[x] = inbox[x]
  BY <1>1, <1>5
<1>7. \A x \in Replica : ToSet(inbox'[x]) \subseteq ToSet(inbox[x])
  BY <1>3, <1>6
<1>8. \A x \in Replica : Heard(x)' \subseteq Heard(x)
  BY <1>7 DEF Heard
<1>9. inbox' \in [Replica -> Seq(UpMsg)]
  BY <1>1, <1>3, <1>5
<1> QED
  BY <1>4, <1>8, <1>9 DEF Heard, Routed

\* Steps of the master's session that leave writes and slaves alone keep three
\* conjuncts.
LEMMA ToldKeeps ==
  ASSUME Delivery, \A x \in Replica : Grows(x) /\ KeepsWrites(x) /\ Heard(x)' \subseteq Heard(x),
         UNCHANGED <<message, todo, written, handshaken, lastAck, slaveVars, base>>
  PROVE  Senders' /\ Acks' /\ Writes' /\ (psync' = psync => Handshakes')
<1> USE DEF Delivery
<1>1. Senders'
  BY SendersKept
<1>2. Acks'
  <2> SUFFICES ASSUME NEW x \in Replica PROVE AcksOf(x)'
    BY DEF Acks
  <2>1. AcksOf(x) /\ Heard(x) \subseteq UpMsg
    BY HeardType DEF Acks
  <2>2. lastAck[x] \in Int /\ slaveOffset[x] \in Int
    BY DEF TypeOK
  <2> QED
    BY <2>1, <2>2, AcksKeptOf DEF slaveVars
<1>3. Writes'
  <2> SUFFICES ASSUME NEW x \in Replica PROVE WritesOf(x)'
    BY DEF Writes
  <2>1. SentTo(x)' = SentTo(x)
    BY DEF SentTo
  <2> QED
    BY <2>1, WritesKeptOf DEF Writes, slaveVars
<1>4. ASSUME psync' = psync PROVE Handshakes'
  <2> SUFFICES ASSUME NEW x \in Replica PROVE HandshakeOf(x)'
    BY DEF Handshakes
  <2> QED
    BY <1>4, HandshakeKeptOf DEF Handshakes, slaveVars
<1> QED
  BY <1>1, <1>2, <1>3, <1>4

LEMMA PingStep ==
  ASSUME Delivery, NEW r \in Replica, Ping(r)
  PROVE  Delivery'
<1> USE DEF Delivery
<1>1. \A x \in Replica : Heard(x)' \subseteq Heard(x)
  BY RoutedStep DEF Ping
<1>2. \A x \in Replica : Grows(x) /\ KeepsWrites(x)
  BY TellStep DEF Ping, Plain
<1>3. TypeOK'
  <2>1. inbox' \in [Replica -> Seq(UpMsg)]
    BY RoutedStep DEF Ping
  <2>2. down' \in [Replica -> Seq(DownMsg)]
    BY TellStep DEF Ping, Plain
  <2> QED
    BY <2>1, <2>2 DEF TypeOK, Ping, masterVars, sendVars, slaveVars, waitVars
<1> QED
  BY <1>1, <1>2, <1>3, ToldKeeps DEF Ping, masterVars, sendVars

LEMMA ReplconfStep ==
  ASSUME Delivery, NEW r \in Replica, Replconf(r)
  PROVE  Delivery'
<1> USE DEF Delivery
<1>1. \A x \in Replica : Heard(x)' \subseteq Heard(x)
  BY RoutedStep DEF Replconf
<1>2. \A x \in Replica : Grows(x) /\ KeepsWrites(x)
  BY TellStep DEF Replconf, Plain
<1>3. TypeOK'
  <2>1. inbox' \in [Replica -> Seq(UpMsg)]
    BY RoutedStep DEF Replconf
  <2>2. down' \in [Replica -> Seq(DownMsg)]
    BY TellStep DEF Replconf, Plain
  <2>3. registered' \in SUBSET Replica
    BY DEF TypeOK, Replconf
  <2> QED
    BY <2>1, <2>2, <2>3 DEF TypeOK, Replconf, sendVars, slaveVars, waitVars
<1> QED
  BY <1>1, <1>2, <1>3, ToldKeeps DEF Replconf, sendVars

\* Where a slave expects something else than a write, it is there once the master
\* has replied.
LEMMA RepliedAt ==
  ASSUME TypeOK, NEW r \in Replica, WritesOf(r), NEW kind \in Plain, Tell(r, kind),
         phase[r] # "dead", NEW i \in Nat \ {0}, i <= Len(down[r]) + 1,
         r \in handshaken => PlainAt(down[r], i)
  PROVE  PlainAt(down'[r], i)
<1> DEFINE m == Msg(kind, 0)
           q == down[r]
<1>1. m \in DownMsg /\ m.kind # "write"
  BY DEF Msg, DownMsg, Plain
<1>2. q \in Seq(DownMsg) /\ down'[r] = Append(q, m) /\ i <= Len(q) + 1
  BY DEF Tell, TypeOK
<1>3. i \in DOMAIN q => q[i].kind # "write"
  BY DEF WritesOf, OnTheWay, PlainAt
<1> HIDE DEF m, q
<1>4. CASE i \in DOMAIN q
  <2>1. i \in DOMAIN Append(q, m) /\ Append(q, m)[i] = q[i]
    BY <1>1, <1>2, <1>4, Appended
  <2> QED
    BY <1>2, <1>3, <1>4, <2>1 DEF PlainAt
<1>5. CASE i \notin DOMAIN q
  <2>1. /\ Append(q, m) \in Seq(DownMsg) /\ Len(Append(q, m)) = Len(q) + 1
        /\ Append(q, m)[Len(q) + 1] = m
    BY <1>1, <1>2, AppendProperties
  <2>2. DOMAIN q = 1..Len(q) /\ Len(q) \in Nat
    BY <1>2, LenProperties
  <2>3. i = Len(q) + 1
    BY <1>2, <1>5, <2>2
  <2>4. DOMAIN Append(q, m) = 1..Len(Append(q, m))
    BY <2>1, LenProperties
  <2>5. i \in DOMAIN Append(q, m) /\ Append(q, m)[i] = m
    BY <2>1, <2>2, <2>3, <2>4
  <2> QED
    BY <1>1, <1>2, <2>5 DEF PlainAt
<1> QED
  BY <1>4, <1>5

\* PSYNC is routed only after the slave has sent it, and answered before anything
\* else follows.
LEMMA PsyncStep ==
  ASSUME Delivery, NEW r \in Replica, Psync(r)
  PROVE  Delivery'
<1> USE DEF Delivery
<1>1. /\ \A x \in Replica : Heard(x)' \subseteq Heard(x)
      /\ Head(inbox[r]) \in Heard(r) /\ Head(inbox[r]).kind = "psync"
  BY RoutedStep DEF Psync
<1>2. \A x \in Replica : Grows(x) /\ KeepsWrites(x)
  BY TellStep DEF Psync, Plain
<1>3. psync' = [psync EXCEPT ![r] = "file"] /\ psync[r] = "no"
  BY DEF Psync, Routed
<1>4. TypeOK'
  <2>1. inbox' \in [Replica -> Seq(UpMsg)]
    BY RoutedStep DEF Psync
  <2>2. down' \in [Replica -> Seq(DownMsg)]
    BY TellStep DEF Psync, Plain
  <2>3. psync' \in [Replica -> {"no", "file", "mark"}]
    BY <1>3 DEF TypeOK
  <2> QED
    BY <2>1, <2>2, <2>3 DEF TypeOK, Psync, masterVars, sendVars, slaveVars, waitVars
<1>5. Handshakes'
  <2> SUFFICES ASSUME NEW x \in Replica PROVE HandshakeOf(x)'
    BY DEF Handshakes
  <2>1. HandshakeOf(x) /\ phase'[x] = phase[x] /\ (x \in handshaken' <=> x \in handshaken)
    BY DEF Handshakes, Psync, slaveVars, masterVars
  <2>2. CASE x # r
    <3>1. psync'[x] = psync[x]
      BY <1>3, <2>2 DEF TypeOK
    <3> QED
      BY <1>1, <1>2, <2>1, <3>1, HandshakeKeptOf
  <2>3. CASE x = r
    <3>1. phase[r] \notin {"off", "ping", "conf1", "conf2"}
      BY <1>1, <2>1, <2>3 DEF HandshakeOf
    <3>2. psync'[r] = "file"
      BY <1>3 DEF TypeOK
    <3>3. ASSUME phase[r] = "psync" PROVE PlainAt(down'[r], 1)
      <4>1. r \in handshaken => PlainAt(down[r], 1)
        BY <2>1, <2>3, <3>3 DEF HandshakeOf
      <4>2. WritesOf(r) /\ 1 <= Len(down[r]) + 1
        BY LenProperties DEF Writes, TypeOK
      <4>3. Tell(r, "fullresync") /\ "fullresync" \in Plain
        BY DEF Psync, Plain
      <4> QED
        BY <3>3, <4>1, <4>2, <4>3, RepliedAt
    <3>4. \A i : PlainAt(down[r], i) => PlainAt(down'[r], i)
      BY <1>2 DEF PlainAt, Grows
    <3> QED
      BY <2>1, <2>3, <3>1, <3>2, <3>3, <3>4 DEF HandshakeOf
  <2> QED
    BY <2>2, <2>3
<1> QED
  BY <1>1, <1>2, <1>4, <1>5, ToldKeeps DEF Psync, masterVars, sendVars

\* The slave learns of a snapshot or of an error; psync says which.
LEMMA PsyncFileStep ==
  ASSUME Delivery, NEW r \in Replica, PsyncFile(r)
  PROVE  Delivery'
<1> USE DEF Delivery
<1>1. PICK kind \in Plain : Tell(r, kind)
  BY DEF PsyncFile, Plain
<1>2. \A x \in Replica : Grows(x) /\ KeepsWrites(x) /\ Heard(x)' \subseteq Heard(x)
  BY <1>1, TellStep DEF PsyncFile, Heard
<1>3. psync[r] = "file" /\ psync'[r] \in {"mark", "no"}
      /\ \A x \in Replica \ {r} : psync'[x] = psync[x]
  BY DEF PsyncFile, TypeOK
<1>4. TypeOK'
  <2>1. down' \in [Replica -> Seq(DownMsg)]
    BY <1>1, TellStep
  <2>2. psync' \in [Replica -> {"no", "file", "mark"}]
    BY DEF TypeOK, PsyncFile
  <2> QED
    BY <2>1, <2>2 DEF TypeOK, PsyncFile, masterVars, sendVars, slaveVars, waitVars
<1>5. Handshakes'
  <2> SUFFICES ASSUME NEW x \in Replica PROVE HandshakeOf(x)'
    BY DEF Handshakes
  <2>1. HandshakeOf(x) /\ phase'[x] = phase[x] /\ (x \in handshaken' <=> x \in handshaken)
    BY DEF Handshakes, PsyncFile, slaveVars, masterVars
  <2>2. CASE x # r
    <3>1. psync'[x] = psync[x]
      BY <1>3, <2>2
    <3> QED
      BY <1>2, <2>1, <3>1, HandshakeKeptOf
  <2>3. CASE x = r
    <3>1. phase[r] \notin {"off", "ping", "conf1", "conf2"}
      BY <1>3, <2>1, <2>3 DEF HandshakeOf
    <3>2. \A i : PlainAt(down[r], i) => PlainAt(down'[r], i)
      BY <1>2 DEF PlainAt, Grows
    <3>3. WritesOf(r) /\ down[r] \in Seq(DownMsg)
      BY DEF Writes, TypeOK
    <3>4. DOMAIN down[r] = 1..Len(down[r]) /\ Len(down[r]) \in Nat
      BY <3>3, LenProperties
    <3>5. ASSUME phase[r] = "psync" PROVE PlainAt(down'[r], 1) /\ PlainAt(down'[r], 2)
      <4>1. PlainAt(down[r], 1) /\ (r \in handshaken => PlainAt(down[r], 2))
        BY <1>3, <2>1, <2>3, <3>5 DEF HandshakeOf
      <4>2. 2 <= Len(down[r]) + 1
        BY <3>4, <4>1 DEF PlainAt
      <4>3. phase[r] # "dead" /\ 2 \in Nat \ {0}
        BY <3>5
      <4>4. PlainAt(down'[r], 2)
        BY <1>1, <3>3, <4>1, <4>2, <4>3, RepliedAt
      <4> QED
        BY <3>2, <4>1, <4>4
    <3>6. ASSUME phase[r] = "rdb" PROVE PlainAt(down'[r], 1)
      <4>1. r \in handshaken => PlainAt(down[r], 1)
        BY <2>1, <2>3, <3>6 DEF HandshakeOf
      <4>2. 1 <= Len(down[r]) + 1
        BY <3>4
      <4> QED
        BY <1>1, <3>3, <3>6, <4>1, <4>2, RepliedAt
    <3> QED
      BY <2>1, <2>3, <3>1, <3>5, <3>6 DEF HandshakeOf
  <2> QED
    BY <2>2, <2>3
<1> QED
  BY <1>2, <1>4, <1>5, ToldKeeps DEF PsyncFile, masterVars, sendVars

\* A replica whose handshake is done has been sent no write before.
LEMMA PsyncMarkStep ==
  ASSUME Delivery, NEW r \in Replica, PsyncMark(r)
  PROVE  Delivery'
<1> USE DEF Delivery
<1>1. psync[r] = "mark" /\ psync'[r] = "no" /\ \A x \in Replica \ {r} : psync'[x] = psync[x]
  BY DEF PsyncMark, TypeOK
<1>2. handshaken' = handshaken \cup {r}
  BY DEF PsyncMark
<1>3. TypeOK'
  <2>1. psync' \in [Replica -> {"no", "file", "mark"}]
    BY DEF TypeOK, PsyncMark
  <2>2. base' \in [Replica -> Nat]
    BY DEF TypeOK, PsyncMark
  <2>3. handshaken' \in SUBSET Replica
    BY <1>2 DEF TypeOK
  <2> QED
    BY <2>1, <2>2, <2>3 DEF TypeOK, PsyncMark, sendVars, slaveVars, waitVars
<1>4. Senders'
  BY <1>2 DEF Senders, PsyncMark, sendVars, Msg
<1>5. Handshakes'
  <2> SUFFICES ASSUME NEW x \in Replica PROVE HandshakeOf(x)'
    BY DEF Handshakes
  <2>1. HandshakeOf(x) /\ phase'[x] = phase[x] /\ Heard(x)' = Heard(x) /\ down'[x] = down[x]
    BY DEF Handshakes, PsyncMark, slaveVars, Heard
  <2>2. CASE x # r
    <3>1. psync'[x] = psync[x] /\ (x \in handshaken' <=> x \in handshaken)
      BY <1>1, <1>2, <2>2
    <3> QED
      BY <2>1, <3>1, HandshakeKeptOf DEF Grows
  <2>3. CASE x = r
    BY <1>1, <1>2, <2>1, <2>3 DEF HandshakeOf
  <2> QED
    BY <2>2, <2>3
<1>6. Acks'
  BY AcksKept DEF PsyncMark, slaveVars
<1>7. Writes'
  <2> SUFFICES ASSUME NEW x \in Replica PROVE WritesOf(x)'
    BY DEF Writes
  <2>1. WritesOf(x) /\ phase'[x] = phase[x] /\ applied'[x] = applied[x]
        /\ SentTo(x)' = SentTo(x) /\ KeepsWrites(x)
    BY DEF Writes, PsyncMark, slaveVars, sendVars, SentTo, KeepsWrites
  <2>2. CASE x \in handshaken \/ x # r
    <3>1. base'[x] = base[x] /\ (x \in handshaken' <=> x \in handshaken)
      BY <1>2, <2>2 DEF PsyncMark, TypeOK
    <3> QED
      BY <2>1, <3>1, WritesKeptOf
  <2>3. CASE x = r /\ r \notin handshaken
    <3>1. OnTheWay(down[r]) = {} /\ applied[r] = 0
      BY <2>1, <2>3 DEF WritesOf
    <3>2. base'[r] = written /\ written \in Nat
      BY <2>3 DEF PsyncMark, TypeOK
    <3>3. Executor \in Sender
      BY DEF Sender
    <3>4. SentTo(r) = written
      BY <2>3, <3>3 DEF Senders, SentTo
    <3>5. down' = down /\ applied'[r] = 0 /\ SentTo(r)' = written
      BY <2>1, <2>3, <3>1, <3>4 DEF PsyncMark
    <3>6. Numbers(down[r]) = {} /\ Ordered(down[r])
      BY <3>1 DEF Numbers, Ordered
    <3>7. written + 0 + 1 .. written = {}
      BY <3>2
    <3>8. Numbers(down'[r]) = base'[r] + applied'[r] + 1 .. SentTo(r)'
      BY <3>2, <3>5, <3>6, <3>7
    <3>9. base'[r] + applied'[r] <= SentTo(r)'
      BY <3>2, <3>5
    <3> QED
      BY <1>2, <2>3, <3>5, <3>6, <3>8, <3>9 DEF WritesOf
  <2> QED
    BY <2>2, <2>3
<1> QED
  BY <1>3, <1>4, <1>5, <1>6, <1>7

\* What an acknowledgement says was heard before, so it is true.
LEMMA AckStep ==
  ASSUME Delivery, NEW r \in Replica, Ack(r)
  PROVE  Delivery'
<1> USE DEF Delivery
<1> DEFINE m == Head(inbox[r])
<1>1. /\ \A x \in Replica : Heard(x)' \subseteq Heard(x)
      /\ m \in Heard(r) /\ m.kind = "ack" /\ inbox' \in [Replica -> Seq(UpMsg)]
  BY RoutedStep DEF Ack
<1>2. lastAck'[r] = m.n /\ \A x \in Replica \ {r} : lastAck'[x] = lastAck[x]
  BY DEF Ack, TypeOK
<1>3. m \in UpMsg /\ m.n \in Int
  BY <1>1, HeardType DEF UpMsg
<1> HIDE DEF m
<1>4. TypeOK'
  <2>1. lastAck' \in [Replica -> Int]
    BY <1>3 DEF TypeOK, Ack, m
  <2> QED
    BY <1>1, <2>1 DEF TypeOK, Ack, sendVars, slaveVars, waitVars
<1>5. Senders'
  BY SendersKept DEF Ack, sendVars
<1>6. \A x \in Replica : Grows(x) /\ KeepsWrites(x)
  BY DEF Ack, Grows, KeepsWrites
<1>7. Handshakes'
  <2> SUFFICES ASSUME NEW x \in Replica PROVE HandshakeOf(x)'
    BY DEF Handshakes
  <2> QED
    BY <1>1, <1>6, HandshakeKeptOf DEF Handshakes, Ack, slaveVars
<1>8. Acks'
  <2> SUFFICES ASSUME NEW x \in Replica PROVE AcksOf(x)'
    BY DEF Acks
  <2>1. AcksOf(x) /\ slaveOffset'[x] = slaveOffset[x] /\ phase'[x] = phase[x]
    BY DEF Acks, Ack, slaveVars
  <2>2. CASE x # r
    BY <1>1, <1>2, <2>1, <2>2 DEF AcksOf
  <2>3. CASE x = r
    <3>1. m.n <= slaveOffset[r] /\ phase[r] \in {"stream", "failed", "dead"}
      BY <1>1, <2>1, <2>3 DEF AcksOf
    <3> QED
      BY <1>1, <1>2, <2>1, <2>3, <3>1 DEF AcksOf
  <2> QED
    BY <2>2, <2>3
<1>9. Writes'
  BY WritesKept DEF Ack, sendVars, slaveVars
<1> QED
  BY <1>4, <1>5, <1>7, <1>8, <1>9

\* What a Read returns, with what was left over, is parsed, dropped or left over;
\* nothing new is heard.
LEMMA SessionReadStep ==
  ASSUME Delivery, NEW r \in Replica, SessionRead(r)
  PROVE  Delivery'
<1> USE DEF Delivery
<1>1. PICK n \in 1..Len(up[r]) :
        LET buffer == leftover[r] \o SubSeq(up[r], 1, n)
        IN \E cut \in 1..Len(buffer) + 1 :
             /\ up' = [up EXCEPT ![r] = SubSeq(@, n + 1, Len(@))]
             /\ inbox' = [inbox EXCEPT ![r] = SubSeq(buffer, 1, cut - 1)]
             /\ leftover' = [leftover EXCEPT ![r] = SubSeq(buffer, cut + 1, Len(buffer))]
  BY DEF SessionRead
<1> DEFINE U == up[r]
           buffer == leftover[r] \o SubSeq(U, 1, n)
<1>2. PICK cut \in 1..Len(buffer) + 1 :
        /\ up' = [up EXCEPT ![r] = SubSeq(U, n + 1, Len(U))]
        /\ inbox' = [inbox EXCEPT ![r] = SubSeq(buffer, 1, cut - 1)]
        /\ leftover' = [leftover EXCEPT ![r] = SubSeq(buffer, cut + 1, Len(buffer))]
  BY <1>1
<1>3. U \in Seq(UpMsg) /\ leftover[r] \in Seq(UpMsg) /\ Len(U) \in Nat /\ n \in 1..Len(U)
  BY LenProperties DEF TypeOK
<1>4. SubSeq(U, 1, n) \in Seq(UpMsg) /\ ToSet(SubSeq(U, 1, n)) \subseteq ToSet(U)
  <2> HIDE DEF U
  <2> QED
    BY <1>3, PieceMembers
<1>5. SubSeq(U, n + 1, Len(U)) \in Seq(UpMsg) /\ ToSet(SubSeq(U, n + 1, Len(U))) \subseteq ToSet(U)
  <2> HIDE DEF U
  <2>1. n + 1 \in Nat \ {0} /\ Len(U) \in Int /\ Len(U) <= Len(U)
    BY <1>3
  <2> QED
    BY <1>3, <2>1, PieceMembers
<1>6. buffer \in Seq(UpMsg) /\ ToSet(buffer) \subseteq ToSet(leftover[r]) \cup ToSet(U)
  <2>1. buffer \in Seq(UpMsg) /\ ToSet(buffer) = ToSet(leftover[r]) \cup ToSet(SubSeq(U, 1, n))
    BY <1>3, <1>4, ConcatMembers
  <2> QED
    BY <1>4, <2>1
<1> HIDE DEF U, buffer
<1>7. Len(buffer) \in Nat /\ cut \in 1..Len(buffer) + 1
  BY <1>6, LenProperties
<1>8. /\ SubSeq(buffer, 1, cut - 1) \in Seq(UpMsg)
      /\ ToSet(SubSeq(buffer, 1, cut - 1)) \subseteq ToSet(buffer)
  <2>1. cut - 1 \in Int /\ cut - 1 <= Len(buffer) /\ 1 \in Nat \ {0}
    BY <1>7
  <2> QED
    BY <1>6, <2>1, PieceMembers
<1>9. /\ SubSeq(buffer, cut + 1, Len(buffer)) \in Seq(UpMsg)
      /\ ToSet(SubSeq(buffer, cut + 1, Len(buffer))) \subseteq ToSet(buffer)
  <2>1. cut + 1 \in Nat \ {0} /\ Len(buffer) \in Int /\ Len(buffer) <= Len(buffer)
    BY <1>7
  <2> QED
    BY <1>6, <2>1, PieceMembers
<1>10. /\ up'[r] = SubSeq(U, n + 1, Len(U)) /\ inbox'[r] = SubSeq(buffer, 1, cut - 1)
       /\ leftover'[r] = SubSeq(buffer, cut + 1, Len(buffer))
       /\ \A x \in Replica \ {r} : up'[x] = up[x] /\ inbox'[x] = inbox[x]
                                   /\ leftover'[x] = leftover[x]
  BY <1>2 DEF TypeOK
<1>11. \A x \in Replica : Heard(x)' \subseteq Heard(x)
  <2>1. Heard(r)' \subseteq Heard(r)
    BY <1>5, <1>6, <1>8, <1>9, <1>10 DEF Heard, U
  <2> QED
    BY <1>10, <2>1 DEF Heard
<1>12. TypeOK'
  <2>1. up' \in [Replica -> Seq(UpMsg)]
    BY <1>2, <1>5 DEF TypeOK
  <2>2. inbox' \in [Replica -> Seq(UpMsg)]
    BY <1>2, <1>8 DEF TypeOK
  <2>3. leftover' \in [Replica -> Seq(UpMsg)]
    BY <1>2, <1>9 DEF TypeOK
  <2> QED
    BY <2>1, <2>2, <2>3 DEF TypeOK, SessionRead, masterVars, sendVars, slaveVars, waitVars
<1>13. \A x \in Replica : Grows(x) /\ KeepsWrites(x)
  BY DEF SessionRead, Grows, KeepsWrites
<1> QED
  BY <1>11, <1>12, <1>13, ToldKeeps DEF SessionRead, masterVars, sendVars

-----------------------------------------------------------------------------
(* The slave.                                                              *)

\* What a slave says is heard, and nothing else is new.
LEMMA SayStep ==
  ASSUME TypeOK, NEW r \in Replica, NEW msgs \in Seq(UpMsg), Say(r, msgs),
         UNCHANGED <<inbox, leftover>>
  PROVE  /\ up' \in [Replica -> Seq(UpMsg)]
         /\ Heard(r)' = Heard(r) \cup ToSet(msgs)
         /\ \A x \in Replica \ {r} : Heard(x)' = Heard(x)
<1>1. up \in [Replica -> Seq(UpMsg)] /\ up[r] \in Seq(UpMsg)
  BY DEF TypeOK
<1>2. up[r] \o msgs \in Seq(UpMsg) /\ ToSet(up[r] \o msgs) = ToSet(up[r]) \cup ToSet(msgs)
  BY <1>1, ConcatMembers
<1>3. up' \in [Replica -> Seq(UpMsg)]
  BY <1>1, <1>2 DEF Say
<1>4. up'[r] = up[r] \o msgs /\ \A x \in Replica \ {r} : up'[x] = up[x]
  BY <1>1 DEF Say
<1> QED
  BY <1>2, <1>3, <1>4 DEF Heard

\* Reading messages of which none is a write.
LEMMA DropSome ==
  ASSUME TypeOK, NEW r \in Replica, NEW n \in 1..Len(down[r]), Drop(r, n)
  PROVE  /\ down' \in [Replica -> Seq(DownMsg)]
         /\ OnTheWay(down[r]) = {} => OnTheWay(down'[r]) = {}
         /\ \A x \in Replica \ {r} : down'[x] = down[x]
<1> DEFINE q == down[r]
           u == SubSeq(q, n + 1, Len(q))
<1>1. down \in [Replica -> Seq(DownMsg)] /\ q \in Seq(DownMsg) /\ n \in 1..Len(q)
  BY DEF TypeOK
<1> HIDE DEF q
<1>2. u \in Seq(DownMsg) /\ ToSet(u) \subseteq ToSet(q)
  <2>1. Len(q) \in Nat
    BY <1>1, LenProperties
  <2>2. n + 1 \in Nat \ {0} /\ Len(q) \in Int /\ Len(q) <= Len(q)
    BY <1>1, <2>1
  <2> QED
    BY <1>1, <2>2, PieceMembers
<1>3. OnTheWay(q) = {} => \A m \in ToSet(q) : m.kind # "write"
  BY DEF OnTheWay, ToSet
<1>4. (\A m \in ToSet(u) : m.kind # "write") => OnTheWay(u) = {}
  BY DEF OnTheWay, ToSet
<1>5. down' = [down EXCEPT ![r] = u]
  BY DEF Drop, q
<1> HIDE DEF u
<1>6. down' \in [Replica -> Seq(DownMsg)] /\ down'[r] = u
      /\ \A x \in Replica \ {r} : down'[x] = down[x]
  BY <1>1, <1>2, <1>5
<1>7. OnTheWay(q) = {} => OnTheWay(u) = {}
  BY <1>2, <1>3, <1>4
<1> QED
  BY <1>6, <1>7 DEF q

\* Reading one message.
LEMMA DropOne ==
  ASSUME TypeOK, NEW r \in Replica, down[r] # <<>>, Drop(r, 1)
  PROVE  /\ down' \in [Replica -> Seq(DownMsg)]
         /\ Head(down[r]) = down[r][1] /\ Head(down[r]) \in DownMsg
         /\ down'[r] = SubSeq(down[r], 2, Len(down[r]))
         /\ \A x \in Replica \ {r} : down'[x] = down[x]
         /\ down[r][1].kind # "write" => KeepsWrites(r)
         /\ PlainAt(down[r], 2) => PlainAt(down'[r], 1)
<1> DEFINE q == down[r]
           u == SubSeq(q, 2, Len(q))
<1>1. down \in [Replica -> Seq(DownMsg)] /\ q \in Seq(DownMsg) /\ q # <<>>
  BY DEF TypeOK
<1>2. /\ u \in Seq(DownMsg) /\ Head(q) = q[1] /\ 1 \in DOMAIN q
      /\ \A i \in DOMAIN q : i # 1 => i - 1 \in DOMAIN u /\ u[i - 1] = q[i]
  BY <1>1, Dropped
<1>3. q[1] \in DownMsg
  BY <1>1, <1>2, LenProperties, ElementOfSeq
<1>4. down' = [down EXCEPT ![r] = u]
  BY DEF Drop
<1>5. q[1].kind # "write" =>
        /\ OnTheWay(q) = {} => OnTheWay(u) = {}
        /\ Numbers(u) = Numbers(q)
        /\ Ordered(q) => Ordered(u)
  <2> HIDE DEF q
  <2> QED
    BY <1>1, PlainDropped
<1>6. PlainAt(q, 2) => PlainAt(u, 1)
  <2> SUFFICES ASSUME PlainAt(q, 2) PROVE PlainAt(u, 1)
    OBVIOUS
  <2> HIDE DEF q, u
  <2>1. 2 - 1 \in DOMAIN u /\ u[2 - 1] = q[2]
    BY <1>2 DEF PlainAt
  <2> QED
    BY <2>1 DEF PlainAt
<1> HIDE DEF u
<1>7. down' \in [Replica -> Seq(DownMsg)] /\ down'[r] = u
      /\ \A x \in Replica \ {r} : down'[x] = down[x]
  BY <1>1, <1>2, <1>4
<1>8. q[1].kind # "write" => KeepsWrites(r)
  BY <1>5, <1>7 DEF KeepsWrites
<1> QED
  BY <1>2, <1>3, <1>6, <1>7, <1>8 DEF u

LEMMA ConnectStep ==
  ASSUME Delivery, NEW r \in Replica, Connect(r)
  PROVE  Delivery'
<1> USE DEF Delivery
<1> DEFINE msgs == <<Msg("ping", 0)>>
<1>1. msgs \in Seq(UpMsg) /\ \A m \in ToSet(msgs) : m.kind = "ping"
  BY DEF Msg, UpMsg, ToSet
<1>2. Say(r, msgs)
  BY DEF Connect
<1> HIDE DEF msgs
<1>3. /\ up' \in [Replica -> Seq(UpMsg)]
      /\ Heard(r)' = Heard(r) \cup ToSet(msgs)
      /\ \A x \in Replica \ {r} : Heard(x)' = Heard(x)
  BY <1>1, <1>2, SayStep DEF Connect
<1>4. \A x \in Replica : \A m \in Heard(x)' : m \in Heard(x) \/ m.kind = "ping"
  BY <1>1, <1>3
<1>5. phase[r] = "off" /\ phase'[r] = "ping" /\ \A x \in Replica \ {r} : phase'[x] = phase[x]
  BY DEF Connect, TypeOK
<1>6. TypeOK'
  <2>1. phase' \in [Replica -> {"off", "ping", "conf1", "conf2", "psync", "rdb", "stream",
                               "failed", "dead"}]
    BY DEF Connect, TypeOK
  <2> QED
    BY <1>3, <2>1 DEF TypeOK, Connect, masterVars, sendVars, waitVars
<1>7. Senders'
  BY SendersKept DEF Connect, sendVars, masterVars
<1>8. \A x \in Replica : Grows(x) /\ KeepsWrites(x)
  BY DEF Connect, Grows, KeepsWrites
<1>9. Handshakes'
  <2> SUFFICES ASSUME NEW x \in Replica PROVE HandshakeOf(x)'
    BY DEF Handshakes
  <2>1. HandshakeOf(x) /\ psync'[x] = psync[x] /\ (x \in handshaken' <=> x \in handshaken)
    BY DEF Handshakes, Connect, masterVars
  <2>2. CASE x # r
    BY <1>4, <1>5, <1>8, <2>1, <2>2, HandshakeKeptOf
  <2>3. CASE x = r
    BY <1>4, <1>5, <2>1, <2>3 DEF HandshakeOf
  <2> QED
    BY <2>2, <2>3
<1>10. Acks'
  <2> SUFFICES ASSUME NEW x \in Replica PROVE AcksOf(x)'
    BY DEF Acks
  <2>1. AcksOf(x) /\ Heard(x) \subseteq UpMsg /\ lastAck[x] \in Int /\ slaveOffset[x] \in Int
    BY HeardType DEF Acks, TypeOK
  <2>2. lastAck'[x] = lastAck[x] /\ slaveOffset'[x] = slaveOffset[x]
    BY DEF Connect, masterVars
  <2> QED
    BY <1>4, <1>5, <2>1, <2>2, AcksKeptOf
<1>11. Writes'
  <2> SUFFICES ASSUME NEW x \in Replica PROVE WritesOf(x)'
    BY DEF Writes
  <2>1. SentTo(x)' = SentTo(x) /\ applied'[x] = applied[x] /\ base'[x] = base[x]
        /\ handshaken' = handshaken
    BY DEF SentTo, Connect, masterVars, sendVars
  <2> QED
    BY <1>5, <1>8, <2>1, WritesKeptOf DEF Writes
<1> QED
  BY <1>6, <1>7, <1>9, <1>10, <1>11

\* A step of one slave leaves what concerns another one.
LEMMA OthersKeep ==
  ASSUME Delivery, NEW x \in Replica,
         phase'[x] = phase[x], down'[x] = down[x], Heard(x)' = Heard(x),
         slaveOffset'[x] = slaveOffset[x], applied'[x] = applied[x],
         UNCHANGED <<masterVars, sendVars, psync, base>>
  PROVE  HandshakeOf(x)' /\ AcksOf(x)' /\ WritesOf(x)'
<1> USE DEF Delivery, masterVars, sendVars
<1>1. HandshakeOf(x)'
  <2>1. HandshakeOf(x) /\ Grows(x)
    BY DEF Handshakes, Grows
  <2> QED
    BY <2>1, HandshakeKeptOf
<1>2. AcksOf(x)'
  BY DEF Acks, AcksOf
<1>3. WritesOf(x)'
  <2>1. WritesOf(x) /\ KeepsWrites(x) /\ SentTo(x)' = SentTo(x)
    BY DEF Writes, KeepsWrites, SentTo
  <2> QED
    BY <2>1, WritesKeptOf
<1> QED
  BY <1>1, <1>2, <1>3

\* A step of the handshake: no write is on its way yet, and only the last of them
\* sends PSYNC.
LEMMA ExpectStep ==
  ASSUME Delivery, NEW r \in Replica,
         NEW from \in {"ping", "conf1", "conf2"}, NEW to \in {"conf1", "conf2", "psync"},
         NEW msgs \in Seq(UpMsg), Expect(r, from, to, msgs),
         \A m \in ToSet(msgs) : m.kind # "ack" /\ (to # "psync" => m.kind # "psync")
  PROVE  Delivery'
<1> USE DEF Delivery
<1>1. PICK n \in 1..Len(down[r]) :
        /\ Drop(r, n)
        /\ \/ phase' = [phase EXCEPT ![r] = to] /\ Say(r, msgs)
           \/ phase' = [phase EXCEPT ![r] = "failed"] /\ up' = up
  BY DEF Expect
<1>2. UNCHANGED <<masterVars, sendVars, leftover, inbox, psync, slaveOffset, suppress, applied,
                  waitVars, base>> /\ phase[r] = from
  BY DEF Expect
<1>3. \A x \in Replica \ {r} : phase'[x] = phase[x] /\ Heard(x)' = Heard(x)
  <2>1. CASE up' = up
    BY <1>1, <1>2, <2>1 DEF Heard, TypeOK
  <2>2. CASE Say(r, msgs)
    BY <1>1, <1>2, <2>2, SayStep DEF TypeOK
  <2> QED
    BY <1>1, <2>1, <2>2
<1>4. /\ down' \in [Replica -> Seq(DownMsg)]
      /\ OnTheWay(down[r]) = {} => OnTheWay(down'[r]) = {}
      /\ \A x \in Replica \ {r} : down'[x] = down[x]
  BY <1>1, DropSome
<1>5. TypeOK'
  <2>1. up' \in [Replica -> Seq(UpMsg)]
    <3>1. CASE up' = up
      BY <3>1 DEF TypeOK
    <3>2. CASE Say(r, msgs)
      BY <1>2, <3>2, SayStep
    <3> QED
      BY <1>1, <3>1, <3>2
  <2>2. phase' \in [Replica -> {"off", "ping", "conf1", "conf2", "psync", "rdb", "stream",
                               "failed", "dead"}]
    BY <1>1 DEF TypeOK
  <2> QED
    BY <1>2, <1>4, <2>1, <2>2 DEF TypeOK, masterVars, sendVars, waitVars
<1>6. Senders'
  BY <1>2, SendersKept DEF masterVars, sendVars
<1>7. HandshakeOf(r) /\ AcksOf(r) /\ WritesOf(r)
  BY DEF Handshakes, Acks, Writes
<1>8. psync[r] = "no" /\ r \notin handshaken /\ \A m \in Heard(r) : m.kind # "psync"
  BY <1>2, <1>7 DEF HandshakeOf
<1>9. HandshakeOf(r)' /\ AcksOf(r)'
  <2>1. CASE phase' = [phase EXCEPT ![r] = to] /\ Say(r, msgs)
    <3>1. phase'[r] = to
      BY <2>1 DEF TypeOK
    <3>2. Heard(r)' = Heard(r) \cup ToSet(msgs)
      BY <1>2, <2>1, SayStep
    <3>3. HandshakeOf(r)'
      BY <1>2, <1>8, <3>1, <3>2 DEF HandshakeOf, masterVars
    <3>4. AcksOf(r)'
      BY <1>2, <1>7, <3>1, <3>2 DEF AcksOf, masterVars
    <3> QED
      BY <3>3, <3>4
  <2>2. CASE phase' = [phase EXCEPT ![r] = "failed"] /\ up' = up
    <3>1. phase'[r] = "failed" /\ Heard(r)' = Heard(r)
      BY <1>2, <2>2 DEF TypeOK, Heard
    <3>2. HandshakeOf(r)'
      BY <3>1 DEF HandshakeOf
    <3>3. AcksOf(r)'
      BY <1>2, <1>7, <3>1 DEF AcksOf, masterVars
    <3> QED
      BY <3>2, <3>3
  <2> QED
    BY <1>1, <2>1, <2>2
<1>10. WritesOf(r)'
  BY <1>2, <1>4, <1>7, <1>8 DEF WritesOf, masterVars
<1>11. ASSUME NEW x \in Replica \ {r} PROVE HandshakeOf(x)' /\ AcksOf(x)' /\ WritesOf(x)'
  BY <1>2, <1>3, <1>4, OthersKeep
<1>12. Handshakes'
  BY <1>9, <1>11 DEF Handshakes
<1>13. Acks'
  BY <1>9, <1>11 DEF Acks
<1>14. Writes'
  BY <1>10, <1>11 DEF Writes
<1> QED
  BY <1>5, <1>6, <1>12, <1>13, <1>14

LEMMA HandshakeStep ==
  ASSUME Delivery, NEW r \in Replica, Handshake(r)
  PROVE  Delivery'
<1> DEFINE conf == <<Msg("replconf", 0), Msg("replconf", 0)>>
           last == <<Msg("psync", 0)>>
<1>1. conf \in Seq(UpMsg) /\ \A m \in ToSet(conf) : m.kind = "replconf"
  BY DEF Msg, UpMsg, ToSet
<1>2. last \in Seq(UpMsg) /\ \A m \in ToSet(last) : m.kind = "psync"
  BY DEF Msg, UpMsg, ToSet
<1>3. <<>> \in Seq(UpMsg) /\ ToSet(<<>>) = {}
  BY DEF ToSet
<1>4. \/ Expect(r, "ping", "conf1", conf) \/ Expect(r, "conf1", "conf2", <<>>)
      \/ Expect(r, "conf2", "psync", last)
  BY DEF Handshake
<1> HIDE DEF conf, last
<1>5. CASE Expect(r, "ping", "conf1", conf)
  BY <1>1, <1>5, ExpectStep
<1>6. CASE Expect(r, "conf1", "conf2", <<>>)
  BY <1>3, <1>6, ExpectStep
<1>7. CASE Expect(r, "conf2", "psync", last)
  BY <1>2, <1>7, ExpectStep
<1> QED
  BY <1>4, <1>5, <1>6, <1>7

\* The conjuncts, from what a step of r keeps and what it does to r itself.
LEMMA OneKeeps ==
  ASSUME Delivery, NEW r \in Replica, HandshakeOf(r)', AcksOf(r)', WritesOf(r)',
         \A x \in Replica \ {r} :
           /\ phase'[x] = phase[x] /\ down'[x] = down[x] /\ Heard(x)' = Heard(x)
           /\ slaveOffset'[x] = slaveOffset[x] /\ applied'[x] = applied[x],
         UNCHANGED <<masterVars, sendVars, psync, base>>
  PROVE  Senders' /\ Handshakes' /\ Acks' /\ Writes'
<1>1. ASSUME NEW x \in Replica \ {r} PROVE HandshakeOf(x)' /\ AcksOf(x)' /\ WritesOf(x)'
  BY OthersKeep
<1>2. Senders'
  BY SendersKept DEF Delivery, masterVars, sendVars
<1>3. Handshakes'
  BY <1>1 DEF Handshakes
<1>4. Acks'
  BY <1>1 DEF Acks
<1>5. Writes'
  BY <1>1 DEF Writes
<1> QED
  BY <1>2, <1>3, <1>4, <1>5

\* What a slave reads before the stream is no write.
LEMMA PlainHead ==
  ASSUME Delivery, NEW r \in Replica, down[r] # <<>>, phase[r] \in {"psync", "rdb"}
  PROVE  down[r][1].kind # "write"
<1>1. HandshakeOf(r) /\ WritesOf(r) /\ down[r] \in Seq(DownMsg)
  BY DEF Delivery, Handshakes, Writes, TypeOK
<1>2. 1 \in DOMAIN down[r]
  BY <1>1, Dropped
<1>3. CASE r \in handshaken
  BY <1>1, <1>3 DEF HandshakeOf, PlainAt
<1>4. CASE r \notin handshaken
  BY <1>1, <1>2, <1>4 DEF WritesOf, OnTheWay
<1> QED
  BY <1>3, <1>4

LEMMA FullResyncStep ==
  ASSUME Delivery, NEW r \in Replica, FullResync(r)
  PROVE  Delivery'
<1> USE DEF Delivery
<1>1. /\ phase[r] = "psync" /\ down[r] # <<>> /\ Drop(r, 1)
      /\ phase' = [phase EXCEPT ![r] = "rdb"]
      /\ slaveOffset' = [slaveOffset EXCEPT ![r] = 0]
      /\ UNCHANGED <<masterVars, sendVars, up, leftover, inbox, psync, suppress, applied,
                     waitVars, base>>
  BY DEF FullResync
<1>2. phase'[r] = "rdb" /\ \A x \in Replica \ {r} : phase'[x] = phase[x]
  BY <1>1 DEF TypeOK
<1>3. \A x \in Replica \ {r} : slaveOffset'[x] = slaveOffset[x]
  BY <1>1 DEF TypeOK
<1>4. \A x \in Replica : Heard(x)' = Heard(x)
  BY <1>1 DEF Heard
<1>5. /\ down' \in [Replica -> Seq(DownMsg)]
      /\ \A x \in Replica \ {r} : down'[x] = down[x]
      /\ KeepsWrites(r) /\ (PlainAt(down[r], 2) => PlainAt(down'[r], 1))
  BY <1>1, DropOne, PlainHead
<1>6. TypeOK'
  <2>1. phase' \in [Replica -> {"off", "ping", "conf1", "conf2", "psync", "rdb", "stream",
                               "failed", "dead"}]
    BY <1>1 DEF TypeOK
  <2>2. slaveOffset' \in [Replica -> Int]
    BY <1>1 DEF TypeOK
  <2> QED
    BY <1>1, <1>5, <2>1, <2>2 DEF TypeOK, masterVars, sendVars, waitVars
<1>7. HandshakeOf(r) /\ AcksOf(r) /\ WritesOf(r)
  BY DEF Handshakes, Acks, Writes
<1>8. HandshakeOf(r)'
  BY <1>1, <1>2, <1>5, <1>7 DEF HandshakeOf, masterVars
<1>9. AcksOf(r)'
  BY <1>1, <1>2, <1>4, <1>7 DEF AcksOf, masterVars
<1>10. WritesOf(r)'
  <2>1. SentTo(r)' = SentTo(r)
    BY <1>1 DEF SentTo, masterVars, sendVars
  <2> QED
    BY <1>1, <1>5, <1>7, <2>1, WritesKeptOf DEF masterVars
<1> QED
  BY <1>1, <1>2, <1>3, <1>4, <1>5, <1>6, <1>8, <1>9, <1>10, OneKeeps

LEMMA LoadSnapshotStep ==
  ASSUME Delivery, NEW r \in Replica, LoadSnapshot(r)
  PROVE  Delivery'
<1> USE DEF Delivery
<1>1. PICK to \in {"stream", "failed"} : phase' = [phase EXCEPT ![r] = to]
  BY DEF LoadSnapshot
<1>2. /\ phase[r] = "rdb" /\ down[r] # <<>> /\ Drop(r, 1)
      /\ UNCHANGED <<masterVars, sendVars, up, leftover, inbox, psync, slaveOffset, suppress,
                     applied, waitVars, base>>
  BY DEF LoadSnapshot
<1>3. phase'[r] = to /\ \A x \in Replica \ {r} : phase'[x] = phase[x]
  BY <1>1 DEF TypeOK
<1>4. \A x \in Replica : Heard(x)' = Heard(x)
  BY <1>2 DEF Heard
<1>5. /\ down' \in [Replica -> Seq(DownMsg)]
      /\ \A x \in Replica \ {r} : down'[x] = down[x]
      /\ KeepsWrites(r)
  BY <1>2, DropOne, PlainHead
<1>6. TypeOK'
  <2>1. phase' \in [Replica -> {"off", "ping", "conf1", "conf2", "psync", "rdb", "stream",
                               "failed", "dead"}]
    BY <1>1 DEF TypeOK
  <2> QED
    BY <1>2, <1>5, <2>1 DEF TypeOK, masterVars, sendVars, waitVars
<1>7. AcksOf(r) /\ WritesOf(r)
  BY DEF Acks, Writes
<1>8. HandshakeOf(r)'
  BY <1>3 DEF HandshakeOf
<1>9. AcksOf(r)'
  BY <1>2, <1>3, <1>4, <1>7 DEF AcksOf, masterVars
<1>10. WritesOf(r)'
  <2>1. SentTo(r)' = SentTo(r)
    BY <1>2 DEF SentTo, masterVars, sendVars
  <2> QED
    BY <1>2, <1>5, <1>7, <2>1, WritesKeptOf DEF masterVars
<1> QED
  BY <1>2, <1>3, <1>4, <1>5, <1>6, <1>8, <1>9, <1>10, OneKeeps

\* A message of the stream moves the slave's offset on.
LEMMA StreamsStep ==
  ASSUME TypeOK, NEW r \in Replica, NEW kind, Streams(r, kind)
  PROVE  /\ phase[r] = "stream" /\ down[r] # <<>> /\ Drop(r, 1) /\ Head(down[r]).kind = kind
         /\ slaveOffset' \in [Replica -> Int] /\ slaveOffset[r] <= slaveOffset'[r]
         /\ \A x \in Replica \ {r} : slaveOffset'[x] = slaveOffset[x]
<1>1. Size(Head(down[r])) \in Nat
  BY ConstantsAssumption DEF Size
<1>2. slaveOffset \in [Replica -> Int]
  BY DEF TypeOK
<1>3. slaveOffset' = [slaveOffset EXCEPT ![r] = slaveOffset[r] + Size(Head(down[r]))]
  BY DEF Streams
<1>4. slaveOffset' \in [Replica -> Int] /\ slaveOffset[r] <= slaveOffset'[r]
  BY <1>1, <1>2, <1>3
<1>5. \A x \in Replica \ {r} : slaveOffset'[x] = slaveOffset[x]
  BY <1>2, <1>3
<1> QED
  BY <1>4, <1>5 DEF Streams

\* The write that a slave executes is the next one after those it has executed.
LEMMA NextWrite ==
  ASSUME Delivery, NEW r \in Replica, Streams(r, "write")
  PROVE  /\ r \in handshaken /\ Head(down[r]).n = base[r] + applied[r] + 1
         /\ base[r] + applied[r] + 1 <= SentTo(r)
         /\ Numbers(down'[r]) = base[r] + applied[r] + 2 .. SentTo(r) /\ Ordered(down'[r])
<1> USE DEF Delivery
<1> DEFINE q == down[r]
           a == base[r] + applied[r] + 1
           b == SentTo(r)
<1>1. /\ q \in Seq(DownMsg) /\ q # <<>> /\ q[1].kind = "write" /\ Head(q) = q[1]
      /\ down'[r] = SubSeq(q, 2, Len(q)) /\ phase[r] = "stream" /\ 1 \in DOMAIN q
  <2>1. q # <<>> /\ Drop(r, 1) /\ Head(q).kind = "write" /\ phase[r] = "stream"
    BY StreamsStep
  <2>2. Head(q) = q[1] /\ down'[r] = SubSeq(q, 2, Len(q))
    BY <2>1, DropOne
  <2>3. q \in Seq(DownMsg)
    BY DEF TypeOK
  <2>4. 1 \in DOMAIN q
    BY <2>1, <2>3, Dropped
  <2> QED
    BY <2>1, <2>2, <2>3, <2>4
<1>2. WritesOf(r) /\ base[r] \in Nat /\ applied[r] \in Nat /\ written \in Nat
  BY DEF Writes, TypeOK
<1>3. r \in handshaken
  BY <1>1, <1>2 DEF WritesOf, OnTheWay
<1>4. Numbers(q) = a..b /\ Ordered(q) /\ a \in Int /\ b \in Int
  BY <1>1, <1>2, <1>3 DEF WritesOf, SentTo
<1> HIDE DEF q, a, b
<1>5. /\ a <= b /\ q[1].n = a
      /\ Numbers(SubSeq(q, 2, Len(q))) = a + 1 .. b /\ Ordered(SubSeq(q, 2, Len(q)))
  BY <1>1, <1>4, WriteDropped
<1>6. a + 1 = base[r] + applied[r] + 2
  BY <1>2 DEF a
<1> QED
  BY <1>1, <1>3, <1>5, <1>6 DEF q, a, b

LEMMA ApplyWriteStep ==
  ASSUME Delivery, NEW r \in Replica, ApplyWrite(r)
  PROVE  Delivery'
<1> USE DEF Delivery
<1>1. /\ Streams(r, "write") /\ applied' = [applied EXCEPT ![r] = @ + 1]
      /\ UNCHANGED <<masterVars, sendVars, leftover, inbox, psync, phase, suppress, waitVars,
                     base>>
  BY DEF ApplyWrite
<1>2. PICK msgs \in Seq(UpMsg) : Say(r, msgs) /\ \A m \in ToSet(msgs) : m.kind = "reply"
  <2> DEFINE one == <<Msg("reply", 0)>>
  <2>1. one \in Seq(UpMsg) /\ \A m \in ToSet(one) : m.kind = "reply"
    BY DEF Msg, UpMsg, ToSet
  <2>2. <<>> \in Seq(UpMsg) /\ \A m \in ToSet(<<>>) : m.kind = "reply"
    BY DEF ToSet
  <2>3. Say(r, one) \/ Say(r, <<>>)
    BY DEF ApplyWrite
  <2> QED
    BY <2>1, <2>2, <2>3
<1>3. /\ up' \in [Replica -> Seq(UpMsg)] /\ Heard(r)' = Heard(r) \cup ToSet(msgs)
      /\ \A x \in Replica \ {r} : Heard(x)' = Heard(x)
  BY <1>1, <1>2, SayStep
<1>4. /\ phase[r] = "stream" /\ down[r] # <<>> /\ Drop(r, 1)
      /\ slaveOffset' \in [Replica -> Int] /\ slaveOffset[r] <= slaveOffset'[r]
      /\ \A x \in Replica \ {r} : slaveOffset'[x] = slaveOffset[x]
  BY <1>1, StreamsStep
<1>5. /\ down' \in [Replica -> Seq(DownMsg)] /\ \A x \in Replica \ {r} : down'[x] = down[x]
  BY <1>4, DropOne
<1>6. /\ applied'[r] = applied[r] + 1 /\ applied' \in [Replica -> Nat]
      /\ \A x \in Replica \ {r} : applied'[x] = applied[x]
  BY <1>1 DEF TypeOK
<1>7. TypeOK'
  BY <1>1, <1>3, <1>4, <1>5, <1>6 DEF TypeOK, masterVars, sendVars, waitVars
<1>8. phase'[r] = "stream" /\ HandshakeOf(r)'
  BY <1>1, <1>4 DEF HandshakeOf
<1>9. AcksOf(r)'
  <2>1. AcksOf(r) /\ Heard(r) \subseteq UpMsg /\ lastAck[r] \in Int /\ slaveOffset[r] \in Int
    BY HeardType DEF Acks, TypeOK
  <2>2. lastAck'[r] = lastAck[r] /\ slaveOffset'[r] \in Int
    BY <1>1, <1>4 DEF masterVars
  <2>3. \A m \in Heard(r)' : m \in Heard(r) \/ m.kind # "ack"
    BY <1>2, <1>3
  <2> QED
    BY <1>4, <1>8, <2>1, <2>2, <2>3, AcksKeptOf
<1>10. WritesOf(r)'
  <2>1. /\ r \in handshaken /\ base[r] + applied[r] + 1 <= SentTo(r)
        /\ Numbers(down'[r]) = base[r] + applied[r] + 2 .. SentTo(r) /\ Ordered(down'[r])
    BY <1>1, NextWrite
  <2>2. base[r] \in Nat /\ applied[r] \in Nat /\ written \in Nat
    BY DEF TypeOK
  <2>3. SentTo(r)' = SentTo(r) /\ base'[r] = base[r] /\ handshaken' = handshaken
        /\ SentTo(r) \in Int
    BY <1>1, <2>2 DEF SentTo, masterVars, sendVars
  <2>4. base'[r] + applied'[r] + 1 = base[r] + applied[r] + 2
        /\ base'[r] + applied'[r] = base[r] + applied[r] + 1
    <3>1. base'[r] = base[r] /\ applied'[r] = applied[r] + 1
      BY <1>6, <2>3
    <3> QED
      BY <2>2, <3>1
  <2> QED
    BY <2>1, <2>3, <2>4 DEF WritesOf
<1>11. Senders' /\ Handshakes' /\ Acks' /\ Writes'
  BY <1>1, <1>3, <1>4, <1>5, <1>6, <1>8, <1>9, <1>10, OneKeeps
<1> QED
  BY <1>7, <1>11

LEMMA GetAckStep ==
  ASSUME Delivery, NEW r \in Replica, GetAck(r)
  PROVE  Delivery'
<1> USE DEF Delivery
<1>1. /\ Streams(r, "getack") /\ suppress' = [suppress EXCEPT ![r] = TRUE]
      /\ UNCHANGED <<masterVars, sendVars, leftover, inbox, psync, phase, applied, waitVars,
                     base>>
  BY DEF GetAck
<1> DEFINE msgs == <<Msg("ack", slaveOffset[r])>>
<1>2. msgs \in Seq(UpMsg) /\ \A m \in ToSet(msgs) : m.kind = "ack" /\ m.n = slaveOffset[r]
  BY DEF Msg, UpMsg, ToSet, TypeOK
<1>3. Say(r, msgs)
  BY DEF GetAck
<1> HIDE DEF msgs
<1>4. /\ up' \in [Replica -> Seq(UpMsg)] /\ Heard(r)' = Heard(r) \cup ToSet(msgs)
      /\ \A x \in Replica \ {r} : Heard(x)' = Heard(x)
  BY <1>1, <1>2, <1>3, SayStep
<1>5. /\ phase[r] = "stream" /\ down[r] # <<>> /\ Drop(r, 1) /\ Head(down[r]).kind = "getack"
      /\ slaveOffset' \in [Replica -> Int] /\ slaveOffset[r] <= slaveOffset'[r]
      /\ \A x \in Replica \ {r} : slaveOffset'[x] = slaveOffset[x]
  BY <1>1, StreamsStep
<1>6. /\ down' \in [Replica -> Seq(DownMsg)] /\ KeepsWrites(r)
      /\ \A x \in Replica \ {r} : down'[x] = down[x]
  BY <1>5, DropOne
<1>7. TypeOK'
  <2>1. suppress' \in [Replica -> BOOLEAN]
    BY <1>1 DEF TypeOK
  <2> QED
    BY <1>1, <1>4, <1>5, <1>6, <2>1 DEF TypeOK, masterVars, sendVars, waitVars
<1>8. phase'[r] = "stream" /\ HandshakeOf(r)'
  BY <1>1, <1>5 DEF HandshakeOf
<1>9. AcksOf(r)'
  <2>1. AcksOf(r) /\ Heard(r) \subseteq UpMsg /\ lastAck[r] \in Int /\ slaveOffset[r] \in Int
    BY HeardType DEF Acks, TypeOK
  <2>2. lastAck'[r] = lastAck[r] /\ slaveOffset'[r] \in Int
    BY <1>1, <1>5 DEF masterVars
  <2>3. \A m \in UpMsg : m.n \in Int
    BY DEF UpMsg
  <2>4. ASSUME NEW m \in Heard(r)', m.kind = "ack" PROVE m.n <= slaveOffset'[r]
    <3>1. CASE m \in Heard(r)
      BY <1>5, <2>1, <2>2, <2>3, <2>4, <3>1 DEF AcksOf
    <3>2. CASE m \in ToSet(msgs)
      BY <1>2, <1>5, <3>2
    <3> QED
      BY <1>4, <2>4, <3>1, <3>2
  <2>5. lastAck'[r] > 0 => lastAck'[r] <= slaveOffset'[r]
    BY <1>5, <2>1, <2>2 DEF AcksOf
  <2> QED
    BY <1>8, <2>4, <2>5 DEF AcksOf
<1>10. WritesOf(r)'
  <2>1. SentTo(r)' = SentTo(r) /\ WritesOf(r)
    BY <1>1 DEF SentTo, masterVars, sendVars, Writes
  <2> QED
    BY <1>1, <1>6, <2>1, WritesKeptOf DEF masterVars
<1>11. \A x \in Replica \ {r} : phase'[x] = phase[x] /\ applied'[x] = applied[x]
  BY <1>1
<1>12. Senders' /\ Handshakes' /\ Acks' /\ Writes'
  BY <1>1, <1>4, <1>5, <1>6, <1>8, <1>9, <1>10, <1>11, OneKeeps
<1> QED
  BY <1>7, <1>12

LEMMA CrashStep ==
  ASSUME Delivery, NEW r \in Replica, Crash(r)
  PROVE  Delivery'
<1> USE DEF Delivery
<1>1. /\ phase' = [phase EXCEPT ![r] = "dead"] /\ down' = [down EXCEPT ![r] = <<>>]
      /\ UNCHANGED <<masterVars, sendVars, up, leftover, inbox, psync, slaveOffset, suppress,
                     applied, waitVars, base>>
  BY DEF Crash
<1>2. phase'[r] = "dead" /\ \A x \in Replica \ {r} : phase'[x] = phase[x]
  BY <1>1 DEF TypeOK
<1>3. /\ down'[r] = <<>> /\ \A x \in Replica \ {r} : down'[x] = down[x]
      /\ down' \in [Replica -> Seq(DownMsg)]
  BY <1>1 DEF TypeOK
<1>4. \A x \in Replica : Heard(x)' = Heard(x)
  BY <1>1 DEF Heard
<1>5. TypeOK'
  <2>1. phase' \in [Replica -> {"off", "ping", "conf1", "conf2", "psync", "rdb", "stream",
                               "failed", "dead"}]
    BY <1>1 DEF TypeOK
  <2> QED
    BY <1>1, <1>3, <2>1 DEF TypeOK, masterVars, sendVars, waitVars
<1>6. HandshakeOf(r)'
  BY <1>2 DEF HandshakeOf
<1>7. AcksOf(r)'
  BY <1>1, <1>2, <1>4 DEF Acks, AcksOf, masterVars
<1>8. WritesOf(r)'
  <2>1. OnTheWay(down'[r]) = {}
    BY <1>3 DEF OnTheWay
  <2>2. r \notin handshaken => applied[r] = 0
    BY DEF Writes, WritesOf
  <2> QED
    BY <1>1, <1>2, <2>1, <2>2 DEF WritesOf, masterVars
<1>9. \A x \in Replica \ {r} : slaveOffset'[x] = slaveOffset[x] /\ applied'[x] = applied[x]
  BY <1>1
<1>10. Senders' /\ Handshakes' /\ Acks' /\ Writes'
  BY <1>1, <1>2, <1>3, <1>4, <1>6, <1>7, <1>8, <1>9, OneKeeps
<1> QED
  BY <1>5, <1>10

-----------------------------------------------------------------------------
(* Propagation.                                                            *)

LEMMA WriteStep ==
  ASSUME Delivery, Write
  PROVE  Delivery'
<1> USE DEF Delivery
<1> DEFINE m == Msg("write", written + 1)
<1>1. /\ message[Executor] = None /\ written' = written + 1
      /\ message' = [message EXCEPT ![Executor] = m]
      /\ todo' = [todo EXCEPT ![Executor] = handshaken]
      /\ UNCHANGED <<alive, offset, registered, handshaken, lastAck, linkVars, slaveVars,
                     waitVars, base>>
  BY DEF Write, Begin
<1>2. Executor \in Sender /\ Waiter \subseteq Sender /\ Executor \notin Waiter
  BY ConstantsAssumption DEF Sender
<1>3. m \in DownMsg /\ written \in Nat
  BY DEF Msg, DownMsg, TypeOK
<1>4. /\ message'[Executor] = m /\ todo'[Executor] = handshaken
      /\ \A s \in Sender \ {Executor} : message'[s] = message[s] /\ todo'[s] = todo[s]
  BY <1>1, <1>2 DEF TypeOK
<1>5. m # None
  BY <1>3, ConstantsAssumption
<1> HIDE DEF m
<1>6. TypeOK'
  <2>1. message' \in [Sender -> DownMsg \cup {None}]
    BY <1>1, <1>3 DEF TypeOK
  <2>2. todo' \in [Sender -> SUBSET Replica]
    BY <1>1 DEF TypeOK
  <2>3. written' \in Nat
    BY <1>1, <1>3
  <2> QED
    BY <1>1, <2>1, <2>2, <2>3 DEF TypeOK, linkVars, slaveVars, waitVars
<1>7. Senders'
  <2>1. \A w \in Waiter : message'[w] \in {None, Msg("getack", 0)}
    BY <1>2, <1>4 DEF Senders
  <2>2. message'[Executor] = Msg("write", written') /\ written' > 0
    BY <1>1, <1>3, <1>4 DEF m
  <2>3. ASSUME NEW s \in Sender
        PROVE  todo'[s] \subseteq handshaken' /\ (todo'[s] # {} => message'[s] # None)
    <3>1. CASE s = Executor
      BY <1>1, <1>4, <1>5, <3>1
    <3>2. CASE s # Executor
      BY <1>1, <1>4, <3>2 DEF Senders
    <3> QED
      BY <3>1, <3>2
  <2> QED
    BY <2>1, <2>2, <2>3 DEF Senders, Msg
<1>8. Handshakes'
  BY <1>1, HandshakesKept DEF linkVars, slaveVars
<1>9. Acks'
  BY <1>1, AcksKept DEF linkVars, slaveVars
<1>10. Writes'
  <2> SUFFICES ASSUME NEW x \in Replica PROVE WritesOf(x)'
    BY DEF Writes
  <2>1. todo[Executor] = {}
    BY <1>1, <1>2 DEF Senders
  <2>2. x \in handshaken => SentTo(x)' = SentTo(x)
    BY <1>1, <1>3, <1>4, <2>1 DEF SentTo
  <2>3. WritesOf(x) /\ phase'[x] = phase[x] /\ down'[x] = down[x] /\ applied'[x] = applied[x]
        /\ base'[x] = base[x] /\ handshaken' = handshaken
    BY <1>1 DEF Writes, linkVars, slaveVars
  <2> QED
    BY <2>2, <2>3 DEF WritesOf
<1> QED
  BY <1>6, <1>7, <1>8, <1>9, <1>10

LEMMA SendStepKeeps ==
  ASSUME Delivery, NEW s \in Sender, NEW r \in Replica, Send(s, r)
  PROVE  Delivery'
<1> USE DEF Delivery
<1> DEFINE m == message[s]
<1>1. /\ r \in todo[s] /\ todo' = [todo EXCEPT ![s] = @ \ {r}]
      /\ UNCHANGED <<masterVars, message, up, leftover, inbox, psync, slaveVars, waitVars, base>>
  BY DEF Send
<1>2. r \in handshaken /\ m # None /\ m \in DownMsg
  BY <1>1 DEF Senders, TypeOK
<1>3. todo'[s] = todo[s] \ {r} /\ \A t \in Sender \ {s} : todo'[t] = todo[t]
  BY <1>1 DEF TypeOK
<1>4. /\ down' \in [Replica -> Seq(DownMsg)]
      /\ \A x \in Replica \ {r} : down'[x] = down[x]
      /\ phase[r] = "dead" => down' = down
      /\ phase[r] # "dead" => down'[r] = Append(down[r], m)
  <2>1. Append(down[r], m) \in Seq(DownMsg)
    BY <1>2, AppendProperties DEF TypeOK
  <2>2. CASE phase[r] = "dead"
    BY <2>2 DEF Send, TypeOK
  <2>3. CASE phase[r] # "dead"
    <3>1. down' = [down EXCEPT ![r] = Append(down[r], m)]
      BY <2>3 DEF Send
    <3> QED
      BY <2>1, <2>3, <3>1 DEF TypeOK
  <2> QED
    BY <2>2, <2>3
<1>5. TypeOK'
  <2>1. todo' \in [Sender -> SUBSET Replica]
    BY <1>1 DEF TypeOK
  <2> QED
    BY <1>1, <1>4, <2>1 DEF TypeOK, masterVars, slaveVars, waitVars
<1>6. Senders'
  <2>1. \A t \in Sender : todo'[t] \subseteq todo[t]
    BY <1>3
  <2> QED
    BY <1>1, <2>1 DEF Senders, masterVars, Msg
<1>7. down[r] \in Seq(DownMsg)
  BY DEF TypeOK
<1> HIDE DEF m
<1>8. \A x \in Replica : Grows(x)
  <2>1. Grows(r)
    <3>1. \A i \in DOMAIN down[r] : i \in DOMAIN Append(down[r], m)
                                    /\ Append(down[r], m)[i] = down[r][i]
      BY <1>2, <1>7, Appended
    <3> QED
      BY <1>4, <3>1 DEF Grows
  <2> QED
    BY <1>4, <2>1 DEF Grows
<1>9. Handshakes'
  <2> SUFFICES ASSUME NEW x \in Replica PROVE HandshakeOf(x)'
    BY DEF Handshakes
  <2>1. HandshakeOf(x) /\ Heard(x)' = Heard(x)
    BY <1>1 DEF Handshakes, Heard
  <2> QED
    BY <1>1, <1>8, <2>1, HandshakeKeptOf DEF masterVars, slaveVars
<1>10. Acks'
  BY <1>1, AcksKept DEF masterVars, slaveVars
<1>11. Executor \in Sender /\ Waiter \subseteq Sender /\ Executor \notin Waiter
  BY ConstantsAssumption DEF Sender
<1>12. ASSUME NEW x \in Replica \ {r} PROVE WritesOf(x)'
  <2>1. SentTo(x)' = SentTo(x)
    <3>1. x \in todo'[Executor] <=> x \in todo[Executor]
      BY <1>3, <1>11
    <3> QED
      BY <1>1, <3>1 DEF SentTo, masterVars
  <2>2. WritesOf(x) /\ KeepsWrites(x)
    BY <1>4 DEF Writes, KeepsWrites
  <2> QED
    BY <1>1, <2>1, <2>2, WritesKeptOf DEF masterVars, slaveVars
<1>13. WritesOf(r)'
  <2>1. WritesOf(r) /\ base[r] \in Nat /\ applied[r] \in Nat /\ written \in Nat
    BY DEF Writes, TypeOK
  <2>2. UNCHANGED <<handshaken, written, base, applied, phase>>
    BY <1>1 DEF masterVars, slaveVars
  <2>3. CASE phase[r] = "dead"
    BY <1>2, <2>2, <2>3 DEF WritesOf
  <2>4. CASE phase[r] # "dead" /\ s # Executor
    <3>1. m.kind # "write"
      <4>1. s \in Waiter
        BY <2>4 DEF Sender
      <4>2. m = Msg("getack", 0)
        BY <1>2, <4>1 DEF Senders, m
      <4> QED
        BY <4>2 DEF Msg
    <3>2. KeepsWrites(r)
      <4>1. LET u == Append(down[r], m)
            IN /\ OnTheWay(u) = OnTheWay(down[r]) /\ Numbers(u) = Numbers(down[r])
               /\ Ordered(down[r]) => Ordered(u)
        BY <1>2, <1>7, <3>1, PlainAppended
      <4> QED
        BY <1>4, <2>4, <4>1 DEF KeepsWrites
    <3>3. SentTo(r)' = SentTo(r)
      BY <1>3, <1>11, <2>2, <2>4 DEF SentTo
    <3> QED
      BY <2>1, <2>2, <2>4, <3>2, <3>3, WritesKeptOf
  <2>5. CASE phase[r] # "dead" /\ s = Executor
    <3>1. m.kind = "write" /\ m.n = written
      BY <1>2, <2>5 DEF Senders, Msg, m
    <3>2. SentTo(r) = written - 1 /\ SentTo(r)' = written
      BY <1>1, <1>3, <2>2, <2>5 DEF SentTo
    <3> DEFINE a == base[r] + applied[r] + 1
    <3>3. /\ base[r] + applied[r] <= written - 1
          /\ Numbers(down[r]) = a..written - 1 /\ Ordered(down[r])
      BY <1>2, <2>1, <2>5, <3>2 DEF WritesOf
    <3>4. a \in Int /\ written - 1 \in Int /\ a <= written - 1 + 1 /\ m.n = written - 1 + 1
      BY <2>1, <3>1, <3>3
    <3> HIDE DEF a
    <3>5. /\ Numbers(Append(down[r], m)) = a..written - 1 + 1
          /\ Ordered(Append(down[r], m))
      BY <1>2, <1>7, <3>1, <3>3, <3>4, WriteAppended
    <3>6. written - 1 + 1 = written
      BY <2>1
    <3>7. down'[r] = Append(down[r], m)
      BY <1>4, <2>5
    <3>8. base[r] + applied[r] <= written
      BY <2>1, <3>3
    <3> QED
      BY <1>2, <2>2, <3>2, <3>5, <3>6, <3>7, <3>8 DEF WritesOf, a
  <2> QED
    BY <2>3, <2>4, <2>5
<1>14. Writes'
  BY <1>12, <1>13 DEF Writes
<1> QED
  BY <1>5, <1>6, <1>9, <1>10, <1>14

LEMMA EndStep ==
  ASSUME Delivery, NEW s \in Sender, End(s)
  PROVE  Delivery'
<1> USE DEF Delivery
<1>1. /\ todo[s] = {} /\ offset' = offset + Size(message[s])
      /\ message' = [message EXCEPT ![s] = None]
      /\ wait' = [w \in Waiter |-> IF w = s THEN "count" ELSE wait[w]]
      /\ UNCHANGED <<alive, written, registered, handshaken, lastAck, todo, linkVars, slaveVars,
                     target, asks, expired, goal, counted, base>>
  BY DEF End
<1>2. message'[s] = None /\ \A t \in Sender \ {s} : message'[t] = message[t]
  BY <1>1 DEF TypeOK
<1>3. TypeOK'
  <2>1. offset' \in Nat
    BY <1>1, ConstantsAssumption DEF TypeOK, Size
  <2>2. message' \in [Sender -> DownMsg \cup {None}]
    BY <1>1 DEF TypeOK
  <2>3. wait' \in [Waiter -> {"idle", "check", "ask", "send", "count", "answered"}]
    BY <1>1 DEF TypeOK
  <2> QED
    BY <1>1, <2>1, <2>2, <2>3 DEF TypeOK, linkVars, slaveVars
<1>4. Senders'
  <2>1. \A w \in Waiter : message'[w] \in {None, Msg("getack", 0)}
    BY <1>2 DEF Senders, Sender
  <2>2. /\ message'[Executor] \in {None, Msg("write", written)}
        /\ message'[Executor] # None => written > 0
    BY <1>2 DEF Senders, Sender
  <2>3. ASSUME NEW t \in Sender
        PROVE  todo[t] \subseteq handshaken /\ (todo[t] # {} => message'[t] # None)
    BY <1>1, <1>2 DEF Senders
  <2> QED
    BY <1>1, <2>1, <2>2, <2>3 DEF Senders, Msg
<1>5. Handshakes'
  BY <1>1, HandshakesKept DEF linkVars, slaveVars
<1>6. Acks'
  BY <1>1, AcksKept DEF linkVars, slaveVars
<1>7. Writes'
  BY <1>1, WritesKept DEF linkVars, slaveVars
<1> QED
  BY <1>3, <1>4, <1>5, <1>6, <1>7

-----------------------------------------------------------------------------
(* WAIT.                                                                   *)

Places == {"idle", "check", "ask", "send", "count", "answered"}

\* What only WAIT keeps is in no conjunct but TypeOK.
LEMMA WaitKeeps ==
  ASSUME Delivery, UNCHANGED <<offset, written, registered, handshaken, lastAck, sendVars, up, down,
                           leftover, psync, slaveVars, base>>,
         inbox' = inbox, alive' \in BOOLEAN,
         wait' \in [Waiter -> Places], target' \in [Waiter -> Nat], asks' \in [Waiter -> Nat],
         expired' \in SUBSET Waiter, goal' \in [Waiter -> Nat],
         counted' \in [Waiter -> SUBSET Replica]
  PROVE  Delivery'
<1> USE DEF Delivery
<1>1. TypeOK'
  <2>1. suppress' \in [Replica -> BOOLEAN]
    BY DEF TypeOK, slaveVars
  <2> QED
    BY <2>1 DEF TypeOK, Places, sendVars, slaveVars
<1>2. Senders'
  BY SendersKept DEF sendVars
<1>3. Handshakes'
  BY HandshakesKept DEF slaveVars
<1>4. Acks'
  BY AcksKept DEF slaveVars
<1>5. Writes'
  BY WritesKept DEF sendVars, slaveVars
<1> QED
  BY <1>1, <1>2, <1>3, <1>4, <1>5

LEMMA WaitCommandStep ==
  ASSUME Delivery, NEW w \in Waiter, WaitCommand(w)
  PROVE  Delivery'
<1> USE DEF Delivery
<1>1. Answered \in Nat
  <2>1. (message[Executor] # None => written > 0) /\ written \in Nat
    BY DEF Senders, TypeOK
  <2> QED
    BY <2>1 DEF Answered
<1>2. goal' \in [Waiter -> Nat]
  BY <1>1 DEF WaitCommand, TypeOK
<1>3. wait' \in [Waiter -> Places] /\ counted' \in [Waiter -> SUBSET Replica]
  BY DEF WaitCommand, Answer, TypeOK, Places
<1>4. alive' \in BOOLEAN
  BY DEF WaitCommand, masterVars, TypeOK
<1>5. target' \in [Waiter -> Nat] /\ asks' \in [Waiter -> Nat] /\ expired' \in SUBSET Waiter
  BY DEF WaitCommand, TypeOK
<1> QED
  BY <1>2, <1>3, <1>4, <1>5, WaitKeeps DEF WaitCommand, masterVars, linkVars

LEMMA WaitCheckStep ==
  ASSUME Delivery, NEW w \in Waiter, WaitCheck(w)
  PROVE  Delivery'
<1> USE DEF Delivery
<1>1. wait' \in [Waiter -> Places] /\ counted' \in [Waiter -> SUBSET Replica]
  BY DEF WaitCheck, Answer, TypeOK, Places
<1>2. target' \in [Waiter -> Nat]
  BY DEF WaitCheck, TypeOK
<1>3. alive' \in BOOLEAN
  BY DEF WaitCheck, masterVars, TypeOK
<1>4. asks' \in [Waiter -> Nat] /\ expired' \in SUBSET Waiter /\ goal' \in [Waiter -> Nat]
  BY DEF WaitCheck, TypeOK
<1> QED
  BY <1>1, <1>2, <1>3, <1>4, WaitKeeps DEF WaitCheck, masterVars, linkVars

\* A WAIT that sends GETACK is a sender like the executor.
LEMMA WaitAskStep ==
  ASSUME Delivery, NEW w \in Waiter, WaitAsk(w)
  PROVE  Delivery'
<1> USE DEF Delivery
<1> DEFINE m == Msg("getack", 0)
<1>1. /\ wait' = [wait EXCEPT ![w] = "send"] /\ asks' = [asks EXCEPT ![w] = @ + 1]
      /\ message' = [message EXCEPT ![w] = m]
      /\ todo' = [todo EXCEPT ![w] = handshaken]
      /\ UNCHANGED <<masterVars, linkVars, slaveVars, target, expired, goal, counted, base>>
  BY DEF WaitAsk, Begin
<1>2. Executor \in Sender /\ w \in Sender /\ w # Executor
  BY ConstantsAssumption DEF Sender
<1>3. m \in DownMsg /\ m # None
  BY ConstantsAssumption DEF Msg, DownMsg
<1>4. /\ message'[w] = m /\ todo'[w] = handshaken
      /\ \A s \in Sender \ {w} : message'[s] = message[s] /\ todo'[s] = todo[s]
  BY <1>1, <1>2 DEF TypeOK
<1>5. TypeOK'
  <2>1. message' \in [Sender -> DownMsg \cup {None}]
    BY <1>1, <1>3 DEF TypeOK
  <2>2. todo' \in [Sender -> SUBSET Replica]
    BY <1>1 DEF TypeOK
  <2>3. asks' \in [Waiter -> Nat]
    BY <1>1 DEF TypeOK
  <2>4. wait' \in [Waiter -> {"idle", "check", "ask", "send", "count", "answered"}]
    BY <1>1 DEF TypeOK
  <2> QED
    BY <1>1, <2>1, <2>2, <2>3, <2>4 DEF TypeOK, masterVars, linkVars, slaveVars
<1>6. Senders'
  <2>1. ASSUME NEW v \in Waiter PROVE message'[v] \in {None, Msg("getack", 0)}
    <3>1. CASE v = w
      BY <1>4, <3>1
    <3>2. CASE v # w
      BY <1>4, <3>2 DEF Senders, Sender
    <3> QED
      BY <3>1, <3>2
  <2>2. /\ message'[Executor] \in {None, Msg("write", written)}
        /\ message'[Executor] # None => written > 0
    BY <1>2, <1>4 DEF Senders
  <2>3. ASSUME NEW s \in Sender
        PROVE  todo'[s] \subseteq handshaken /\ (todo'[s] # {} => message'[s] # None)
    <3>1. CASE s = w
      BY <1>3, <1>4, <3>1
    <3>2. CASE s # w
      BY <1>4, <3>2 DEF Senders
    <3> QED
      BY <3>1, <3>2
  <2> QED
    BY <1>1, <2>1, <2>2, <2>3 DEF Senders, Msg, masterVars
<1>7. Handshakes'
  BY <1>1, HandshakesKept DEF masterVars, linkVars, slaveVars
<1>8. Acks'
  BY <1>1, AcksKept DEF masterVars, linkVars, slaveVars
<1>9. Writes'
  <2> SUFFICES ASSUME NEW x \in Replica PROVE WritesOf(x)'
    BY DEF Writes
  <2>1. SentTo(x)' = SentTo(x)
    BY <1>1, <1>2, <1>4 DEF SentTo, masterVars
  <2>2. WritesOf(x) /\ KeepsWrites(x)
    BY <1>1 DEF Writes, KeepsWrites, linkVars
  <2> QED
    BY <1>1, <2>1, <2>2, WritesKeptOf DEF masterVars, slaveVars
<1> QED
  BY <1>5, <1>6, <1>7, <1>8, <1>9

LEMMA WaitCountStep ==
  ASSUME Delivery, NEW w \in Waiter, WaitCount(w)
  PROVE  Delivery'
<1> USE DEF Delivery
<1>1. Updated(w) \in SUBSET Replica
  BY DEF Updated, TypeOK
<1>2. wait' \in [Waiter -> Places] /\ counted' \in [Waiter -> SUBSET Replica]
  <2>1. CASE Answer(w, Updated(w))
    BY <1>1, <2>1 DEF Answer, TypeOK, Places
  <2>2. CASE wait' = [wait EXCEPT ![w] = "ask"] /\ counted' = counted
    BY <2>2 DEF TypeOK, Places
  <2> QED
    BY <2>1, <2>2 DEF WaitCount
<1>3. alive' \in BOOLEAN
  BY DEF WaitCount, masterVars, TypeOK
<1>4. /\ asks' \in [Waiter -> Nat] /\ expired' \in SUBSET Waiter /\ goal' \in [Waiter -> Nat]
      /\ target' \in [Waiter -> Nat]
  BY DEF WaitCount, TypeOK
<1> QED
  BY <1>2, <1>3, <1>4, WaitKeeps DEF WaitCount, masterVars, linkVars

LEMMA DeadlineStep ==
  ASSUME Delivery, NEW w \in Waiter, Deadline(w)
  PROVE  Delivery'
<1> USE DEF Delivery
<1>1. expired' \in SUBSET Waiter
  BY DEF Deadline, TypeOK
<1>2. alive' \in BOOLEAN
  BY DEF Deadline, masterVars, TypeOK
<1>3. /\ wait' \in [Waiter -> Places] /\ counted' \in [Waiter -> SUBSET Replica]
      /\ asks' \in [Waiter -> Nat] /\ goal' \in [Waiter -> Nat] /\ target' \in [Waiter -> Nat]
  BY DEF Deadline, TypeOK, Places
<1> QED
  BY <1>1, <1>2, <1>3, WaitKeeps DEF Deadline, masterVars, linkVars

LEMMA AbortStep ==
  ASSUME Delivery, ConcurrentMapAbort
  PROVE  Delivery'
<1> USE DEF Delivery
<1>1. PICK r \in Replica : Routed(r, "replconf")
  BY DEF ConcurrentMapAbort
<1>2. UNCHANGED <<offset, written, registered, handshaken, lastAck, sendVars, up, down, leftover,
                  psync, slaveVars, waitVars, base>> /\ alive' = FALSE
  BY DEF ConcurrentMapAbort
<1>3. inbox' \in [Replica -> Seq(UpMsg)] /\ \A x \in Replica : Heard(x)' \subseteq Heard(x)
  BY <1>1, <1>2, RoutedStep
<1>4. TypeOK'
  <2>1. alive' \in BOOLEAN
    BY <1>2
  <2>2. suppress' \in [Replica -> BOOLEAN]
    BY <1>2 DEF TypeOK, slaveVars
  <2> QED
    BY <1>2, <1>3, <2>1, <2>2 DEF TypeOK, sendVars, slaveVars, waitVars
<1>5. \A x \in Replica : Grows(x) /\ KeepsWrites(x)
  BY <1>2 DEF Grows, KeepsWrites
<1> QED
  BY <1>2, <1>3, <1>4, <1>5, ToldKeeps DEF sendVars

-----------------------------------------------------------------------------
(* The first layer: the types, and the messages on their way.             *)

LEMMA InitDelivery == Init => Delivery
<1> SUFFICES ASSUME Init PROVE Delivery
  OBVIOUS
<1> USE DEF Init
<1>1. TypeOK
  <2>1. <<>> \in Seq(UpMsg) /\ <<>> \in Seq(DownMsg)
    OBVIOUS
  <2>2. suppress \in [Replica -> BOOLEAN] /\ alive \in BOOLEAN
    OBVIOUS
  <2> QED
    BY <2>1, <2>2 DEF TypeOK
<1>2. Senders
  BY DEF Senders, Sender
<1>3. \A r \in Replica : Heard(r) = {} /\ OnTheWay(down[r]) = {}
  BY DEF Heard, ToSet, OnTheWay
<1>4. Handshakes
  BY <1>3 DEF Handshakes, HandshakeOf
<1>5. Acks
  BY <1>3 DEF Acks, AcksOf
<1>6. Writes
  BY <1>3 DEF Writes, WritesOf
<1> QED
  BY <1>1, <1>2, <1>4, <1>5, <1>6 DEF Delivery

LEMMA NextDelivery ==
  ASSUME Delivery, [Next]_vars
  PROVE  Delivery'
<1>1. CASE Write
  BY <1>1, WriteStep
<1>2. CASE \E s \in Sender : SendStep(s)
  BY <1>2, EndStep, SendStepKeeps DEF SendStep
<1>3. ASSUME NEW r \in Replica, SessionStep(r) PROVE Delivery'
  BY <1>3, SessionReadStep, PingStep, ReplconfStep, PsyncStep, PsyncFileStep, PsyncMarkStep,
     AckStep DEF SessionStep
<1>4. ASSUME NEW r \in Replica, Connect(r) \/ SlaveStep(r) \/ Crash(r) PROVE Delivery'
  BY <1>4, ConnectStep, HandshakeStep, FullResyncStep, LoadSnapshotStep, ApplyWriteStep,
     GetAckStep, CrashStep DEF SlaveStep
<1>5. ASSUME NEW w \in Waiter, WaitCommand(w) \/ WaitStep(w) PROVE Delivery'
  BY <1>5, WaitCommandStep, WaitCheckStep, WaitAskStep, WaitCountStep, DeadlineStep DEF WaitStep
<1>6. CASE ConcurrentMapAbort
  BY <1>6, AbortStep
<1>7. CASE UNCHANGED vars
  <2> USE <1>7 DEF vars, masterVars, sendVars, linkVars, slaveVars, waitVars
  <2>1. TypeOK'
    <3>1. alive' \in BOOLEAN /\ suppress' \in [Replica -> BOOLEAN]
      BY DEF Delivery, TypeOK
    <3> QED
      BY <3>1 DEF Delivery, TypeOK
  <2>2. Senders' /\ Handshakes' /\ Acks' /\ Writes'
    BY SendersKept, HandshakesKept, AcksKept, WritesKept DEF Delivery
  <2> QED
    BY <2>1, <2>2 DEF Delivery
<1> QED
  BY <1>1, <1>2, <1>3, <1>4, <1>5, <1>6, <1>7 DEF Next


\* Nothing else than the execution of a write counts as one.
LEMMA OnlyApplyWrite ==
  ASSUME [Next]_vars, NEW r \in Replica, applied'[r] # applied[r]
  PROVE  \E x \in Replica : ApplyWrite(x)
<1>1. CASE Write
  BY <1>1 DEF Write, slaveVars
<1>2. CASE \E s \in Sender : SendStep(s)
  BY <1>2 DEF SendStep, Send, End, slaveVars
<1>3. ASSUME NEW x \in Replica, SessionStep(x) PROVE applied' = applied
  BY <1>3 DEF SessionStep, SessionRead, Ping, Replconf, Psync, PsyncFile, PsyncMark, Ack,
     slaveVars
<1>4. ASSUME NEW x \in Replica, Connect(x) \/ Crash(x) PROVE applied' = applied
  BY <1>4 DEF Connect, Crash
<1>5. ASSUME NEW x \in Replica, SlaveStep(x) PROVE applied' = applied \/ ApplyWrite(x)
  BY <1>5 DEF SlaveStep, Handshake, Expect, FullResync, LoadSnapshot, GetAck
<1>6. ASSUME NEW w \in Waiter, WaitCommand(w) \/ WaitStep(w) PROVE applied' = applied
  BY <1>6 DEF WaitCommand, WaitStep, WaitCheck, WaitAsk, WaitCount, Deadline, slaveVars
<1>7. CASE ConcurrentMapAbort
  BY <1>7 DEF ConcurrentMapAbort, slaveVars
<1>8. CASE UNCHANGED vars
  BY <1>8 DEF vars, slaveVars
<1> QED
  BY <1>1, <1>2, <1>3, <1>4, <1>5, <1>6, <1>7, <1>8 DEF Next

-----------------------------------------------------------------------------
(* Acknowledgements rise.                                                  *)

\* Two sequences, and three, one behind the other.
LEMMA TwoInARow ==
  ASSUME NEW T, NEW a \in Seq(T), NEW b \in Seq(T), NEW z, z = a \o b
  PROVE  /\ z \in Seq(T) /\ Len(z) = Len(a) + Len(b) /\ DOMAIN z = 1..Len(a) + Len(b)
         /\ \A i \in 1..Len(a) : z[i] = a[i]
         /\ \A i \in Len(a) + 1 .. Len(a) + Len(b) : z[i] = b[i - Len(a)]
<1>1. /\ a \o b \in Seq(T) /\ Len(a \o b) = Len(a) + Len(b)
      /\ \A i \in 1 .. Len(a) + Len(b) : (a \o b)[i] = IF i <= Len(a) THEN a[i] ELSE b[i - Len(a)]
  BY ConcatProperties
<1>2. Len(a) \in Nat /\ Len(b) \in Nat
  BY LenProperties
<1>3. z \in Seq(T) /\ Len(z) = Len(a) + Len(b)
  BY <1>1
<1>4. DOMAIN z = 1..Len(a) + Len(b)
  BY <1>3, LenProperties
<1>5. \A i \in 1 .. Len(a) + Len(b) : z[i] = IF i <= Len(a) THEN a[i] ELSE b[i - Len(a)]
  BY <1>1
<1>6. \A i \in 1..Len(a) : z[i] = a[i]
  BY <1>2, <1>5
<1>7. \A i \in Len(a) + 1 .. Len(a) + Len(b) : z[i] = b[i - Len(a)]
  BY <1>2, <1>5
<1> QED
  BY <1>3, <1>4, <1>6, <1>7

\* Three, as inbox, leftover and up are.
LEMMA ThreeInARow ==
  ASSUME NEW T, NEW a \in Seq(T), NEW b \in Seq(T), NEW c \in Seq(T), NEW z, z = a \o b \o c,
         NEW k, NEW l, k = Len(a), l = Len(a) + Len(b)
  PROVE  /\ z \in Seq(T) /\ Len(z) = l + Len(c) /\ DOMAIN z = 1..l + Len(c)
         /\ k \in Nat /\ l \in Nat /\ k <= l /\ Len(c) \in Nat
         /\ \A i \in 1..k : z[i] = a[i]
         /\ \A i \in k + 1 .. l : z[i] = b[i - k]
         /\ \A i \in l + 1 .. l + Len(c) : z[i] = c[i - l]
<1>1. PICK y : y = a \o b
  OBVIOUS
<1>2. /\ y \in Seq(T) /\ Len(y) = l
      /\ \A i \in 1..k : y[i] = a[i]
      /\ \A i \in k + 1 .. l : y[i] = b[i - k]
  BY <1>1, TwoInARow
<1>3. z = y \o c
  BY <1>1
<1>4. /\ z \in Seq(T) /\ Len(z) = l + Len(c) /\ DOMAIN z = 1..l + Len(c)
      /\ \A i \in 1..l : z[i] = y[i]
      /\ \A i \in l + 1 .. l + Len(c) : z[i] = c[i - l]
  <2>1. /\ z \in Seq(T) /\ Len(z) = Len(y) + Len(c) /\ DOMAIN z = 1..Len(y) + Len(c)
        /\ \A i \in 1..Len(y) : z[i] = y[i]
        /\ \A i \in Len(y) + 1 .. Len(y) + Len(c) : z[i] = c[i - Len(y)]
    <3>1. y \in Seq(T)
      BY <1>2
    <3> QED
      BY <3>1, <1>3, TwoInARow
  <2> QED
    BY <1>2, <2>1
<1>5. k \in Nat /\ Len(b) \in Nat /\ Len(c) \in Nat
  BY LenProperties
<1>6. l \in Nat /\ k <= l
  BY <1>5
<1>7. \A i \in 1..k : z[i] = a[i]
  BY <1>2, <1>4, <1>5, <1>6
<1>8. \A i \in k + 1 .. l : z[i] = b[i - k]
  BY <1>2, <1>4, <1>5, <1>6
<1> QED
  BY <1>4, <1>5, <1>6, <1>7, <1>8

\* What is heard of a replica is in line.
LEMMA InLine ==
  ASSUME TypeOK, NEW r \in Replica
  PROVE  /\ Line(r) \in Seq(UpMsg)
         /\ \A i \in DOMAIN Line(r) : i \in Nat /\ Line(r)[i] \in UpMsg /\ Line(r)[i] \in Heard(r)
<1> DEFINE a == inbox[r]
           b == leftover[r]
           c == up[r]
           k == Len(a)
           l == Len(a) + Len(b)
<1>1. a \in Seq(UpMsg) /\ b \in Seq(UpMsg) /\ c \in Seq(UpMsg)
  BY DEF TypeOK
<1>2. /\ k \in Nat /\ Len(b) \in Nat /\ Len(c) \in Nat
      /\ DOMAIN a = 1..k /\ DOMAIN b = 1..Len(b) /\ DOMAIN c = 1..Len(c)
  BY <1>1, LenProperties
<1>3. /\ Line(r) \in Seq(UpMsg) /\ DOMAIN Line(r) = 1..l + Len(c)
      /\ \A i \in 1..k : Line(r)[i] = a[i]
      /\ \A i \in k + 1 .. l : Line(r)[i] = b[i - k]
      /\ \A i \in l + 1 .. l + Len(c) : Line(r)[i] = c[i - l]
  <2>1. Line(r) = a \o b \o c
    BY DEF Line
  <2> HIDE DEF a, b, c
  <2> QED
    BY <1>1, <2>1, ThreeInARow
<1>4. ASSUME NEW i \in DOMAIN Line(r) PROVE i \in Nat /\ Line(r)[i] \in Heard(r)
  <2>1. i \in 1..k \/ i \in k + 1 .. l \/ i \in l + 1 .. l + Len(c)
    <3> HIDE DEF a, b, c
    <3> QED
      BY <1>2, <1>3
  <2> HIDE DEF a, b, c
  <2>2. i \in 1..k => Line(r)[i] \in ToSet(a)
    BY <1>2, <1>3 DEF ToSet
  <2>3. i \in k + 1 .. l => Line(r)[i] \in ToSet(b)
    <3> SUFFICES ASSUME i \in k + 1 .. l PROVE Line(r)[i] \in ToSet(b)
      OBVIOUS
    <3>1. i - k \in DOMAIN b /\ Line(r)[i] = b[i - k]
      BY <1>2, <1>3
    <3> QED
      BY <3>1 DEF ToSet
  <2>4. i \in l + 1 .. l + Len(c) => Line(r)[i] \in ToSet(c)
    <3> SUFFICES ASSUME i \in l + 1 .. l + Len(c) PROVE Line(r)[i] \in ToSet(c)
      OBVIOUS
    <3>1. i - l \in DOMAIN c /\ Line(r)[i] = c[i - l]
      BY <1>2, <1>3
    <3> QED
      BY <3>1 DEF ToSet
  <2>5. i \in Nat
    BY <1>2, <1>3
  <2> QED
    BY <2>1, <2>2, <2>3, <2>4, <2>5 DEF Heard, a, b, c
<1> QED
  BY <1>3, <1>4, HeardType

\* Acknowledgements that were in line before, in the order they had.
LEMMA Thinned ==
  ASSUME TypeOK, TypeOK', NEW r \in Replica, AcksRiseOf(r), NEW f,
         \A i \in DOMAIN Line(r)' :
           AckAt(r, i)' => f[i] \in DOMAIN Line(r) /\ Line(r)'[i] = Line(r)[f[i]],
         \A i, j \in DOMAIN Line(r)' : i < j => f[i] < f[j],
         lastAck'[r] = lastAck[r], slaveOffset[r] <= slaveOffset'[r],
         phase'[r] \in {"rdb", "stream"} => slaveOffset'[r] >= 0
  PROVE  AcksRiseOf(r)'
<1>1. /\ \A i \in DOMAIN Line(r) : Line(r)[i].n \in Int
      /\ lastAck[r] \in Int /\ slaveOffset[r] \in Int /\ slaveOffset'[r] \in Int /\ GetAckSize \in Nat
  BY InLine, ConstantsAssumption DEF UpMsg, TypeOK
<1>2. ASSUME NEW i \in DOMAIN Line(r)', AckAt(r, i)'
      PROVE  AckAt(r, f[i]) /\ f[i] \in DOMAIN Line(r) /\ Line(r)'[i] = Line(r)[f[i]]
  BY <1>2 DEF AckAt
<1>3. lastAck'[r] > 0 => lastAck'[r] + GetAckSize <= slaveOffset'[r]
  BY <1>1 DEF AcksRiseOf
<1>4. ASSUME NEW i \in DOMAIN Line(r)', AckAt(r, i)'
      PROVE  lastAck'[r] <= Line(r)'[i].n /\ Line(r)'[i].n + GetAckSize <= slaveOffset'[r]
  BY <1>1, <1>2, <1>4 DEF AcksRiseOf
<1>5. ASSUME NEW i \in DOMAIN Line(r)', NEW j \in DOMAIN Line(r)',
             AckAt(r, i)', AckAt(r, j)', i < j
      PROVE  Line(r)'[i].n <= Line(r)'[j].n
  BY <1>2, <1>5 DEF AcksRiseOf
<1> QED
  BY <1>3, <1>4, <1>5 DEF AcksRiseOf

\* The line of r stays as it is.
LEMMA SameLine ==
  ASSUME NEW r \in Replica, AcksRiseOf(r), inbox'[r] = inbox[r], leftover'[r] = leftover[r],
         up'[r] = up[r], lastAck'[r] = lastAck[r], slaveOffset'[r] = slaveOffset[r],
         phase'[r] \in {"rdb", "stream"} => phase[r] \in {"rdb", "stream"}
  PROVE  AcksRiseOf(r)'
<1>1. Line(r)' = Line(r)
  BY DEF Line
<1> QED
  BY <1>1 DEF AcksRiseOf, AckAt

\* Lines that stay as they are, and offsets that do not go back.
LEMMA LinesKept ==
  ASSUME AcksRise, UNCHANGED <<inbox, leftover, up, lastAck, slaveOffset>>,
         \A r \in Replica : phase'[r] \in {"rdb", "stream"} => phase[r] \in {"rdb", "stream"}
  PROVE  AcksRise'
<1> SUFFICES ASSUME NEW r \in Replica PROVE AcksRiseOf(r)'
  BY DEF AcksRise
<1> QED
  BY SameLine DEF AcksRise

\* The session routes the first command of its inbox.
LEMMA RoutedLine ==
  ASSUME TypeOK, NEW r \in Replica, NEW kind, Routed(r, kind), UNCHANGED <<leftover, up>>
  PROVE  /\ \A i \in DOMAIN Line(r)' : i + 1 \in DOMAIN Line(r) /\ Line(r)'[i] = Line(r)[i + 1]
         /\ \A x \in Replica \ {r} : inbox'[x] = inbox[x]
         /\ 1 \in DOMAIN Line(r) /\ Head(inbox[r]) = Line(r)[1]
         /\ Line(r)[1].kind = kind
<1> DEFINE a == inbox[r]
           t == Tail(a)
           b == leftover[r]
           c == up[r]
<1>1. a \in Seq(UpMsg) /\ b \in Seq(UpMsg) /\ c \in Seq(UpMsg) /\ a # <<>>
  BY DEF TypeOK, Routed
<1>2. /\ t \in Seq(UpMsg) /\ Len(t) = Len(a) - 1 /\ Len(a) \in Nat \ {0}
      /\ \A i \in 1..Len(t) : t[i] = a[i + 1]
  BY <1>1, HeadTailProperties, EmptySeq
<1>3. Len(b) \in Nat /\ Len(c) \in Nat /\ Head(a) = a[1]
  BY <1>1, LenProperties
<1>4. inbox'[r] = t /\ \A x \in Replica \ {r} : inbox'[x] = inbox[x]
  BY DEF Routed, TypeOK
<1> DEFINE z == Line(r)
           v == Line(r)'
           k == Len(a)
           l == Len(a) + Len(b)
           kk == Len(t)
           ll == Len(t) + Len(b)
<1>5. z = a \o b \o c /\ v = t \o b \o c
  BY <1>4 DEF Line
<1> HIDE DEF z, v, a, b, c, t
<1>6. /\ DOMAIN z = 1..l + Len(c) /\ k \in Nat /\ l \in Nat /\ k <= l
      /\ \A i \in 1..k : z[i] = a[i]
      /\ \A i \in k + 1 .. l : z[i] = b[i - k]
      /\ \A i \in l + 1 .. l + Len(c) : z[i] = c[i - l]
  BY <1>1, <1>5, ThreeInARow
<1>7. /\ DOMAIN v = 1..ll + Len(c)
      /\ \A i \in 1..kk : v[i] = t[i]
      /\ \A i \in kk + 1 .. ll : v[i] = b[i - kk]
      /\ \A i \in ll + 1 .. ll + Len(c) : v[i] = c[i - ll]
  <2>1. b \in Seq(UpMsg) /\ c \in Seq(UpMsg) /\ t \in Seq(UpMsg) /\ v = t \o b \o c
    BY <1>1, <1>2, <1>5
  <2> QED
    BY <2>1, ThreeInARow
<1>8. kk = k - 1 /\ ll = l - 1 /\ k \in Nat \ {0} /\ l \in Nat \ {0} /\ k <= l
  BY <1>2, <1>3, <1>6
<1> HIDE DEF k, l, kk, ll
<1>9. ASSUME NEW i \in DOMAIN v PROVE i + 1 \in DOMAIN z /\ v[i] = z[i + 1]
  <2>1. i \in 1..l - 1 + Len(c) /\ i + 1 \in DOMAIN z
    BY <1>3, <1>6, <1>7, <1>8
  <2>2. CASE i \in 1..kk
    BY <1>2, <1>6, <1>7, <1>8, <2>1, <2>2 DEF kk
  <2>3. CASE i \in kk + 1 .. ll
    <3>1. i + 1 \in k + 1 .. l /\ i - kk = (i + 1) - k
      BY <1>8, <2>1, <2>3
    <3> QED
      BY <1>6, <1>7, <2>1, <2>3, <3>1
  <2>4. CASE i \in ll + 1 .. ll + Len(c)
    <3>1. i + 1 \in l + 1 .. l + Len(c) /\ i - ll = (i + 1) - l
      BY <1>3, <1>8, <2>1, <2>4
    <3> QED
      BY <1>6, <1>7, <2>1, <2>4, <3>1
  <2> QED
    BY <1>3, <1>7, <1>8, <2>2, <2>3, <2>4
<1>10. 1 \in DOMAIN z /\ z[1] = a[1]
  BY <1>3, <1>6, <1>8
<1>11. Head(a).kind = kind
  BY DEF Routed, a
<1> QED
  BY <1>3, <1>4, <1>9, <1>10, <1>11 DEF z, v, a

\* What the session takes off the front of the line.
LEMMA RoutedRise ==
  ASSUME TypeOK, TypeOK', AcksRise, NEW r \in Replica, NEW kind, Routed(r, kind),
         UNCHANGED <<leftover, up, lastAck, slaveOffset, phase>>
  PROVE  AcksRise'
<1> SUFFICES ASSUME NEW x \in Replica PROVE AcksRiseOf(x)'
  BY DEF AcksRise
<1>1. /\ \A i \in DOMAIN Line(r)' : i + 1 \in DOMAIN Line(r) /\ Line(r)'[i] = Line(r)[i + 1]
      /\ \A y \in Replica \ {r} : inbox'[y] = inbox[y]
  BY RoutedLine
<1>2. CASE x # r
  BY <1>1, <1>2, SameLine DEF AcksRise
<1>3. CASE x = r
  <2> DEFINE f == [i \in Nat |-> i + 1]
  <2>1. Line(r)' \in Seq(UpMsg)
    <3>1. inbox'[r] \in Seq(UpMsg) /\ leftover'[r] \in Seq(UpMsg) /\ up'[r] \in Seq(UpMsg)
      BY DEF TypeOK
    <3> QED
      BY <3>1, ThreeInARow DEF Line
  <2>2. DOMAIN Line(r)' \subseteq Nat
    BY <2>1, LenProperties
  <2>3. \A i \in DOMAIN Line(r)' : f[i] \in DOMAIN Line(r) /\ Line(r)'[i] = Line(r)[f[i]]
    BY <1>1, <2>2
  <2>4. \A i, j \in DOMAIN Line(r)' : i < j => f[i] < f[j]
    BY <2>2
  <2>5. AcksRiseOf(r) /\ (phase'[r] \in {"rdb", "stream"} => slaveOffset'[r] >= 0)
    BY DEF AcksRise, AcksRiseOf
  <2>6. slaveOffset[r] <= slaveOffset'[r]
    BY DEF TypeOK
  <2> HIDE DEF f
  <2> QED
    BY <1>3, <2>3, <2>4, <2>5, <2>6, Thinned
<1> QED
  BY <1>2, <1>3

\* The acknowledgement at the head of the inbox becomes the one that counts.
LEMMA AckRises ==
  ASSUME TypeOK, TypeOK', AcksRise, NEW r \in Replica, Ack(r)
  PROVE  AcksRise' /\ \A x \in Replica : lastAck[x] <= lastAck'[x]
<1>1. /\ \A i \in DOMAIN Line(r)' : i + 1 \in DOMAIN Line(r) /\ Line(r)'[i] = Line(r)[i + 1]
      /\ \A x \in Replica \ {r} : inbox'[x] = inbox[x]
      /\ 1 \in DOMAIN Line(r) /\ Head(inbox[r]) = Line(r)[1] /\ Line(r)[1].kind = "ack"
  BY RoutedLine DEF Ack
<1>2. /\ lastAck'[r] = Line(r)[1].n /\ \A x \in Replica \ {r} : lastAck'[x] = lastAck[x]
      /\ UNCHANGED <<leftover, up, slaveOffset, phase>>
  BY <1>1 DEF Ack, TypeOK, slaveVars
<1>3. /\ lastAck[r] <= Line(r)[1].n /\ Line(r)[1].n + GetAckSize <= slaveOffset[r]
      /\ \A j \in DOMAIN Line(r) : AckAt(r, j) /\ 1 < j => Line(r)[1].n <= Line(r)[j].n
  BY <1>1 DEF AcksRise, AcksRiseOf, AckAt
<1>4. ASSUME NEW x \in Replica PROVE lastAck[x] <= lastAck'[x]
  <2>1. lastAck[x] \in Int
    BY DEF TypeOK
  <2>2. CASE x = r
    BY <1>2, <1>3, <2>2
  <2>3. CASE x # r
    BY <1>2, <2>1, <2>3
  <2> QED
    BY <2>2, <2>3
<1>5. ASSUME NEW x \in Replica PROVE AcksRiseOf(x)'
  <2>1. CASE x # r
    BY <1>1, <1>2, <2>1, SameLine DEF AcksRise
  <2>2. CASE x = r
    <3>1. DOMAIN Line(r)' \subseteq Nat \ {0}
      <4>1. inbox'[r] \in Seq(UpMsg) /\ leftover'[r] \in Seq(UpMsg) /\ up'[r] \in Seq(UpMsg)
        BY DEF TypeOK
      <4>2. Line(r)' \in Seq(UpMsg)
        BY <4>1, ThreeInARow DEF Line
      <4> QED
        BY <4>2, LenProperties
    <3>2. ASSUME NEW i \in DOMAIN Line(r)', AckAt(r, i)'
          PROVE  /\ AckAt(r, i + 1) /\ 1 < i + 1 /\ i + 1 \in DOMAIN Line(r)
                 /\ Line(r)'[i] = Line(r)[i + 1]
      BY <1>1, <3>1, <3>2 DEF AckAt
    <3>3. ASSUME NEW i \in DOMAIN Line(r)', AckAt(r, i)'
          PROVE  lastAck'[r] <= Line(r)'[i].n /\ Line(r)'[i].n + GetAckSize <= slaveOffset'[r]
      BY <1>2, <1>3, <3>2, <3>3 DEF AcksRise, AcksRiseOf
    <3>4. ASSUME NEW i \in DOMAIN Line(r)', NEW j \in DOMAIN Line(r)',
                 AckAt(r, i)', AckAt(r, j)', i < j
          PROVE  Line(r)'[i].n <= Line(r)'[j].n
      <4>1. i + 1 < j + 1
        BY <3>1, <3>4
      <4> QED
        BY <3>2, <3>4, <4>1 DEF AcksRise, AcksRiseOf
    <3>5. phase'[r] \in {"rdb", "stream"} => slaveOffset'[r] >= 0
      BY <1>2 DEF AcksRise, AcksRiseOf
    <3> QED
      BY <1>2, <1>3, <2>2, <3>3, <3>4, <3>5 DEF AcksRiseOf
  <2> QED
    BY <2>1, <2>2
<1> QED
  BY <1>4, <1>5 DEF AcksRise

\* A part of a sequence.
LEMMA PieceOf ==
  ASSUME NEW T, NEW s \in Seq(T), NEW a \in Nat \ {0}, NEW b \in Int, b <= Len(s),
         NEW u, u = SubSeq(s, a, b)
  PROVE  /\ u \in Seq(T) /\ Len(u) = (IF a <= b THEN b - a + 1 ELSE 0)
         /\ DOMAIN u = 1..Len(u)
         /\ \A i \in 1..Len(u) : u[i] = s[a + i - 1]
<1>1. \A i \in a..b : s[i] \in T
  BY LenProperties
<1>2. /\ SubSeq(s, a, b) \in Seq(T)
      /\ Len(SubSeq(s, a, b)) = IF a <= b THEN b - a + 1 ELSE 0
      /\ \A i \in 1 .. b - a + 1 : SubSeq(s, a, b)[i] = s[a + i - 1]
  BY <1>1, SubSeqProperties
<1>3. u \in Seq(T) /\ Len(u) = (IF a <= b THEN b - a + 1 ELSE 0) /\ DOMAIN u = 1..Len(u)
  BY <1>2, LenProperties
<1>4. \A i \in 1 .. b - a + 1 : u[i] = s[a + i - 1]
  BY <1>2
<1> QED
  BY <1>3, <1>4

\* A Read takes the front of what is on the way, and what was kept goes before it; the
\* parser takes commands up to the first thing that is none, which it drops.  First
\* the indexes, then the sequences.
CutAt(cut, lw, lr, ly, z, w, d, x, y, v) ==
  /\ lw \in Nat /\ lr \in Nat /\ cut \in 1..lw + 1
  /\ ly = (IF cut <= lw THEN lw - cut ELSE 0)
  /\ DOMAIN z = 1..lw + lr /\ DOMAIN v = 1..(cut - 1) + ly + lr
  /\ \A i \in 1..lw : w[i] = z[i]
  /\ \A i \in 1..lr : d[i] = z[lw + i]
  /\ \A i \in 1..cut - 1 : x[i] = w[i]
  /\ \A i \in 1..ly : y[i] = w[cut + i]
  /\ \A i \in 1..cut - 1 : v[i] = x[i]
  /\ \A i \in cut .. (cut - 1) + ly : v[i] = y[i - (cut - 1)]
  /\ \A i \in cut + ly .. (cut - 1) + ly + lr : v[i] = d[i - ((cut - 1) + ly)]

\* A buffer, cut where the parser gives up.
LEMMA CutInTwo ==
  ASSUME NEW cut, NEW lw, NEW lr, NEW ly, NEW z, NEW w, NEW d, NEW x, NEW y, NEW v,
         CutAt(cut, lw, lr, ly, z, w, d, x, y, v)
  PROVE  \E f : /\ \A i \in DOMAIN v : f[i] \in DOMAIN z /\ v[i] = z[f[i]]
                /\ \A i, j \in DOMAIN v : i < j => f[i] < f[j]
<1> USE DEF CutAt
<1>1. CASE cut <= lw
  <2> DEFINE f == [i \in Nat |-> IF i < cut THEN i ELSE i + 1]
  <2>1. ASSUME NEW i \in DOMAIN v PROVE f[i] \in DOMAIN z /\ v[i] = z[f[i]]
    <3>1. i \in Nat \ {0} /\ i <= lw - 1 + lr /\ ly = lw - cut
      BY <1>1
    <3>2. f[i] \in DOMAIN z
      BY <3>1
    <3>3. CASE i < cut
      BY <1>1, <3>1, <3>3
    <3>4. CASE cut <= i /\ i <= lw - 1
      <4>1. v[i] = y[i - (cut - 1)] /\ i - (cut - 1) \in 1..ly /\ cut + (i - (cut - 1)) = i + 1
        BY <1>1, <3>1, <3>4
      <4>2. v[i] = w[i + 1] /\ i + 1 \in 1..lw
        BY <3>1, <3>4, <4>1
      <4> QED
        BY <3>1, <3>4, <4>2
    <3>5. CASE lw - 1 < i
      <4>1. /\ v[i] = d[i - ((cut - 1) + ly)] /\ i - ((cut - 1) + ly) = i - (lw - 1)
            /\ i - (lw - 1) \in 1..lr /\ lw + (i - (lw - 1)) = i + 1
        BY <1>1, <3>1, <3>5
      <4>2. v[i] = z[i + 1]
        BY <4>1
      <4> QED
        BY <1>1, <3>1, <3>5, <4>2
    <3> QED
      BY <3>1, <3>2, <3>3, <3>4, <3>5
  <2>2. ASSUME NEW i \in DOMAIN v, NEW j \in DOMAIN v, i < j PROVE f[i] < f[j]
    <3>1. i \in Nat /\ j \in Nat
      BY <1>1
    <3> QED
      BY <2>2, <3>1
  <2> HIDE DEF f
  <2> QED
    BY <2>1, <2>2
<1>2. CASE cut = lw + 1
  <2> DEFINE f == [i \in Nat |-> i]
  <2>1. ASSUME NEW i \in DOMAIN v PROVE f[i] \in DOMAIN z /\ v[i] = z[f[i]]
    <3>1. i \in Nat \ {0} /\ i <= lw + lr /\ ly = 0
      BY <1>2
    <3>2. f[i] \in DOMAIN z
      BY <3>1
    <3>3. CASE i < cut
      BY <1>2, <3>1, <3>3
    <3>4. CASE cut <= i
      <4>1. /\ v[i] = d[i - ((cut - 1) + ly)] /\ i - ((cut - 1) + ly) = i - lw
            /\ i - lw \in 1..lr /\ lw + (i - lw) = i
        BY <1>2, <3>1, <3>4
      <4> QED
        BY <3>1, <4>1
    <3> QED
      BY <3>1, <3>2, <3>3, <3>4
  <2>2. ASSUME NEW i \in DOMAIN v, NEW j \in DOMAIN v, i < j PROVE f[i] < f[j]
    <3>1. i \in Nat /\ j \in Nat
      BY <1>2
    <3> QED
      BY <2>2, <3>1
  <2> HIDE DEF f
  <2> QED
    BY <2>1, <2>2
<1> QED
  BY <1>1, <1>2

\* The session reads and parses: the line loses a reply at most.
LEMMA SessionReadRises ==
  ASSUME TypeOK, TypeOK', AcksRise, NEW r \in Replica, SessionRead(r)
  PROVE  AcksRise'
<1>1. PICK n \in 1..Len(up[r]) :
        LET buffer == leftover[r] \o SubSeq(up[r], 1, n)
        IN \E cut \in 1..Len(buffer) + 1 :
             /\ up' = [up EXCEPT ![r] = SubSeq(@, n + 1, Len(@))]
             /\ inbox' = [inbox EXCEPT ![r] = SubSeq(buffer, 1, cut - 1)]
             /\ leftover' = [leftover EXCEPT ![r] = SubSeq(buffer, cut + 1, Len(buffer))]
  BY DEF SessionRead
<1> DEFINE c == up[r]
           b == leftover[r]
           w == b \o SubSeq(c, 1, n)
<1>2. PICK cut \in 1..Len(w) + 1 :
        /\ up' = [up EXCEPT ![r] = SubSeq(c, n + 1, Len(c))]
        /\ inbox' = [inbox EXCEPT ![r] = SubSeq(w, 1, cut - 1)]
        /\ leftover' = [leftover EXCEPT ![r] = SubSeq(w, cut + 1, Len(w))]
  BY <1>1
<1>3. UNCHANGED <<lastAck, slaveOffset, phase>> /\ inbox[r] = <<>>
  BY DEF SessionRead, masterVars, slaveVars
<1> DEFINE z == Line(r)
           v == Line(r)'
<1> DEFINE p == SubSeq(c, 1, n)
           d == SubSeq(c, n + 1, Len(c))
           x == SubSeq(w, 1, cut - 1)
           y == SubSeq(w, cut + 1, Len(w))
<1>4. b \in Seq(UpMsg) /\ c \in Seq(UpMsg) /\ n \in 1..Len(c) /\ cut \in 1..Len(w) + 1
  BY DEF TypeOK
<1>5. z = b \o c /\ w = b \o p /\ v = x \o y \o d
  <2> HIDE DEF w
  <2>1. up'[r] = d /\ inbox'[r] = x /\ leftover'[r] = y
    BY <1>2 DEF TypeOK
  <2>2. <<>> \o b = b
    BY <1>4, ConcatEmptySeq
  <2> QED
    BY <1>3, <2>1, <2>2 DEF Line, w
<1>6. PICK f : /\ \A i \in DOMAIN v : f[i] \in DOMAIN z /\ v[i] = z[f[i]]
               /\ \A i, j \in DOMAIN v : i < j => f[i] < f[j]
  <2> HIDE DEF b, c, w, z, v
  <2>1. Len(c) \in Nat /\ n \in 1..Len(c)
    BY <1>4, LenProperties
  <2>2. p \in Seq(UpMsg) /\ Len(p) = n /\ \A i \in 1..n : p[i] = c[i]
    <3>1. /\ p \in Seq(UpMsg) /\ Len(p) = (IF 1 <= n THEN n - 1 + 1 ELSE 0)
          /\ \A i \in 1..Len(p) : p[i] = c[1 + i - 1]
      BY <1>4, <2>1, PieceOf
    <3> HIDE DEF p
    <3> QED
      BY <2>1, <3>1
  <2>3. d \in Seq(UpMsg) /\ Len(d) = Len(c) - n /\ \A i \in 1..Len(c) - n : d[i] = c[n + i]
    <3>1. n + 1 \in Nat \ {0} /\ Len(c) \in Int /\ Len(c) <= Len(c)
      BY <2>1
    <3>2. /\ d \in Seq(UpMsg) /\ Len(d) = (IF n + 1 <= Len(c) THEN Len(c) - (n + 1) + 1 ELSE 0)
          /\ \A i \in 1..Len(d) : d[i] = c[n + 1 + i - 1]
      BY <1>4, <3>1, PieceOf
    <3> HIDE DEF d
    <3> QED
      BY <2>1, <3>2
  <2> HIDE DEF p, d
  <2>4. w \in Seq(UpMsg)
    BY <1>4, <1>5, <2>2, TwoInARow
  <2>5. Len(w) \in Nat /\ cut \in 1..Len(w) + 1
    BY <1>4, <2>4, LenProperties
  <2>6. x \in Seq(UpMsg) /\ Len(x) = cut - 1 /\ \A i \in 1..cut - 1 : x[i] = w[i]
    <3>1. cut - 1 \in Int /\ cut - 1 <= Len(w)
      BY <2>5
    <3>2. /\ x \in Seq(UpMsg) /\ Len(x) = (IF 1 <= cut - 1 THEN cut - 1 - 1 + 1 ELSE 0)
          /\ \A i \in 1..Len(x) : x[i] = w[1 + i - 1]
      BY <2>4, <3>1, PieceOf
    <3> HIDE DEF x
    <3> QED
      BY <2>5, <3>2
  <2>7. /\ y \in Seq(UpMsg) /\ Len(y) = (IF cut <= Len(w) THEN Len(w) - cut ELSE 0)
        /\ \A i \in 1..Len(y) : y[i] = w[cut + i]
    <3>1. cut + 1 \in Nat \ {0} /\ Len(w) \in Int /\ Len(w) <= Len(w)
      BY <2>5
    <3>2. /\ y \in Seq(UpMsg) /\ Len(y) = (IF cut + 1 <= Len(w) THEN Len(w) - (cut + 1) + 1 ELSE 0)
          /\ DOMAIN y = 1..Len(y) /\ \A i \in 1..Len(y) : y[i] = w[cut + 1 + i - 1]
      BY <2>4, <3>1, PieceOf
    <3> HIDE DEF y
    <3>3. Len(y) = IF cut <= Len(w) THEN Len(w) - cut ELSE 0
      BY <2>5, <3>2
    <3> QED
      BY <2>5, <3>2, <3>3
  <2> HIDE DEF x, y
  <2>8. PICK lb \in Nat, lc \in Nat, lw \in Nat, ly \in Nat :
          lb = Len(b) /\ lc = Len(c) /\ lw = Len(w) /\ ly = Len(y)
    BY <1>4, <2>1, <2>5, <2>7, LenProperties
  <2>9. /\ lw = Len(b) + Len(p)
        /\ \A i \in 1..Len(b) : w[i] = b[i]
        /\ \A i \in Len(b) + 1 .. Len(b) + Len(p) : w[i] = p[i - Len(b)]
    <3>1. b \in Seq(UpMsg) /\ p \in Seq(UpMsg) /\ w = b \o p
      BY <1>4, <1>5, <2>2
    <3>2. Len(w) = Len(b) + Len(p)
      BY <3>1, TwoInARow
    <3> QED
      BY <2>8, <3>1, <3>2, TwoInARow
  <2>10. /\ lw = lb + n /\ n \in 1..lc /\ cut \in 1..lw + 1
         /\ \A i \in 1..lb : w[i] = b[i]
         /\ \A i \in lb + 1 .. lb + n : w[i] = p[i - lb]
    BY <2>1, <2>2, <2>5, <2>8, <2>9
  <2>11. /\ DOMAIN z = 1..Len(b) + Len(c)
         /\ \A i \in 1..Len(b) : z[i] = b[i]
         /\ \A i \in Len(b) + 1 .. Len(b) + Len(c) : z[i] = c[i - Len(b)]
    BY <1>4, <1>5, TwoInARow
  <2>12. /\ DOMAIN z = 1..lb + lc
         /\ \A i \in 1..lb : z[i] = b[i]
         /\ \A i \in lb + 1 .. lb + lc : z[i] = c[i - lb]
    BY <2>8, <2>11
  <2>13. PICK lr \in Nat : lr = lc - n
    BY <2>10
  <2>14. DOMAIN z = 1..lw + lr
    BY <2>10, <2>12, <2>13
  <2>15. ASSUME NEW i \in 1..lw PROVE w[i] = z[i]
    <3>1. CASE i <= lb
      BY <2>10, <2>12, <3>1
    <3>2. CASE lb < i
      <4>1. i - lb \in 1..n /\ i \in lb + 1 .. lb + n /\ i \in lb + 1 .. lb + lc
        BY <2>10, <3>2
      <4> QED
        BY <2>2, <2>10, <2>12, <4>1
    <3> QED
      BY <3>1, <3>2
  <2>16. ASSUME NEW i \in 1..lr PROVE d[i] = z[lw + i]
    <3>1. lw + i \in lb + 1 .. lb + lc /\ (lw + i) - lb = n + i /\ i \in 1..lc - n
      BY <2>10, <2>13
    <3>2. d[i] = c[n + i]
      BY <2>3, <2>8, <3>1
    <3> QED
      BY <2>12, <3>1, <3>2
  <2>17. PICK k \in Nat, l \in Nat : k = cut - 1 /\ l = (cut - 1) + ly
    BY <2>10
  <2>18. k = Len(x) /\ l = Len(x) + Len(y) /\ lr = Len(d)
    BY <2>3, <2>6, <2>8, <2>13, <2>17
  <2>19. /\ DOMAIN v = 1..l + Len(d)
         /\ \A i \in 1..k : v[i] = x[i]
         /\ \A i \in k + 1 .. l : v[i] = y[i - k]
         /\ \A i \in l + 1 .. l + Len(d) : v[i] = d[i - l]
    <3>1. x \in Seq(UpMsg) /\ y \in Seq(UpMsg) /\ d \in Seq(UpMsg) /\ v = x \o y \o d
      BY <1>5, <2>3, <2>6, <2>7
    <3> QED
      BY <2>18, <3>1, ThreeInARow
  <2>20. k + 1 = cut /\ l + 1 = cut + ly
    BY <2>10, <2>17
  <2>21. /\ DOMAIN v = 1..(cut - 1) + ly + lr
         /\ \A i \in 1..cut - 1 : v[i] = x[i]
         /\ \A i \in cut .. (cut - 1) + ly : v[i] = y[i - (cut - 1)]
         /\ \A i \in cut + ly .. (cut - 1) + ly + lr : v[i] = d[i - ((cut - 1) + ly)]
    BY <2>17, <2>18, <2>19, <2>20
  <2>22. /\ ly = IF cut <= lw THEN lw - cut ELSE 0
         /\ \A i \in 1..ly : y[i] = w[cut + i]
    BY <2>7, <2>8
  <2>23. CutAt(cut, lw, lr, ly, z, w, d, x, y, v)
    BY <2>6, <2>10, <2>14, <2>15, <2>16, <2>21, <2>22 DEF CutAt
  <2> QED
    BY <2>23, CutInTwo
<1> HIDE DEF x, y, p, d
<1>7. \A s \in Replica \ {r} : up'[s] = up[s] /\ inbox'[s] = inbox[s] /\ leftover'[s] = leftover[s]
  <2> HIDE DEF w
  <2> QED
    BY <1>2 DEF TypeOK
<1> SUFFICES ASSUME NEW s \in Replica PROVE AcksRiseOf(s)'
  BY DEF AcksRise
<1>8. CASE s # r
  BY <1>3, <1>7, <1>8, SameLine DEF AcksRise
<1>9. CASE s = r
  <2>1. AcksRiseOf(r) /\ (phase'[r] \in {"rdb", "stream"} => slaveOffset'[r] >= 0)
    BY <1>3 DEF AcksRise, AcksRiseOf
  <2>2. slaveOffset[r] <= slaveOffset'[r] /\ lastAck'[r] = lastAck[r]
    BY <1>3 DEF TypeOK
  <2> QED
    BY <1>6, <1>9, <2>1, <2>2, Thinned
<1> QED
  BY <1>8, <1>9

\* The slave says something behind what it has said.
LEMMA SaidLine ==
  ASSUME TypeOK, NEW r \in Replica, NEW msgs \in Seq(UpMsg), Say(r, msgs),
         UNCHANGED <<inbox, leftover>>
  PROVE  /\ \A x \in Replica \ {r} : up'[x] = up[x]
         /\ Line(r)' \in Seq(UpMsg) /\ DOMAIN Line(r)' \subseteq Nat
         /\ \A i \in DOMAIN Line(r)' :
              \/ i \in DOMAIN Line(r) /\ Line(r)'[i] = Line(r)[i]
              \/ /\ Line(r)'[i] \in ToSet(msgs)
                 /\ \A j \in DOMAIN Line(r) : j < i
<1> DEFINE z == Line(r)
           v == Line(r)'
           a == inbox[r]
           b == leftover[r]
           c == up[r]
           y == a \o b
<1>1. /\ a \in Seq(UpMsg) /\ b \in Seq(UpMsg) /\ c \in Seq(UpMsg) /\ y \in Seq(UpMsg)
      /\ z \in Seq(UpMsg)
  BY ConcatProperties, InLine DEF TypeOK
<1>2. up'[r] = c \o msgs /\ \A x \in Replica \ {r} : up'[x] = up[x]
  BY DEF Say, TypeOK
<1>3. v = z \o msgs
  <2>1. v = y \o (c \o msgs) /\ z = y \o c
    BY <1>2 DEF Line
  <2> HIDE DEF y, c, v, z
  <2> QED
    BY <1>1, <2>1, ConcatAssociative
<1> HIDE DEF z, v, a, b, c, y
<1>4. /\ v \in Seq(UpMsg) /\ DOMAIN v = 1..Len(z) + Len(msgs)
      /\ \A i \in 1..Len(z) : v[i] = z[i]
      /\ \A i \in Len(z) + 1 .. Len(z) + Len(msgs) : v[i] = msgs[i - Len(z)]
  BY <1>1, <1>3, TwoInARow
<1>5. Len(z) \in Nat /\ DOMAIN z = 1..Len(z) /\ Len(msgs) \in Nat /\ DOMAIN msgs = 1..Len(msgs)
  BY <1>1, LenProperties
<1>6. ASSUME NEW i \in DOMAIN v, i \notin DOMAIN z
      PROVE  v[i] \in ToSet(msgs) /\ \A j \in DOMAIN z : j < i
  <2>1. i - Len(z) \in DOMAIN msgs /\ v[i] = msgs[i - Len(z)]
    BY <1>4, <1>5, <1>6
  <2>2. \A j \in DOMAIN z : j < i
    BY <1>4, <1>5, <1>6
  <2> QED
    BY <2>1, <2>2 DEF ToSet
<1>7. \A i \in DOMAIN v : i \in DOMAIN z => v[i] = z[i]
  BY <1>4, <1>5
<1>8. DOMAIN v \subseteq Nat
  BY <1>4, <1>5
<1> QED
  BY <1>2, <1>4, <1>6, <1>7, <1>8 DEF z, v

\* A slave says something that is not an acknowledgement.
LEMMA SaidRises ==
  ASSUME TypeOK, TypeOK', AcksRise, NEW r \in Replica, NEW msgs \in Seq(UpMsg), Say(r, msgs),
         \A m \in ToSet(msgs) : m.kind # "ack",
         UNCHANGED <<inbox, leftover, lastAck>>, slaveOffset'[r] >= slaveOffset[r],
         \A x \in Replica \ {r} : slaveOffset'[x] = slaveOffset[x] /\ phase'[x] = phase[x],
         phase'[r] \in {"rdb", "stream"} => phase[r] \in {"rdb", "stream"}
  PROVE  AcksRise'
<1>1. /\ \A x \in Replica \ {r} : up'[x] = up[x]
      /\ DOMAIN Line(r)' \subseteq Nat
      /\ \A i \in DOMAIN Line(r)' :
           \/ i \in DOMAIN Line(r) /\ Line(r)'[i] = Line(r)[i]
           \/ Line(r)'[i] \in ToSet(msgs)
  BY SaidLine
<1> SUFFICES ASSUME NEW x \in Replica PROVE AcksRiseOf(x)'
  BY DEF AcksRise
<1>2. CASE x # r
  BY <1>1, <1>2, SameLine DEF AcksRise
<1>3. CASE x = r
  <2> DEFINE f == [i \in Nat |-> i]
  <2>1. \A i \in DOMAIN Line(r)' :
          AckAt(r, i)' => f[i] \in DOMAIN Line(r) /\ Line(r)'[i] = Line(r)[f[i]]
    BY <1>1 DEF AckAt
  <2>2. \A i, j \in DOMAIN Line(r)' : i < j => f[i] < f[j]
    BY <1>1
  <2>3. phase'[r] \in {"rdb", "stream"} => slaveOffset'[r] >= 0
    <3>1. slaveOffset[r] \in Int /\ slaveOffset'[r] \in Int
      BY DEF TypeOK
    <3> QED
      BY <3>1 DEF AcksRise, AcksRiseOf
  <2>4. AcksRiseOf(r) /\ lastAck'[r] = lastAck[r]
    BY DEF AcksRise
  <2> HIDE DEF f
  <2> QED
    BY <1>3, <2>1, <2>2, <2>3, <2>4, Thinned
<1> QED
  BY <1>2, <1>3

\* The acknowledgement of a GETACK is that of the offset before it.
LEMMA GetAckRises ==
  ASSUME TypeOK, TypeOK', AcksRise, NEW r \in Replica, GetAck(r)
  PROVE  AcksRise'
<1> DEFINE msgs == <<Msg("ack", slaveOffset[r])>>
<1>1. msgs \in Seq(UpMsg) /\ \A m \in ToSet(msgs) : m.kind = "ack" /\ m.n = slaveOffset[r]
  BY DEF Msg, UpMsg, ToSet, TypeOK
<1>2. Say(r, msgs) /\ UNCHANGED <<inbox, leftover, lastAck, phase>>
  BY DEF GetAck, masterVars
<1> HIDE DEF msgs
<1>3. /\ \A x \in Replica \ {r} : up'[x] = up[x]
      /\ DOMAIN Line(r)' \subseteq Nat
      /\ \A i \in DOMAIN Line(r)' :
           \/ i \in DOMAIN Line(r) /\ Line(r)'[i] = Line(r)[i]
           \/ Line(r)'[i] \in ToSet(msgs) /\ \A j \in DOMAIN Line(r) : j < i
  BY <1>1, <1>2, SaidLine
<1>4. /\ phase[r] = "stream" /\ down[r] # <<>> /\ Head(down[r]).kind = "getack"
      /\ slaveOffset' = [slaveOffset EXCEPT ![r] = slaveOffset[r] + Size(Head(down[r]))]
  BY DEF GetAck, Streams
<1>5. Size(Head(down[r])) = GetAckSize /\ GetAckSize \in Nat
  BY <1>4, ConstantsAssumption DEF Size
<1>6. /\ slaveOffset[r] \in Int /\ slaveOffset'[r] = slaveOffset[r] + GetAckSize
      /\ \A x \in Replica \ {r} : slaveOffset'[x] = slaveOffset[x]
  BY <1>4, <1>5 DEF TypeOK
<1> SUFFICES ASSUME NEW x \in Replica PROVE AcksRiseOf(x)'
  BY DEF AcksRise
<1>7. CASE x # r
  BY <1>2, <1>3, <1>6, <1>7, SameLine DEF AcksRise
<1>8. CASE x = r
  <2>1. AcksRiseOf(r) /\ slaveOffset[r] >= 0 /\ lastAck[r] \in Int /\ lastAck'[r] = lastAck[r]
    BY <1>2, <1>4 DEF AcksRise, AcksRiseOf, TypeOK
  <2>2. lastAck[r] <= slaveOffset[r]
    <3>1. lastAck[r] > 0 => lastAck[r] + GetAckSize <= slaveOffset[r]
      BY <2>1 DEF AcksRiseOf
    <3> QED
      BY <1>5, <1>6, <2>1, <3>1
  <2>3. \A i \in DOMAIN Line(r) : i \in Nat /\ Line(r)[i].n \in Int
    BY InLine DEF UpMsg
  <2>4. ASSUME NEW i \in DOMAIN Line(r)', AckAt(r, i)'
        PROVE  \/ AckAt(r, i) /\ i \in DOMAIN Line(r) /\ Line(r)'[i] = Line(r)[i]
               \/ Line(r)'[i].n = slaveOffset[r] /\ \A j \in DOMAIN Line(r) : j < i
    BY <1>1, <1>3, <2>4 DEF AckAt
  <2>5. ASSUME NEW i \in DOMAIN Line(r), AckAt(r, i)
        PROVE  lastAck[r] <= Line(r)[i].n /\ Line(r)[i].n + GetAckSize <= slaveOffset[r]
    BY <2>1, <2>5 DEF AcksRiseOf
  <2>6. ASSUME NEW i \in DOMAIN Line(r)', AckAt(r, i)'
        PROVE  lastAck'[r] <= Line(r)'[i].n /\ Line(r)'[i].n + GetAckSize <= slaveOffset'[r]
    <3>1. CASE AckAt(r, i) /\ i \in DOMAIN Line(r) /\ Line(r)'[i] = Line(r)[i]
      BY <1>5, <1>6, <2>1, <2>3, <2>5, <3>1
    <3>2. CASE Line(r)'[i].n = slaveOffset[r]
      BY <1>5, <1>6, <2>1, <2>2, <3>2
    <3> QED
      BY <2>4, <2>6, <3>1, <3>2
  <2>7. ASSUME NEW i \in DOMAIN Line(r)', NEW j \in DOMAIN Line(r)',
               AckAt(r, i)', AckAt(r, j)', i < j
        PROVE  Line(r)'[i].n <= Line(r)'[j].n
    <3>1. CASE AckAt(r, j) /\ j \in DOMAIN Line(r) /\ Line(r)'[j] = Line(r)[j]
      <4>1. AckAt(r, i) /\ i \in DOMAIN Line(r) /\ Line(r)'[i] = Line(r)[i]
        <5>1. i \in Nat /\ j \in Nat
          BY <1>3
        <5> QED
          BY <2>4, <2>7, <3>1, <5>1
      <4> QED
        BY <2>1, <2>7, <3>1, <4>1 DEF AcksRiseOf
    <3>2. CASE Line(r)'[j].n = slaveOffset[r]
      <4>1. CASE AckAt(r, i) /\ i \in DOMAIN Line(r) /\ Line(r)'[i] = Line(r)[i]
        BY <1>5, <1>6, <2>3, <2>5, <3>2, <4>1
      <4>2. CASE Line(r)'[i].n = slaveOffset[r]
        BY <1>6, <3>2, <4>2
      <4> QED
        BY <2>4, <2>7, <4>1, <4>2
    <3> QED
      BY <2>4, <2>7, <3>1, <3>2
  <2>8. phase'[r] \in {"rdb", "stream"} => slaveOffset'[r] >= 0
    BY <1>5, <1>6, <2>1
  <2>9. lastAck'[r] > 0 => lastAck'[r] + GetAckSize <= slaveOffset'[r]
    BY <1>5, <1>6, <2>1, <2>2
  <2> QED
    BY <1>8, <2>6, <2>7, <2>8, <2>9 DEF AcksRiseOf
<1> QED
  BY <1>7, <1>8

\* The offset starts when nothing has been acknowledged.
LEMMA FullResyncRises ==
  ASSUME TypeOK, Acks, AcksRise, NEW r \in Replica, FullResync(r)
  PROVE  AcksRise'
<1>1. /\ phase[r] = "psync" /\ slaveOffset' = [slaveOffset EXCEPT ![r] = 0]
      /\ phase' = [phase EXCEPT ![r] = "rdb"]
      /\ UNCHANGED <<up, leftover, inbox, lastAck>>
  BY DEF FullResync, masterVars
<1>2. lastAck[r] = 0 /\ \A m \in Heard(r) : m.kind # "ack"
  BY <1>1 DEF Acks, AcksOf
<1> SUFFICES ASSUME NEW x \in Replica PROVE AcksRiseOf(x)'
  BY DEF AcksRise
<1>3. CASE x # r
  <2>1. slaveOffset'[x] = slaveOffset[x] /\ phase'[x] = phase[x]
    BY <1>1, <1>3 DEF TypeOK
  <2> QED
    BY <1>1, <2>1, SameLine DEF AcksRise
<1>4. CASE x = r
  <2>1. Line(r)' = Line(r)
    BY <1>1 DEF Line
  <2>2. \A i \in DOMAIN Line(r)' : ~AckAt(r, i)'
    BY <1>2, <2>1, InLine DEF AckAt
  <2>3. slaveOffset'[r] = 0 /\ lastAck'[r] = 0
    BY <1>1, <1>2 DEF TypeOK
  <2> QED
    BY <1>4, <2>2, <2>3 DEF AcksRiseOf
<1> QED
  BY <1>3, <1>4

LEMMA InitRises == Init => AcksRise
<1> SUFFICES ASSUME Init PROVE AcksRise
  OBVIOUS
<1> SUFFICES ASSUME NEW r \in Replica PROVE AcksRiseOf(r)
  BY DEF AcksRise
<1>1. lastAck[r] = 0 /\ phase[r] = "off" /\ TypeOK
  BY InitDelivery DEF Init, Delivery
<1>2. Heard(r) = {}
  BY DEF Init, Heard, ToSet
<1>3. \A i \in DOMAIN Line(r) : FALSE
  BY <1>1, <1>2, InLine
<1> QED
  BY <1>1, <1>3 DEF AcksRiseOf, AckAt

\* Every step keeps them rising.
LEMMA StepRises ==
  ASSUME Delivery, Delivery', AcksRise, [Next]_vars
  PROVE  AcksRise' /\ \A r \in Replica : lastAck[r] <= lastAck'[r]
<1>1. TypeOK /\ TypeOK' /\ Acks
  BY DEF Delivery
<1> DEFINE Grow == \A r \in Replica : lastAck[r] <= lastAck'[r]
<1>2. lastAck' = lastAck => Grow
  BY <1>1 DEF TypeOK
<1> HIDE DEF Grow
<1>3. ASSUME UNCHANGED <<inbox, leftover, up, lastAck, slaveOffset, phase>>
      PROVE  AcksRise' /\ Grow
  BY <1>2, <1>3, LinesKept
<1>4. CASE Write
  BY <1>3, <1>4 DEF Write, linkVars, slaveVars, masterVars, Grow
<1>5. ASSUME NEW s \in Sender, SendStep(s) PROVE AcksRise' /\ Grow
  BY <1>3, <1>5 DEF SendStep, Send, End, masterVars, linkVars, slaveVars
<1>6. ASSUME NEW r \in Replica, SessionStep(r) PROVE AcksRise' /\ Grow
  <2>1. CASE SessionRead(r)
    BY <1>1, <1>2, <2>1, SessionReadRises DEF SessionRead, masterVars
  <2>2. CASE Ping(r)
    BY <1>1, <1>2, <2>2, RoutedRise DEF Ping, masterVars, slaveVars
  <2>3. CASE Replconf(r)
    BY <1>1, <1>2, <2>3, RoutedRise DEF Replconf, slaveVars
  <2>4. CASE Psync(r)
    BY <1>1, <1>2, <2>4, RoutedRise DEF Psync, masterVars, slaveVars
  <2>5. CASE PsyncFile(r)
    BY <1>3, <2>5 DEF PsyncFile, masterVars, slaveVars
  <2>6. CASE PsyncMark(r)
    BY <1>3, <2>6 DEF PsyncMark, slaveVars
  <2>7. CASE Ack(r)
    BY <1>1, <2>7, AckRises DEF Grow
  <2> QED
    BY <1>6, <2>1, <2>2, <2>3, <2>4, <2>5, <2>6, <2>7 DEF SessionStep
<1>7. ASSUME NEW r \in Replica, Connect(r) PROVE AcksRise' /\ Grow
  <2> DEFINE msgs == <<Msg("ping", 0)>>
  <2>1. msgs \in Seq(UpMsg) /\ \A m \in ToSet(msgs) : m.kind # "ack"
    BY DEF Msg, UpMsg, ToSet
  <2>2. Say(r, msgs) /\ UNCHANGED <<inbox, leftover, lastAck, slaveOffset>>
    BY <1>7 DEF Connect, masterVars
  <2>3. phase'[r] = "ping" /\ \A x \in Replica \ {r} : phase'[x] = phase[x]
    BY <1>1, <1>7 DEF Connect, TypeOK
  <2>4. slaveOffset'[r] >= slaveOffset[r]
    BY <1>1, <2>2 DEF TypeOK
  <2> HIDE DEF msgs
  <2> QED
    BY <1>1, <1>2, <2>1, <2>2, <2>3, <2>4, SaidRises
<1>8. ASSUME NEW r \in Replica, NEW from, NEW to \in {"conf1", "conf2", "psync"},
             NEW msgs \in Seq(UpMsg), \A m \in ToSet(msgs) : m.kind # "ack",
             Expect(r, from, to, msgs)
      PROVE  AcksRise' /\ Grow
  <2>1. UNCHANGED <<inbox, leftover, lastAck, slaveOffset>>
    BY <1>8 DEF Expect, masterVars
  <2>2. slaveOffset'[r] >= slaveOffset[r]
    BY <1>1, <2>1 DEF TypeOK
  <2>3. \/ phase' = [phase EXCEPT ![r] = to] /\ Say(r, msgs)
        \/ phase' = [phase EXCEPT ![r] = "failed"] /\ up' = up
    BY <1>8 DEF Expect
  <2>4. CASE phase' = [phase EXCEPT ![r] = to] /\ Say(r, msgs)
    <3>1. phase'[r] = to /\ \A x \in Replica \ {r} : phase'[x] = phase[x]
      BY <1>1, <2>4 DEF TypeOK
    <3> QED
      BY <1>1, <1>2, <1>8, <2>1, <2>2, <2>4, <3>1, SaidRises
  <2>5. CASE phase' = [phase EXCEPT ![r] = "failed"] /\ up' = up
    <3>1. \A x \in Replica : phase'[x] \in {"rdb", "stream"} => phase[x] \in {"rdb", "stream"}
      BY <1>1, <2>5 DEF TypeOK
    <3> QED
      BY <1>2, <2>1, <2>5, <3>1, LinesKept
  <2> QED
    BY <2>3, <2>4, <2>5
<1>9. ASSUME NEW r \in Replica, Handshake(r) PROVE AcksRise' /\ Grow
  <2> DEFINE conf == <<Msg("replconf", 0), Msg("replconf", 0)>>
             last == <<Msg("psync", 0)>>
  <2>1. /\ conf \in Seq(UpMsg) /\ \A m \in ToSet(conf) : m.kind # "ack"
        /\ last \in Seq(UpMsg) /\ \A m \in ToSet(last) : m.kind # "ack"
    BY DEF Msg, UpMsg, ToSet
  <2>2. <<>> \in Seq(UpMsg) /\ \A m \in ToSet(<<>>) : m.kind # "ack"
    BY DEF ToSet
  <2>3. \/ Expect(r, "ping", "conf1", conf) \/ Expect(r, "conf1", "conf2", <<>>)
        \/ Expect(r, "conf2", "psync", last)
    BY <1>9 DEF Handshake
  <2> HIDE DEF conf, last
  <2> QED
    BY <1>8, <2>1, <2>2, <2>3
<1>10. ASSUME NEW r \in Replica, FullResync(r) PROVE AcksRise' /\ Grow
  BY <1>1, <1>2, <1>10, FullResyncRises DEF FullResync, masterVars
<1>11. ASSUME NEW r \in Replica, LoadSnapshot(r) PROVE AcksRise' /\ Grow
  <2>1. phase[r] = "rdb" /\ UNCHANGED <<inbox, leftover, up, lastAck, slaveOffset>>
    BY <1>11 DEF LoadSnapshot, masterVars
  <2>2. PICK to \in {"stream", "failed"} : phase' = [phase EXCEPT ![r] = to]
    BY <1>11 DEF LoadSnapshot
  <2>3. \A x \in Replica : phase'[x] \in {"rdb", "stream"} => phase[x] \in {"rdb", "stream"}
    BY <1>1, <2>1, <2>2 DEF TypeOK
  <2> QED
    BY <1>2, <2>1, <2>3, LinesKept
<1>12. ASSUME NEW r \in Replica, ApplyWrite(r) PROVE AcksRise' /\ Grow
  <2> DEFINE msgs == IF suppress[r] THEN <<>> ELSE <<Msg("reply", 0)>>
  <2>1. msgs \in Seq(UpMsg) /\ \A m \in ToSet(msgs) : m.kind # "ack"
    <3>1. /\ <<Msg("reply", 0)>> \in Seq(UpMsg) /\ \A m \in ToSet(<<Msg("reply", 0)>>) : m.kind # "ack"
      BY DEF Msg, UpMsg, ToSet
    <3>2. <<>> \in Seq(UpMsg) /\ \A m \in ToSet(<<>>) : m.kind # "ack"
      BY DEF ToSet
    <3> QED
      BY <3>1, <3>2
  <2>2. Say(r, msgs) /\ UNCHANGED <<inbox, leftover, lastAck, phase>>
    BY <1>12 DEF ApplyWrite, masterVars
  <2> HIDE DEF msgs
  <2>3. slaveOffset[r] <= slaveOffset'[r] /\ \A x \in Replica \ {r} : slaveOffset'[x] = slaveOffset[x]
    BY <1>1, <1>12, StreamsStep DEF ApplyWrite
  <2>4. slaveOffset'[r] >= slaveOffset[r]
    BY <1>1, <2>3 DEF TypeOK
  <2> QED
    BY <1>1, <1>2, <2>1, <2>2, <2>3, <2>4, SaidRises
<1>13. ASSUME NEW r \in Replica, GetAck(r) PROVE AcksRise' /\ Grow
  BY <1>1, <1>2, <1>13, GetAckRises DEF GetAck, masterVars
<1>14. ASSUME NEW r \in Replica, Crash(r) PROVE AcksRise' /\ Grow
  <2>1. phase' = [phase EXCEPT ![r] = "dead"] /\ UNCHANGED <<inbox, leftover, up, lastAck, slaveOffset>>
    BY <1>14 DEF Crash, masterVars
  <2>2. \A x \in Replica : phase'[x] \in {"rdb", "stream"} => phase[x] \in {"rdb", "stream"}
    BY <1>1, <2>1 DEF TypeOK
  <2> QED
    BY <1>2, <2>1, <2>2, LinesKept
<1>15. ASSUME NEW w \in Waiter, WaitCommand(w) \/ WaitStep(w) PROVE AcksRise' /\ Grow
  BY <1>3, <1>15 DEF WaitCommand, WaitStep, WaitCheck, WaitAsk, WaitCount, Deadline, masterVars,
     linkVars, slaveVars
<1>16. CASE ConcurrentMapAbort
  BY <1>1, <1>2, <1>16, RoutedRise DEF ConcurrentMapAbort, slaveVars, Grow
<1>17. CASE UNCHANGED vars
  BY <1>3, <1>17 DEF vars, masterVars, linkVars, slaveVars, Grow
<1> QED
  BY <1>4, <1>5, <1>6, <1>7, <1>9, <1>10, <1>11, <1>12, <1>13, <1>14, <1>15, <1>16, <1>17
     DEF Next, SlaveStep, Grow

-----------------------------------------------------------------------------
(* Offsets: the bytes on the way to a slave.                               *)

\* The bytes of one message; only writes and GETACKs count.
Weight(m) == IF m.kind = "write" THEN WriteSize ELSE IF m.kind = "getack" THEN GetAckSize ELSE 0

Ahead(q, i, kind) == {j \in DOMAIN q : j < i /\ q[j].kind = kind}

\* What is ahead of a message can be counted.
LEMMA AheadFinite ==
  ASSUME NEW q \in Seq(DownMsg), NEW i, NEW kind
  PROVE  /\ IsFiniteSet(Ahead(q, i, kind)) /\ Count(q, i, kind) = Cardinality(Ahead(q, i, kind))
         /\ Count(q, i, kind) \in Nat
<1>1. DOMAIN q = 1..Len(q) /\ Len(q) \in Nat
  BY LenProperties
<1>2. IsFiniteSet(1..Len(q))
  BY <1>1, FS_Interval
<1>3. Ahead(q, i, kind) \in SUBSET (1..Len(q))
  BY <1>1 DEF Ahead
<1>4. IsFiniteSet(Ahead(q, i, kind))
  BY <1>2, <1>3, FS_Subset
<1> QED
  BY <1>4, FS_CardinalityType DEF Count, Ahead

\* One message further.
LEMMA CountNext ==
  ASSUME NEW q \in Seq(DownMsg), NEW i \in 1..Len(q), NEW kind
  PROVE  Count(q, i + 1, kind) = IF q[i].kind = kind THEN Count(q, i, kind) + 1
                                                     ELSE Count(q, i, kind)
<1>1. DOMAIN q = 1..Len(q) /\ Len(q) \in Nat
  BY LenProperties
<1> DEFINE S == Ahead(q, i, kind)
           T == Ahead(q, i + 1, kind)
<1>2. IsFiniteSet(S) /\ Count(q, i, kind) = Cardinality(S) /\ Count(q, i + 1, kind) = Cardinality(T)
  BY AheadFinite
<1>3. i \notin S
  BY <1>1 DEF Ahead
<1>4. CASE q[i].kind = kind
  <2>1. T = S \cup {i}
    BY <1>1, <1>4 DEF Ahead
  <2> HIDE DEF S, T
  <2> QED
    BY <1>2, <1>3, <1>4, <2>1, FS_AddElement
<1>5. CASE q[i].kind # kind
  <2>1. T = S
    BY <1>1, <1>5 DEF Ahead
  <2> QED
    BY <1>2, <1>5, <2>1
<1> QED
  BY <1>4, <1>5

\* Only what is ahead counts.
LEMMA CountSame ==
  ASSUME NEW q \in Seq(DownMsg), NEW u \in Seq(DownMsg), NEW i \in Nat \ {0}, NEW kind,
         i <= Len(q) + 1, i <= Len(u) + 1, \A j \in 1..i - 1 : u[j] = q[j]
  PROVE  Count(u, i, kind) = Count(q, i, kind)
<1>1. DOMAIN q = 1..Len(q) /\ Len(q) \in Nat /\ DOMAIN u = 1..Len(u) /\ Len(u) \in Nat
  BY LenProperties
<1>2. Ahead(u, i, kind) = Ahead(q, i, kind)
  BY <1>1 DEF Ahead
<1> QED
  BY <1>2, AheadFinite

\* Without its first n messages.
DropsTo(q, n, u) ==
  /\ u \in Seq(DownMsg) /\ DOMAIN u = 1..Len(u) /\ Len(u) \in Nat
  /\ Len(u) = Len(q) - n /\ \A k \in 1..Len(u) : u[k] = q[n + k]

\* SubSeq drops.
LEMMA Drops ==
  ASSUME NEW q \in Seq(DownMsg), NEW n \in 1..Len(q)
  PROVE  DropsTo(q, n, SubSeq(q, n + 1, Len(q)))
<1>1. Len(q) \in Nat
  BY LenProperties
<1>2. n + 1 \in Nat \ {0} /\ Len(q) \in Int /\ Len(q) <= Len(q)
  BY <1>1
<1> DEFINE u == SubSeq(q, n + 1, Len(q))
<1>3. /\ u \in Seq(DownMsg) /\ Len(u) = (IF n + 1 <= Len(q) THEN Len(q) - (n + 1) + 1 ELSE 0)
      /\ DOMAIN u = 1..Len(u) /\ \A k \in 1..Len(u) : u[k] = q[n + 1 + k - 1]
  BY <1>2, PieceOf
<1> HIDE DEF u
<1>4. Len(u) = Len(q) - n /\ Len(u) \in Nat
  <2>1. Len(u) = IF n + 1 <= Len(q) THEN Len(q) - (n + 1) + 1 ELSE 0
    BY <1>3
  <2>2. n \in Nat \ {0} /\ n <= Len(q)
    BY <1>1
  <2>3. CASE n < Len(q)
    BY <1>1, <2>1, <2>2, <2>3
  <2>4. CASE n = Len(q)
    BY <1>1, <2>1, <2>2, <2>4
  <2> QED
    BY <1>1, <2>2, <2>3, <2>4
<1>5. \A k \in 1..Len(u) : n + 1 + k - 1 = n + k
  BY <1>1, <1>4
<1> QED
  BY <1>3, <1>4, <1>5 DEF DropsTo, u

\* What is ahead of a message once n of those are gone.
LEMMA CountDropped ==
  ASSUME NEW q \in Seq(DownMsg), NEW n \in 1..Len(q), NEW u, DropsTo(q, n, u),
         NEW i \in Nat \ {0}, i <= Len(u) + 1, NEW kind
  PROVE  Count(u, i, kind) = Cardinality({j \in Ahead(q, n + i, kind) : n < j})
<1>1. DOMAIN q = 1..Len(q) /\ Len(q) \in Nat
  BY LenProperties
<1>3. u \in Seq(DownMsg) /\ DOMAIN u = 1..Len(u) /\ Len(u) \in Nat
  BY DEF DropsTo
<1>4. Len(u) = Len(q) - n /\ \A k \in 1..Len(u) : u[k] = q[n + k]
  BY DEF DropsTo
<1> DEFINE S == Ahead(u, i, kind)
           T == {j \in Ahead(q, n + i, kind) : n < j}
           f == [k \in S |-> k + n]
<1>5. S \subseteq 1..Len(u) /\ \A k \in S : k < i /\ u[k].kind = kind
  BY <1>3 DEF Ahead
<1>6. f \in [S -> T]
  <2> SUFFICES ASSUME NEW k \in S PROVE k + n \in T
    OBVIOUS
  <2>1. k + n \in DOMAIN q /\ k + n < n + i /\ n < k + n /\ q[n + k] = u[k] /\ k + n = n + k
    BY <1>1, <1>4, <1>5
  <2> QED
    BY <1>5, <2>1 DEF Ahead
<1>7. \A k, l \in S : f[k] = f[l] => k = l
  BY <1>5
<1>8. ASSUME NEW j \in T PROVE \E k \in S : f[k] = j
  <2>1. j \in 1..Len(q) /\ j < n + i /\ q[j].kind = kind /\ n < j
    BY <1>1 DEF Ahead
  <2>2. j - n \in 1..Len(u) /\ j - n < i /\ (j - n) + n = j /\ n + (j - n) = j
    BY <1>1, <1>4, <2>1
  <2>3. u[j - n].kind = kind
    BY <1>4, <2>1, <2>2
  <2>4. j - n \in S
    BY <1>3, <2>2, <2>3 DEF Ahead
  <2> QED
    BY <2>2, <2>4
<1>9. f \in Bijection(S, T)
  <2> HIDE DEF S, T, f
  <2> QED
    BY <1>6, <1>7, <1>8, Fun_IsBij
<1>10. ExistsBijection(S, T)
  BY <1>9 DEF ExistsBijection
<1>11. IsFiniteSet(S) /\ Count(u, i, kind) = Cardinality(S)
  BY <1>3, AheadFinite
<1> HIDE DEF S, T
<1>12. Cardinality(T) = Cardinality(S)
  BY <1>10, <1>11, FS_Bijection
<1> QED
  BY <1>11, <1>12 DEF T

\* Without one message, and without several.
LEMMA CountTail ==
  ASSUME NEW q \in Seq(DownMsg), q # <<>>, NEW u, DropsTo(q, 1, u),
         NEW i \in Nat \ {0}, i <= Len(u) + 1, NEW kind
  PROVE  Count(q, i + 1, kind) = IF q[1].kind = kind THEN Count(u, i, kind) + 1
                                                     ELSE Count(u, i, kind)
<1>1. DOMAIN q = 1..Len(q) /\ Len(q) \in Nat \ {0} /\ Len(u) = Len(q) - 1
  BY LenProperties, EmptySeq DEF DropsTo
<1> DEFINE S == Ahead(q, i + 1, kind)
           T == {j \in S : 1 < j}
<1>2. Count(u, i, kind) = Cardinality(T)
  <2>1. 1 \in 1..Len(q) /\ 1 + i = i + 1
    BY <1>1
  <2> QED
    BY <2>1, CountDropped
<1>3. IsFiniteSet(S) /\ Count(q, i + 1, kind) = Cardinality(S)
  BY AheadFinite
<1>4. S \subseteq Nat \ {0}
  BY <1>1 DEF Ahead
<1>5. T = S \ {1}
  BY <1>4
<1>6. 1 \in S <=> q[1].kind = kind
  BY <1>1 DEF Ahead
<1> HIDE DEF S, T
<1>7. Cardinality(T) = (IF 1 \in S THEN Cardinality(S) - 1 ELSE Cardinality(S)) /\ Cardinality(S) \in Nat
  BY <1>3, <1>5, FS_RemoveElement, FS_CardinalityType
<1> QED
  BY <1>2, <1>3, <1>6, <1>7

\* There is no more behind the n-th message than in all.
LEMMA CountFewer ==
  ASSUME NEW q \in Seq(DownMsg), NEW n \in 1..Len(q), NEW u, DropsTo(q, n, u), NEW kind
  PROVE  Count(u, Len(u) + 1, kind) <= Count(q, Len(q) + 1, kind)
<1>1. Len(q) \in Nat /\ Len(u) \in Nat /\ n + (Len(u) + 1) = Len(q) + 1
  BY LenProperties DEF DropsTo
<1> DEFINE S == Ahead(q, Len(q) + 1, kind)
           T == {j \in S : n < j}
<1>2. Count(u, Len(u) + 1, kind) = Cardinality(T)
  <2>1. Len(u) + 1 \in Nat \ {0} /\ Len(u) + 1 <= Len(u) + 1
    BY <1>1
  <2> QED
    BY <1>1, <2>1, CountDropped
<1>3. IsFiniteSet(S) /\ Count(q, Len(q) + 1, kind) = Cardinality(S) /\ T \in SUBSET S
  BY AheadFinite
<1> HIDE DEF S, T
<1> QED
  BY <1>2, <1>3, FS_Subset

\* Products, for the solvers.
LEMMA Products ==
  ASSUME NEW a \in Nat, NEW c \in Nat
  PROVE  a * c \in Nat /\ a * (c + 1) = a * c + a
OBVIOUS

\* A product grows with its factor.
LEMMA ProductsGrow ==
  ASSUME NEW a \in Nat, NEW c \in Nat, NEW d \in Nat, c <= d
  PROVE  a * c <= a * d
OBVIOUS

\* The same of bytes.
LEMMA BytesNat ==
  ASSUME NEW q \in Seq(DownMsg), NEW i
  PROVE  Bytes(q, i) \in Nat
<1>1. Count(q, i, "write") \in Nat /\ Count(q, i, "getack") \in Nat
  BY AheadFinite
<1>2. WriteSize \in Nat /\ GetAckSize \in Nat
  BY ConstantsAssumption
<1> QED
  BY <1>1, <1>2, Products DEF Bytes

\* Nothing is ahead of the first message.
LEMMA BytesStart ==
  ASSUME NEW q \in Seq(DownMsg)
  PROVE  Bytes(q, 1) = 0
<1>1. \A kind : Ahead(q, 1, kind) = {}
  <2>1. DOMAIN q \subseteq Nat \ {0}
    BY LenProperties
  <2> QED
    BY <2>1 DEF Ahead
<1>2. Count(q, 1, "write") = 0 /\ Count(q, 1, "getack") = 0
  BY <1>1, AheadFinite, FS_EmptySet
<1>3. WriteSize \in Nat /\ GetAckSize \in Nat
  BY ConstantsAssumption
<1> QED
  BY <1>2, <1>3 DEF Bytes

\* One message further.
LEMMA BytesNext ==
  ASSUME NEW q \in Seq(DownMsg), NEW i \in 1..Len(q)
  PROVE  Bytes(q, i + 1) = Bytes(q, i) + Weight(q[i])
<1> DEFINE cw == Count(q, i, "write")
           cg == Count(q, i, "getack")
<1>1. cw \in Nat /\ cg \in Nat
  BY AheadFinite
<1>2. WriteSize \in Nat /\ GetAckSize \in Nat
  BY ConstantsAssumption
<1>3. /\ Count(q, i + 1, "write") = IF q[i].kind = "write" THEN cw + 1 ELSE cw
      /\ Count(q, i + 1, "getack") = IF q[i].kind = "getack" THEN cg + 1 ELSE cg
  BY CountNext
<1> HIDE DEF cw, cg
<1>4. /\ WriteSize * (cw + 1) = WriteSize * cw + WriteSize /\ WriteSize * cw \in Nat
      /\ GetAckSize * (cg + 1) = GetAckSize * cg + GetAckSize /\ GetAckSize * cg \in Nat
  BY <1>1, <1>2, Products
<1>5. Bytes(q, i) = WriteSize * cw + GetAckSize * cg
  BY DEF Bytes, cw, cg
<1>6. CASE q[i].kind = "write"
  <2>1. Bytes(q, i + 1) = WriteSize * (cw + 1) + GetAckSize * cg
    BY <1>3, <1>6 DEF Bytes
  <2> QED
    BY <1>2, <1>4, <1>5, <1>6, <2>1 DEF Weight
<1>7. CASE q[i].kind = "getack"
  <2>1. Bytes(q, i + 1) = WriteSize * cw + GetAckSize * (cg + 1)
    BY <1>3, <1>7 DEF Bytes
  <2> QED
    BY <1>2, <1>4, <1>5, <1>7, <2>1 DEF Weight
<1>8. CASE q[i].kind # "write" /\ q[i].kind # "getack"
  <2>1. Bytes(q, i + 1) = WriteSize * cw + GetAckSize * cg
    BY <1>3, <1>8 DEF Bytes
  <2> QED
    BY <1>4, <1>5, <1>8, <2>1 DEF Weight
<1> QED
  BY <1>6, <1>7, <1>8

\* Only what is ahead counts.
LEMMA BytesSame ==
  ASSUME NEW q \in Seq(DownMsg), NEW u \in Seq(DownMsg), NEW i \in Nat \ {0},
         i <= Len(q) + 1, i <= Len(u) + 1, \A j \in 1..i - 1 : u[j] = q[j]
  PROVE  Bytes(u, i) = Bytes(q, i)
BY CountSame DEF Bytes

\* A message behind the others.
AppendsTo(q, m, u) ==
  /\ u \in Seq(DownMsg) /\ Len(u) = Len(q) + 1 /\ Len(q) \in Nat
  /\ DOMAIN u = 1..Len(q) + 1 /\ DOMAIN q = 1..Len(q)
  /\ \A i \in 1..Len(q) : u[i] = q[i]
  /\ u[Len(q) + 1] = m
  /\ \A i \in 1..Len(q) + 1 : Bytes(u, i) = Bytes(q, i)
  /\ Bytes(u, Len(u) + 1) = Bytes(q, Len(q) + 1) + Weight(m)

\* Append appends.
LEMMA BytesAppend ==
  ASSUME NEW q \in Seq(DownMsg), NEW m \in DownMsg
  PROVE  AppendsTo(q, m, Append(q, m))
<1> DEFINE u == Append(q, m)
<1>1. /\ u \in Seq(DownMsg) /\ Len(u) = Len(q) + 1 /\ u[Len(q) + 1] = m
      /\ \A i \in 1..Len(q) : u[i] = q[i]
  BY AppendProperties
<1> HIDE DEF u
<1>2. Len(q) \in Nat /\ DOMAIN q = 1..Len(q) /\ DOMAIN u = 1..Len(q) + 1
  BY <1>1, LenProperties
<1>3. ASSUME NEW i \in 1..Len(q) + 1 PROVE Bytes(u, i) = Bytes(q, i)
  <2>1. i \in Nat \ {0} /\ i <= Len(q) + 1 /\ i <= Len(u) + 1 /\ \A j \in 1..i - 1 : u[j] = q[j]
    BY <1>1, <1>2
  <2> QED
    BY <1>1, <2>1, BytesSame
<1>4. Bytes(u, Len(u) + 1) = Bytes(q, Len(q) + 1) + Weight(m)
  <2>1. Len(q) + 1 \in 1..Len(u) /\ Len(q) + 1 \in 1..Len(q) + 1 /\ Len(u) + 1 = (Len(q) + 1) + 1
    BY <1>1, <1>2
  <2>2. Bytes(u, (Len(q) + 1) + 1) = Bytes(u, Len(q) + 1) + Weight(u[Len(q) + 1])
    BY <1>1, <2>1, BytesNext
  <2> QED
    BY <1>1, <1>3, <2>1, <2>2
<1> QED
  BY <1>1, <1>2, <1>3, <1>4 DEF AppendsTo, u

\* The first message gone.
LEMMA BytesTail ==
  ASSUME NEW q \in Seq(DownMsg), q # <<>>, NEW u, DropsTo(q, 1, u),
         NEW i \in Nat \ {0}, i <= Len(u) + 1
  PROVE  Bytes(q, i + 1) = Bytes(u, i) + Weight(q[1])
<1> DEFINE cw == Count(u, i, "write")
           cg == Count(u, i, "getack")
<1>1. cw \in Nat /\ cg \in Nat
  BY AheadFinite DEF DropsTo
<1>2. WriteSize \in Nat /\ GetAckSize \in Nat
  BY ConstantsAssumption
<1>3. /\ Count(q, i + 1, "write") = IF q[1].kind = "write" THEN cw + 1 ELSE cw
      /\ Count(q, i + 1, "getack") = IF q[1].kind = "getack" THEN cg + 1 ELSE cg
  BY CountTail
<1> HIDE DEF cw, cg
<1>4. /\ WriteSize * (cw + 1) = WriteSize * cw + WriteSize /\ WriteSize * cw \in Nat
      /\ GetAckSize * (cg + 1) = GetAckSize * cg + GetAckSize /\ GetAckSize * cg \in Nat
  BY <1>1, <1>2, Products
<1>5. Bytes(u, i) = WriteSize * cw + GetAckSize * cg
  BY DEF Bytes, cw, cg
<1>6. CASE q[1].kind = "write"
  <2>1. Bytes(q, i + 1) = WriteSize * (cw + 1) + GetAckSize * cg
    BY <1>3, <1>6 DEF Bytes
  <2> QED
    BY <1>2, <1>4, <1>5, <1>6, <2>1 DEF Weight
<1>7. CASE q[1].kind = "getack"
  <2>1. Bytes(q, i + 1) = WriteSize * cw + GetAckSize * (cg + 1)
    BY <1>3, <1>7 DEF Bytes
  <2> QED
    BY <1>2, <1>4, <1>5, <1>7, <2>1 DEF Weight
<1>8. CASE q[1].kind # "write" /\ q[1].kind # "getack"
  <2>1. Bytes(q, i + 1) = WriteSize * cw + GetAckSize * cg
    BY <1>3, <1>8 DEF Bytes
  <2> QED
    BY <1>4, <1>5, <1>8, <2>1 DEF Weight
<1> QED
  BY <1>6, <1>7, <1>8

\* Several messages gone.
LEMMA BytesFewer ==
  ASSUME NEW q \in Seq(DownMsg), NEW n \in 1..Len(q), NEW u, DropsTo(q, n, u)
  PROVE  Bytes(u, Len(u) + 1) <= Bytes(q, Len(q) + 1)
<1>1. \A kind : /\ Count(u, Len(u) + 1, kind) \in Nat /\ Count(q, Len(q) + 1, kind) \in Nat
                /\ Count(u, Len(u) + 1, kind) <= Count(q, Len(q) + 1, kind)
  BY AheadFinite, CountFewer DEF DropsTo
<1>2. WriteSize \in Nat /\ GetAckSize \in Nat
  BY ConstantsAssumption
<1>3. /\ WriteSize * Count(u, Len(u) + 1, "write") <= WriteSize * Count(q, Len(q) + 1, "write")
      /\ GetAckSize * Count(u, Len(u) + 1, "getack") <= GetAckSize * Count(q, Len(q) + 1, "getack")
  BY <1>1, <1>2, ProductsGrow
<1>4. /\ WriteSize * Count(u, Len(u) + 1, "write") \in Nat
      /\ WriteSize * Count(q, Len(q) + 1, "write") \in Nat
      /\ GetAckSize * Count(u, Len(u) + 1, "getack") \in Nat
      /\ GetAckSize * Count(q, Len(q) + 1, "getack") \in Nat
  BY <1>1, <1>2, Products
<1> QED
  BY <1>3, <1>4 DEF Bytes

\* The offset as Position counts it, and the position behind all that is on the way.
At(r) == IF slaveOffset[r] < 0 THEN 0 ELSE slaveOffset[r]
EndOf(r) == Position(r, Len(down[r]) + 1)

\* Positions are numbers, that of the first message is the offset.
LEMMA PositionNat ==
  ASSUME TypeOK, NEW r \in Replica
  PROVE  /\ At(r) \in Nat /\ down[r] \in Seq(DownMsg) /\ Position(r, 1) = At(r)
         /\ \A i : Bytes(down[r], i) \in Nat /\ Position(r, i) = At(r) + Bytes(down[r], i)
         /\ \A i : Position(r, i) \in Nat
<1>1. down[r] \in Seq(DownMsg) /\ slaveOffset[r] \in Int
  BY DEF TypeOK
<1>2. At(r) \in Nat
  BY <1>1 DEF At
<1>3. ASSUME NEW i PROVE Bytes(down[r], i) \in Nat /\ Position(r, i) = At(r) + Bytes(down[r], i)
  BY <1>1, BytesNat DEF Position, At
<1>4. Bytes(down[r], 1) = 0
  BY <1>1, BytesStart
<1> QED
  BY <1>1, <1>2, <1>3, <1>4

\* Nothing on the way to r is nearer to its end, or further along, than it was.
Steady(r) ==
  /\ EndOf(r)' <= EndOf(r)
  /\ \A i \in OnTheWay(down'[r]) : \E j \in OnTheWay(down[r]) :
       down'[r][i] = down[r][j] /\ Position(r, i)' <= Position(r, j)

\* Nothing happens to r.
LEMMA SameSteady ==
  ASSUME TypeOK, NEW r \in Replica, down'[r] = down[r], slaveOffset'[r] = slaveOffset[r]
  PROVE  Steady(r)
<1>1. \A i : Position(r, i)' = Position(r, i)
  BY DEF Position
<1>2. EndOf(r)' = EndOf(r)
  BY <1>1 DEF EndOf
<1>3. EndOf(r) \in Nat /\ \A i : Position(r, i) \in Nat
  BY PositionNat DEF EndOf
<1> QED
  BY <1>1, <1>2, <1>3 DEF Steady

\* The master tells r something that does not count.
LEMMA TellSteady ==
  ASSUME TypeOK, NEW r \in Replica, NEW kind \in Plain, Tell(r, kind), UNCHANGED slaveOffset
  PROVE  \A x \in Replica : Steady(x)
<1> SUFFICES ASSUME NEW x \in Replica PROVE Steady(x)
  OBVIOUS
<1> DEFINE m == Msg(kind, 0)
           q == down[r]
           u == down'[r]
<1>1. m \in DownMsg /\ m.kind # "write" /\ Weight(m) = 0
  BY DEF Msg, DownMsg, Plain, Weight
<1>2. down \in [Replica -> Seq(DownMsg)] /\ slaveOffset'[x] = slaveOffset[x]
  BY DEF TypeOK
<1>3. CASE down'[x] = down[x]
  BY <1>2, <1>3, SameSteady
<1>4. CASE x = r /\ u = Append(q, m)
  <2>1. q \in Seq(DownMsg)
    BY <1>2
  <2>9. AppendsTo(q, m, u)
    BY <1>1, <1>4, <2>1, BytesAppend
  <2> HIDE DEF q, u, m
  <2>2. /\ u \in Seq(DownMsg) /\ Len(u) = Len(q) + 1 /\ Len(q) \in Nat
        /\ DOMAIN u = 1..Len(q) + 1 /\ DOMAIN q = 1..Len(q)
        /\ \A i \in 1..Len(q) : u[i] = q[i]
        /\ u[Len(q) + 1] = m
        /\ \A i \in 1..Len(q) + 1 : Bytes(u, i) = Bytes(q, i)
        /\ Bytes(u, Len(u) + 1) = Bytes(q, Len(q) + 1) + Weight(m)
    BY <2>9 DEF AppendsTo
  <2>3. /\ At(r) \in Nat /\ At(r)' = At(r)
        /\ \A i : Position(r, i) = At(r) + Bytes(q, i) /\ Bytes(q, i) \in Nat
        /\ \A i : Position(r, i)' = At(r) + Bytes(u, i)
    BY <1>2, <1>4, PositionNat DEF At, Position, q, u
  <2>4. EndOf(r)' <= EndOf(r)
    <3>1. EndOf(r) = At(r) + Bytes(q, Len(q) + 1) /\ EndOf(r)' = At(r) + Bytes(u, Len(u) + 1)
      BY <2>3 DEF EndOf, q, u
    <3>2. Bytes(u, Len(u) + 1) = Bytes(q, Len(q) + 1)
      BY <1>1, <2>2, <2>3
    <3> QED
      BY <2>3, <3>1, <3>2
  <2>5. ASSUME NEW i \in OnTheWay(u)
        PROVE  i \in OnTheWay(q) /\ u[i] = q[i] /\ Position(r, i)' <= Position(r, i)
    <3>1. i \in 1..Len(q) + 1 /\ i # Len(q) + 1
      BY <1>1, <2>2, <2>5 DEF OnTheWay
    <3>2. i \in 1..Len(q) /\ u[i] = q[i] /\ Bytes(u, i) = Bytes(q, i)
      BY <2>2, <3>1
    <3>3. Position(r, i)' = Position(r, i) /\ Position(r, i) \in Nat
      BY <2>3, <3>2
    <3> QED
      BY <2>2, <2>5, <3>2, <3>3 DEF OnTheWay
  <2> QED
    BY <1>4, <2>4, <2>5 DEF Steady, q, u
<1>5. down' = down \/ down' = [down EXCEPT ![r] = Append(q, m)]
  BY DEF Tell
<1> QED
  BY <1>2, <1>3, <1>4, <1>5

\* r takes the first message, and its offset moves by no more than its bytes.
LEMMA DropSteady ==
  ASSUME TypeOK, TypeOK', NEW r \in Replica, down[r] # <<>>, Drop(r, 1),
         At(r)' <= At(r) + Weight(down[r][1]),
         \A x \in Replica \ {r} : slaveOffset'[x] = slaveOffset[x]
  PROVE  \A x \in Replica : Steady(x)
<1> SUFFICES ASSUME NEW x \in Replica PROVE Steady(x)
  OBVIOUS
<1> DEFINE q == down[r]
           u == down'[r]
<1>1. down \in [Replica -> Seq(DownMsg)] /\ q \in Seq(DownMsg) /\ u \in Seq(DownMsg)
  BY DEF TypeOK
<1>2. u = SubSeq(q, 2, Len(q)) /\ \A y \in Replica \ {r} : down'[y] = down[y]
  BY <1>1 DEF Drop
<1>3. CASE x # r
  BY <1>2, <1>3, SameSteady
<1>4. CASE x = r
  <2>1. q # <<>> /\ Len(q) \in Nat \ {0} /\ DOMAIN q = 1..Len(q)
    BY <1>1, LenProperties, EmptySeq
  <2>2. DropsTo(q, 1, u)
    <3>1. 1 \in 1..Len(q)
      BY <2>1
    <3>2. u = SubSeq(q, 1 + 1, Len(q))
      BY <1>2
    <3> HIDE DEF q, u
    <3> QED
      BY <1>1, <3>1, <3>2, Drops
  <2>3. /\ At(r) \in Nat /\ At(r)' \in Nat /\ At(r)' <= At(r) + Weight(q[1])
        /\ \A i : Position(r, i) = At(r) + Bytes(q, i) /\ Bytes(q, i) \in Nat
        /\ \A i : Position(r, i)' = At(r)' + Bytes(u, i) /\ Bytes(u, i) \in Nat
    <3>1. At(r)' \in Nat
      <4>1. slaveOffset'[r] \in Int
        BY DEF TypeOK
      <4> QED
        BY <4>1 DEF At
    <3>2. \A i : Position(r, i)' = At(r)' + Bytes(u, i)
      BY DEF At, Position
    <3>3. \A i : Position(r, i) = At(r) + Bytes(q, i)
      BY DEF At, Position
    <3>4. At(r) \in Nat /\ \A i : Bytes(q, i) \in Nat /\ Bytes(u, i) \in Nat
      BY <1>1, PositionNat, BytesNat
    <3>5. At(r)' <= At(r) + Weight(q[1])
      OBVIOUS
    <3> QED
      BY <3>1, <3>2, <3>3, <3>4, <3>5
  <2>4. EndOf(r) = Position(r, Len(q) + 1) /\ EndOf(r)' = At(r)' + Bytes(u, Len(u) + 1)
    BY DEF EndOf, Position, At
  <2> HIDE DEF q, u
  <2>5. Weight(q[1]) \in Nat
    BY ConstantsAssumption DEF Weight
  <2>6. /\ DOMAIN u = 1..Len(u) /\ Len(u) \in Nat /\ Len(u) = Len(q) - 1
        /\ \A k \in 1..Len(u) : u[k] = q[1 + k]
    BY <2>2 DEF DropsTo
  <2>7. ASSUME NEW i \in 1..Len(u) + 1 PROVE Position(r, i)' <= Position(r, i + 1)
    <3>1. i \in Nat \ {0} /\ i <= Len(u) + 1
      BY <2>6
    <3>2. Bytes(q, i + 1) = Bytes(u, i) + Weight(q[1])
      BY <1>1, <2>1, <2>2, <3>1, BytesTail
    <3> QED
      BY <2>3, <2>5, <3>2
  <2>8. EndOf(r)' <= EndOf(r)
    <3>1. Len(u) + 1 \in 1..Len(u) + 1 /\ (Len(u) + 1) + 1 = Len(q) + 1
      BY <2>1, <2>6
    <3>2. Position(r, Len(q) + 1) = At(r) + Bytes(q, Len(q) + 1) /\ Bytes(q, Len(q) + 1) \in Nat
      BY <2>3
    <3>3. Bytes(q, (Len(u) + 1) + 1) = Bytes(u, Len(u) + 1) + Weight(q[1])
      BY <1>1, <2>1, <2>2, <2>6, <3>1, BytesTail
    <3>4. Bytes(u, Len(u) + 1) \in Nat
      BY <2>3
    <3> QED
      BY <2>3, <2>4, <2>5, <3>1, <3>2, <3>3, <3>4
  <2>9. ASSUME NEW i \in OnTheWay(u)
        PROVE  i + 1 \in OnTheWay(q) /\ u[i] = q[i + 1] /\ Position(r, i)' <= Position(r, i + 1)
    <3>1. i \in 1..Len(u) /\ i \in 1..Len(u) + 1 /\ i + 1 \in 1..Len(q) /\ 1 + i = i + 1
      BY <2>1, <2>6, <2>9 DEF OnTheWay
    <3> QED
      BY <2>1, <2>6, <2>7, <2>9, <3>1 DEF OnTheWay
  <2> QED
    BY <1>4, <2>8, <2>9 DEF Steady, q, u
<1> QED
  BY <1>3, <1>4

\* A Read that returns several replies, before there are writes.
LEMMA SomeSteady ==
  ASSUME TypeOK, TypeOK', NEW r \in Replica, NEW n \in 1..Len(down[r]), Drop(r, n),
         OnTheWay(down[r]) = {}, UNCHANGED slaveOffset
  PROVE  \A x \in Replica : Steady(x)
<1> SUFFICES ASSUME NEW x \in Replica PROVE Steady(x)
  OBVIOUS
<1> DEFINE q == down[r]
           u == down'[r]
<1>1. down \in [Replica -> Seq(DownMsg)] /\ q \in Seq(DownMsg) /\ u \in Seq(DownMsg)
  BY DEF TypeOK
<1>2. u = SubSeq(q, n + 1, Len(q)) /\ \A y \in Replica \ {r} : down'[y] = down[y]
  BY <1>1 DEF Drop
<1>3. CASE x # r
  BY <1>2, <1>3, SameSteady
<1>4. CASE x = r
  <2>1. OnTheWay(u) = {}
    BY DropSome
  <2>2. /\ At(r) \in Nat /\ EndOf(r) = At(r) + Bytes(q, Len(q) + 1)
        /\ EndOf(r)' = At(r) + Bytes(u, Len(u) + 1)
    BY PositionNat DEF EndOf, Position, At
  <2>3. n \in 1..Len(q)
    OBVIOUS
  <2> HIDE DEF q, u
  <2>4. DropsTo(q, n, u)
    BY <1>1, <1>2, <2>3, Drops
  <2>5. Bytes(u, Len(u) + 1) <= Bytes(q, Len(q) + 1)
    BY <1>1, <2>3, <2>4, BytesFewer
  <2>6. Bytes(u, Len(u) + 1) \in Nat /\ Bytes(q, Len(q) + 1) \in Nat
    BY <1>1, BytesNat
  <2> QED
    BY <1>4, <2>1, <2>2, <2>5, <2>6 DEF Steady, u
<1> QED
  BY <1>3, <1>4

\* The process of r dies.
LEMMA CrashSteady ==
  ASSUME TypeOK, NEW r \in Replica, Crash(r)
  PROVE  \A x \in Replica : Steady(x)
<1> SUFFICES ASSUME NEW x \in Replica PROVE Steady(x)
  OBVIOUS
<1>1. down' = [down EXCEPT ![r] = <<>>] /\ slaveOffset' = slaveOffset
  BY DEF Crash
<1>2. CASE x # r
  BY <1>1, <1>2, SameSteady DEF TypeOK
<1>3. CASE x = r
  <2>1. down'[r] = <<>> /\ <<>> \in Seq(DownMsg) /\ Len(<<>>) + 1 = 1 /\ OnTheWay(<<>>) = {}
    BY <1>1 DEF TypeOK, OnTheWay
  <2>2. EndOf(r)' = At(r) + Bytes(<<>>, 1) /\ Bytes(<<>>, 1) = 0
    BY <1>1, <2>1, BytesStart DEF EndOf, Position, At
  <2>3. At(r) \in Nat /\ EndOf(r) = At(r) + Bytes(down[r], Len(down[r]) + 1)
        /\ Bytes(down[r], Len(down[r]) + 1) \in Nat
    BY PositionNat DEF EndOf
  <2> QED
    BY <1>3, <2>1, <2>2, <2>3 DEF Steady
<1> QED
  BY <1>2, <1>3

\* What sessions and slaves do: nothing of it moves a slave further than what was sent
\* to it.
LEMMA SlavesAreSteady ==
  ASSUME Delivery, Delivery', AcksRise,
         \/ \E r \in Replica : SessionStep(r) \/ Connect(r) \/ SlaveStep(r) \/ Crash(r)
         \/ ConcurrentMapAbort
  PROVE  \A x \in Replica : Steady(x)
<1>1. TypeOK /\ TypeOK'
  BY DEF Delivery
<1>2. ASSUME UNCHANGED <<down, slaveOffset>> PROVE \A x \in Replica : Steady(x)
  BY <1>1, <1>2, SameSteady
<1>3. ASSUME NEW r \in Replica, SessionStep(r) PROVE \A x \in Replica : Steady(x)
  <2>1. CASE SessionRead(r) \/ PsyncMark(r) \/ Ack(r)
    BY <1>2, <2>1 DEF SessionRead, PsyncMark, Ack, slaveVars
  <2>2. CASE Ping(r) \/ Replconf(r) \/ Psync(r) \/ PsyncFile(r)
    <3>1. PICK kind \in Plain : Tell(r, kind)
      BY <2>2 DEF Ping, Replconf, Psync, PsyncFile, Plain
    <3>2. UNCHANGED slaveOffset
      BY <2>2 DEF Ping, Replconf, Psync, PsyncFile, slaveVars
    <3> QED
      BY <1>1, <3>1, <3>2, TellSteady
  <2> QED
    BY <1>3, <2>1, <2>2 DEF SessionStep
<1>4. ASSUME NEW r \in Replica, Connect(r) PROVE \A x \in Replica : Steady(x)
  BY <1>2, <1>4 DEF Connect
<1>5. ASSUME NEW r \in Replica, Handshake(r) PROVE \A x \in Replica : Steady(x)
  <2>1. PICK n \in 1..Len(down[r]) : Drop(r, n)
    BY <1>5 DEF Handshake, Expect
  <2>2. UNCHANGED slaveOffset /\ phase[r] \in {"ping", "conf1", "conf2"}
    BY <1>5 DEF Handshake, Expect
  <2>3. OnTheWay(down[r]) = {}
    BY <2>2 DEF Delivery, Handshakes, HandshakeOf, Writes, WritesOf
  <2> QED
    BY <1>1, <2>1, <2>2, <2>3, SomeSteady
<1>6. ASSUME NEW r \in Replica, down[r] # <<>>, Drop(r, 1),
             slaveOffset' = slaveOffset \/ slaveOffset' = [slaveOffset EXCEPT ![r] = 0]
      PROVE  \A x \in Replica : Steady(x)
  <2>1. At(r)' <= At(r) /\ At(r)' \in Nat /\ At(r) \in Nat
    BY <1>1, <1>6 DEF At, TypeOK
  <2>2. Weight(down[r][1]) \in Nat
    BY ConstantsAssumption DEF Weight
  <2>3. At(r)' <= At(r) + Weight(down[r][1])
    BY <2>1, <2>2
  <2>4. \A x \in Replica \ {r} : slaveOffset'[x] = slaveOffset[x]
    BY <1>1, <1>6 DEF TypeOK
  <2> QED
    BY <1>1, <1>6, <2>3, <2>4, DropSteady
<1>7. ASSUME NEW r \in Replica, FullResync(r) PROVE \A x \in Replica : Steady(x)
  BY <1>6, <1>7 DEF FullResync
<1>8. ASSUME NEW r \in Replica, LoadSnapshot(r) PROVE \A x \in Replica : Steady(x)
  BY <1>6, <1>8 DEF LoadSnapshot
<1>9. ASSUME NEW r \in Replica, NEW kind \in {"write", "getack"}, Streams(r, kind)
      PROVE  \A x \in Replica : Steady(x)
  <2>1. /\ phase[r] = "stream" /\ down[r] # <<>> /\ Drop(r, 1) /\ Head(down[r]).kind = kind
        /\ \A x \in Replica \ {r} : slaveOffset'[x] = slaveOffset[x]
    BY <1>1, <1>9, StreamsStep
  <2>2. Head(down[r]) = down[r][1]
    BY <1>1, <2>1, DropOne
  <2>3. Size(Head(down[r])) = Weight(down[r][1]) /\ Weight(down[r][1]) \in Nat
    BY <1>9, <2>1, <2>2, ConstantsAssumption DEF Size, Weight
  <2>4. slaveOffset[r] \in Int /\ slaveOffset[r] >= 0
    BY <1>1, <2>1 DEF AcksRise, AcksRiseOf, TypeOK
  <2>5. slaveOffset'[r] = slaveOffset[r] + Weight(down[r][1])
    BY <1>1, <1>9, <2>3 DEF Streams, TypeOK
  <2>6. At(r)' <= At(r) + Weight(down[r][1])
    BY <2>3, <2>4, <2>5 DEF At
  <2> QED
    BY <1>1, <2>1, <2>6, DropSteady
<1>10. ASSUME NEW r \in Replica, ApplyWrite(r) \/ GetAck(r) PROVE \A x \in Replica : Steady(x)
  BY <1>9, <1>10 DEF ApplyWrite, GetAck
<1>11. ASSUME NEW r \in Replica, Crash(r) PROVE \A x \in Replica : Steady(x)
  BY <1>1, <1>11, CrashSteady
<1>12. ASSUME ConcurrentMapAbort PROVE \A x \in Replica : Steady(x)
  BY <1>2, <1>12 DEF ConcurrentMapAbort, slaveVars
<1> QED
  BY <1>3, <1>4, <1>5, <1>7, <1>8, <1>10, <1>11, <1>12 DEF SlaveStep

-----------------------------------------------------------------------------
(* What is being propagated.                                               *)

Share(s) == IF s = Executor THEN WriteSize ELSE GetAckSize

\* Senders can be counted.
LEMMA FewSenders ==
  ASSUME NEW S \in SUBSET Sender
  PROVE  IsFiniteSet(S \ {Executor}) /\ Cardinality(S \ {Executor}) \in Nat
<1>1. IsFiniteSet(Waiter) /\ S \ {Executor} \in SUBSET Waiter
  BY ConstantsAssumption DEF Sender
<1>2. IsFiniteSet(S \ {Executor})
  BY <1>1, FS_Subset
<1> QED
  BY <1>2, FS_CardinalityType

\* An amount is a number.
LEMMA AmountNat ==
  ASSUME NEW S \in SUBSET Sender
  PROVE  Amount(S) \in Nat
<1> DEFINE c == Cardinality(S \ {Executor})
<1>1. c \in Nat
  BY FewSenders
<1>2. WriteSize \in Nat /\ GetAckSize \in Nat
  BY ConstantsAssumption
<1>3. Amount(S) = (IF Executor \in S THEN WriteSize ELSE 0) + GetAckSize * c
  BY DEF Amount
<1> HIDE DEF c
<1>4. GetAckSize * c \in Nat
  BY <1>1, <1>2, Products
<1> QED
  BY <1>2, <1>3, <1>4

\* More senders, more bytes.
LEMMA AmountGrows ==
  ASSUME NEW S \in SUBSET Sender, NEW T \in SUBSET Sender, S \subseteq T
  PROVE  Amount(S) <= Amount(T)
<1> DEFINE c == Cardinality(S \ {Executor})
           d == Cardinality(T \ {Executor})
<1>1. c \in Nat /\ d \in Nat /\ IsFiniteSet(T \ {Executor})
  BY FewSenders
<1>2. S \ {Executor} \in SUBSET (T \ {Executor})
  OBVIOUS
<1>3. c <= d
  BY <1>1, <1>2, FS_Subset
<1>4. WriteSize \in Nat /\ GetAckSize \in Nat
  BY ConstantsAssumption
<1>5. /\ Amount(S) = (IF Executor \in S THEN WriteSize ELSE 0) + GetAckSize * c
      /\ Amount(T) = (IF Executor \in T THEN WriteSize ELSE 0) + GetAckSize * d
  BY DEF Amount
<1> HIDE DEF c, d
<1>6. GetAckSize * c <= GetAckSize * d /\ GetAckSize * c \in Nat /\ GetAckSize * d \in Nat
  BY <1>1, <1>3, <1>4, Products, ProductsGrow
<1> QED
  BY <1>4, <1>5, <1>6

\* One sender more.
LEMMA AmountAdds ==
  ASSUME NEW S \in SUBSET Sender, NEW s \in Sender \ S
  PROVE  Amount(S \cup {s}) = Amount(S) + Share(s)
<1> DEFINE T == S \cup {s}
           A == S \ {Executor}
           c == Cardinality(A)
           d == Cardinality(T \ {Executor})
<1>1. c \in Nat /\ IsFiniteSet(A)
  BY FewSenders
<1>2. WriteSize \in Nat /\ GetAckSize \in Nat
  BY ConstantsAssumption
<1>3. /\ Amount(S) = (IF Executor \in S THEN WriteSize ELSE 0) + GetAckSize * c
      /\ Amount(T) = (IF Executor \in T THEN WriteSize ELSE 0) + GetAckSize * d
  BY DEF Amount
<1>4. CASE s = Executor
  <2>1. T \ {Executor} = A
    BY <1>4
  <2>2. d = c /\ Executor \in T /\ Executor \notin S
    BY <1>4, <2>1
  <2> HIDE DEF c, d, T
  <2>3. GetAckSize * c \in Nat
    BY <1>1, <1>2, Products
  <2> QED
    BY <1>2, <1>3, <1>4, <2>2, <2>3 DEF Share, T
<1>5. CASE s # Executor
  <2>1. T \ {Executor} = A \cup {s} /\ s \notin A /\ (Executor \in T <=> Executor \in S)
    BY <1>5
  <2> HIDE DEF A
  <2>2. d = c + 1
    BY <1>1, <2>1, FS_AddElement
  <2> HIDE DEF c, d, T
  <2>3. GetAckSize * c \in Nat /\ GetAckSize * d = GetAckSize * c + GetAckSize
    BY <1>1, <1>2, <2>2, Products
  <2> QED
    BY <1>2, <1>3, <1>5, <2>1, <2>3 DEF Share, T
<1> QED
  BY <1>4, <1>5

\* So is what r was sent.
LEMMA PendingNat ==
  ASSUME NEW r
  PROVE  Sent(r) \in SUBSET Sender /\ PendingTo(r) \in Nat
BY AmountNat DEF Sent, PendingTo

-----------------------------------------------------------------------------
(* Offsets is kept.                                                        *)

\* Nobody begins and nobody ends to propagate.
LEMMA SteadyOffsets ==
  ASSUME TypeOK, TypeOK', Offsets, UNCHANGED <<offset, message, todo>>,
         \A x \in Replica : Steady(x)
  PROVE  Offsets'
<1> SUFFICES ASSUME NEW r \in Replica PROVE EndOf(r)' <= offset' + PendingTo(r)'
  BY DEF Offsets, EndOf
<1>1. EndOf(r)' <= EndOf(r) /\ EndOf(r) <= offset + PendingTo(r)
  BY DEF Steady, Offsets, EndOf
<1>2. offset' = offset /\ PendingTo(r)' = PendingTo(r)
  BY DEF PendingTo, Sent
<1>3. EndOf(r) \in Nat /\ offset \in Nat /\ PendingTo(r) \in Nat
  BY PositionNat, PendingNat DEF EndOf, TypeOK
<1>4. EndOf(r)' \in Nat
  <2>1. down'[r] \in Seq(DownMsg) /\ slaveOffset'[r] \in Int
    BY DEF TypeOK
  <2> QED
    BY <2>1, BytesNat DEF EndOf, Position
<1> QED
  BY <1>1, <1>2, <1>3, <1>4

\* Somebody begins to propagate: more is sent to everyone, as nobody it is for has it yet.
LEMMA BeginOffsets ==
  ASSUME TypeOK, TypeOK', Offsets, UNCHANGED <<offset, down, slaveOffset>>,
         \A r \in Replica : Sent(r) \subseteq Sent(r)'
  PROVE  Offsets'
<1> SUFFICES ASSUME NEW r \in Replica PROVE EndOf(r)' <= offset' + PendingTo(r)'
  BY DEF Offsets, EndOf
<1>1. EndOf(r)' = EndOf(r) /\ EndOf(r) <= offset + PendingTo(r)
  BY DEF Offsets, EndOf, Position
<1>2. PendingTo(r) <= PendingTo(r)' /\ PendingTo(r) \in Nat /\ PendingTo(r)' \in Nat
  <2>1. Sent(r) \in SUBSET Sender /\ Sent(r)' \in SUBSET Sender
    BY DEF Sent
  <2>2. PendingTo(r) = Amount(Sent(r)) /\ PendingTo(r)' = Amount(Sent(r)')
    BY DEF PendingTo, Amount
  <2> QED
    BY <2>1, <2>2, AmountGrows, AmountNat
<1>3. EndOf(r) \in Nat /\ offset \in Nat
  BY PositionNat DEF EndOf, TypeOK
<1> QED
  BY <1>1, <1>2, <1>3

\* The executor begins to propagate a write.
LEMMA WriteOffsets ==
  ASSUME TypeOK, TypeOK', Senders, Offsets, Write
  PROVE  Offsets'
<1>1. /\ message[Executor] = None /\ message' = [message EXCEPT ![Executor] = Msg("write", written + 1)]
      /\ todo' = [todo EXCEPT ![Executor] = handshaken] /\ UNCHANGED <<offset, down, slaveOffset>>
  BY DEF Write, Begin, linkVars, slaveVars
<1>2. ASSUME NEW r \in Replica, NEW s \in Sent(r) PROVE s \in Sent(r)'
  <2>1. s \in Sender /\ s # Executor /\ message[s] # None /\ r \notin todo[s]
    BY <1>1 DEF Sent
  <2>2. message'[s] = message[s] /\ todo'[s] = todo[s]
    BY <1>1, <2>1 DEF TypeOK
  <2> QED
    BY <2>1, <2>2 DEF Sent
<1> QED
  BY <1>1, <1>2, BeginOffsets

\* A WAIT begins to propagate a GETACK.
LEMMA AskOffsets ==
  ASSUME TypeOK, TypeOK', Asking, Offsets, NEW w \in Waiter, WaitAsk(w)
  PROVE  Offsets'
<1>1. /\ wait[w] = "ask" /\ message' = [message EXCEPT ![w] = Msg("getack", 0)]
      /\ todo' = [todo EXCEPT ![w] = handshaken] /\ UNCHANGED <<offset, down, slaveOffset>>
  BY DEF WaitAsk, Begin, linkVars, slaveVars, masterVars
<1>2. message[w] = None
  BY <1>1 DEF Asking
<1>3. ASSUME NEW r \in Replica, NEW s \in Sent(r) PROVE s \in Sent(r)'
  <2>1. s \in Sender /\ s # w /\ message[s] # None /\ r \notin todo[s]
    BY <1>2 DEF Sent
  <2>2. message'[s] = message[s] /\ todo'[s] = todo[s]
    BY <1>1, <2>1 DEF TypeOK
  <2> QED
    BY <2>1, <2>2 DEF Sent
<1> QED
  BY <1>1, <1>3, BeginOffsets

\* The kind of message that s propagates.
LEMMA Shares ==
  ASSUME Senders, NEW s \in Sender, message[s] # None
  PROVE  /\ Weight(message[s]) = Share(s) /\ Size(message[s]) = Share(s) /\ Share(s) \in Nat \ {0}
         /\ (s = Executor => message[s] = Msg("write", written))
         /\ (s # Executor => message[s] = Msg("getack", 0))
<1>1. CASE s = Executor
  <2>1. message[s] = Msg("write", written)
    BY <1>1 DEF Senders
  <2>2. message[s].kind = "write"
    BY <2>1 DEF Msg
  <2> QED
    BY <1>1, <2>1, <2>2, ConstantsAssumption DEF Weight, Size, Share
<1>2. CASE s # Executor
  <2>1. message[s] = Msg("getack", 0)
    BY <1>2 DEF Senders, Sender
  <2>2. message[s].kind = "getack"
    BY <2>1 DEF Msg
  <2> QED
    BY <1>2, <2>1, <2>2, ConstantsAssumption DEF Weight, Size, Share
<1> QED
  BY <1>1, <1>2

\* s sends to r: both sides of the inequality grow by the message, and only that of the
\* master when r is dead.
LEMMA SendOffsets ==
  ASSUME TypeOK, TypeOK', Senders, Offsets, NEW s \in Sender, NEW r \in Replica, Send(s, r)
  PROVE  Offsets'
<1> SUFFICES ASSUME NEW x \in Replica PROVE EndOf(x)' <= offset' + PendingTo(x)'
  BY DEF Offsets, EndOf
<1>1. /\ r \in todo[s] /\ todo' = [todo EXCEPT ![s] = @ \ {r}] /\ message' = message
      /\ down' = (IF phase[r] = "dead" THEN down ELSE [down EXCEPT ![r] = Append(@, message[s])])
      /\ offset' = offset /\ slaveOffset' = slaveOffset
  BY DEF Send, masterVars, slaveVars
<1>2. /\ EndOf(x) <= offset + PendingTo(x) /\ EndOf(x) \in Nat /\ offset \in Nat
      /\ PendingTo(x) \in Nat /\ Sent(x) \in SUBSET Sender
  BY PositionNat, PendingNat DEF EndOf, TypeOK, Offsets
<1>3. message[s] # None /\ message[s] \in DownMsg
  <2>1. message[s] # None
    BY <1>1 DEF Senders
  <2>2. message[s] \in DownMsg \cup {None}
    BY DEF TypeOK
  <2> QED
    BY <2>1, <2>2
<1>4. CASE x # r
  <2>1. Sent(x)' = Sent(x)
    BY <1>1, <1>4 DEF Sent, TypeOK
  <2>2. PendingTo(x)' = PendingTo(x)
    BY <2>1 DEF PendingTo, Amount
  <2>3. down'[x] = down[x]
    BY <1>1, <1>4 DEF TypeOK
  <2>4. EndOf(x)' = EndOf(x)
    BY <1>1, <2>3 DEF EndOf, Position
  <2> QED
    BY <1>1, <1>2, <2>2, <2>4
<1>5. CASE x = r
  <2>1. Sent(r)' = Sent(r) \cup {s} /\ s \notin Sent(r)
    <3>1. \A t \in Sender : r \in todo'[t] <=> r \in todo[t] /\ t # s
      BY <1>1 DEF TypeOK
    <3>2. \A t \in Sender : message'[t] = message[t]
      BY <1>1
    <3> QED
      BY <1>1, <1>3, <3>1, <3>2 DEF Sent
  <2>2. PendingTo(r)' = PendingTo(r) + Share(s)
    <3>1. PendingTo(r)' = Amount(Sent(r)')
      BY DEF PendingTo, Amount
    <3>2. Amount(Sent(r) \cup {s}) = Amount(Sent(r)) + Share(s)
      BY <1>2, <1>5, <2>1, AmountAdds
    <3> QED
      BY <2>1, <3>1, <3>2 DEF PendingTo
  <2>3. Share(s) \in Nat /\ Weight(message[s]) = Share(s)
    BY <1>3, Shares
  <2>4. CASE phase[r] = "dead"
    <3>1. EndOf(r)' = EndOf(r)
      BY <1>1, <2>4 DEF EndOf, Position
    <3> QED
      BY <1>1, <1>2, <1>5, <2>2, <2>3, <3>1
  <2>5. CASE phase[r] # "dead"
    <3>1. down'[r] = Append(down[r], message[s]) /\ down[r] \in Seq(DownMsg)
      BY <1>1, <2>5 DEF TypeOK
    <3>2. AppendsTo(down[r], message[s], down'[r])
      BY <1>3, <3>1, BytesAppend
    <3>3. Bytes(down'[r], Len(down'[r]) + 1) = Bytes(down[r], Len(down[r]) + 1) + Weight(message[s])
      BY <3>2 DEF AppendsTo
    <3>4. /\ EndOf(r) = At(r) + Bytes(down[r], Len(down[r]) + 1)
          /\ EndOf(r)' = At(r) + Bytes(down'[r], Len(down'[r]) + 1)
      BY <1>1 DEF EndOf, Position, At
    <3>5. At(r) \in Nat /\ Bytes(down[r], Len(down[r]) + 1) \in Nat
      BY <3>1, PositionNat
    <3>6. EndOf(r)' = EndOf(r) + Share(s)
      BY <2>3, <3>3, <3>4, <3>5
    <3> QED
      BY <1>1, <1>2, <1>5, <2>2, <2>3, <3>6
  <2> QED
    BY <2>4, <2>5
<1> QED
  BY <1>4, <1>5

\* What s has sent to all goes from the pending amount to the offset.
LEMMA EndOffsets ==
  ASSUME TypeOK, TypeOK', Senders, Offsets, NEW s \in Sender, End(s)
  PROVE  Offsets'
<1> SUFFICES ASSUME NEW r \in Replica PROVE EndOf(r)' <= offset' + PendingTo(r)'
  BY DEF Offsets, EndOf
<1>1. /\ message[s] # None /\ todo[s] = {} /\ offset' = offset + Size(message[s])
      /\ message' = [message EXCEPT ![s] = None] /\ todo' = todo
      /\ down' = down /\ slaveOffset' = slaveOffset
  BY DEF End, linkVars, slaveVars
<1>2. /\ EndOf(r) <= offset + PendingTo(r) /\ EndOf(r) \in Nat /\ offset \in Nat
      /\ PendingTo(r) \in Nat /\ Sent(r) \in SUBSET Sender
  BY PositionNat, PendingNat DEF EndOf, TypeOK, Offsets
<1>3. Share(s) \in Nat /\ Size(message[s]) = Share(s)
  BY <1>1, Shares
<1>4. Sent(r) = Sent(r)' \cup {s} /\ s \notin Sent(r)' /\ Sent(r)' \in SUBSET Sender
  BY <1>1 DEF Sent, TypeOK
<1>5. PendingTo(r) = PendingTo(r)' + Share(s) /\ PendingTo(r)' \in Nat
  <2>1. PendingTo(r)' = Amount(Sent(r)')
    BY DEF PendingTo, Amount
  <2>2. Amount(Sent(r)' \cup {s}) = Amount(Sent(r)') + Share(s) /\ Amount(Sent(r)') \in Nat
    BY <1>4, AmountAdds, AmountNat
  <2> QED
    BY <1>4, <2>1, <2>2 DEF PendingTo
<1>6. EndOf(r)' = EndOf(r)
  BY <1>1 DEF EndOf, Position
<1> QED
  BY <1>1, <1>2, <1>3, <1>5, <1>6

\* Who waits, and who propagates.
LEMMA AskingKept ==
  ASSUME TypeOK, Asking, [Next]_vars
  PROVE  Asking'
<1> SUFFICES ASSUME NEW x \in Waiter PROVE wait'[x] = "send" <=> message'[x] # None
  BY DEF Asking
<1>1. wait[x] = "send" <=> message[x] # None
  BY DEF Asking
<1>2. ASSUME UNCHANGED <<wait, message>> PROVE wait'[x] = "send" <=> message'[x] # None
  BY <1>1, <1>2
<1>3. CASE UNCHANGED vars
  BY <1>2, <1>3 DEF vars, sendVars, waitVars
<1>4. CASE Write
  BY <1>1, <1>4, ConstantsAssumption DEF Write, Begin, waitVars, TypeOK, Sender
<1>5. ASSUME NEW s \in Sender, SendStep(s) PROVE wait'[x] = "send" <=> message'[x] # None
  <2>1. CASE End(s)
    BY <1>1, <2>1 DEF End, TypeOK, Sender
  <2>2. CASE \E r \in Replica : Send(s, r)
    BY <1>2, <2>2 DEF Send, waitVars
  <2> QED
    BY <1>5, <2>1, <2>2 DEF SendStep
<1>6. ASSUME NEW r \in Replica, SessionStep(r) \/ Connect(r) \/ SlaveStep(r) \/ Crash(r)
      PROVE  wait'[x] = "send" <=> message'[x] # None
  <2>1. CASE SessionStep(r)
    BY <1>2, <2>1 DEF SessionStep, SessionRead, Ping, Replconf, Psync, PsyncFile, PsyncMark, Ack,
                      sendVars, waitVars
  <2>2. CASE Connect(r) \/ SlaveStep(r) \/ Crash(r)
    BY <1>2, <2>2 DEF Connect, SlaveStep, Handshake, Expect, FullResync, LoadSnapshot, ApplyWrite,
                      GetAck, Crash, sendVars, waitVars
  <2> QED
    BY <1>6, <2>1, <2>2
<1>7. ASSUME NEW w \in Waiter, WaitCommand(w) \/ WaitStep(w)
      PROVE  wait'[x] = "send" <=> message'[x] # None
  <2>1. CASE WaitCommand(w)
    <3>1. message' = message /\ wait[w] = "idle"
      BY <2>1 DEF WaitCommand, sendVars
    <3>2. wait' = [wait EXCEPT ![w] = "answered"] \/ wait' = [wait EXCEPT ![w] = "check"]
      BY <2>1 DEF WaitCommand, Answer
    <3> QED
      BY <1>1, <3>1, <3>2 DEF TypeOK
  <2>2. CASE WaitCheck(w)
    <3>1. message' = message /\ wait[w] = "check"
      BY <2>2 DEF WaitCheck, sendVars
    <3>2. wait' = [wait EXCEPT ![w] = "answered"] \/ wait' = [wait EXCEPT ![w] = "ask"]
      BY <2>2 DEF WaitCheck, Answer
    <3> QED
      BY <1>1, <3>1, <3>2 DEF TypeOK
  <2>3. CASE WaitAsk(w)
    <3>1. wait' = [wait EXCEPT ![w] = "send"] /\ message' = [message EXCEPT ![w] = Msg("getack", 0)]
      BY <2>3 DEF WaitAsk, Begin
    <3>2. Msg("getack", 0) # None
      BY ConstantsAssumption DEF Msg, DownMsg
    <3> QED
      BY <1>1, <3>1, <3>2 DEF TypeOK, Sender
  <2>4. CASE WaitCount(w)
    <3>1. message' = message /\ wait[w] = "count"
      BY <2>4 DEF WaitCount, sendVars
    <3>2. wait' = [wait EXCEPT ![w] = "answered"] \/ wait' = [wait EXCEPT ![w] = "ask"]
      BY <2>4 DEF WaitCount, Answer
    <3> QED
      BY <1>1, <3>1, <3>2 DEF TypeOK
  <2>5. CASE Deadline(w)
    BY <1>2, <2>5 DEF Deadline, sendVars
  <2> QED
    BY <1>7, <2>1, <2>2, <2>3, <2>4, <2>5 DEF WaitStep
<1>8. CASE ConcurrentMapAbort
  BY <1>2, <1>8 DEF ConcurrentMapAbort, sendVars, waitVars
<1> QED
  BY <1>3, <1>4, <1>5, <1>6, <1>7, <1>8 DEF Next

\* All steps together.
LEMMA StepOffsets ==
  ASSUME Delivery, Delivery', AcksRise, Asking, Offsets, [Next]_vars
  PROVE  Offsets'
<1>1. TypeOK /\ TypeOK' /\ Senders
  BY DEF Delivery
<1>2. ASSUME UNCHANGED <<offset, message, todo, down, slaveOffset>> PROVE Offsets'
  BY <1>1, <1>2, SameSteady, SteadyOffsets
<1>3. CASE UNCHANGED vars
  BY <1>2, <1>3 DEF vars, masterVars, sendVars, linkVars, slaveVars
<1>4. CASE Write
  BY <1>1, <1>4, WriteOffsets
<1>5. ASSUME NEW s \in Sender, SendStep(s) PROVE Offsets'
  BY <1>1, <1>5, SendOffsets, EndOffsets DEF SendStep
<1>6. CASE \/ \E r \in Replica : SessionStep(r) \/ Connect(r) \/ SlaveStep(r) \/ Crash(r)
           \/ ConcurrentMapAbort
  <2>1. \A x \in Replica : Steady(x)
    BY <1>6, SlavesAreSteady
  <2>2. ASSUME NEW r \in Replica, SessionStep(r) PROVE UNCHANGED <<offset, message, todo>>
    BY <2>2 DEF SessionStep, SessionRead, Ping, Replconf, Psync, PsyncFile, PsyncMark, Ack, sendVars,
                masterVars
  <2>3. ASSUME NEW r \in Replica, Connect(r) \/ SlaveStep(r) \/ Crash(r)
        PROVE  UNCHANGED <<offset, message, todo>>
    BY <2>3 DEF Connect, SlaveStep, Handshake, Expect, FullResync, LoadSnapshot, ApplyWrite,
                GetAck, Crash, sendVars, masterVars
  <2>4. ASSUME ConcurrentMapAbort PROVE UNCHANGED <<offset, message, todo>>
    BY <2>4 DEF ConcurrentMapAbort, sendVars
  <2>5. UNCHANGED <<offset, message, todo>>
    BY <1>6, <2>2, <2>3, <2>4
  <2> QED
    BY <1>1, <2>1, <2>5, SteadyOffsets
<1>7. ASSUME NEW w \in Waiter, WaitCommand(w) \/ WaitStep(w) PROVE Offsets'
  <2>1. CASE WaitAsk(w)
    BY <1>1, <2>1, AskOffsets
  <2>2. CASE WaitCommand(w) \/ WaitCheck(w) \/ WaitCount(w) \/ Deadline(w)
    BY <1>2, <2>2 DEF WaitCommand, WaitCheck, WaitCount, Deadline, masterVars, sendVars, linkVars,
                      slaveVars
  <2> QED
    BY <1>7, <2>1, <2>2 DEF WaitStep
<1> QED
  BY <1>3, <1>4, <1>5, <1>6, <1>7 DEF Next

\* Nobody has been sent anything.
LEMMA InitOffsets ==
  ASSUME Init
  PROVE  Asking /\ Offsets
<1>1. Asking
  BY DEF Init, Asking, Sender
<1>2. ASSUME NEW r \in Replica PROVE Position(r, Len(down[r]) + 1) <= offset + PendingTo(r)
  <2>1. down[r] = <<>> /\ slaveOffset[r] = -1 /\ offset = 0
    BY DEF Init
  <2>2. Len(<<>>) + 1 = 1 /\ <<>> \in Seq(DownMsg)
    OBVIOUS
  <2>3. Bytes(<<>>, 1) = 0
    BY <2>2, BytesStart
  <2>4. Position(r, Len(down[r]) + 1) = 0
    BY <2>1, <2>2, <2>3 DEF Position
  <2>5. PendingTo(r) \in Nat
    BY PendingNat
  <2> QED
    BY <2>1, <2>4, <2>5
<1> QED
  BY <1>1, <1>2 DEF Offsets

\* What the invariant says of SlaveBehind.
LEMMA OffsetsBehind ==
  ASSUME TypeOK, Offsets
  PROVE  SlaveBehind
<1> SUFFICES ASSUME NEW r \in Replica
             PROVE  slaveOffset[r] + Bytes(down[r], Len(down[r]) + 1) <= offset + Pending
  BY DEF SlaveBehind
<1> DEFINE b == Bytes(down[r], Len(down[r]) + 1)
           T == {s \in Sender : message[s] # None}
<1>1. Position(r, Len(down[r]) + 1) <= offset + PendingTo(r)
  BY DEF Offsets
<1>2. Position(r, Len(down[r]) + 1) = At(r) + b /\ b \in Nat
  BY PositionNat
<1>3. At(r) \in Nat /\ slaveOffset[r] \in Int /\ slaveOffset[r] <= At(r) /\ offset \in Nat
  BY PositionNat DEF At, TypeOK
<1>4. PendingTo(r) <= Pending /\ PendingTo(r) \in Nat /\ Pending \in Nat
  <2>1. Sent(r) \in SUBSET Sender /\ T \in SUBSET Sender /\ Sent(r) \subseteq T
    BY DEF Sent
  <2> HIDE DEF T
  <2>2. Amount(Sent(r)) <= Amount(T) /\ Amount(Sent(r)) \in Nat /\ Amount(T) \in Nat
    BY <2>1, AmountGrows, AmountNat
  <2> QED
    BY <2>2 DEF PendingTo, Pending, T
<1> HIDE DEF b
<1> QED
  BY <1>1, <1>2, <1>3, <1>4 DEF b

-----------------------------------------------------------------------------
(* Gone and Waits: the lemmas.                                             *)

\* A slave that has died has no more to read.
LEMMA GoneKept ==
  ASSUME TypeOK, Gone, [Next]_vars
  PROVE  Gone'
<1> SUFFICES ASSUME NEW x \in Replica, phase'[x] = "dead" PROVE down'[x] = <<>>
  BY DEF Gone
<1>1. phase[x] = "dead" => down[x] = <<>>
  BY DEF Gone
<1>2. ASSUME UNCHANGED <<phase, down>> PROVE down'[x] = <<>>
  BY <1>1, <1>2
<1>3. ASSUME UNCHANGED phase, NEW r \in Replica, NEW m,
             down' = (IF phase[r] = "dead" THEN down ELSE [down EXCEPT ![r] = Append(@, m)])
      PROVE  down'[x] = <<>>
  <2>1. phase[x] = "dead" /\ down[x] = <<>>
    BY <1>1, <1>3
  <2>2. CASE phase[r] = "dead"
    BY <1>3, <2>1, <2>2
  <2>3. CASE phase[r] # "dead"
    <3>1. r # x
      BY <2>1, <2>3
    <3> QED
      BY <1>3, <2>1, <2>3, <3>1 DEF TypeOK
  <2> QED
    BY <2>2, <2>3
<1>4. ASSUME NEW r \in Replica, phase[r] # "dead", \A y \in Replica \ {r} : phase'[y] = phase[y],
             phase'[r] # "dead", \E n \in 1..Len(down[r]) : Drop(r, n)
      PROVE  down'[x] = <<>>
  <2>1. r # x /\ phase[x] = "dead"
    BY <1>4
  <2>2. down'[x] = down[x]
    BY <1>4, <2>1 DEF Drop, TypeOK
  <2> QED
    BY <1>1, <2>1, <2>2
<1>5. CASE UNCHANGED vars
  BY <1>2, <1>5 DEF vars, linkVars, slaveVars
<1>6. CASE Write
  BY <1>2, <1>6 DEF Write, linkVars, slaveVars
<1>7. ASSUME NEW s \in Sender, SendStep(s) PROVE down'[x] = <<>>
  <2>1. CASE End(s)
    BY <1>2, <2>1 DEF End, linkVars, slaveVars
  <2>2. CASE \E r \in Replica : Send(s, r)
    BY <1>3, <2>2 DEF Send, slaveVars
  <2> QED
    BY <1>7, <2>1, <2>2 DEF SendStep
<1>8. ASSUME NEW r \in Replica, SessionStep(r) PROVE down'[x] = <<>>
  <2>1. CASE SessionRead(r) \/ PsyncMark(r) \/ Ack(r)
    BY <1>2, <2>1 DEF SessionRead, PsyncMark, Ack, slaveVars
  <2>2. CASE Ping(r) \/ Replconf(r) \/ Psync(r) \/ PsyncFile(r)
    <3>1. UNCHANGED phase /\ \E kind \in Plain : Tell(r, kind)
      BY <2>2 DEF Ping, Replconf, Psync, PsyncFile, Plain, slaveVars
    <3> QED
      BY <1>3, <3>1 DEF Tell
  <2> QED
    BY <1>8, <2>1, <2>2 DEF SessionStep
<1>9. ASSUME NEW r \in Replica, Connect(r) PROVE down'[x] = <<>>
  <2>1. down' = down /\ phase'[x] = "dead" /\ phase' = [phase EXCEPT ![r] = "ping"]
    BY <1>9 DEF Connect
  <2>2. phase[x] = "dead"
    BY <2>1 DEF TypeOK
  <2> QED
    BY <1>1, <2>1, <2>2
<1>10. ASSUME NEW r \in Replica, SlaveStep(r) PROVE down'[x] = <<>>
  <2>1. ASSUME down[r] # <<>>, NEW n, n = 1 PROVE n \in 1..Len(down[r])
    BY <2>1, LenProperties, EmptySeq DEF TypeOK
  <2>2. CASE Handshake(r)
    <3>1. PICK n \in 1..Len(down[r]) : Drop(r, n)
      BY <2>2 DEF Handshake, Expect
    <3>2. PICK to \in {"conf1", "conf2", "psync", "failed"} : phase' = [phase EXCEPT ![r] = to]
      BY <2>2 DEF Handshake, Expect
    <3>3. phase[r] \in {"ping", "conf1", "conf2"}
      BY <2>2 DEF Handshake, Expect
    <3>4. phase'[r] # "dead" /\ \A y \in Replica \ {r} : phase'[y] = phase[y]
      BY <3>2 DEF TypeOK
    <3> QED
      BY <1>4, <3>1, <3>3, <3>4
  <2>3. CASE FullResync(r) \/ LoadSnapshot(r)
    <3>1. /\ down[r] # <<>> /\ Drop(r, 1) /\ phase[r] \in {"psync", "rdb"}
          /\ \E to \in {"rdb", "stream", "failed"} : phase' = [phase EXCEPT ![r] = to]
      BY <2>3 DEF FullResync, LoadSnapshot
    <3>2. phase'[r] # "dead" /\ \A y \in Replica \ {r} : phase'[y] = phase[y]
      BY <3>1 DEF TypeOK
    <3> QED
      BY <1>4, <2>1, <3>1, <3>2
  <2>4. CASE ApplyWrite(r) \/ GetAck(r)
    <3>1. /\ down[r] # <<>> /\ Drop(r, 1) /\ phase[r] = "stream" /\ phase' = phase
      BY <2>4 DEF ApplyWrite, GetAck, Streams
    <3> QED
      BY <1>4, <2>1, <3>1
  <2> QED
    BY <1>10, <2>2, <2>3, <2>4 DEF SlaveStep
<1>11. ASSUME NEW r \in Replica, Crash(r) PROVE down'[x] = <<>>
  <2>1. down' = [down EXCEPT ![r] = <<>>] /\ phase' = [phase EXCEPT ![r] = "dead"]
    BY <1>11 DEF Crash
  <2> QED
    BY <1>1, <2>1 DEF TypeOK
<1>12. ASSUME NEW w \in Waiter, WaitCommand(w) \/ WaitStep(w) PROVE down'[x] = <<>>
  BY <1>2, <1>12 DEF WaitCommand, WaitStep, WaitCheck, WaitAsk, WaitCount, Deadline, linkVars, slaveVars
<1>13. CASE ConcurrentMapAbort
  BY <1>2, <1>13 DEF ConcurrentMapAbort, slaveVars
<1> QED
  BY <1>5, <1>6, <1>7, <1>8, <1>9, <1>10, <1>11, <1>12, <1>13 DEF Next

-----------------------------------------------------------------------------

\* A mark is a number, before a step and after it.
LEMMA MarkNat ==
  ASSUME TypeOK, NEW w \in Waiter, NEW k
  PROVE  Mark(w, k) \in Nat
<1>1. wait[w] \in {"idle", "check", "ask", "send", "count", "answered"} /\ offset \in Nat /\ target[w] \in Nat
  BY DEF TypeOK
<1> QED
  BY <1>1, ConstantsAssumption DEF Mark

\* After the step.
LEMMA MarkNatNext ==
  ASSUME TypeOK', NEW w \in Waiter, NEW k
  PROVE  Mark(w, k)' \in Nat
<1>1. /\ wait'[w] \in {"idle", "check", "ask", "send", "count", "answered"} /\ offset' \in Nat
      /\ target'[w] \in Nat
  BY DEF TypeOK
<1> QED
  BY <1>1, ConstantsAssumption DEF Mark

\* Positions are numbers after a step as well.
LEMMA PositionNatNext ==
  ASSUME TypeOK', NEW r \in Replica
  PROVE  \A i : Position(r, i)' \in Nat
<1>1. down'[r] \in Seq(DownMsg) /\ slaveOffset'[r] \in Int
  BY DEF TypeOK
<1> QED
  BY <1>1, BytesNat DEF Position

\* A write on its way has a number.
LEMMA WriteNumbers ==
  ASSUME NEW q \in Seq(DownMsg), NEW i \in OnTheWay(q)
  PROVE  i \in 1..Len(q) /\ q[i] \in DownMsg /\ q[i].n \in Nat
<1>1. DOMAIN q = 1..Len(q) /\ \A j \in 1..Len(q) : q[j] \in DownMsg
  BY LenProperties, ElementOfSeq
<1> QED
  BY <1>1 DEF OnTheWay, DownMsg

\* What MarksOf says after a step, write by write.
LEMMA MarksNext ==
  ASSUME TypeOK', NEW w \in Waiter, NEW r \in Replica,
         \A i \in OnTheWay(down'[r]) : \A k \in Nat :
           k = down'[r][i].n /\ About(w, k)' => Position(r, i)' < Mark(w, k)' + GetAckSize,
         \A k \in Nat :
           /\ phase'[r] = "dead" /\ r \in handshaken' /\ k = base'[r] + applied'[r] + 1
           /\ About(w, k)'
           => Position(r, 1)' < Mark(w, k)' + GetAckSize
  PROVE  MarksOf(w, r)'
<1>1. ASSUME NEW i \in OnTheWay(down'[r]), About(w, down[r][i].n)'
      PROVE  Position(r, i)' < Mark(w, down[r][i].n)' + GetAckSize
  <2>1. down'[r] \in Seq(DownMsg)
    BY DEF TypeOK
  <2>2. PICK k \in Nat : k = down'[r][i].n
    BY <2>1, WriteNumbers
  <2>3. About(w, k)'
    BY <1>1, <2>2 DEF About
  <2>4. Mark(w, down[r][i].n)' = Mark(w, k)'
    BY <2>2 DEF Mark
  <2> QED
    BY <2>2, <2>3, <2>4
<1>2. ASSUME phase'[r] = "dead", r \in handshaken', About(w, NextOf(r))'
      PROVE  Position(r, 1)' < Mark(w, NextOf(r))' + GetAckSize
  <2>1. PICK k \in Nat : k = base'[r] + applied'[r] + 1
    BY DEF TypeOK
  <2>2. NextOf(r)' = k
    BY <2>1 DEF NextOf
  <2>3. About(w, k)'
    BY <1>2, <2>2 DEF About
  <2>4. Mark(w, NextOf(r))' = Mark(w, k)'
    BY <2>2 DEF Mark
  <2> QED
    BY <1>2, <2>1, <2>3, <2>4
<1> QED
  BY <1>1, <1>2 DEF MarksOf

\* The writes that w's WAIT is about are no more, and its mark is no lower, than before.
Keeps(w) ==
  \A k \in Nat : About(w, k)' => About(w, k) /\ Mark(w, k) <= Mark(w, k)'

\* A slave that is dead was so before, with the same writes executed.
StillDead(r) ==
  phase'[r] = "dead" =>
    phase[r] = "dead" /\ (r \in handshaken' =>
       /\ r \in handshaken /\ NextOf(r)' = NextOf(r) /\ Position(r, 1)' = Position(r, 1))

\* MarksOf is kept when w keeps its writes and its mark, and r is no further along.
LEMMA MarksKept ==
  ASSUME TypeOK, TypeOK', NEW w \in Waiter, NEW r \in Replica, MarksOf(w, r),
         Steady(r), StillDead(r), Keeps(w)
  PROVE  MarksOf(w, r)'
<1>0. GetAckSize \in Nat
  BY ConstantsAssumption
<1>1. ASSUME NEW i \in OnTheWay(down'[r]), NEW k \in Nat, k = down'[r][i].n, About(w, k)'
      PROVE  Position(r, i)' < Mark(w, k)' + GetAckSize
  <2>1. PICK j \in OnTheWay(down[r]) : down'[r][i] = down[r][j] /\ Position(r, i)' <= Position(r, j)
    BY DEF Steady
  <2>2. About(w, k) /\ Mark(w, k) <= Mark(w, k)' /\ k = down[r][j].n
    BY <1>1, <2>1 DEF Keeps
  <2>3. Position(r, j) < Mark(w, k) + GetAckSize
    BY <2>2 DEF MarksOf
  <2>4. Position(r, i)' \in Nat /\ Position(r, j) \in Nat /\ Mark(w, k) \in Nat /\ Mark(w, k)' \in Nat
    BY PositionNat, PositionNatNext, MarkNat, MarkNatNext
  <2> QED
    BY <1>0, <2>1, <2>2, <2>3, <2>4
<1>2. ASSUME NEW k \in Nat, phase'[r] = "dead", r \in handshaken', k = base'[r] + applied'[r] + 1,
             About(w, k)'
      PROVE  Position(r, 1)' < Mark(w, k)' + GetAckSize
  <2>1. phase[r] = "dead" /\ r \in handshaken /\ NextOf(r) = k /\ Position(r, 1)' = Position(r, 1)
    BY <1>2 DEF StillDead, NextOf
  <2>2. About(w, k) /\ Mark(w, k) <= Mark(w, k)'
    BY <1>2 DEF Keeps
  <2>3. Position(r, 1) < Mark(w, k) + GetAckSize
    BY <2>1, <2>2 DEF MarksOf
  <2>4. Position(r, 1) \in Nat /\ Mark(w, k) \in Nat /\ Mark(w, k)' \in Nat
    BY PositionNat, MarkNat, MarkNatNext
  <2> QED
    BY <1>0, <2>1, <2>2, <2>3, <2>4
<1> QED
  BY <1>1, <1>2, MarksNext

\* All that is on its way to r, without the executor's write and without a GETACK of w,
\* is shorter than a write and a GETACK.
LEMMA ShortPending ==
  ASSUME FewWaits, NEW r \in Replica, NEW w \in Waiter, message[w] = None, Executor \notin Sent(r)
  PROVE  PendingTo(r) < WriteSize + GetAckSize
<1> DEFINE S == Sent(r) \ {Executor}
           c == Cardinality(S)
           d == Cardinality(Waiter)
           e == Cardinality(Waiter \ {w})
<1>1. IsFiniteSet(Waiter) /\ IsFiniteSet(Waiter \ {w}) /\ d \in Nat /\ e \in Nat /\ e = d - 1
  <2>1. IsFiniteSet(Waiter)
    BY ConstantsAssumption
  <2>2. IsFiniteSet(Waiter \ {w}) /\ e = d - 1
    BY <2>1, FS_RemoveElement
  <2> QED
    BY <2>1, <2>2, FS_CardinalityType
<1>2. S \in SUBSET (Waiter \ {w})
  BY DEF Sent, Sender
<1>3. c <= e /\ c \in Nat
  <2>1. IsFiniteSet(S) /\ c <= e
    BY <1>1, <1>2, FS_Subset
  <2> QED
    BY <2>1, FS_CardinalityType
<1>4. WriteSize \in Nat \ {0} /\ GetAckSize \in Nat \ {0}
  BY ConstantsAssumption
<1>5. PendingTo(r) = GetAckSize * c
  <2>1. PendingTo(r) = 0 + GetAckSize * c
    BY DEF PendingTo, Amount
  <2>2. GetAckSize * c \in Nat
    BY <1>3, <1>4, Products
  <2> QED
    BY <2>1, <2>2
<1>6. GetAckSize * (d - 2) < WriteSize
  BY DEF FewWaits
<1> HIDE DEF c, d, e
<1>7. GetAckSize * e = GetAckSize * (d - 2) + GetAckSize
  <2>1. d - 2 \in Int /\ e = (d - 2) + 1
    BY <1>1
  <2>2. \A a \in Nat, b \in Int : a * (b + 1) = a * b + a
    OBVIOUS
  <2> QED
    BY <1>4, <2>1, <2>2
<1>8. GetAckSize * c <= GetAckSize * e /\ GetAckSize * c \in Nat /\ GetAckSize * e \in Nat
  BY <1>1, <1>3, <1>4, ProductsGrow, Products
<1>9. GetAckSize * (d - 2) \in Int
  <2>1. d - 2 \in Int
    BY <1>1
  <2> QED
    BY <1>4, <2>1
<1> QED
  BY <1>4, <1>5, <1>6, <1>7, <1>8, <1>9

\* A write that the executor has not sent to r: the slave is not ahead of it by more
\* than WAIT allows for.
LEMMA ShortPosition ==
  ASSUME TypeOK, Offsets, FewWaits, NEW r \in Replica, NEW w \in Waiter, message[w] = None,
         Executor \notin Sent(r)
  PROVE  EndOf(r) < offset + WriteSize + GetAckSize /\ Position(r, 1) < offset + WriteSize + GetAckSize
<1>1. PendingTo(r) < WriteSize + GetAckSize /\ PendingTo(r) \in Nat
  BY ShortPending, PendingNat
<1>2. EndOf(r) <= offset + PendingTo(r)
  BY DEF Offsets, EndOf
<1>3. Position(r, 1) <= EndOf(r) /\ EndOf(r) \in Nat /\ Position(r, 1) \in Nat
  <2>1. EndOf(r) = At(r) + Bytes(down[r], Len(down[r]) + 1) /\ Position(r, 1) = At(r)
    BY PositionNat DEF EndOf
  <2>2. At(r) \in Nat /\ Bytes(down[r], Len(down[r]) + 1) \in Nat
    BY PositionNat
  <2> QED
    BY <2>1, <2>2
<1>4. offset \in Nat /\ WriteSize \in Nat /\ GetAckSize \in Nat
  BY ConstantsAssumption DEF TypeOK
<1> QED
  BY <1>1, <1>2, <1>3, <1>4

-----------------------------------------------------------------------------
(* Waits is kept.                                                          *)

\* The writes that are answered: all of them, or all but the one being propagated.
LEMMA AnsweredRange ==
  ASSUME TypeOK, Senders
  PROVE  /\ Answered \in Nat /\ Answered <= written /\ written \in Nat
         /\ \A r \in Replica : Answered <= SentTo(r)
         /\ message[Executor] # None => Answered = written - 1
         /\ message[Executor] = None => Answered = written
<1>1. written \in Nat /\ (message[Executor] # None => written > 0)
  BY DEF TypeOK, Senders
<1>2. ASSUME NEW r \in Replica PROVE Answered <= SentTo(r)
  <2>1. r \in todo[Executor] => message[Executor] # None
    BY DEF Senders, Sender
  <2> QED
    BY <1>1, <2>1 DEF Answered, SentTo
<1> QED
  BY <1>1, <1>2 DEF Answered

\* A WAIT that goes on as it did.
LEMMA WaitKept ==
  ASSUME TypeOK, TypeOK', NEW w \in Waiter, WaitOf(w),
         wait'[w] = wait[w], target'[w] = target[w], goal'[w] = goal[w], counted'[w] = counted[w],
         Answered \in Nat, Answered' \in Nat, Answered <= Answered',
         \A r \in Replica : MarksOf(w, r)',
         \A r \in counted[w] \cap handshaken' :
           base[r] + applied[r] >= goal[w] => base'[r] + applied'[r] >= goal[w],
         \A r \in counted[w] \cap handshaken' : r \notin handshaken => base'[r] + applied'[r] >= goal[w]
  PROVE  WaitOf(w)'
<1>1. goal[w] \in Nat
  BY DEF TypeOK
<1>2. /\ wait[w] \in {"ask", "send", "count"} => target[w] > 0
      /\ goal[w] <= Answered
      /\ wait[w] # "answered" => counted[w] = {}
      /\ \A r \in counted[w] \cap handshaken : base[r] + applied[r] >= goal[w]
  BY DEF WaitOf
<1>3. goal'[w] <= Answered'
  BY <1>1, <1>2
<1>4. \A r \in counted'[w] \cap handshaken' : base'[r] + applied'[r] >= goal'[w]
  BY <1>2
<1> QED
  BY <1>2, <1>3, <1>4 DEF WaitOf

\* What sessions and slaves do, when no slave dies and none ends its handshake.
Quiet ==
  /\ UNCHANGED <<offset, written, message, wait, target, goal, counted, base, handshaken>>
  /\ \A r \in Replica :
       /\ Steady(r)
       /\ applied[r] <= applied'[r]
       /\ phase'[r] = "dead" =>
            /\ phase[r] = "dead" /\ applied'[r] = applied[r]
            /\ slaveOffset'[r] = slaveOffset[r] /\ down'[r] = down[r]

\* A quiet step keeps Waits.
LEMMA QuietWaits ==
  ASSUME TypeOK, TypeOK', Senders, Waits, Quiet
  PROVE  Waits'
<1>1. UNCHANGED <<offset, written, message, wait, target, goal, counted, base, handshaken>>
  BY DEF Quiet
<1>2. Answered' = Answered /\ Answered \in Nat
  BY <1>1, AnsweredRange DEF Answered
<1>3. ASSUME NEW w \in Waiter PROVE WaitOf(w)'
  <2>1. Keeps(w)
    <3>1. \A k \in Nat : (About(w, k)' <=> About(w, k)) /\ Mark(w, k)' = Mark(w, k) /\ Mark(w, k) \in Nat
      BY <1>1, MarkNat DEF About, Mark
    <3> QED
      BY <3>1 DEF Keeps
  <2>2. ASSUME NEW r \in Replica PROVE MarksOf(w, r)'
    <3>1. StillDead(r)
      BY <1>1 DEF Quiet, StillDead, NextOf, Position
    <3>2. MarksOf(w, r) /\ Steady(r)
      BY DEF Quiet, Waits, WaitOf
    <3> QED
      BY <2>1, <3>1, <3>2, MarksKept
  <2>3. ASSUME NEW r \in Replica, base[r] + applied[r] >= goal[w]
        PROVE  base'[r] + applied'[r] >= goal[w]
    <3>1. applied[r] <= applied'[r] /\ base'[r] = base[r]
      BY <1>1 DEF Quiet
    <3>2. applied[r] \in Nat /\ applied'[r] \in Nat /\ base[r] \in Nat /\ goal[w] \in Nat
      BY DEF TypeOK
    <3> QED
      BY <2>3, <3>1, <3>2
  <2>4. WaitOf(w) /\ counted[w] \subseteq Replica /\ Answered <= Answered' /\ Answered' \in Nat
    BY <1>2 DEF Waits, TypeOK
  <2>5. \A r \in counted[w] \cap handshaken' : r \in handshaken
    BY <1>1
  <2> QED
    BY <1>1, <1>2, <2>2, <2>3, <2>4, <2>5, WaitKept
<1> QED
  BY <1>1, <1>2, <1>3 DEF Waits

\* The steps that are quiet.
LEMMA QuietSteps ==
  ASSUME Delivery, Delivery', AcksRise, Gone,
         \/ \E r \in Replica : SessionStep(r) \/ Connect(r) \/ SlaveStep(r)
         \/ ConcurrentMapAbort,
         UNCHANGED <<handshaken, base>>
  PROVE  Quiet
<1>1. TypeOK /\ TypeOK'
  BY DEF Delivery
<1>2. \A x \in Replica : Steady(x)
  BY SlavesAreSteady
<1>3. UNCHANGED <<offset, written, message, wait, target, goal, counted>>
  <2>1. ASSUME NEW r \in Replica, SessionStep(r)
        PROVE  UNCHANGED <<offset, written, message, wait, target, goal, counted>>
    BY <2>1 DEF SessionStep, SessionRead, Ping, Replconf, Psync, PsyncFile, PsyncMark, Ack, sendVars,
                masterVars, waitVars
  <2>2. ASSUME NEW r \in Replica, Connect(r) \/ SlaveStep(r)
        PROVE  UNCHANGED <<offset, written, message, wait, target, goal, counted>>
    BY <2>2 DEF Connect, SlaveStep, Handshake, Expect, FullResync, LoadSnapshot, ApplyWrite,
                GetAck, sendVars, masterVars, waitVars
  <2>3. ASSUME ConcurrentMapAbort
        PROVE  UNCHANGED <<offset, written, message, wait, target, goal, counted>>
    BY <2>3 DEF ConcurrentMapAbort, sendVars, waitVars
  <2> QED
    BY <2>1, <2>2, <2>3
<1>4. ASSUME NEW x \in Replica
      PROVE  /\ applied[x] <= applied'[x]
             /\ phase'[x] = "dead" => phase[x] = "dead" /\ applied'[x] = applied[x]
                                       /\ slaveOffset'[x] = slaveOffset[x]
  <2>1. applied[x] \in Nat
    BY <1>1 DEF TypeOK
  <2>2. ASSUME UNCHANGED <<applied, phase, slaveOffset>>
        PROVE  /\ applied[x] <= applied'[x]
               /\ phase'[x] = "dead" => phase[x] = "dead" /\ applied'[x] = applied[x]
                                         /\ slaveOffset'[x] = slaveOffset[x]
    BY <2>1, <2>2
  <2>3. ASSUME NEW r \in Replica, phase'[r] # "dead",
               \A y \in Replica \ {r} : phase'[y] = phase[y] /\ slaveOffset'[y] = slaveOffset[y],
               applied' = applied \/ applied' = [applied EXCEPT ![r] = @ + 1]
        PROVE  /\ applied[x] <= applied'[x]
               /\ phase'[x] = "dead" => phase[x] = "dead" /\ applied'[x] = applied[x]
                                         /\ slaveOffset'[x] = slaveOffset[x]
    <3>1. applied'[x] = applied[x] \/ (x = r /\ applied'[x] = applied[x] + 1)
      <4>1. applied \in [Replica -> Nat]
        BY <1>1 DEF TypeOK
      <4>2. CASE applied' = applied
        BY <4>2
      <4>3. CASE applied' = [applied EXCEPT ![r] = @ + 1]
        BY <4>1, <4>3
      <4> QED
        BY <2>3, <4>2, <4>3
    <3>2. applied[x] <= applied'[x]
      BY <2>1, <3>1
    <3>3. phase'[x] = "dead" => x # r
      BY <2>3
    <3> QED
      BY <2>3, <3>1, <3>2, <3>3
  <2>4. ASSUME NEW r \in Replica, SessionStep(r) PROVE UNCHANGED <<applied, phase, slaveOffset>>
    BY <2>4 DEF SessionStep, SessionRead, Ping, Replconf, Psync, PsyncFile, PsyncMark, Ack, slaveVars
  <2>5. ASSUME ConcurrentMapAbort PROVE UNCHANGED <<applied, phase, slaveOffset>>
    BY <2>5 DEF ConcurrentMapAbort, slaveVars
  <2>6. ASSUME NEW r \in Replica, Connect(r) \/ Handshake(r) \/ FullResync(r) \/ LoadSnapshot(r)
        PROVE  /\ phase'[r] # "dead" /\ applied' = applied
               /\ \A y \in Replica \ {r} : phase'[y] = phase[y] /\ slaveOffset'[y] = slaveOffset[y]
    <3>1. \E to \in {"ping", "conf1", "conf2", "psync", "rdb", "stream", "failed"} :
            phase' = [phase EXCEPT ![r] = to]
      BY <2>6 DEF Connect, Handshake, Expect, FullResync, LoadSnapshot
    <3>2. applied' = applied /\ (slaveOffset' = slaveOffset \/ slaveOffset' = [slaveOffset EXCEPT ![r] = 0])
      BY <2>6 DEF Connect, Handshake, Expect, FullResync, LoadSnapshot
    <3>3. \A y \in Replica \ {r} : phase'[y] = phase[y]
      BY <1>1, <3>1 DEF TypeOK
    <3>4. phase'[r] # "dead"
      BY <1>1, <3>1 DEF TypeOK
    <3>5. \A y \in Replica \ {r} : slaveOffset'[y] = slaveOffset[y]
      BY <1>1, <3>2 DEF TypeOK
    <3> QED
      BY <3>2, <3>3, <3>4, <3>5
  <2>7. ASSUME NEW r \in Replica, ApplyWrite(r) \/ GetAck(r)
        PROVE  /\ phase'[r] # "dead"
               /\ applied' = applied \/ applied' = [applied EXCEPT ![r] = @ + 1]
               /\ \A y \in Replica \ {r} : phase'[y] = phase[y] /\ slaveOffset'[y] = slaveOffset[y]
    <3>1. /\ phase[r] = "stream" /\ phase' = phase
          /\ slaveOffset' = [slaveOffset EXCEPT ![r] = @ + Size(Head(down[r]))]
          /\ applied' = applied \/ applied' = [applied EXCEPT ![r] = @ + 1]
      BY <2>7 DEF ApplyWrite, GetAck, Streams
    <3> QED
      BY <1>1, <3>1 DEF TypeOK
  <2> QED
    BY <2>2, <2>3, <2>4, <2>5, <2>6, <2>7 DEF SlaveStep
<1>5. \A x \in Replica : phase'[x] = "dead" => down'[x] = down[x]
  <2>1. Gone'
    <3>1. [Next]_vars
      BY DEF Next
    <3> QED
      BY <1>1, <3>1, GoneKept
  <2> QED
    BY <1>4, <2>1 DEF Gone
<1> QED
  BY <1>2, <1>3, <1>4, <1>5 DEF Quiet

\* The handshake of r is over: no write is on its way to it, and it lacks none of those
\* that a WAIT is about.
LEMMA MarkWaits ==
  ASSUME Delivery, Delivery', Waits, NEW r \in Replica, r \notin handshaken, PsyncMark(r)
  PROVE  Waits'
<1>1. TypeOK /\ TypeOK' /\ Senders
  BY DEF Delivery
<1>2. /\ UNCHANGED <<offset, written, message, wait, target, goal, counted, down, slaveOffset,
                     phase, applied>>
      /\ handshaken' = handshaken \cup {r} /\ base' = [base EXCEPT ![r] = written]
  BY DEF PsyncMark, sendVars, waitVars, slaveVars
<1>3. Answered' = Answered /\ Answered \in Nat /\ Answered <= written /\ written \in Nat
  BY <1>1, <1>2, AnsweredRange DEF Answered
<1>4. OnTheWay(down[r]) = {} /\ applied[r] = 0
  BY DEF Delivery, Writes, WritesOf
<1>5. base'[r] = written /\ \A x \in Replica \ {r} : base'[x] = base[x]
  BY <1>1, <1>2 DEF TypeOK
<1>6. ASSUME NEW w \in Waiter PROVE WaitOf(w)'
  <2>1. WaitOf(w)
    BY DEF Waits
  <2>2. \A k \in Nat : (About(w, k)' <=> About(w, k)) /\ Mark(w, k)' = Mark(w, k) /\ Mark(w, k) \in Nat
    BY <1>1, <1>2, MarkNat DEF About, Mark
  <2>3. Keeps(w)
    BY <2>2 DEF Keeps
  <2>4. goal[w] \in Nat /\ goal[w] <= written
    <3>1. goal[w] \in Nat
      BY <1>1 DEF TypeOK
    <3>2. goal[w] <= Answered
      BY <2>1 DEF WaitOf
    <3> QED
      BY <1>3, <3>1, <3>2
  <2>5. ASSUME NEW x \in Replica \ {r} PROVE MarksOf(w, x)'
    <3>1. StillDead(x)
      BY <1>2, <1>5 DEF StillDead, NextOf, Position
    <3>2. MarksOf(w, x)
      BY <2>1 DEF WaitOf
    <3>3. Steady(x)
      BY <1>1, <1>2, SameSteady
    <3> QED
      BY <1>1, <2>3, <3>1, <3>2, <3>3, MarksKept
  <2>6. MarksOf(w, r)'
    <3>1. OnTheWay(down'[r]) = {}
      BY <1>2, <1>4
    <3>2. ASSUME NEW k \in Nat, k = base'[r] + applied'[r] + 1 PROVE ~About(w, k)'
      <4>1. k = written + 1
        BY <1>2, <1>3, <1>4, <1>5, <3>2
      <4>2. ~(k <= written) /\ ~(k <= goal[w])
        BY <1>3, <2>4, <4>1
      <4>3. ~About(w, k)
        BY <4>2 DEF About
      <4> QED
        BY <2>2, <4>3
    <3> QED
      BY <1>1, <3>1, <3>2, MarksNext
  <2>7. ASSUME NEW x \in counted[w] \cap handshaken'
        PROVE  /\ base[x] + applied[x] >= goal[w] => base'[x] + applied'[x] >= goal[w]
               /\ x \notin handshaken => base'[x] + applied'[x] >= goal[w]
    <3>1. x \in Replica
      BY <1>1 DEF TypeOK
    <3>2. CASE x = r
      <4>1. base'[r] + applied'[r] >= goal[w]
        BY <1>2, <1>3, <1>4, <1>5, <2>4
      <4> QED
        BY <3>2, <4>1
    <3>3. CASE x # r
      BY <1>2, <1>5, <3>1, <3>3
    <3> QED
      BY <3>2, <3>3
  <2>8. /\ wait'[w] = wait[w] /\ target'[w] = target[w] /\ goal'[w] = goal[w]
        /\ counted'[w] = counted[w] /\ Answered' \in Nat /\ Answered <= Answered'
    BY <1>2, <1>3
  <2> QED
    BY <1>1, <1>3, <2>1, <2>5, <2>6, <2>7, <2>8, WaitKept
<1> QED
  BY <1>2, <1>3, <1>6 DEF Waits

\* A write that r lacks and that w's WAIT is about, while r is there: it is on its way.
LEMMA Lacks ==
  ASSUME Delivery, NEW w \in Waiter, NEW r \in Replica, r \in handshaken, phase[r] # "dead",
         MarksOf(w, r), About(w, NextOf(r)), NextOf(r) <= SentTo(r)
  PROVE  Position(r, 1) < Mark(w, NextOf(r)) + GetAckSize
<1>1. TypeOK /\ Numbers(down[r]) = base[r] + applied[r] + 1 .. SentTo(r)
  BY DEF Delivery, Writes, WritesOf
<1>2. NextOf(r) \in Nat /\ SentTo(r) \in Int
  BY <1>1 DEF NextOf, SentTo, TypeOK
<1>3. NextOf(r) \in Numbers(down[r])
  BY <1>1, <1>2 DEF NextOf
<1>4. PICK i \in OnTheWay(down[r]) : down[r][i].n = NextOf(r)
  BY <1>3 DEF Numbers
<1>5. Position(r, i) < Mark(w, NextOf(r)) + GetAckSize
  BY <1>4 DEF MarksOf
<1>6. /\ Position(r, 1) = At(r) /\ Position(r, i) = At(r) + Bytes(down[r], i)
      /\ At(r) \in Nat /\ Bytes(down[r], i) \in Nat
  BY <1>1, PositionNat
<1>7. Mark(w, NextOf(r)) \in Nat /\ GetAckSize \in Nat
  BY <1>1, MarkNat, ConstantsAssumption
<1> QED
  BY <1>5, <1>6, <1>7

\* The process of r dies, with what was on its way to it.
LEMMA CrashWaits ==
  ASSUME Delivery, Delivery', Asking, Offsets, FewWaits, Waits, NEW r \in Replica, Crash(r)
  PROVE  Waits'
<1>1. TypeOK /\ TypeOK' /\ Senders
  BY DEF Delivery
<1>2. /\ UNCHANGED <<offset, written, message, wait, target, goal, counted, slaveOffset, base,
                     applied, handshaken, todo>>
      /\ phase[r] # "dead" /\ down' = [down EXCEPT ![r] = <<>>] /\ phase' = [phase EXCEPT ![r] = "dead"]
  BY DEF Crash, sendVars, waitVars, masterVars
<1>3. Answered' = Answered /\ Answered \in Nat /\ Answered <= written /\ written \in Nat
  BY <1>1, <1>2, AnsweredRange DEF Answered
<1>4. down'[r] = <<>> /\ \A x \in Replica \ {r} : down'[x] = down[x] /\ phase'[x] = phase[x]
  BY <1>1, <1>2 DEF TypeOK
<1>5. ASSUME NEW w \in Waiter PROVE WaitOf(w)'
  <2>1. WaitOf(w)
    BY DEF Waits
  <2>2. \A k \in Nat : (About(w, k)' <=> About(w, k)) /\ Mark(w, k)' = Mark(w, k) /\ Mark(w, k) \in Nat
    BY <1>1, <1>2, MarkNat DEF About, Mark
  <2>3. Keeps(w)
    BY <2>2 DEF Keeps
  <2>4. goal[w] \in Nat /\ goal[w] <= Answered
    BY <1>1, <2>1 DEF WaitOf, TypeOK
  <2>5. ASSUME NEW x \in Replica \ {r} PROVE MarksOf(w, x)'
    <3>1. StillDead(x)
      BY <1>2, <1>4 DEF StillDead, NextOf, Position
    <3>2. MarksOf(w, x)
      BY <2>1 DEF WaitOf
    <3>3. Steady(x)
      BY <1>1, <1>2, <1>4, SameSteady
    <3> QED
      BY <1>1, <2>3, <3>1, <3>2, <3>3, MarksKept
  <2>6. MarksOf(w, r)'
    <3>1. OnTheWay(down'[r]) = {}
      BY <1>4 DEF OnTheWay
    <3>2. Position(r, 1)' = Position(r, 1)
      <4>1. <<>> \in Seq(DownMsg) /\ down[r] \in Seq(DownMsg)
        BY <1>1 DEF TypeOK
      <4>2. Bytes(down'[r], 1) = 0 /\ Bytes(down[r], 1) = 0
        BY <1>4, <4>1, BytesStart
      <4> QED
        BY <1>2, <4>2 DEF Position
    <3>3. ASSUME NEW k \in Nat, r \in handshaken', k = base'[r] + applied'[r] + 1, About(w, k)'
          PROVE  Position(r, 1)' < Mark(w, k)' + GetAckSize
      <4>1. k = NextOf(r) /\ About(w, k) /\ r \in handshaken
        BY <1>2, <2>2, <3>3 DEF NextOf
      <4>2. CASE k <= SentTo(r)
        <5>1. MarksOf(w, r)
          BY <2>1 DEF WaitOf
        <5>2. Position(r, 1) < Mark(w, k) + GetAckSize
          BY <1>2, <4>1, <4>2, <5>1, Lacks
        <5> QED
          BY <2>2, <3>2, <5>2
      <4>3. CASE ~(k <= SentTo(r))
        <5>1. k <= written
          BY <1>3, <2>4, <4>1 DEF About
        <5>2. r \in todo[Executor] /\ k = written
          BY <1>3, <4>3, <5>1 DEF SentTo
        <5>3. message[Executor] # None /\ Executor \notin Sent(r)
          BY <1>1, <5>2 DEF Senders, Sent, Sender
        <5>4. Answered = written - 1
          BY <5>3 DEF Answered
        <5>5. wait[w] = "idle"
          BY <1>3, <2>4, <4>1, <5>2, <5>4 DEF About
        <5>6. message[w] = None
          BY <5>5 DEF Asking
        <5>7. Mark(w, k) = offset + WriteSize
          BY <5>2, <5>3, <5>5 DEF Mark
        <5>8. Position(r, 1) < offset + WriteSize + GetAckSize
          BY <1>1, <5>3, <5>6, ShortPosition
        <5> QED
          BY <2>2, <3>2, <5>7, <5>8
      <4> QED
        BY <4>2, <4>3
    <3> QED
      BY <1>1, <3>1, <3>3, MarksNext
  <2>7. /\ wait'[w] = wait[w] /\ target'[w] = target[w] /\ goal'[w] = goal[w]
        /\ counted'[w] = counted[w] /\ Answered' \in Nat /\ Answered <= Answered'
        /\ base' = base /\ applied' = applied /\ handshaken' = handshaken
    BY <1>2, <1>3
  <2> QED
    BY <1>1, <1>3, <2>1, <2>5, <2>6, <2>7, WaitKept
<1> QED
  BY <1>2, <1>3, <1>5 DEF Waits

\* The executor begins to propagate a write: it is one more that a WAIT to come is about,
\* and its mark is behind all that r has been sent.
LEMMA WriteWaits ==
  ASSUME Delivery, Delivery', Asking, Gone, Offsets, FewWaits, Waits, Write
  PROVE  Waits'
<1>1. TypeOK /\ TypeOK' /\ Senders /\ Writes
  BY DEF Delivery
<1>2. /\ UNCHANGED <<offset, wait, target, goal, counted, slaveOffset, base, applied, handshaken,
                     phase, down>>
      /\ message[Executor] = None /\ written' = written + 1
      /\ message' = [message EXCEPT ![Executor] = Msg("write", written + 1)]
  BY DEF Write, Begin, linkVars, slaveVars, waitVars
<1>3. written \in Nat /\ message[Executor] = None /\ message'[Executor] # None
  <2>1. Msg("write", written + 1) # None
    BY <1>1, ConstantsAssumption DEF Msg, DownMsg, TypeOK
  <2> QED
    BY <1>1, <1>2, <2>1 DEF TypeOK, Sender
<1>4. Answered = written /\ Answered' = written
  BY <1>2, <1>3 DEF Answered
<1>5. ASSUME NEW w \in Waiter PROVE WaitOf(w)'
  <2>1. WaitOf(w)
    BY DEF Waits
  <2>2. ASSUME NEW k \in Nat, k <= written
        PROVE  (About(w, k)' <=> About(w, k)) /\ Mark(w, k)' = Mark(w, k)
    <3>1. k <= written' /\ k # written'
      BY <1>2, <1>3, <2>2
    <3> QED
      BY <1>2, <1>3, <2>2, <3>1 DEF About, Mark
  <2>3. ASSUME NEW k \in Nat, ~(k <= written), About(w, k)'
        PROVE  k = written' /\ wait[w] = "idle" /\ Mark(w, k)' = offset + WriteSize
    <3>1. goal[w] \in Nat /\ goal[w] <= written
      BY <1>1, <1>4, <2>1 DEF WaitOf, TypeOK
    <3>2. ~(k <= goal[w])
      BY <1>3, <2>3, <3>1
    <3>3. wait[w] = "idle" /\ k <= written'
      BY <1>2, <2>3, <3>2 DEF About
    <3>4. k = written'
      BY <1>2, <1>3, <2>3, <3>3
    <3> QED
      BY <1>2, <1>3, <3>3, <3>4 DEF Mark
  <2>4. ASSUME NEW r \in Replica PROVE MarksOf(w, r)'
    <3>1. MarksOf(w, r) /\ \A i : Position(r, i)' = Position(r, i)
      BY <1>2, <2>1 DEF WaitOf, Position
    <3>2. ASSUME NEW i \in OnTheWay(down'[r]), NEW k \in Nat, k = down'[r][i].n, About(w, k)'
          PROVE  Position(r, i)' < Mark(w, k)' + GetAckSize
      <4>1. i \in OnTheWay(down[r]) /\ k = down[r][i].n
        BY <1>2, <3>2
      <4>2. k <= written
        <5>1. r \in handshaken /\ phase[r] # "dead"
          BY <1>1, <4>1 DEF Writes, WritesOf, Gone, OnTheWay
        <5>2. k \in base[r] + applied[r] + 1 .. SentTo(r)
          BY <1>1, <4>1, <5>1 DEF Writes, WritesOf, Numbers
        <5>3. SentTo(r) <= written /\ SentTo(r) \in Int
          BY <1>3 DEF SentTo
        <5>4. base[r] + applied[r] + 1 \in Nat
          <6>1. base[r] \in Nat /\ applied[r] \in Nat
            BY <1>1 DEF TypeOK
          <6> QED
            BY <6>1
        <5>5. \A a \in Nat, b \in Int : k \in a..b => k <= b
          OBVIOUS
        <5>6. k <= SentTo(r)
          BY <5>2, <5>3, <5>4, <5>5
        <5> QED
          BY <1>3, <5>3, <5>6
      <4>3. About(w, k) /\ Mark(w, k)' = Mark(w, k)
        BY <2>2, <3>2, <4>2
      <4>4. Position(r, i) < Mark(w, k) + GetAckSize
        BY <3>1, <4>1, <4>3 DEF MarksOf
      <4> QED
        BY <3>1, <4>3, <4>4
    <3>3. ASSUME NEW k \in Nat, phase'[r] = "dead", r \in handshaken', k = base'[r] + applied'[r] + 1,
                 About(w, k)'
          PROVE  Position(r, 1)' < Mark(w, k)' + GetAckSize
      <4>1. phase[r] = "dead" /\ r \in handshaken /\ k = NextOf(r)
        BY <1>2, <3>3 DEF NextOf
      <4>2. CASE k <= written
        <5>1. About(w, k) /\ Mark(w, k)' = Mark(w, k)
          BY <2>2, <3>3, <4>2
        <5>2. Position(r, 1) < Mark(w, k) + GetAckSize
          BY <3>1, <4>1, <5>1 DEF MarksOf
        <5> QED
          BY <3>1, <5>1, <5>2
      <4>3. CASE ~(k <= written)
        <5>1. wait[w] = "idle" /\ Mark(w, k)' = offset + WriteSize
          BY <2>3, <3>3, <4>3
        <5>2. message[w] = None /\ Executor \notin Sent(r)
          BY <1>3, <5>1 DEF Asking, Sent
        <5>3. Position(r, 1) < offset + WriteSize + GetAckSize
          BY <1>1, <5>2, ShortPosition
        <5> QED
          BY <3>1, <5>1, <5>3
      <4> QED
        BY <4>2, <4>3
    <3> QED
      BY <1>1, <3>2, <3>3, MarksNext
  <2>5. /\ wait'[w] = wait[w] /\ target'[w] = target[w] /\ goal'[w] = goal[w]
        /\ counted'[w] = counted[w] /\ Answered \in Nat /\ Answered' \in Nat /\ Answered <= Answered'
        /\ base' = base /\ applied' = applied /\ handshaken' = handshaken
    BY <1>2, <1>3, <1>4
  <2> QED
    BY <1>1, <2>1, <2>4, <2>5, WaitKept
<1> QED
  BY <1>2, <1>4, <1>5 DEF Waits

\* s sends to r: of what r is not up to, the executor's write is the only one that was not
\* on its way.
LEMMA SendWaits ==
  ASSUME Delivery, Delivery', Asking, Offsets, FewWaits, Waits, NEW s \in Sender, NEW r \in Replica,
         Send(s, r)
  PROVE  Waits'
<1>1. TypeOK /\ TypeOK' /\ Senders
  BY DEF Delivery
<1>2. /\ UNCHANGED <<offset, written, message, wait, target, goal, counted, slaveOffset, base, applied,
                     handshaken, phase>>
      /\ r \in todo[s]
      /\ down' = (IF phase[r] = "dead" THEN down ELSE [down EXCEPT ![r] = Append(@, message[s])])
  BY DEF Send, masterVars, slaveVars, waitVars
<1>3. message[s] # None /\ message[s] \in DownMsg
  <2>1. message[s] # None
    BY <1>1, <1>2 DEF Senders
  <2>2. message[s] \in DownMsg \cup {None}
    BY <1>1 DEF TypeOK
  <2> QED
    BY <2>1, <2>2
<1>4. Answered' = Answered /\ Answered \in Nat /\ written \in Nat
  BY <1>1, <1>2, AnsweredRange DEF Answered
<1>5. ASSUME NEW w \in Waiter PROVE WaitOf(w)'
  <2>1. WaitOf(w)
    BY DEF Waits
  <2>2. \A k \in Nat : (About(w, k)' <=> About(w, k)) /\ Mark(w, k)' = Mark(w, k) /\ Mark(w, k) \in Nat
    BY <1>1, <1>2, MarkNat DEF About, Mark
  <2>3. Keeps(w)
    BY <2>2 DEF Keeps
  <2>4. ASSUME NEW x \in Replica, down'[x] = down[x] PROVE MarksOf(w, x)'
    <3>1. StillDead(x)
      BY <1>2, <2>4 DEF StillDead, NextOf, Position
    <3>2. MarksOf(w, x)
      BY <2>1 DEF WaitOf
    <3>3. Steady(x)
      BY <1>1, <1>2, <2>4, SameSteady
    <3> QED
      BY <1>1, <2>3, <3>1, <3>2, <3>3, MarksKept
  <2>5. ASSUME phase[r] # "dead" PROVE MarksOf(w, r)'
    <3>1. down'[r] = Append(down[r], message[s]) /\ down[r] \in Seq(DownMsg)
      BY <1>1, <1>2, <2>5 DEF TypeOK
    <3>2. AppendsTo(down[r], message[s], down'[r])
      BY <1>3, <3>1, BytesAppend
    <3>3. \A i : Position(r, i)' = At(r) + Bytes(down'[r], i) /\ Position(r, i) = At(r) + Bytes(down[r], i)
      BY <1>2 DEF Position, At
    <3>4. ASSUME NEW i \in OnTheWay(down'[r]), NEW k \in Nat, k = down'[r][i].n, About(w, k)'
          PROVE  Position(r, i)' < Mark(w, k)' + GetAckSize
      <4>1. i \in 1..Len(down[r]) + 1 /\ Len(down[r]) \in Nat /\ down'[r][i].kind = "write"
        BY <3>2 DEF OnTheWay, AppendsTo
      <4>2. CASE i \in 1..Len(down[r])
        <5>1. i \in OnTheWay(down[r]) /\ down'[r][i] = down[r][i] /\ Bytes(down'[r], i) = Bytes(down[r], i)
          BY <3>2, <4>1, <4>2 DEF OnTheWay, AppendsTo
        <5>2. MarksOf(w, r) /\ About(w, k)
          BY <2>1, <2>2, <3>4 DEF WaitOf
        <5>3. Position(r, i) < Mark(w, k) + GetAckSize
          BY <3>4, <5>1, <5>2 DEF MarksOf
        <5> QED
          BY <2>2, <3>3, <5>1, <5>3
      <4>3. CASE i = Len(down[r]) + 1
        <5>1. down'[r][i] = message[s] /\ Bytes(down'[r], i) = Bytes(down[r], Len(down[r]) + 1)
          BY <3>2, <4>1, <4>3 DEF AppendsTo
        <5>2. s = Executor /\ k = written
          <6>1. CASE s = Executor
            <7>1. message[s] = Msg("write", written)
              BY <1>1, <1>3, <6>1, Shares
            <7> QED
              BY <3>4, <5>1, <6>1, <7>1 DEF Msg
          <6>2. CASE s # Executor
            <7>1. message[s] = Msg("getack", 0)
              BY <1>1, <1>3, <6>2, Shares
            <7> QED
              BY <4>1, <5>1, <7>1 DEF Msg
          <6> QED
            BY <6>1, <6>2
        <5>3. Executor \notin Sent(r) /\ Answered = written - 1
          BY <1>2, <1>3, <5>2 DEF Sent, Answered
        <5>4. goal[w] <= Answered /\ goal[w] \in Nat
          BY <1>1, <2>1 DEF WaitOf, TypeOK
        <5>5. ~(k <= goal[w])
          BY <1>4, <5>2, <5>3, <5>4
        <5>6. wait[w] = "idle"
          BY <2>2, <3>4, <5>5 DEF About
        <5>7. message[w] = None
          BY <5>6 DEF Asking
        <5>8. Mark(w, k) = offset + WriteSize
          BY <1>3, <5>2, <5>6 DEF Mark
        <5>9. Position(r, i)' = EndOf(r)
          BY <3>3, <5>1 DEF EndOf
        <5>10. EndOf(r) < offset + WriteSize + GetAckSize
          BY <1>1, <5>3, <5>7, ShortPosition
        <5> QED
          BY <2>2, <5>8, <5>9, <5>10
      <4> QED
        BY <4>1, <4>2, <4>3
    <3>5. phase'[r] # "dead"
      BY <1>2, <2>5
    <3> QED
      BY <1>1, <3>4, <3>5, MarksNext
  <2>6. ASSUME NEW x \in Replica PROVE MarksOf(w, x)'
    <3>1. CASE x = r /\ phase[r] # "dead"
      BY <2>5, <3>1
    <3>2. CASE ~(x = r /\ phase[r] # "dead")
      <4>1. down'[x] = down[x]
        BY <1>1, <1>2, <3>2 DEF TypeOK
      <4> QED
        BY <2>4, <4>1
    <3> QED
      BY <3>1, <3>2
  <2>7. /\ wait'[w] = wait[w] /\ target'[w] = target[w] /\ goal'[w] = goal[w]
        /\ counted'[w] = counted[w] /\ Answered' \in Nat /\ Answered <= Answered'
        /\ base' = base /\ applied' = applied /\ handshaken' = handshaken
    BY <1>2, <1>4
  <2> QED
    BY <1>1, <1>4, <2>1, <2>6, <2>7, WaitKept
<1> QED
  BY <1>2, <1>4, <1>5 DEF Waits

\* s has sent to all: the marks move with the offset.
LEMMA EndWaits ==
  ASSUME Delivery, Delivery', Asking, Waits, NEW s \in Sender, End(s)
  PROVE  Waits'
<1>1. TypeOK /\ TypeOK' /\ Senders
  BY DEF Delivery
<1>2. /\ UNCHANGED <<written, target, goal, counted, slaveOffset, base, applied, handshaken, phase, down>>
      /\ message[s] # None /\ offset' = offset + Size(message[s])
      /\ message' = [message EXCEPT ![s] = None]
      /\ wait' = [w \in Waiter |-> IF w = s THEN "count" ELSE wait[w]]
  BY DEF End, linkVars, slaveVars
<1>3. Size(message[s]) = Share(s) /\ Share(s) \in Nat \ {0} /\ offset \in Nat
  BY <1>1, <1>2, Shares DEF TypeOK
<1>4. offset' = offset + Share(s) /\ offset' # 0
  BY <1>2, <1>3
<1>5. /\ Answered \in Nat /\ written \in Nat /\ Answered <= written
      /\ message[Executor] # None => Answered = written - 1
  BY <1>1, AnsweredRange
<1>6. \A t \in Sender \ {s} : message'[t] = message[t]
  BY <1>1, <1>2 DEF TypeOK
<1>7. message'[s] = None
  BY <1>1, <1>2 DEF TypeOK
<1>8. Answered' \in Nat /\ Answered <= Answered'
  <2>1. CASE s = Executor
    <3>1. Answered' = written
      BY <1>2, <1>7, <2>1 DEF Answered
    <3> QED
      BY <1>5, <3>1
  <2>2. CASE s # Executor
    <3>1. message'[Executor] = message[Executor]
      BY <1>6, <2>2 DEF Sender
    <3>2. Answered' = Answered
      BY <1>2, <3>1 DEF Answered
    <3> QED
      BY <1>5, <3>2
  <2> QED
    BY <2>1, <2>2
<1>9. ASSUME NEW w \in Waiter PROVE WaitOf(w)'
  <2>1. WaitOf(w)
    BY DEF Waits
  <2>2. w = s => wait[w] = "send"
    BY <1>2 DEF Asking
  <2>3. wait'[w] = IF w = s THEN "count" ELSE wait[w]
    BY <1>2
  <2>4. Keeps(w)
    <3> SUFFICES ASSUME NEW k \in Nat, About(w, k)'
                 PROVE  About(w, k) /\ Mark(w, k) <= Mark(w, k)'
      BY DEF Keeps
    <3>1. CASE w = s
      <4>1. wait[w] = "send" /\ wait'[w] = "count"
        BY <2>2, <2>3, <3>1
      <4>2. About(w, k) /\ Mark(w, k) = target[w] /\ Mark(w, k)' = target[w]
        BY <1>2, <4>1 DEF About, Mark
      <4>3. target[w] \in Nat
        BY <1>1 DEF TypeOK
      <4> QED
        BY <4>2, <4>3
    <3>2. CASE w # s
      <4>1. wait'[w] = wait[w]
        BY <2>3, <3>2
      <4>2. About(w, k)
        <5>1. written' = written /\ goal' = goal
          BY <1>2
        <5> QED
          BY <4>1, <5>1 DEF About
      <4>3. CASE wait[w] = "idle"
        <5>1. CASE s = Executor
          <6>1. Mark(w, k)' = offset + WriteSize
            <7>1. message'[Executor] = None /\ wait'[w] = "idle"
              BY <1>7, <4>1, <4>3, <5>1
            <7>2. Mark(w, k)' = offset' + 0
              BY <7>1 DEF Mark
            <7>3. offset' = offset + WriteSize
              BY <1>4, <5>1 DEF Share
            <7> QED
              BY <1>3, <7>2, <7>3, ConstantsAssumption
          <6>2. Mark(w, k) \in {offset, offset + WriteSize}
            BY <1>3, <4>3 DEF Mark
          <6> QED
            BY <1>3, <4>2, <6>1, <6>2, ConstantsAssumption
        <5>2. CASE s # Executor
          <6>1. message'[Executor] = message[Executor]
            BY <1>6, <5>2 DEF Sender
          <6>2. Mark(w, k) = offset + (IF message[Executor] # None /\ k = written THEN WriteSize ELSE 0)
            BY <4>3 DEF Mark
          <6>3. Mark(w, k)' = offset' + (IF message[Executor] # None /\ k = written THEN WriteSize ELSE 0)
            BY <1>2, <4>1, <4>3, <6>1 DEF Mark
          <6> QED
            BY <1>3, <1>4, <4>2, <6>2, <6>3, ConstantsAssumption
        <5> QED
          BY <5>1, <5>2
      <4>4. CASE wait[w] = "check"
        <5>1. Mark(w, k) = offset /\ Mark(w, k)' = offset'
          BY <4>1, <4>4 DEF Mark
        <5> QED
          BY <1>3, <1>4, <4>2, <5>1
      <4>5. CASE wait[w] \notin {"idle", "check"}
        <5>1. Mark(w, k) = target[w] /\ Mark(w, k)' = target[w] /\ target[w] \in Nat
          BY <1>1, <1>2, <4>1, <4>5 DEF Mark, TypeOK
        <5> QED
          BY <4>2, <5>1
      <4> QED
        BY <4>3, <4>4, <4>5
    <3> QED
      BY <3>1, <3>2
  <2>5. ASSUME NEW r \in Replica PROVE MarksOf(w, r)'
    <3>1. StillDead(r)
      BY <1>2 DEF StillDead, NextOf, Position
    <3>2. MarksOf(w, r)
      BY <2>1 DEF WaitOf
    <3>3. Steady(r)
      BY <1>1, <1>2, SameSteady
    <3> QED
      BY <1>1, <2>4, <3>1, <3>2, <3>3, MarksKept
  <2>6. goal'[w] <= Answered'
    <3>1. goal[w] <= Answered /\ goal[w] \in Nat
      BY <1>1, <2>1 DEF WaitOf, TypeOK
    <3> QED
      BY <1>2, <1>5, <1>8, <3>1
  <2>7. wait'[w] \in {"ask", "send", "count"} => target'[w] > 0
    BY <1>2, <2>1, <2>2, <2>3 DEF WaitOf
  <2>8. wait'[w] # "answered" => counted'[w] = {}
    BY <1>2, <2>1, <2>2, <2>3 DEF WaitOf
  <2>9. \A r \in counted'[w] \cap handshaken' : base'[r] + applied'[r] >= goal'[w]
    BY <1>2, <2>1 DEF WaitOf
  <2> QED
    BY <2>5, <2>6, <2>7, <2>8, <2>9 DEF WaitOf
<1> QED
  BY <1>4, <1>9 DEF Waits

\* A step of w alone, which leaves the offset and what the slaves have.
OnlyWait(w) ==
  /\ UNCHANGED <<offset, written, base, applied, handshaken, phase, slaveOffset, down>>
  /\ message'[Executor] = message[Executor]
  /\ \A x \in Waiter \ {w} : /\ wait'[x] = wait[x] /\ target'[x] = target[x]
                             /\ goal'[x] = goal[x] /\ counted'[x] = counted[x]

\* Waits is kept when w keeps its writes and its mark, and counts nobody who lacks one.
LEMMA OnlyWaits ==
  ASSUME Delivery, Delivery', Waits, NEW w \in Waiter, OnlyWait(w),
         Keeps(w), wait'[w] \in {"ask", "send", "count"} => target'[w] > 0, goal'[w] <= Answered,
         wait'[w] # "answered" => counted'[w] = {},
         \A r \in counted'[w] \cap handshaken : base[r] + applied[r] >= goal'[w]
  PROVE  Waits'
<1>1. TypeOK /\ TypeOK' /\ Senders
  BY DEF Delivery
<1>2. /\ UNCHANGED <<offset, written, base, applied, handshaken, phase, slaveOffset, down>>
      /\ message'[Executor] = message[Executor]
  BY DEF OnlyWait
<1>3. Answered' = Answered /\ Answered \in Nat
  BY <1>1, <1>2, AnsweredRange DEF Answered
<1>4. ASSUME NEW x \in Waiter, Keeps(x), NEW r \in Replica PROVE MarksOf(x, r)'
  <2>1. StillDead(r)
    BY <1>2 DEF StillDead, NextOf, Position
  <2>2. MarksOf(x, r)
    BY DEF Waits, WaitOf
  <2>3. Steady(r)
    BY <1>1, <1>2, SameSteady
  <2> QED
    BY <1>1, <1>4, <2>1, <2>2, <2>3, MarksKept
<1>5. ASSUME NEW x \in Waiter \ {w} PROVE WaitOf(x)'
  <2>1. wait'[x] = wait[x] /\ target'[x] = target[x] /\ goal'[x] = goal[x] /\ counted'[x] = counted[x]
    BY DEF OnlyWait
  <2>2. \A k \in Nat : (About(x, k)' <=> About(x, k)) /\ Mark(x, k)' = Mark(x, k) /\ Mark(x, k) \in Nat
    BY <1>1, <1>2, <2>1, MarkNat DEF About, Mark
  <2>3. Keeps(x)
    BY <2>2 DEF Keeps
  <2>4. /\ WaitOf(x) /\ Answered' \in Nat /\ Answered <= Answered'
        /\ base' = base /\ applied' = applied /\ handshaken' = handshaken
    BY <1>2, <1>3 DEF Waits
  <2> QED
    BY <1>1, <1>3, <1>4, <2>1, <2>3, <2>4, WaitKept
<1>6. WaitOf(w)'
  BY <1>2, <1>3, <1>4 DEF WaitOf
<1> QED
  BY <1>2, <1>3, <1>5, <1>6 DEF Waits

\* The WAIT comes: it is about the writes that are answered, and all of those are in the
\* offset.
LEMMA CommandWaits ==
  ASSUME Delivery, Delivery', Waits, NEW w \in Waiter, WaitCommand(w)
  PROVE  Waits'
<1>1. TypeOK /\ TypeOK' /\ Senders /\ WaitOf(w)
  BY DEF Delivery, Waits
<1>2. /\ UNCHANGED <<offset, written, base, applied, handshaken, phase, slaveOffset, down, message,
                     target>>
      /\ wait[w] = "idle" /\ goal' = [goal EXCEPT ![w] = Answered]
      /\ \/ wait' = [wait EXCEPT ![w] = "answered"] /\ counted' = [counted EXCEPT ![w] = {}]
         \/ wait' = [wait EXCEPT ![w] = "check"] /\ counted' = counted
  BY DEF WaitCommand, Answer, masterVars, sendVars, linkVars, slaveVars
<1>3. /\ goal \in [Waiter -> Nat] /\ counted \in [Waiter -> SUBSET Replica]
      /\ wait \in [Waiter -> {"idle", "check", "ask", "send", "count", "answered"}]
  BY <1>1 DEF TypeOK
<1>4. goal'[w] = Answered /\ wait'[w] \in {"check", "answered"} /\ counted'[w] = {}
  BY <1>1, <1>2, <1>3 DEF WaitOf
<1>5. OnlyWait(w)
  BY <1>2, <1>3 DEF OnlyWait
<1>6. /\ Answered \in Nat /\ written \in Nat /\ Answered <= written
      /\ message[Executor] # None => Answered = written - 1
  BY <1>1, AnsweredRange
<1>7. Keeps(w)
  <2> SUFFICES ASSUME NEW k \in Nat, About(w, k)'
               PROVE  About(w, k) /\ Mark(w, k) <= Mark(w, k)'
    BY DEF Keeps
  <2>1. wait'[w] = "check" /\ k <= Answered
    BY <1>4 DEF About
  <2>2. k <= written /\ ~(message[Executor] # None /\ k = written)
    BY <1>6, <2>1
  <2>3. Mark(w, k) = offset + 0 /\ About(w, k)
    BY <1>2, <2>2 DEF Mark, About
  <2>4. Mark(w, k)' = offset
    BY <1>2, <2>1 DEF Mark
  <2>5. offset \in Nat
    BY <1>1 DEF TypeOK
  <2> QED
    BY <2>3, <2>4, <2>5
<1> QED
  BY <1>4, <1>5, <1>6, <1>7, OnlyWaits

\* Its first look: without a slave, and without an offset, it is answered at once.
LEMMA CheckWaits ==
  ASSUME Delivery, Delivery', Waits, NEW w \in Waiter, WaitCheck(w)
  PROVE  Waits'
<1>1. TypeOK /\ TypeOK' /\ Senders /\ WaitOf(w)
  BY DEF Delivery, Waits
<1>2. /\ UNCHANGED <<offset, written, base, applied, handshaken, phase, slaveOffset, down, message,
                     goal>>
      /\ wait[w] = "check"
  BY DEF WaitCheck, masterVars, sendVars, linkVars, slaveVars
<1>3. \/ wait' = [wait EXCEPT ![w] = "answered"] /\ counted' = [counted EXCEPT ![w] = {}] /\ target' = target
      \/ /\ wait' = [wait EXCEPT ![w] = "answered"] /\ counted' = [counted EXCEPT ![w] = registered]
         /\ target' = target /\ offset = 0
      \/ /\ wait' = [wait EXCEPT ![w] = "ask"] /\ counted' = counted
         /\ target' = [target EXCEPT ![w] = offset] /\ offset # 0
  BY DEF WaitCheck, Answer
<1>4. /\ goal \in [Waiter -> Nat] /\ counted \in [Waiter -> SUBSET Replica] /\ target \in [Waiter -> Nat]
      /\ wait \in [Waiter -> {"idle", "check", "ask", "send", "count", "answered"}] /\ offset \in Nat
  BY <1>1 DEF TypeOK
<1>5. OnlyWait(w)
  BY <1>2, <1>3, <1>4 DEF OnlyWait
<1>6. goal'[w] = goal[w] /\ goal[w] <= Answered /\ goal[w] \in Nat /\ counted[w] = {}
  BY <1>1, <1>2, <1>4 DEF WaitOf
<1>7. wait'[w] = "answered" \/ (wait'[w] = "ask" /\ target'[w] = offset /\ offset > 0 /\ counted'[w] = {})
  BY <1>3, <1>4, <1>6
<1>8. ASSUME NEW r \in counted'[w] \cap handshaken PROVE base[r] + applied[r] >= goal'[w]
  <2>1. offset = 0
    BY <1>3, <1>4, <1>6
  <2>2. goal[w] = 0
    BY <1>6, <2>1 DEF Waits
  <2>3. r \in Replica
    BY <1>1 DEF TypeOK
  <2>4. base[r] \in Nat /\ applied[r] \in Nat
    BY <1>1, <2>3 DEF TypeOK
  <2> QED
    BY <1>6, <2>2, <2>4
<1>9. Keeps(w)
  <2> SUFFICES ASSUME NEW k \in Nat, About(w, k)'
               PROVE  About(w, k) /\ Mark(w, k) <= Mark(w, k)'
    BY DEF Keeps
  <2>1. wait'[w] # "answered"
    BY DEF About
  <2>2. wait'[w] = "ask" /\ target'[w] = offset
    BY <1>7, <2>1
  <2>3. Mark(w, k) = offset /\ Mark(w, k)' = offset
    BY <1>2, <2>2 DEF Mark
  <2>4. About(w, k)
    BY <1>2, <2>2 DEF About
  <2> QED
    BY <1>4, <2>3, <2>4
<1> QED
  BY <1>5, <1>6, <1>7, <1>8, <1>9, OnlyWaits

\* It asks again.
LEMMA AskWaits ==
  ASSUME Delivery, Delivery', Waits, NEW w \in Waiter, WaitAsk(w)
  PROVE  Waits'
<1>1. TypeOK /\ TypeOK' /\ Senders /\ WaitOf(w)
  BY DEF Delivery, Waits
<1>2. /\ UNCHANGED <<offset, written, base, applied, handshaken, phase, slaveOffset, down, goal,
                     target, counted>>
      /\ wait[w] = "ask" /\ wait' = [wait EXCEPT ![w] = "send"]
      /\ message' = [message EXCEPT ![w] = Msg("getack", 0)]
  BY DEF WaitAsk, Begin, masterVars, linkVars, slaveVars
<1>3. /\ message'[Executor] = message[Executor] /\ wait'[w] = "send"
      /\ \A x \in Waiter \ {w} : wait'[x] = wait[x]
  BY <1>1, <1>2, ConstantsAssumption DEF TypeOK, Sender
<1>4. OnlyWait(w)
  BY <1>2, <1>3 DEF OnlyWait
<1>5. Keeps(w)
  <2>1. target[w] \in Nat
    BY <1>1 DEF TypeOK
  <2>2. \A k \in Nat : (About(w, k)' <=> About(w, k)) /\ Mark(w, k)' = Mark(w, k) /\ Mark(w, k) \in Nat
    BY <1>2, <1>3, <2>1 DEF About, Mark
  <2> QED
    BY <2>2 DEF Keeps
<1> QED
  BY <1>1, <1>2, <1>3, <1>4, <1>5, OnlyWaits DEF WaitOf

\* It counts: a slave that lacks one of the writes it is about has not acknowledged its
\* target.
LEMMA CountedHas ==
  ASSUME Delivery, AcksRise, Waits, NEW w \in Waiter, wait[w] = "count",
         NEW r \in Updated(w) \cap handshaken
  PROVE  base[r] + applied[r] >= goal[w]
<1>1. TypeOK /\ Senders /\ WaitOf(w) /\ r \in Replica
  BY DEF Delivery, Waits, Updated, TypeOK
<1>2. /\ base[r] \in Nat /\ applied[r] \in Nat /\ goal[w] \in Nat /\ target[w] \in Nat
      /\ lastAck[r] \in Int /\ slaveOffset[r] \in Int
  BY <1>1 DEF TypeOK
<1>3. target[w] > 0 /\ goal[w] <= Answered /\ MarksOf(w, r)
  BY <1>1 DEF WaitOf
<1>4. lastAck[r] >= target[w]
  BY DEF Updated
<1>5. lastAck[r] > 0 /\ GetAckSize \in Nat
  BY <1>2, <1>3, <1>4, ConstantsAssumption
<1>6. lastAck[r] + GetAckSize <= slaveOffset[r]
  BY <1>1, <1>5 DEF AcksRise, AcksRiseOf
<1>7. Position(r, 1) >= target[w] + GetAckSize /\ Position(r, 1) \in Nat
  <2>1. At(r) = slaveOffset[r]
    BY <1>2, <1>5, <1>6 DEF At
  <2>2. Position(r, 1) = At(r) /\ At(r) \in Nat
    BY <1>1, PositionNat
  <2> QED
    BY <1>2, <1>4, <1>5, <1>6, <2>1, <2>2
<1> SUFFICES ASSUME NextOf(r) <= goal[w] PROVE FALSE
  <2>1. ~(NextOf(r) <= goal[w])
    OBVIOUS
  <2> QED
    BY <1>2, <2>1 DEF NextOf
<1>8. About(w, NextOf(r)) /\ Mark(w, NextOf(r)) = target[w]
  BY DEF About, Mark
<1>9. CASE phase[r] = "dead"
  <2>1. Position(r, 1) < Mark(w, NextOf(r)) + GetAckSize
    BY <1>3, <1>8, <1>9 DEF MarksOf
  <2> QED
    BY <1>2, <1>5, <1>7, <1>8, <2>1
<1>10. CASE phase[r] # "dead"
  <2>1. Answered <= SentTo(r) /\ Answered \in Nat /\ SentTo(r) \in Int
    BY <1>1, AnsweredRange DEF SentTo
  <2>2. NextOf(r) \in Nat
    BY <1>2 DEF NextOf
  <2>3. NextOf(r) <= SentTo(r)
    BY <1>2, <1>3, <2>1, <2>2
  <2>4. Position(r, 1) < Mark(w, NextOf(r)) + GetAckSize
    BY <1>1, <1>3, <1>8, <1>10, <2>3, Lacks
  <2> QED
    BY <1>2, <1>5, <1>7, <1>8, <2>4
<1> QED
  BY <1>9, <1>10

\* It counts, and is answered or asks again.
LEMMA CountWaits ==
  ASSUME Delivery, Delivery', AcksRise, Waits, NEW w \in Waiter, WaitCount(w)
  PROVE  Waits'
<1>1. TypeOK /\ TypeOK' /\ Senders /\ WaitOf(w)
  BY DEF Delivery, Waits
<1>2. /\ UNCHANGED <<offset, written, base, applied, handshaken, phase, slaveOffset, down, message,
                     goal, target>>
      /\ wait[w] = "count"
      /\ \/ wait' = [wait EXCEPT ![w] = "answered"] /\ counted' = [counted EXCEPT ![w] = Updated(w)]
         \/ wait' = [wait EXCEPT ![w] = "ask"] /\ counted' = counted
  BY DEF WaitCount, Answer, masterVars, sendVars, linkVars, slaveVars
<1>3. /\ counted \in [Waiter -> SUBSET Replica]
      /\ wait \in [Waiter -> {"idle", "check", "ask", "send", "count", "answered"}]
  BY <1>1 DEF TypeOK
<1>4. OnlyWait(w)
  BY <1>2, <1>3 DEF OnlyWait
<1>5. counted[w] = {} /\ target[w] > 0 /\ goal[w] <= Answered
  BY <1>1, <1>2 DEF WaitOf
<1>6. \/ wait'[w] = "answered" /\ counted'[w] = Updated(w)
      \/ wait'[w] = "ask" /\ counted'[w] = {}
  BY <1>2, <1>3, <1>5
<1>7. Keeps(w)
  <2> SUFFICES ASSUME NEW k \in Nat, About(w, k)'
               PROVE  About(w, k) /\ Mark(w, k) <= Mark(w, k)'
    BY DEF Keeps
  <2>1. wait'[w] # "answered"
    BY DEF About
  <2>2. wait'[w] = "ask" /\ target' = target /\ goal' = goal
    BY <1>2, <1>6, <2>1
  <2>3. Mark(w, k) = target[w] /\ Mark(w, k)' = target[w] /\ target[w] \in Nat
    BY <1>1, <1>2, <2>2 DEF Mark, TypeOK
  <2>4. About(w, k)
    BY <1>2, <2>2 DEF About
  <2> QED
    BY <2>3, <2>4
<1>8. \A r \in counted'[w] \cap handshaken : base[r] + applied[r] >= goal'[w]
  BY <1>2, <1>6, CountedHas
<1> QED
  BY <1>2, <1>4, <1>5, <1>6, <1>7, <1>8, OnlyWaits

-----------------------------------------------------------------------------
(* All steps together.                                                     *)

\* Each step keeps Waits.
LEMMA StepWaits ==
  ASSUME Delivery, Delivery', AcksRise, Asking, Gone, Offsets, FewWaits, Waits, [Next]_vars
  PROVE  Waits'
<1>1. TypeOK /\ TypeOK' /\ Senders
  BY DEF Delivery
<1>2. ASSUME UNCHANGED <<offset, written, message, wait, target, goal, counted, base, handshaken, applied,
                         phase, slaveOffset, down>>
      PROVE  Waits'
  <2>1. \A x \in Replica : Steady(x)
    BY <1>1, <1>2, SameSteady
  <2>2. \A x \in Replica : applied[x] \in Nat
    BY <1>1 DEF TypeOK
  <2>3. Quiet
    BY <1>2, <2>1, <2>2 DEF Quiet
  <2> QED
    BY <1>1, <2>3, QuietWaits
<1>3. CASE UNCHANGED vars
  BY <1>2, <1>3 DEF vars, masterVars, sendVars, linkVars, slaveVars, waitVars
<1>4. CASE Write
  BY <1>4, WriteWaits
<1>5. ASSUME NEW s \in Sender, SendStep(s) PROVE Waits'
  BY <1>5, SendWaits, EndWaits DEF SendStep
<1>6. ASSUME NEW r \in Replica, SessionStep(r) \/ Connect(r) \/ SlaveStep(r) PROVE Waits'
  <2>1. CASE UNCHANGED <<handshaken, base>>
    <3>1. Quiet
      BY <1>6, <2>1, QuietSteps
    <3> QED
      BY <1>1, <3>1, QuietWaits
  <2>2. CASE ~UNCHANGED <<handshaken, base>>
    <3>1. ASSUME Connect(r) \/ SlaveStep(r) PROVE UNCHANGED <<handshaken, base>>
      BY <3>1 DEF Connect, SlaveStep, Handshake, Expect, FullResync, LoadSnapshot, ApplyWrite,
                  GetAck, masterVars
    <3>2. ASSUME SessionStep(r), ~PsyncMark(r) PROVE UNCHANGED <<handshaken, base>>
      BY <3>2 DEF SessionStep, SessionRead, Ping, Replconf, Psync, PsyncFile, Ack, masterVars
    <3>3. PsyncMark(r)
      BY <1>6, <2>2, <3>1, <3>2
    <3>4. r \notin handshaken
      BY <2>2, <3>3 DEF PsyncMark
    <3> QED
      BY <3>3, <3>4, MarkWaits
  <2> QED
    BY <2>1, <2>2
<1>7. ASSUME NEW r \in Replica, Crash(r) PROVE Waits'
  BY <1>7, CrashWaits
<1>8. CASE ConcurrentMapAbort
  BY <1>2, <1>8 DEF ConcurrentMapAbort, sendVars, slaveVars, waitVars
<1>9. ASSUME NEW w \in Waiter, WaitCommand(w) \/ WaitStep(w) PROVE Waits'
  <2>1. CASE Deadline(w)
    BY <1>2, <2>1 DEF Deadline, masterVars, sendVars, linkVars, slaveVars
  <2> QED
    BY <1>9, <2>1, CommandWaits, CheckWaits, AskWaits, CountWaits DEF WaitStep
<1> QED
  BY <1>3, <1>4, <1>5, <1>6, <1>7, <1>8, <1>9 DEF Next

\* There was no write and no WAIT.
LEMMA InitWaits ==
  ASSUME Init
  PROVE  Gone /\ Waits
<1>1. /\ wait = [w \in Waiter |-> "idle"] /\ counted = [w \in Waiter |-> {}]
      /\ goal = [w \in Waiter |-> 0] /\ phase = [r \in Replica |-> "off"]
      /\ down = [r \in Replica |-> <<>>] /\ written = 0 /\ offset = 0
  BY DEF Init
<1>2. message[Executor] = None
  BY DEF Init, Sender
<1>3. Answered = 0
  BY <1>1, <1>2 DEF Answered
<1>4. ASSUME NEW w \in Waiter, NEW r \in Replica PROVE MarksOf(w, r)
  BY <1>1 DEF MarksOf, OnTheWay
<1>5. \A w \in Waiter : WaitOf(w)
  BY <1>1, <1>3, <1>4 DEF WaitOf
<1> QED
  BY <1>1, <1>3, <1>5 DEF Gone, Waits

\* What the invariant says of WaitIsSound.
LEMMA WaitsSound ==
  ASSUME TypeOK, Waits
  PROVE  WaitIsSound
<1> SUFFICES ASSUME NEW w \in Waiter, NEW r \in counted[w], Early(r) PROVE applied[r] >= goal[w]
  BY DEF WaitIsSound
<1>1. r \in Replica /\ r \in handshaken /\ base[r] = 0
  BY DEF TypeOK, Early
<1>2. base[r] + applied[r] >= goal[w]
  BY <1>1 DEF Waits, WaitOf
<1>3. applied[r] \in Nat /\ goal[w] \in Nat
  BY <1>1 DEF TypeOK
<1> QED
  BY <1>1, <1>2, <1>3

-----------------------------------------------------------------------------
(* The theorems.                                                           *)

\* The inductive invariant: what is on every connection, the order of acknowledgements,
\* the bytes every slave has been sent, and, with FewWaits, what every WAIT has asked for.
THEOREM ReplicationInductive == Spec => []RInv
<1>1. Init => RInv
  BY InitDelivery, InitRises, InitOffsets, InitWaits DEF RInv
<1>2. ASSUME RInv, [Next]_vars PROVE RInv'
  <2>1. Delivery /\ AcksRise /\ Asking /\ Gone /\ Offsets /\ (FewWaits => Waits) /\ TypeOK
    BY <1>2 DEF RInv, Delivery
  <2>2. Delivery'
    BY <1>2, <2>1, NextDelivery
  <2>3. AcksRise'
    BY <1>2, <2>1, <2>2, StepRises
  <2>4. Asking' /\ Gone'
    BY <1>2, <2>1, AskingKept, GoneKept
  <2>5. Offsets'
    BY <1>2, <2>1, <2>2, StepOffsets
  <2>6. FewWaits => Waits'
    BY <1>2, <2>1, <2>2, StepWaits
  <2>7. FewWaits' <=> FewWaits
    BY DEF FewWaits
  <2> QED
    BY <2>2, <2>3, <2>4, <2>5, <2>6, <2>7 DEF RInv
<1> QED
  BY <1>1, <1>2, PTL DEF Spec

\* Every variable keeps to its type.
THEOREM ReplicationTypes == Spec => []TypeOK
<1>1. RInv => TypeOK
  BY DEF RInv, Delivery
<1> QED
  BY <1>1, ReplicationInductive, PTL

\* A replica's last acknowledgement never claims more than it has processed.
THEOREM AcknowledgementsAreTrue == Spec => []AcksAreTrue
<1>1. RInv => AcksAreTrue
  BY DEF RInv, Delivery, Acks, AcksOf, AcksAreTrue
<1> QED
  BY <1>1, ReplicationInductive, PTL

\* The acknowledgement that counts for a replica never goes back, in whatever pieces the
\* master's session reads and parses what the replica sends.
THEOREM AcknowledgementsGrow == Spec => AcksGrow
<1>1. ASSUME RInv, RInv', [Next]_vars, NEW r \in Replica PROVE lastAck'[r] >= lastAck[r]
  <2>1. Delivery /\ Delivery' /\ AcksRise
    BY <1>1 DEF RInv
  <2>2. lastAck[r] <= lastAck'[r]
    BY <1>1, <2>1, StepRises
  <2>3. lastAck[r] \in Int /\ lastAck'[r] \in Int
    BY <2>1 DEF Delivery, TypeOK
  <2> QED
    BY <2>2, <2>3
<1>2. RInv /\ RInv' /\ [Next]_vars => [\A r \in Replica : lastAck'[r] >= lastAck[r]]_vars
  BY <1>1
<1> QED
  BY <1>2, ReplicationInductive, PTL DEF Spec, AcksGrow

\* A slave's offset, with what is on its way to it, is never ahead of the master's offset
\* and what the master is propagating.
THEOREM SlavesStayBehind == Spec => []SlaveBehind
<1>1. RInv => SlaveBehind
  BY OffsetsBehind DEF RInv, Delivery
<1> QED
  BY <1>1, ReplicationInductive, PTL

\* A WAIT counts a replica that was there from the start only if it has executed every write
\* that was answered before the WAIT came.  WAIT compares bytes and not writes: with more
\* WAITs at a time than FewWaits allows, their GETACKs make up for a write.
THEOREM WaitCountsTheRight ==
  ASSUME FewWaits
  PROVE  Spec => []WaitIsSound
<1>1. RInv => WaitIsSound
  BY WaitsSound DEF RInv, Delivery
<1> QED
  BY <1>1, ReplicationInductive, PTL

\* A slave executes the master's writes in order, and none is missing after the
\* first, however propagation, handshakes, WAITs and crashes interleave.
THEOREM WritesWithoutGap == Spec => NoGap
<1>1. ASSUME RInv, [Next]_vars, NEW r \in Replica, applied'[r] # applied[r]
      PROVE  Head(down[r]).n = base[r] + applied[r] + 1
  <2>1. PICK x \in Replica : ApplyWrite(x)
    BY <1>1, OnlyApplyWrite
  <2>2. Delivery /\ TypeOK
    BY <1>1 DEF RInv, Delivery
  <2>3. x = r
    BY <1>1, <2>1, <2>2 DEF ApplyWrite, TypeOK
  <2> QED
    BY <1>1, <2>1, <2>2, <2>3, NextWrite DEF ApplyWrite
<1>2. RInv /\ [Next]_vars =>
        [\A r \in Replica :
           applied'[r] # applied[r] => Head(down[r]).n = base[r] + applied[r] + 1]_vars
  BY <1>1
<1> QED
  BY <1>2, ReplicationInductive, PTL DEF Spec, NoGap

=============================================================================
