--------------------------- MODULE ExecutorProofs ---------------------------
(***************************************************************************)
(* The invariant of Executor, that it is inductive, and what follows:      *)
(* Awake    types, what the place the executor is at says of its           *)
(*          variables, and that a key that holds something and has waiters *)
(*          is still to be looked at;                                      *)
(* Fresh    no request is executed twice, so the elements it pushes are    *)
(*          nowhere yet: the step is one of ListService;                   *)
(* Good     while no timeout interfered, and with at most two commands     *)
(*          that can block on a key: who is on which list of waiters, what *)
(*          is left of the range, and which answer goes with an element.   *)
(***************************************************************************)
EXTENDS Executor, SequenceTheorems, WellFoundedInduction, TLAPS

-----------------------------------------------------------------------------
(* Helpers.                                                                *)

\* The least element of a nonempty set of naturals exists.
LEMMA MinMember ==
  ASSUME NEW S \in SUBSET Nat, S # {}
  PROVE  Min(S) \in S /\ \A y \in S : Min(S) <= y
<1> DEFINE R == {p \in Nat \X Nat : p[1] < p[2]}
<1>1. IsWellFoundedOn(R, Nat)
  BY NatLessThanWellFounded DEF OpToRel
<1>2. PICK x \in S : \A y \in S : <<y, x>> \notin R
  BY <1>1, WFMin
<1>3. \A y \in S : x <= y
  <2> SUFFICES ASSUME NEW y \in S, y < x PROVE FALSE
    OBVIOUS
  <2>1. <<y, x>> \in R
    OBVIOUS
  <2> QED
    BY <1>2, <2>1
<1> QED
  BY <1>3 DEF Min

\* The first place of a member of a sequence is one of its places.
LEMMA PositionProperties ==
  ASSUME NEW T, NEW s \in Seq(T), NEW e \in ToSet(s)
  PROVE  Position(s, e) \in 1..Len(s) /\ s[Position(s, e)] = e
<1> DEFINE I == {i \in DOMAIN s : s[i] = e}
<1>1. I \in SUBSET Nat /\ I # {}
  BY LenProperties DEF ToSet
<1>2. Min(I) \in I
  BY <1>1, MinMember
<1> QED
  BY <1>2, LenProperties DEF Position

\* Cutting an element out of a sequence leaves a sequence over the same set.
LEMMA WithoutProperties ==
  ASSUME NEW T, NEW s \in Seq(T), NEW e
  PROVE  Without(s, e) \in Seq(T) /\ (s = <<>> => Without(s, e) = <<>>)
<1>1. CASE e \in ToSet(s)
  <2> DEFINE n == Position(s, e)
  <2>1. n \in 1..Len(s)
    BY <1>1, PositionProperties
  <2>2. SubSeq(s, 1, n - 1) \in Seq(T) /\ SubSeq(s, n + 1, Len(s)) \in Seq(T)
    BY <2>1, LenProperties, SubSeqProperties
  <2>3. s # <<>>
    BY <1>1 DEF ToSet
  <2> HIDE DEF n
  <2> QED
    BY <1>1, <2>2, <2>3, ConcatProperties DEF Without, RemoveAt, n
<1>2. CASE e \notin ToSet(s)
  BY <1>2 DEF Without
<1> QED
  BY <1>1, <1>2

\* The shift in place moves elements within the memory and adds none.
LEMMA ShiftedProperties ==
  ASSUME NEW T, NEW a \in Seq(T), NEW s, NEW e
  PROVE  Shifted(a, s, e) \in Seq(T)
<1> DEFINE f == [p \in DOMAIN a |->
                   IF Position(s, e) <= p /\ p < Len(s) /\ p < Len(a) THEN a[p + 1] ELSE a[p]]
<1>1. DOMAIN a = 1..Len(a) /\ Len(a) \in Nat /\ \A i \in 1..Len(a) : a[i] \in T
  BY LenProperties, ElementOfSeq
<1>2. f \in [1..Len(a) -> T]
  BY <1>1
<1>3. f \in Seq(T)
  BY <1>1, <1>2
<1> QED
  BY <1>3 DEF Shifted

\* A concatenation has the members of both its parts.
LEMMA ConcatMembers ==
  ASSUME NEW T, NEW s \in Seq(T), NEW t \in Seq(T)
  PROVE  s \o t \in Seq(T) /\ ToSet(s) \subseteq ToSet(s \o t) /\ ToSet(t) \subseteq ToSet(s \o t)
<1> DEFINE u == s \o t
<1>1. /\ u \in Seq(T) /\ Len(u) = Len(s) + Len(t)
      /\ \A i \in 1..Len(s) + Len(t) : u[i] = IF i <= Len(s) THEN s[i] ELSE t[i - Len(s)]
  BY ConcatProperties
<1>2. /\ DOMAIN s = 1..Len(s) /\ Len(s) \in Nat
      /\ DOMAIN t = 1..Len(t) /\ Len(t) \in Nat
      /\ DOMAIN u = 1..Len(u)
  BY <1>1, LenProperties
<1> HIDE DEF u
<1>3. ASSUME NEW i \in 1..Len(s) PROVE s[i] = u[i] /\ i \in DOMAIN u
  BY <1>1, <1>2
<1>4. ASSUME NEW i \in 1..Len(t) PROVE t[i] = u[i + Len(s)] /\ i + Len(s) \in DOMAIN u
  <2> DEFINE n == i + Len(s)
  <2>1. n \in 1..Len(s) + Len(t) /\ ~(n <= Len(s)) /\ n - Len(s) = i
    BY <1>2
  <2> HIDE DEF n
  <2>2. t[i] = u[n] /\ n \in DOMAIN u
    BY <1>1, <1>2, <2>1
  <2> QED
    BY <2>2 DEF n
<1>5. ToSet(s) \subseteq ToSet(u)
  BY <1>2, <1>3 DEF ToSet
<1>6. ToSet(t) \subseteq ToSet(u)
  BY <1>2, <1>4 DEF ToSet
<1> QED
  BY <1>1, <1>5, <1>6 DEF u

LEMMA OpType ==
  ASSUME NEW c \in Cmd, NEW s \in 1..Len(Body[c])
  PROVE  Body[c][s] \in Op
BY ConstantsAssumption, ElementOfSeq

LEMMA OpKeys ==
  ASSUME NEW op \in Op
  PROVE  /\ op.keys \in Seq(Key) /\ op.keys # <<>>
         /\ Len(op.keys) \in Nat \ {0} /\ op.keys[1] \in Key /\ op.count \in Nat
<1>1. op.keys \in Seq(Key) \ {<<>>} /\ op.count \in Nat
  BY DEF Op
<1>2. Len(op.keys) \in Nat \ {0}
  BY <1>1, EmptySeq
<1> QED
  BY <1>1, <1>2, ElementOfSeq

LEMMA BatchType ==
  ASSUME NEW c \in Cmd, NEW s \in Nat, NEW op \in Op
  PROVE  Batch(c, s, op) \in Seq(Elem)
<1> DEFINE n == op.count
           e(i) == <<c, s, IF op.front THEN n + 1 - i ELSE i>>
<1>1. n \in Nat
  BY OpKeys
<1> HIDE DEF n
<1>2. ASSUME NEW i \in 1..n PROVE e(i) \in Elem
  BY <1>1 DEF Elem
<1> HIDE DEF e
<1>3. [i \in 1..n |-> e(i)] \in Seq(Elem)
  BY <1>1, <1>2, IsASeq
<1> QED
  BY <1>3 DEF Batch, n, e

\* A plain command has one operation, and that one names keys.
LEMMA PlainKeys ==
  ASSUME NEW c \in Plain
  PROVE  /\ c \in Cmd /\ Len(Body[c]) = 1 /\ Body[c] # <<>>
         /\ Keys(c) \in Seq(Key) /\ Keys(c) # <<>> /\ Len(Keys(c)) \in Nat \ {0}
         /\ \A i \in 1..Len(Keys(c)) : Keys(c)[i] \in Key /\ c \in WaitersOn(Keys(c)[i])
<1>1. c \in Cmd /\ Len(Body[c]) = 1 /\ Body[c] \in Seq(Op)
  BY ConstantsAssumption DEF Plain
<1>2. Body[c][1] \in Op
  BY <1>1, ElementOfSeq
<1>3. Keys(c) \in Seq(Key) /\ Keys(c) # <<>> /\ Len(Keys(c)) \in Nat \ {0}
  BY <1>2, OpKeys DEF Keys
<1>4. \A i \in 1..Len(Keys(c)) : Keys(c)[i] \in Key /\ Keys(c)[i] \in ToSet(Keys(c))
  BY <1>3, ElementOfSeq, LenProperties DEF ToSet
<1>5. Body[c] # <<>>
  <2> SUFFICES ASSUME Body[c] = <<>> PROVE FALSE
    OBVIOUS
  <2>1. Len(Body[c]) = 0
    BY <1>1, EmptySeq
  <2> QED
    BY <1>1, <2>1
<1> QED
  BY <1>1, <1>3, <1>4, <1>5 DEF WaitersOn

\* Where a blocking pop stops.
LEMMA HitKeyProperties ==
  ASSUME NEW ks \in Seq(Key), ~Blocks(ks)
  PROVE  HitKey(ks) \in Key /\ Ready(HitKey(ks))
<1> DEFINE I == {i \in DOMAIN ks : Ready(ks[i])}
<1>1. I \in SUBSET Nat /\ I # {}
  BY LenProperties DEF Blocks
<1>2. Min(I) \in I
  BY <1>1, MinMember
<1> QED
  BY <1>2, LenProperties, ElementOfSeq DEF HitKey

\* A pop on behalf of a command keeps the types, and makes no key ready.
LEMMA PopProperties ==
  ASSUME NEW k \in Key, NEW c \in Cmd, TypeOK, Pop(k, c)
  PROVE  /\ list' \in [Key -> Seq(Elem)] /\ taken' \in [Cmd -> Seq(Elem)]
         /\ \A j \in Key : list'[j] # <<>> => list[j] # <<>>
<1>1. CASE list[k] # <<>>
  <2>1. list[k] \in Seq(Elem) /\ taken[c] \in Seq(Elem)
    BY DEF TypeOK
  <2>2. Tail(list[k]) \in Seq(Elem) /\ Head(list[k]) \in Elem
    BY <1>1, <2>1, HeadTailProperties
  <2>3. Append(taken[c], Head(list[k])) \in Seq(Elem)
    BY <2>1, <2>2
  <2> QED
    BY <1>1, <2>2, <2>3 DEF Pop, TypeOK
<1>2. CASE list[k] = <<>>
  BY <1>2 DEF Pop, TypeOK
<1> QED
  BY <1>1, <1>2

-----------------------------------------------------------------------------
(* The initial state, and one lemma per action: each keeps Awake.           *)

LEMMA InitAwake == Init => Awake
<1> SUFFICES ASSUME Init PROVE Awake
  OBVIOUS
<1>1. TypeOK
  BY ConstantsAssumption DEF Init, TypeOK
<1>2. Control
  BY DEF Init, Control
<1>3. Covered
  BY DEF Init, Covered
<1> QED
  BY <1>1, <1>2, <1>3 DEF Awake

LEMMA IssueAwake ==
  ASSUME Awake, NEW c \in Cmd, Issue(c)
  PROVE  Awake'
<1> USE DEF Awake, queueVars, dataVars, scanVars, timerVars
<1>1. TypeOK'
  <2>1. cmdQueue' \in Seq(Cmd) /\ txQueue' \in Seq(Cmd)
    <3>1. cmdQueue \in Seq(Cmd) /\ txQueue \in Seq(Cmd)
      BY DEF TypeOK
    <3>2. CASE IsTx[c]
      BY <3>1, <3>2 DEF Issue
    <3>3. CASE ~IsTx[c]
      BY <3>1, <3>3 DEF Issue
    <3> QED
      BY <3>2, <3>3
  <2>2. issued' \in SUBSET Cmd /\ UNCHANGED <<list, str, taken, answer, log, pc, cur>>
    BY DEF TypeOK, Issue
  <2>3. UNCHANGED <<step, todo, reply, array, pos, last, wreply, woken, waiting,
                    timer, tstep, snap, raced>>
    BY DEF Issue
  <2> QED
    BY <2>1, <2>2, <2>3 DEF TypeOK
<1>2. Control'
  BY DEF Control, Issue, Blocks, Ready
<1>3. Covered'
  BY DEF Covered, Issue, Ready
<1> QED
  BY <1>1, <1>2, <1>3

LEMMA BeginAwake ==
  ASSUME Awake, NEW c \in Cmd, Begin(c),
         cmdQueue' \in Seq(Cmd), txQueue' \in Seq(Cmd)
  PROVE  Awake'
<1> USE DEF Awake, dataVars, scanVars, timerVars
<1>1. TypeOK'
  BY SMTT(30) DEF TypeOK, Begin
<1>2. Control'
  <2>1. Body[c] # <<>> => 1 \in 1..Len(Body[c])
    BY ConstantsAssumption, EmptySeq
  <2> QED
    BY <2>1 DEF Control, Begin, Blocks, Ready
<1>3. Covered'
  BY DEF Covered, Begin, Ready, Control
<1> QED
  BY <1>1, <1>2, <1>3

\* An operation of a request that goes on to the next one. What it made ready
\* is among the keys it reports as modified.
LEMMA OperationAwake ==
  ASSUME Awake, pc = "body", cur \in Cmd,
         NEW r \in {"ok", "value", "nil", "error"}, NEW modified \in Seq(Key),
         NextOperation(r, modified),
         list' \in [Key -> Seq(Elem)], str' \in SUBSET Key, taken' \in [Cmd -> Seq(Elem)],
         \A j \in Key : Ready(j)' => Ready(j) \/ j \in ToSet(modified),
         UNCHANGED <<queueVars, answer, log, cur, scanVars, waiting, timerVars, raced>>
  PROVE  Awake'
<1> USE DEF Awake, queueVars, dataVars, scanVars, timerVars
<1>1. /\ todo \in Seq(Key) /\ step \in 1..Len(Body[cur]) /\ Len(Body[cur]) \in Nat
      /\ todo' = todo \o modified /\ step' = step + 1
  BY ConstantsAssumption, LenProperties DEF TypeOK, Control, NextOperation
<1>2. /\ todo' \in Seq(Key)
      /\ \A j \in Key : j \in ToSet(todo) \/ j \in ToSet(modified) => j \in ToSet(todo')
  BY <1>1, ConcatMembers
<1>3. /\ pc' \in {"body", "unblock"} /\ reply' \in {"ok", "value", "nil", "error"}
      /\ pc' = "body" => step' \in 1..Len(Body[cur]) /\ step' # 1
  BY <1>1 DEF NextOperation
<1>4. TypeOK'
  BY <1>1, <1>2, <1>3, SMTT(30) DEF TypeOK
<1>5. Control'
  BY <1>3, SMTT(30) DEF Control
<1>6. Covered'
  BY <1>2, SMTT(30) DEF Covered
<1> QED
  BY <1>4, <1>5, <1>6

LEMMA PushAwake == ASSUME Awake, Push PROVE Awake'
<1> DEFINE op == Body[cur][step]
           k  == op.keys[1]
<1>1. pc = "body" /\ cur \in Cmd /\ step \in 1..Len(Body[cur]) /\ TypeOK
  BY DEF Push, Running, Awake, Control
<1>2. op \in Op /\ k \in Key /\ op.count \in Nat
  BY <1>1, OpType, OpKeys
<1>3. CASE k \in str
  BY <1>1, <1>3, OperationAwake, EmptySeq DEF Push, TypeOK, Ready
<1>4. CASE k \notin str
  <2>1. list' = [list EXCEPT ![k] = Pushed(k, op)] /\ NextOperation("ok", <<k>>)
    BY <1>4 DEF Push
  <2>2. Batch(cur, step, op) \in Seq(Elem)
    BY <1>1, <1>2, BatchType DEF TypeOK
  <2>3. Pushed(k, op) \in Seq(Elem)
    BY <1>1, <1>2, <2>2, ConcatProperties DEF Pushed, TypeOK
  <2>4. list' \in [Key -> Seq(Elem)] /\ \A j \in Key \ {k} : list'[j] = list[j]
    BY <1>1, <1>2, <2>1, <2>3 DEF TypeOK
  <2>5. \A j \in Key : Ready(j)' => Ready(j) \/ j \in ToSet(<<k>>)
    BY <2>4 DEF Ready, Push, ToSet
  <2>6. <<k>> \in Seq(Key)
    BY <1>2
  <2>7. /\ UNCHANGED <<queueVars, answer, log, cur, scanVars, waiting, timerVars, raced>>
        /\ str' \in SUBSET Key /\ taken' \in [Cmd -> Seq(Elem)]
    BY <1>1 DEF Push, TypeOK
  <2> HIDE DEF k, op
  <2> QED
    BY <1>1, <2>1, <2>4, <2>5, <2>6, <2>7, OperationAwake
<1> QED
  BY <1>3, <1>4

LEMMA SetStringAwake == ASSUME Awake, SetString PROVE Awake'
<1> DEFINE k == Body[cur][step].keys[1]
<1>1. pc = "body" /\ cur \in Cmd /\ step \in 1..Len(Body[cur]) /\ TypeOK
  BY DEF SetString, Running, Awake, Control
<1>2. k \in Key
  BY <1>1, OpType, OpKeys
<1>3. /\ str' = str \cup {k} /\ list' = [list EXCEPT ![k] = <<>>]
      /\ NextOperation("ok", <<k>>)
      /\ UNCHANGED <<taken, queueVars, answer, log, cur, scanVars, waiting, timerVars, raced>>
  BY DEF SetString
<1> HIDE DEF k
<1>4. /\ list' \in [Key -> Seq(Elem)] /\ str' \in SUBSET Key
      /\ taken' \in [Cmd -> Seq(Elem)]
  BY <1>1, <1>2, <1>3, EmptySeq DEF TypeOK
<1>5. \A j \in Key : Ready(j)' => Ready(j) \/ j \in ToSet(<<k>>)
  BY <1>1, <1>2, <1>3 DEF Ready, ToSet, TypeOK
<1>6. <<k>> \in Seq(Key)
  BY <1>2
<1> QED
  BY <1>1, <1>3, <1>4, <1>5, <1>6, OperationAwake

LEMMA PopLeftAwake == ASSUME Awake, PopLeft PROVE Awake'
<1> DEFINE k == Body[cur][step].keys[1]
           r == IF list[k] # <<>> THEN "value" ELSE "nil"
<1>1. pc = "body" /\ cur \in Cmd /\ step \in 1..Len(Body[cur]) /\ TypeOK
  BY DEF PopLeft, Running, Awake, Control
<1>2. k \in Key
  BY <1>1, OpType, OpKeys
<1>3. /\ Pop(k, cur) /\ NextOperation(r, <<>>)
      /\ UNCHANGED <<str, queueVars, answer, log, cur, scanVars, waiting, timerVars, raced>>
  BY DEF PopLeft
<1>4. r \in {"ok", "value", "nil", "error"} /\ <<>> \in Seq(Key)
  BY EmptySeq
<1> HIDE DEF k, r
<1>5. /\ list' \in [Key -> Seq(Elem)] /\ str' \in SUBSET Key
      /\ taken' \in [Cmd -> Seq(Elem)]
      /\ \A j \in Key : list'[j] # <<>> => list[j] # <<>>
  BY <1>1, <1>2, <1>3, PopProperties DEF TypeOK
<1>6. \A j \in Key : Ready(j)' => Ready(j)
  BY <1>3, <1>5 DEF Ready
<1> QED
  BY <1>1, <1>3, <1>4, <1>5, <1>6, OperationAwake

LEMMA BlockingPopAwake == ASSUME Awake, BlockingPop PROVE Awake'
<1> DEFINE ks == Body[cur][step].keys
           k  == HitKey(ks)
           m  == IF k \in str THEN <<>> ELSE <<k>>
<1>1. pc = "body" /\ cur \in Cmd /\ step \in 1..Len(Body[cur]) /\ TypeOK
  BY DEF BlockingPop, Running, Awake, Control
<1>2. k \in Key
  <2>1. ks \in Seq(Key) /\ ~Blocks(ks)
    BY <1>1, OpType, OpKeys DEF BlockingPop
  <2> QED
    BY <2>1, HitKeyProperties
<1>3. /\ Pop(k, cur) /\ NextOperation(PopReply(k), m)
      /\ UNCHANGED <<str, queueVars, answer, log, cur, scanVars, waiting, timerVars, raced>>
  BY DEF BlockingPop
<1> HIDE DEF k
<1>4. PopReply(k) \in {"ok", "value", "nil", "error"} /\ m \in Seq(Key)
  BY <1>2, EmptySeq DEF PopReply
<1> HIDE DEF m
<1>5. /\ list' \in [Key -> Seq(Elem)] /\ str' \in SUBSET Key
      /\ taken' \in [Cmd -> Seq(Elem)]
      /\ \A j \in Key : list'[j] # <<>> => list[j] # <<>>
  BY <1>1, <1>2, <1>3, PopProperties DEF TypeOK
<1>6. \A j \in Key : Ready(j)' => Ready(j)
  BY <1>3, <1>5 DEF Ready
<1> QED
  BY <1>1, <1>3, <1>4, <1>5, <1>6, OperationAwake

LEMMA BlockingPopWaitsAwake == ASSUME Awake, BlockingPopWaits PROVE Awake'
<1> USE DEF queueVars, dataVars, scanVars, timerVars
<1>1. /\ pc = "body" /\ cur \in Cmd /\ step \in 1..Len(Body[cur]) /\ TypeOK
      /\ Blocks(Body[cur][step].keys)
      /\ UNCHANGED <<dataVars, queueVars, answer, log, cur, scanVars, waiting, timerVars, raced>>
  BY DEF BlockingPopWaits, Running, Awake, Control
<1>2. CASE Body[cur][step].wait = "none"
  <2>1. NextOperation("nil", <<>>)
    BY <1>2 DEF BlockingPopWaits
  <2>2. /\ list' \in [Key -> Seq(Elem)] /\ str' \in SUBSET Key
        /\ taken' \in [Cmd -> Seq(Elem)] /\ <<>> \in Seq(Key)
        /\ \A j \in Key : Ready(j)' => Ready(j)
    BY <1>1, EmptySeq DEF TypeOK, Ready
  <2> QED
    BY <1>1, <2>1, <2>2, OperationAwake
<1>3. CASE Body[cur][step].wait # "none"
  <2>1. /\ pc' = IF IsTx[cur] THEN "down" ELSE "register"
        /\ step' = 1 /\ UNCHANGED <<todo, reply>>
    BY <1>3 DEF BlockingPopWaits
  <2>2. TypeOK'
    BY <1>1, <2>1, SMTT(30) DEF TypeOK
  <2>3. Control'
    <3>1. CASE IsTx[cur]
      BY <1>1, <2>1, <3>1, SMTT(30) DEF Awake, Control
    <3>2. CASE ~IsTx[cur]
      <4>1. cur \in Plain /\ Len(Keys(cur)) \in Nat \ {0} /\ step = 1 /\ Len(Body[cur]) = 1
        BY <1>1, <3>2, PlainKeys DEF Plain
      <4>2. Blocks(Keys(cur)) /\ todo = <<>>
        BY <1>1, <4>1 DEF Keys, Awake, Control
      <4>3. Blocks(Keys(cur))'
        BY <1>1, <4>2 DEF Blocks, Ready, Keys
      <4> QED
        BY <1>1, <2>1, <3>2, <4>1, <4>2, <4>3, SMTT(30) DEF Awake, Control
    <3> QED
      BY <3>1, <3>2
  <2>4. Covered'
    BY <1>1, <2>1 DEF Awake, Covered, Ready
  <2> QED
    BY <2>2, <2>3, <2>4 DEF Awake
<1> QED
  BY <1>2, <1>3

LEMMA RegisterAwake == ASSUME Awake, Register PROVE Awake'
<1> USE DEF dataVars, queueVars, scanVars
<1> DEFINE k == Keys(cur)[step]
<1>1. /\ pc = "register" /\ cur \in Plain /\ step \in 1..Len(Keys(cur))
      /\ todo = <<>> /\ Blocks(Keys(cur)) /\ TypeOK /\ Control /\ Covered
  BY DEF Register, Awake, Control
<1>2. /\ k \in Key /\ cur \in WaitersOn(k) /\ cur \in Cmd /\ ~Ready(k)
      /\ Len(Keys(cur)) \in Nat \ {0}
  BY <1>1, PlainKeys, LenProperties DEF Blocks
<1>3. /\ waiting' = [waiting EXCEPT ![k] = Append(@, cur)]
      /\ UNCHANGED <<dataVars, queueVars, answer, log, todo, reply, scanVars, tstep, snap, raced>>
  BY DEF Register
<1>4. \/ step < Len(Keys(cur)) /\ step' = step + 1 /\ UNCHANGED <<pc, cur, timer>>
      \/ /\ pc' = "idle" /\ cur' = None /\ step' = step
         /\ timer' = timer \/ timer' = [timer EXCEPT ![cur] = "sleep"]
  <2>1. CASE step < Len(Keys(cur))
    BY <2>1 DEF Register
  <2>2. CASE ~(step < Len(Keys(cur)))
    BY <2>2 DEF Register
  <2> QED
    BY <2>1, <2>2
<1> HIDE DEF k
<1>5. /\ waiting' \in [Key -> Seq(Cmd)]
      /\ \A j \in Key : waiting'[j] \in Seq(WaitersOn(j))
      /\ \A j \in Key \ {k} : waiting'[j] = waiting[j]
  <2>1. waiting[k] \in Seq(Cmd) /\ waiting[k] \in Seq(WaitersOn(k))
    BY <1>1, <1>2 DEF TypeOK, Control
  <2>2. Append(waiting[k], cur) \in Seq(Cmd) /\ Append(waiting[k], cur) \in Seq(WaitersOn(k))
    BY <1>2, <2>1
  <2> QED
    BY <1>1, <1>2, <1>3, <2>2 DEF TypeOK, Control
<1>6. /\ timer' \in [Cmd -> {"off", "sleep", "read", "write", "send", "done"}]
      /\ \A c \in Cmd \ {cur} : timer'[c] = timer[c]
      /\ timer'[cur] = timer[cur] \/ timer'[cur] = "sleep"
  BY <1>1, <1>2, <1>4 DEF TypeOK
<1>7. TypeOK'
  <2>1. step' \in Nat /\ pc' \in {"register", "idle"} /\ cur' \in Cmd \cup {None}
    BY <1>1, <1>2, <1>4
  <2> QED
    BY <1>1, <1>3, <1>5, <1>6, <2>1, SMTT(30) DEF TypeOK
<1>8. Control'
  <2>1. \A c \in Cmd :
          /\ timer'[c] # "off" => c \in Plain
          /\ timer'[c] \in {"read", "write"} => tstep'[c] \in 1..Len(Keys(c))
          /\ timer'[c] = "write" => snap'[c] \in Seq(WaitersOn(Keys(c)[tstep'[c]]))
    BY <1>1, <1>3, <1>6, SMTT(30) DEF Control
  <2>2. todo' = <<>> /\ UNCHANGED <<list, str>>
    BY <1>1, <1>3
  <2>3. CASE pc' = "idle"
    BY <1>5, <2>1, <2>2, <2>3, SMTT(30) DEF Control
  <2>4. CASE pc' = "register"
    <3>1. cur' = cur /\ step' \in 1..Len(Keys(cur))
      BY <1>1, <1>2, <1>4, <2>4
    <3>2. Blocks(Keys(cur))'
      BY <1>1, <2>2, <3>1 DEF Blocks, Ready, Keys
    <3>3. Keys(cur)' = Keys(cur)
      BY <3>1 DEF Keys
    <3> QED
      BY <1>1, <1>2, <1>5, <2>1, <2>2, <2>4, <3>1, <3>2, <3>3, SMTT(30) DEF Control
  <2> QED
    BY <1>1, <1>4, <2>3, <2>4
<1>9. Covered'
  BY <1>1, <1>2, <1>3, <1>5 DEF Covered, Ready
<1> QED
  BY <1>7, <1>8, <1>9 DEF Awake

LEMMA StartScanAwake == ASSUME Awake, StartScan PROVE Awake'
<1> USE DEF dataVars, queueVars, timerVars
<1>1. TypeOK /\ Control /\ Covered /\ pc = "unblock" /\ todo # <<>> /\ cur \in Cmd
  BY DEF StartScan, Awake, Control
<1>2. /\ array' = waiting[Head(todo)] /\ pos' = 1 /\ last' = 0 /\ pc' = "scan"
      /\ UNCHANGED <<dataVars, queueVars, answer, log, cur, step, todo, reply, wreply, woken,
                     waiting, timerVars, raced>>
  BY DEF StartScan
<1>3. Head(todo) \in Key
  BY <1>1, HeadTailProperties DEF TypeOK
<1>4. array' \in Seq(Cmd) /\ array' \in Seq(WaitersOn(Head(todo)))
  BY <1>1, <1>2, <1>3 DEF TypeOK, Control
<1>5. TypeOK'
  BY <1>1, <1>2, <1>4, SMTT(30) DEF TypeOK
<1>6. Control'
  BY <1>1, <1>2, <1>4, SMTT(30) DEF Control
<1>7. Covered'
  BY <1>1, <1>2 DEF Covered, Ready
<1> QED
  BY <1>5, <1>6, <1>7 DEF Awake

LEMMA WakeAwake == ASSUME Awake, Wake PROVE Awake'
<1> USE DEF queueVars, timerVars
<1> DEFINE c == array[pos]
           k == HitKey(Keys(c))
<1>1. /\ TypeOK /\ Control /\ Covered /\ pc = "scan" /\ todo # <<>> /\ cur \in Cmd
      /\ pos = last + 1 /\ array \in Seq(WaitersOn(Head(todo))) /\ pos \in 1..Len(array)
  <2>1. /\ TypeOK /\ Control /\ Covered /\ pc = "scan" /\ pos <= Len(array)
    BY DEF Wake, Awake
  <2>2. /\ todo # <<>> /\ cur \in Cmd /\ pos = last + 1
        /\ array \in Seq(WaitersOn(Head(todo)))
    BY <2>1 DEF Control
  <2>3. last \in Nat /\ Len(array) \in Nat
    BY <2>1, LenProperties DEF TypeOK
  <2> QED
    BY <2>1, <2>2, <2>3
<1>2. /\ woken' = c /\ Pop(k, c) /\ wreply' = PopReply(k) /\ step' = 1 /\ pc' = "remove"
      /\ ~Blocks(Keys(c))
      /\ UNCHANGED <<str, queueVars, answer, log, cur, todo, reply, array, pos, last,
                     waiting, timerVars, raced>>
  BY DEF Wake
<1>3. c \in Plain /\ c \in Cmd /\ Keys(c) \in Seq(Key) /\ Len(Keys(c)) \in Nat \ {0}
  <2>1. c \in WaitersOn(Head(todo))
    BY <1>1, ElementOfSeq
  <2> QED
    BY <2>1, PlainKeys DEF WaitersOn
<1>4. k \in Key
  BY <1>2, <1>3, HitKeyProperties
<1> HIDE DEF c, k
<1>5. /\ list' \in [Key -> Seq(Elem)] /\ taken' \in [Cmd -> Seq(Elem)]
      /\ \A j \in Key : list'[j] # <<>> => list[j] # <<>>
  BY <1>1, <1>2, <1>3, <1>4, PopProperties
<1>6. wreply' \in {"ok", "value", "nil", "error"}
  BY <1>2 DEF PopReply
<1>7. TypeOK'
  <2>1. UNCHANGED <<str, cmdQueue, txQueue, issued, answer, log, cur, todo, reply, array,
                    pos, last, waiting, timer, tstep, snap, raced>>
    BY <1>2
  <2>2. woken' \in Cmd /\ step' \in Nat /\ pc' = "remove"
    BY <1>2, <1>3
  <2>3. TypeOK
    BY <1>1
  <2> QED
    BY <1>5, <1>6, <2>1, <2>2, <2>3, SMTT(30) DEF TypeOK
<1>8. Control'
  BY <1>1, <1>2, <1>3, SMTT(30) DEF Control
<1>9. Covered'
  BY <1>1, <1>2, <1>5 DEF Covered, Ready
<1> QED
  BY <1>7, <1>8, <1>9 DEF Awake

LEMMA DeregisterAwake == ASSUME Awake, Deregister PROVE Awake'
<1> USE DEF dataVars, queueVars, timerVars
<1> DEFINE k == Keys(woken)[step]
<1>1. /\ TypeOK /\ Control /\ Covered /\ pc = "remove" /\ todo # <<>> /\ cur \in Cmd
      /\ pos = last + 1 /\ array \in Seq(WaitersOn(Head(todo)))
      /\ woken \in Plain /\ step \in 1..Len(Keys(woken))
  BY DEF Deregister, Awake, Control
<1>2. k \in Key /\ Len(Keys(woken)) \in Nat
  BY <1>1, PlainKeys
<1>3. /\ waiting' = [waiting EXCEPT ![k] = Without(@, woken)]
      /\ array' = IF k = Head(todo) THEN Shifted(array, waiting[k], woken) ELSE array
      /\ UNCHANGED <<dataVars, queueVars, answer, log, cur, todo, reply, pos, wreply,
                     woken, timerVars, raced>>
  BY DEF Deregister
<1>4. \/ pc' = "remove" /\ step < Len(Keys(woken)) /\ step' = step + 1 /\ last' = last
      \/ pc' = "wake" /\ last' = pos /\ step' = step
  BY <1>1 DEF Deregister
<1> HIDE DEF k
<1>5. /\ waiting' \in [Key -> Seq(Cmd)]
      /\ \A j \in Key : waiting'[j] \in Seq(WaitersOn(j))
      /\ \A j \in Key : waiting[j] = <<>> => waiting'[j] = <<>>
  <2>1. waiting[k] \in Seq(Cmd) /\ waiting[k] \in Seq(WaitersOn(k))
    BY <1>1, <1>2 DEF TypeOK, Control
  <2>2. /\ Without(waiting[k], woken) \in Seq(Cmd)
        /\ Without(waiting[k], woken) \in Seq(WaitersOn(k))
        /\ waiting[k] = <<>> => Without(waiting[k], woken) = <<>>
    BY <2>1, WithoutProperties
  <2> QED
    BY <1>1, <1>2, <1>3, <2>2 DEF TypeOK, Control
<1>6. array' \in Seq(Cmd) /\ array' \in Seq(WaitersOn(Head(todo)))
  BY <1>1, <1>3, ShiftedProperties DEF TypeOK
<1>7. TypeOK'
  <2>1. UNCHANGED <<list, str, taken, cmdQueue, txQueue, issued, answer, log, cur, todo,
                    reply, pos, wreply, woken, timer, tstep, snap, raced>>
    BY <1>3
  <2>2. last' \in Nat /\ step' \in Nat /\ pc' \in {"remove", "wake"}
    <3>1. last \in Nat /\ step \in Nat /\ pos \in Nat
      BY <1>1 DEF TypeOK
    <3> QED
      BY <1>4, <3>1
  <2>3. TypeOK
    BY <1>1
  <2>4. waiting' \in [Key -> Seq(Cmd)] /\ array' \in Seq(Cmd)
    BY <1>5, <1>6
  <2> QED
    BY <2>1, <2>2, <2>3, <2>4, SMTT(30) DEF TypeOK
<1>8. Control'
  BY <1>1, <1>2, <1>3, <1>4, <1>5, <1>6, SMTT(30) DEF Control
<1>9. Covered'
  BY <1>1, <1>3, <1>5 DEF Covered, Ready
<1> QED
  BY <1>7, <1>8, <1>9 DEF Awake

LEMMA AnswerWokenAwake == ASSUME Awake, AnswerWoken PROVE Awake'
<1> USE DEF dataVars, queueVars, timerVars
<1>1. TypeOK /\ Control /\ Covered /\ pc = "wake"
  BY DEF AnswerWoken, Awake
<1>2. /\ answer' = [answer EXCEPT ![woken] = wreply] /\ pos' = pos + 1 /\ pc' = "scan"
      /\ UNCHANGED <<dataVars, queueVars, log, cur, step, todo, reply, array, last, wreply,
                     woken, waiting, timerVars, raced>>
  BY DEF AnswerWoken
<1>3. answer' \in [Cmd -> {"open", "ok", "value", "nil", "error"}] /\ pos' \in Nat
  <2>1. /\ answer \in [Cmd -> {"open", "ok", "value", "nil", "error"}]
        /\ wreply \in {"ok", "value", "nil", "error"} /\ pos \in Nat
    BY <1>1 DEF TypeOK
  <2>2. answer' \in [Cmd -> {"open", "ok", "value", "nil", "error"}]
    BY <1>2, <2>1
  <2>3. pos' \in Nat
    BY <1>2, <2>1
  <2> QED
    BY <2>2, <2>3
<1>4. TypeOK'
  <2>1. TypeOK
    BY <1>1
  <2> QED
    BY <1>2, <1>3, <2>1, SMTT(30) DEF TypeOK
<1>5. Control'
  <2>1. pos' = last' + 1 /\ cur \in Cmd /\ todo # <<>> /\ array \in Seq(WaitersOn(Head(todo)))
    BY <1>1, <1>2 DEF Control
  <2>2. Control
    BY <1>1
  <2> QED
    BY <1>2, <2>1, <2>2, SMTT(30) DEF Control
<1>6. Covered'
  BY <1>1, <1>2 DEF Covered, Ready
<1> QED
  BY <1>4, <1>5, <1>6 DEF Awake

\* Either nothing is left of the range, or the first command left would wait
\* again, so that the key it waits on is not ready.
LEMMA EndScanAwake == ASSUME Awake, EndScan PROVE Awake'
<1> USE DEF dataVars, queueVars, scanVars, timerVars
<1> DEFINE k == Head(todo)
           rest == SubSeq(array, last + 1, Len(array))
<1>1. /\ TypeOK /\ Control /\ Covered /\ pc = "scan" /\ todo # <<>> /\ cur \in Cmd
      /\ pos = last + 1 /\ array \in Seq(WaitersOn(k)) /\ array \in Seq(Cmd)
      /\ pos \in Nat /\ last \in Nat /\ Len(array) \in Nat /\ DOMAIN array = 1..Len(array)
  <2>1. TypeOK /\ Control /\ Covered /\ pc = "scan"
    BY DEF EndScan, Awake
  <2>2. todo # <<>> /\ cur \in Cmd /\ pos = last + 1 /\ array \in Seq(WaitersOn(k))
    BY <2>1 DEF Control
  <2>3. array \in Seq(Cmd) /\ pos \in Nat /\ last \in Nat
    BY <2>1 DEF TypeOK
  <2> QED
    BY <2>1, <2>2, <2>3, LenProperties
<1>2. /\ k \in Key /\ Tail(todo) \in Seq(Key)
      /\ \A j \in Key : j \in ToSet(todo) => j = k \/ j \in ToSet(Tail(todo))
  <2>1. todo \in Seq(Key)
    BY <1>1 DEF TypeOK
  <2>2. k \in Key /\ Tail(todo) \in Seq(Key)
    BY <1>1, <2>1, HeadTailProperties
  <2>3. todo = <<k>> \o Tail(todo)
    BY <1>1, <2>1
  <2>4. /\ Len(Tail(todo)) = Len(todo) - 1 /\ Len(todo) \in Nat /\ DOMAIN todo = 1..Len(todo)
        /\ DOMAIN Tail(todo) = 1..Len(todo) - 1
        /\ \A i \in 1..Len(todo) - 1 : Tail(todo)[i] = todo[i + 1]
    BY <1>1, <2>1, <2>2, HeadTailProperties, LenProperties
  <2>5. ASSUME NEW i \in 1..Len(todo) PROVE todo[i] = k \/ todo[i] \in ToSet(Tail(todo))
    <3>1. CASE i = 1
      BY <1>1, <2>1, <3>1
    <3>2. CASE i # 1
      <4>1. i - 1 \in 1..Len(todo) - 1 /\ (i - 1) + 1 = i
        BY <2>4, <3>2
      <4>2. Tail(todo)[i - 1] = todo[i] /\ i - 1 \in DOMAIN Tail(todo)
        BY <2>4, <4>1
      <4> QED
        BY <4>2 DEF ToSet
    <3> QED
      BY <3>1, <3>2
  <2> QED
    BY <2>2, <2>4, <2>5 DEF ToSet
<1>3. /\ waiting' = [waiting EXCEPT ![k] = rest] /\ todo' = Tail(todo) /\ pc' = "unblock"
      /\ pos <= Len(array) => Blocks(Keys(array[pos]))
      /\ UNCHANGED <<dataVars, queueVars, answer, log, cur, step, reply, scanVars,
                     timerVars, raced>>
  BY DEF EndScan
<1>4. rest \in Seq(Cmd) /\ rest \in Seq(WaitersOn(k))
  <2>1. \A i \in last + 1..Len(array) : array[i] \in Cmd /\ array[i] \in WaitersOn(k)
    <3> TAKE i \in last + 1..Len(array)
    <3>1. i \in 1..Len(array)
      BY <1>1
    <3> QED
      BY <1>1, <3>1, ElementOfSeq
  <2> QED
    BY <1>1, <2>1, SubSeqProperties
<1>5. rest = <<>> \/ ~Ready(k)
  <2>1. CASE pos <= Len(array)
    <3>1. array[pos] \in WaitersOn(k) /\ Blocks(Keys(array[pos]))
      BY <1>1, <1>3, <2>1, ElementOfSeq
    <3> QED
      BY <3>1 DEF WaitersOn, Blocks, ToSet
  <2>2. CASE ~(pos <= Len(array))
    BY <1>1, <2>2, SubSeqEmpty
  <2> QED
    BY <2>1, <2>2
<1> HIDE DEF k, rest
<1>6. waiting' \in [Key -> Seq(Cmd)] /\ \A j \in Key : waiting'[j] \in Seq(WaitersOn(j))
  BY <1>1, <1>2, <1>3, <1>4 DEF TypeOK, Control
<1>7. TypeOK'
  <2>1. todo' \in Seq(Key)
    BY <1>2, <1>3
  <2> QED
    BY <1>1, <1>3, <1>6, <2>1, SMTT(30) DEF TypeOK
<1>8. Control'
  BY <1>1, <1>3, <1>6, SMTT(30) DEF Control
<1>9. Covered'
  BY <1>1, <1>2, <1>3, <1>5 DEF Covered, Ready, TypeOK
<1> QED
  BY <1>7, <1>8, <1>9 DEF Awake

LEMMA AnswerAwake == ASSUME Awake, Answer PROVE Awake'
<1> USE DEF dataVars, queueVars, scanVars, timerVars
<1>1. TypeOK /\ Control /\ Covered /\ pc = "unblock" /\ todo = <<>> /\ cur \in Cmd
  BY DEF Answer, Awake, Control
<1>2. /\ answer' = [answer EXCEPT ![cur] = reply] /\ pc' = "idle" /\ cur' = None
      /\ log' = IF Propagated(cur) THEN Append(log, cur) ELSE log
      /\ UNCHANGED <<dataVars, queueVars, step, todo, reply, scanVars, waiting, timerVars,
                     raced>>
  BY DEF Answer
<1>3. /\ answer' \in [Cmd -> {"open", "ok", "value", "nil", "error"}]
      /\ log' \in Seq(Cmd)
  <2>1. /\ answer \in [Cmd -> {"open", "ok", "value", "nil", "error"}]
        /\ reply \in {"ok", "value", "nil", "error"} /\ log \in Seq(Cmd)
    BY <1>1 DEF TypeOK
  <2>2. Append(log, cur) \in Seq(Cmd)
    BY <1>1, <2>1
  <2>3. log' = Append(log, cur) \/ log' = log
    BY <1>2
  <2> QED
    BY <1>2, <2>1, <2>2, <2>3
<1>4. TypeOK'
  <2>1. TypeOK
    BY <1>1
  <2>2. /\ pc' = "idle" /\ cur' = None
        /\ UNCHANGED <<dataVars, queueVars, step, todo, reply, scanVars, waiting, timerVars,
                       raced>>
    BY <1>2
  <2> QED
    BY <1>3, <2>1, <2>2, SMTT(30) DEF TypeOK
<1>5. Control'
  BY <1>1, <1>2, SMTT(30) DEF Control
<1>6. Covered'
  BY <1>1, <1>2 DEF Covered, Ready
<1> QED
  BY <1>4, <1>5, <1>6 DEF Awake

-----------------------------------------------------------------------------
(* The steps of the timeout goroutines.                                    *)

\* A step that moves neither the executor nor the data keeps Control when it
\* keeps what Control says of the lists, of the range and of the timeouts.
LEMMA ControlOfTimers ==
  ASSUME Control, UNCHANGED <<list, str, pc, cur, step, todo, pos, last, woken>>,
         \A k \in Key : waiting'[k] \in Seq(WaitersOn(k)),
         pc \in {"scan", "remove", "wake"} => array' \in Seq(WaitersOn(Head(todo))),
         \A c \in Cmd :
           /\ timer'[c] # "off" => c \in Plain
           /\ timer'[c] \in {"read", "write"} => tstep'[c] \in 1..Len(Keys(c))
           /\ timer'[c] = "write" => snap'[c] \in Seq(WaitersOn(Keys(c)[tstep'[c]]))
  PROVE  Control'
<1>1. pc = "register" => Blocks(Keys(cur))'
  BY DEF Control, Blocks, Ready, Keys
<1> QED
  BY <1>1, SMTT(30) DEF Control, Keys

LEMMA TimerFireAwake == ASSUME Awake, NEW c \in Cmd, TimerFire(c) PROVE Awake'
<1> USE DEF dataVars, queueVars, scanVars
<1>1. TypeOK /\ Control /\ Covered /\ pc # "down" /\ timer[c] = "sleep"
  BY DEF TimerFire, Awake, Up
<1>2. /\ timer' = [timer EXCEPT ![c] = "read"] /\ tstep' = [tstep EXCEPT ![c] = 1]
      /\ UNCHANGED <<dataVars, queueVars, answer, log, pc, cur, step, todo, reply, scanVars,
                     waiting, snap, raced>>
  BY DEF TimerFire
<1>3. c \in Plain /\ 1 \in 1..Len(Keys(c))
  <2>1. c \in Plain
    BY <1>1 DEF Control
  <2> QED
    BY <2>1, PlainKeys
<1>4. TypeOK'
  <2>1. TypeOK
    BY <1>1
  <2>2. /\ timer' \in [Cmd -> {"off", "sleep", "read", "write", "send", "done"}]
        /\ tstep' \in [Cmd -> Nat]
    BY <1>2, <2>1 DEF TypeOK
  <2> QED
    BY <1>2, <2>1, <2>2, SMTT(30) DEF TypeOK
<1>5. Control'
  <2>1. /\ timer \in [Cmd -> {"off", "sleep", "read", "write", "send", "done"}]
        /\ tstep \in [Cmd -> Nat]
    BY <1>1 DEF TypeOK
  <2>2. /\ timer'[c] = "read" /\ tstep'[c] = 1
        /\ \A d \in Cmd \ {c} : timer'[d] = timer[d] /\ tstep'[d] = tstep[d]
    BY <1>2, <2>1
  <2>3. ASSUME NEW d \in Cmd
        PROVE /\ timer'[d] # "off" => d \in Plain
              /\ timer'[d] \in {"read", "write"} => tstep'[d] \in 1..Len(Keys(d))
              /\ timer'[d] = "write" => snap[d] \in Seq(WaitersOn(Keys(d)[tstep'[d]]))
    BY <1>1, <1>3, <2>2 DEF Control
  <2> QED
    <3>1. waiting' = waiting /\ array' = array
      BY <1>2
    <3> QED
      BY <1>1, <1>2, <2>3, <3>1, ControlOfTimers DEF Control
<1>6. Covered'
  BY <1>1, <1>2 DEF Covered, Ready
<1> QED
  BY <1>4, <1>5, <1>6 DEF Awake

LEMMA TimerReadAwake == ASSUME Awake, NEW c \in Cmd, TimerRead(c) PROVE Awake'
<1> USE DEF dataVars, queueVars, scanVars
<1>1. TypeOK /\ Control /\ Covered /\ pc # "down" /\ timer[c] = "read"
  BY DEF TimerRead, Awake, Up
<1>2. /\ snap' = [snap EXCEPT ![c] = waiting[Keys(c)[tstep[c]]]]
      /\ timer' = [timer EXCEPT ![c] = "write"]
      /\ UNCHANGED <<dataVars, queueVars, answer, log, pc, cur, step, todo, reply, scanVars,
                     waiting, tstep, raced>>
  BY DEF TimerRead
<1>3. c \in Plain /\ tstep[c] \in 1..Len(Keys(c)) /\ Keys(c)[tstep[c]] \in Key
  <2>1. c \in Plain /\ tstep[c] \in 1..Len(Keys(c))
    BY <1>1 DEF Control
  <2> QED
    BY <2>1, PlainKeys
<1>4. /\ waiting[Keys(c)[tstep[c]]] \in Seq(Cmd)
      /\ waiting[Keys(c)[tstep[c]]] \in Seq(WaitersOn(Keys(c)[tstep[c]]))
  BY <1>1, <1>3 DEF TypeOK, Control
<1>5. TypeOK'
  <2>1. TypeOK
    BY <1>1
  <2>2. timer' \in [Cmd -> {"off", "sleep", "read", "write", "send", "done"}]
    BY <1>2, <2>1 DEF TypeOK
  <2>3. snap' \in [Cmd -> Seq(Cmd)]
    BY <1>2, <1>4, <2>1 DEF TypeOK
  <2> QED
    BY <1>2, <2>1, <2>2, <2>3, SMTT(30) DEF TypeOK
<1>6. Control'
  <2>1. /\ timer \in [Cmd -> {"off", "sleep", "read", "write", "send", "done"}]
        /\ snap \in [Cmd -> Seq(Cmd)]
    BY <1>1 DEF TypeOK
  <2>2. /\ timer'[c] = "write" /\ snap'[c] = waiting[Keys(c)[tstep[c]]] /\ tstep' = tstep
        /\ \A d \in Cmd \ {c} : timer'[d] = timer[d] /\ snap'[d] = snap[d]
    BY <1>2, <2>1
  <2>3. ASSUME NEW d \in Cmd
        PROVE /\ timer'[d] # "off" => d \in Plain
              /\ timer'[d] \in {"read", "write"} => tstep'[d] \in 1..Len(Keys(d))
              /\ timer'[d] = "write" => snap'[d] \in Seq(WaitersOn(Keys(d)[tstep'[d]]))
    BY <1>1, <1>3, <1>4, <2>2 DEF Control
  <2>4. waiting' = waiting /\ array' = array
    BY <1>2
  <2> QED
    BY <1>1, <1>2, <2>3, <2>4, ControlOfTimers DEF Control
<1>7. Covered'
  BY <1>1, <1>2 DEF Covered, Ready
<1> QED
  BY <1>5, <1>6, <1>7 DEF Awake

\* A write that nothing interferes with removes c from the list it read; any
\* other one is recorded in raced, and Covered no longer speaks of the lists.
LEMMA TimerWriteAwake == ASSUME Awake, NEW c \in Cmd, TimerWrite(c) PROVE Awake'
<1> USE DEF dataVars, queueVars
<1> DEFINE k == Keys(c)[tstep[c]]
<1>1. TypeOK /\ Control /\ Covered /\ pc # "down" /\ timer[c] = "write"
  BY DEF TimerWrite, Awake, Up
<1>2. /\ \/ waiting' = [waiting EXCEPT ![k] = Without(snap[c], c)]
         \/ Storing(k) /\ waiting' = waiting
      /\ array' = IF Scanning(k) THEN Shifted(array, snap[c], c) ELSE array
      /\ snap' = [snap EXCEPT ![c] = <<>>]
      /\ UNCHANGED <<dataVars, queueVars, answer, log, pc, cur, step, todo, reply, pos,
                     last, wreply, woken>>
  BY DEF TimerWrite
<1>3. raced' = IF Storing(k) \/ Scanning(k) \/ snap[c] # waiting[k]
               THEN raced \cup {c} ELSE raced
  BY DEF TimerWrite
<1>4. \/ /\ tstep[c] < Len(Keys(c)) /\ tstep' = [tstep EXCEPT ![c] = @ + 1]
         /\ timer' = [timer EXCEPT ![c] = "read"]
      \/ timer' = [timer EXCEPT ![c] = "send"] /\ tstep' = tstep
  BY DEF TimerWrite
<1>5. /\ c \in Plain /\ tstep[c] \in 1..Len(Keys(c)) /\ Len(Keys(c)) \in Nat
      /\ k \in Key /\ snap[c] \in Seq(WaitersOn(k))
  <2>1. c \in Plain /\ tstep[c] \in 1..Len(Keys(c)) /\ snap[c] \in Seq(WaitersOn(k))
    BY <1>1 DEF Control
  <2> QED
    BY <2>1, PlainKeys
<1> HIDE DEF k
<1>6. /\ waiting' \in [Key -> Seq(Cmd)]
      /\ \A j \in Key : waiting'[j] \in Seq(WaitersOn(j))
  <2>1. snap[c] \in Seq(Cmd) /\ waiting \in [Key -> Seq(Cmd)]
        /\ \A j \in Key : waiting[j] \in Seq(WaitersOn(j))
    BY <1>1 DEF TypeOK, Control
  <2>2. Without(snap[c], c) \in Seq(Cmd) /\ Without(snap[c], c) \in Seq(WaitersOn(k))
    BY <1>5, <2>1, WithoutProperties
  <2>3. CASE waiting' = [waiting EXCEPT ![k] = Without(snap[c], c)]
    BY <1>5, <2>1, <2>2, <2>3
  <2>4. CASE waiting' = waiting
    BY <2>1, <2>4
  <2> QED
    BY <1>2, <2>3, <2>4
<1>7. /\ array' \in Seq(Cmd)
      /\ pc \in {"scan", "remove", "wake"} => array' \in Seq(WaitersOn(Head(todo)))
  <2>1. /\ array \in Seq(Cmd)
        /\ pc \in {"scan", "remove", "wake"} => array \in Seq(WaitersOn(Head(todo)))
    BY <1>1 DEF TypeOK, Control
  <2>2. /\ Shifted(array, snap[c], c) \in Seq(Cmd)
        /\ pc \in {"scan", "remove", "wake"} =>
             Shifted(array, snap[c], c) \in Seq(WaitersOn(Head(todo)))
    BY <2>1, ShiftedProperties
  <2> QED
    BY <1>2, <2>1, <2>2
<1>8. /\ timer \in [Cmd -> {"off", "sleep", "read", "write", "send", "done"}]
      /\ tstep \in [Cmd -> Nat] /\ snap \in [Cmd -> Seq(Cmd)] /\ raced \in SUBSET Cmd
  BY <1>1 DEF TypeOK
<1>9. TypeOK'
  <2>1. TypeOK
    BY <1>1
  <2>2. timer' \in [Cmd -> {"off", "sleep", "read", "write", "send", "done"}]
    BY <1>4, <1>8
  <2>3. tstep' \in [Cmd -> Nat]
    <3>1. tstep[c] + 1 \in Nat
      BY <1>8
    <3>2. tstep' = [tstep EXCEPT ![c] = tstep[c] + 1] \/ tstep' = tstep
      BY <1>4
    <3>3. [tstep EXCEPT ![c] = tstep[c] + 1] \in [Cmd -> Nat]
      BY <1>8, <3>1
    <3> QED
      BY <1>8, <3>2, <3>3
  <2>4. snap' \in [Cmd -> Seq(Cmd)]
    BY <1>2, <1>8, EmptySeq
  <2>5. raced' \in SUBSET Cmd
    BY <1>3, <1>8
  <2>6. waiting' \in [Key -> Seq(Cmd)] /\ array' \in Seq(Cmd)
    BY <1>6, <1>7
  <2>7. UNCHANGED <<dataVars, queueVars, answer, log, pc, cur, step, todo, reply, pos,
                    last, wreply, woken>>
    BY <1>2
  <2> QED
    BY <2>1, <2>2, <2>3, <2>4, <2>5, <2>6, <2>7, SMTT(30) DEF TypeOK
<1>10. Control'
  <2>1. timer'[c] = "send" \/ (timer'[c] = "read" /\ tstep'[c] \in 1..Len(Keys(c)))
    <3>1. CASE /\ tstep[c] < Len(Keys(c)) /\ tstep' = [tstep EXCEPT ![c] = @ + 1]
               /\ timer' = [timer EXCEPT ![c] = "read"]
      BY <1>5, <1>8, <3>1
    <3>2. CASE timer' = [timer EXCEPT ![c] = "send"] /\ tstep' = tstep
      BY <1>8, <3>2
    <3> QED
      BY <1>4, <3>1, <3>2
  <2>2. \A d \in Cmd \ {c} : timer'[d] = timer[d] /\ tstep'[d] = tstep[d] /\ snap'[d] = snap[d]
    BY <1>2, <1>4, <1>8
  <2>3. ASSUME NEW d \in Cmd
        PROVE /\ timer'[d] # "off" => d \in Plain
              /\ timer'[d] \in {"read", "write"} => tstep'[d] \in 1..Len(Keys(d))
              /\ timer'[d] = "write" => snap'[d] \in Seq(WaitersOn(Keys(d)[tstep'[d]]))
    <3>1. CASE d = c
      BY <1>5, <2>1, <3>1
    <3>2. CASE d # c
      BY <1>1, <2>2, <3>2 DEF Control
    <3> QED
      BY <3>1, <3>2
  <2>4. UNCHANGED <<list, str, pc, cur, step, todo, pos, last, woken>>
    BY <1>2
  <2> QED
    BY <1>1, <1>6, <1>7, <2>3, <2>4, ControlOfTimers
<1>11. Covered'
  <2>1. SUFFICES ASSUME raced' = {} PROVE Covered'
    BY DEF Covered
  <2>2. snap[c] = waiting[k] /\ ~Storing(k) /\ raced = {}
    BY <1>3, <2>1
  <2>3. waiting' = [waiting EXCEPT ![k] = Without(waiting[k], c)]
    BY <1>2, <2>2
  <2>4. waiting \in [Key -> Seq(Cmd)] /\ waiting[k] \in Seq(Cmd)
    BY <1>1, <1>5 DEF TypeOK
  <2>5. \A j \in Key : waiting[j] = <<>> => waiting'[j] = <<>>
    BY <2>3, <2>4, WithoutProperties
  <2> QED
    BY <1>1, <1>2, <2>2, <2>5 DEF Covered, Ready
<1> QED
  BY <1>9, <1>10, <1>11 DEF Awake

LEMMA TimerAnswerAwake == ASSUME Awake, NEW c \in Cmd, TimerAnswer(c) PROVE Awake'
<1> USE DEF dataVars, queueVars, scanVars
<1>1. TypeOK /\ Control /\ Covered /\ pc # "down" /\ timer[c] = "send"
  BY DEF TimerAnswer, Awake, Up
<1>2. /\ answer' = [answer EXCEPT ![c] = "nil"] /\ timer' = [timer EXCEPT ![c] = "done"]
      /\ UNCHANGED <<dataVars, queueVars, log, pc, cur, step, todo, reply, scanVars, waiting,
                     tstep, snap, raced>>
  BY DEF TimerAnswer
<1>3. timer \in [Cmd -> {"off", "sleep", "read", "write", "send", "done"}]
  BY <1>1 DEF TypeOK
<1>4. TypeOK'
  <2>1. TypeOK
    BY <1>1
  <2>2. answer' \in [Cmd -> {"open", "ok", "value", "nil", "error"}]
    BY <1>2, <2>1 DEF TypeOK
  <2>3. timer' \in [Cmd -> {"off", "sleep", "read", "write", "send", "done"}]
    BY <1>2, <1>3
  <2> QED
    BY <1>2, <2>1, <2>2, <2>3, SMTT(30) DEF TypeOK
<1>5. Control'
  <2>1. timer'[c] = "done" /\ \A d \in Cmd \ {c} : timer'[d] = timer[d]
    BY <1>2, <1>3
  <2>2. tstep' = tstep /\ snap' = snap /\ waiting' = waiting /\ array' = array
    BY <1>2
  <2>3. ASSUME NEW d \in Cmd
        PROVE /\ timer'[d] # "off" => d \in Plain
              /\ timer'[d] \in {"read", "write"} => tstep'[d] \in 1..Len(Keys(d))
              /\ timer'[d] = "write" => snap'[d] \in Seq(WaitersOn(Keys(d)[tstep'[d]]))
    BY <1>1, <2>1, <2>2 DEF Control
  <2> QED
    BY <1>1, <1>2, <2>2, <2>3, ControlOfTimers DEF Control
<1>6. Covered'
  BY <1>1, <1>2 DEF Covered, Ready
<1> QED
  BY <1>4, <1>5, <1>6 DEF Awake

LEMMA ConcurrentMapAbortAwake == ASSUME Awake, ConcurrentMapAbort PROVE Awake'
<1> USE DEF dataVars, queueVars, scanVars, timerVars
<1>1. TypeOK /\ Control /\ Covered
  BY DEF Awake
<1>2. /\ pc' = "down"
      /\ UNCHANGED <<dataVars, queueVars, answer, log, cur, step, todo, reply, scanVars,
                     waiting, timerVars, raced>>
  BY DEF ConcurrentMapAbort
<1>3. TypeOK'
  BY <1>1, <1>2, SMTT(30) DEF TypeOK
<1>4. Control'
  BY <1>1, <1>2, SMTT(30) DEF Control
<1>5. Covered'
  BY <1>1, <1>2 DEF Covered, Ready
<1> QED
  BY <1>3, <1>4, <1>5 DEF Awake

-----------------------------------------------------------------------------
(* The two cases of the select, and the theorems.                          *)

LEMMA TakeAwake == ASSUME Awake, TakeCommand \/ TakeTransaction PROVE Awake'
<1>1. cmdQueue \in Seq(Cmd) /\ txQueue \in Seq(Cmd)
  BY DEF Awake, TypeOK
<1>2. CASE TakeCommand
  <2>1. /\ cmdQueue # <<>> /\ cmdQueue' = Tail(cmdQueue) /\ Begin(Head(cmdQueue))
        /\ txQueue' = txQueue
    BY <1>2 DEF TakeCommand
  <2>2. Head(cmdQueue) \in Cmd /\ cmdQueue' \in Seq(Cmd)
    BY <1>1, <2>1, HeadTailProperties
  <2> QED
    BY <1>1, <2>1, <2>2, BeginAwake
<1>3. CASE TakeTransaction
  <2>1. /\ txQueue # <<>> /\ txQueue' = Tail(txQueue) /\ Begin(Head(txQueue))
        /\ cmdQueue' = cmdQueue
    BY <1>3 DEF TakeTransaction
  <2>2. Head(txQueue) \in Cmd /\ txQueue' \in Seq(Cmd)
    BY <1>1, <2>1, HeadTailProperties
  <2> QED
    BY <1>1, <2>1, <2>2, BeginAwake
<1> QED
  BY <1>2, <1>3

LEMMA AwakeStep == ASSUME Awake, [Next]_vars PROVE Awake'
<1>1. CASE \E c \in Cmd : Issue(c)
  BY <1>1, IssueAwake
<1>2. CASE ExecutorStep
  BY <1>2, TakeAwake, PushAwake, SetStringAwake, PopLeftAwake, BlockingPopAwake,
     BlockingPopWaitsAwake, RegisterAwake, StartScanAwake, WakeAwake, DeregisterAwake,
     AnswerWokenAwake, EndScanAwake, AnswerAwake DEF ExecutorStep
<1>3. CASE \E c \in Cmd : TimerStep(c)
  BY <1>3, TimerFireAwake, TimerReadAwake, TimerWriteAwake, TimerAnswerAwake DEF TimerStep
<1>4. CASE ConcurrentMapAbort
  BY <1>4, ConcurrentMapAbortAwake
<1>5. CASE UNCHANGED vars
  <2>1. TypeOK' = TypeOK
    BY <1>5 DEF vars, dataVars, queueVars, scanVars, timerVars, TypeOK
  <2>2. Control' = Control
    BY <1>5 DEF vars, dataVars, queueVars, scanVars, timerVars, Control, Blocks, Ready, Keys
  <2>3. Covered' = Covered
    BY <1>5 DEF vars, dataVars, queueVars, scanVars, timerVars, Covered, Ready
  <2> QED
    BY <2>1, <2>2, <2>3 DEF Awake
<1> QED
  BY <1>1, <1>2, <1>3, <1>4, <1>5 DEF Next

-----------------------------------------------------------------------------
(* Elements: which exist, and that no step but a push makes new ones.      *)

\* Present, said of the sequences instead of the places in them.
LEMMA PresentMembers ==
  ASSUME NEW e
  PROVE  e \in Lists!Present <=> \/ \E k \in Key : e \in ToSet(list[k])
                                 \/ \E c \in Cmd : e \in ToSet(taken[c])
<1> DEFINE ins  == {{<<"in", k, i>> : i \in DOMAIN list[k]} : k \in Key}
           outs == {{<<"out", c, i>> : i \in DOMAIN taken[c]} : c \in Cmd}
<1>1. Lists!Places = UNION (ins \cup outs)
  BY Zenon DEF Lists!Places
<1>2. ASSUME NEW k \in Key, e \in ToSet(list[k]) PROVE e \in Lists!Present
  <2>1. PICK i \in DOMAIN list[k] : list[k][i] = e
    BY <1>2 DEF ToSet
  <2>2. <<"in", k, i>> \in Lists!Places
    <3>1. <<"in", k, i>> \in {<<"in", k, j>> : j \in DOMAIN list[k]}
      BY <2>1
    <3> QED
      BY <1>1, <3>1, Zenon
  <2>3. Lists!At(<<"in", k, i>>) = e
    BY <2>1 DEF Lists!At
  <2> QED
    BY <2>2, <2>3 DEF Lists!Present
<1>3. ASSUME NEW c \in Cmd, e \in ToSet(taken[c]) PROVE e \in Lists!Present
  <2>1. PICK i \in DOMAIN taken[c] : taken[c][i] = e
    BY <1>3 DEF ToSet
  <2>2. <<"out", c, i>> \in Lists!Places
    <3>1. <<"out", c, i>> \in {<<"out", c, j>> : j \in DOMAIN taken[c]}
      BY <2>1
    <3> QED
      BY <1>1, <3>1, Zenon
  <2>3. Lists!At(<<"out", c, i>>) = e
    BY <2>1 DEF Lists!At
  <2> QED
    BY <2>2, <2>3 DEF Lists!Present
<1>4. ASSUME e \in Lists!Present
      PROVE \/ \E k \in Key : e \in ToSet(list[k])
            \/ \E c \in Cmd : e \in ToSet(taken[c])
  <2>1. PICK p \in Lists!Places : Lists!At(p) = e
    BY <1>4 DEF Lists!Present
  <2>2. CASE \E k \in Key : \E i \in DOMAIN list[k] : p = <<"in", k, i>>
    BY <2>1, <2>2 DEF Lists!At, ToSet
  <2>3. CASE \E c \in Cmd : \E i \in DOMAIN taken[c] : p = <<"out", c, i>>
    BY <2>1, <2>3 DEF Lists!At, ToSet
  <2> QED
    BY <1>1, <2>1, <2>2, <2>3
<1> QED
  BY <1>2, <1>3, <1>4

\* The same of the state after a step.
LEMMA PresentMembersNext ==
  \A e : e \in Lists!Present' <=> \/ \E k \in Key : e \in ToSet(list'[k])
                                  \/ \E c \in Cmd : e \in ToSet(taken'[c])
<1>1. \A e : e \in Lists!Present <=> \/ \E k \in Key : e \in ToSet(list[k])
                                   \/ \E c \in Cmd : e \in ToSet(taken[c])
  BY PresentMembers
<1>2. (\A e : e \in Lists!Present <=> \/ \E k \in Key : e \in ToSet(list[k])
                                    \/ \E c \in Cmd : e \in ToSet(taken[c]))'
  BY <1>1, PTL
<1> QED
  BY <1>2

\* Every element that exists is an element.
LEMMA PresentElements ==
  ASSUME TypeOK, NEW e \in Lists!Present
  PROVE  e \in Elem
<1>1. \A s \in Seq(Elem) : ToSet(s) \subseteq Elem
  BY LenProperties, ElementOfSeq DEF ToSet
<1> QED
  BY <1>1, PresentMembers DEF TypeOK

\* What a pop does to the members of the sequences.
LEMMA TailMembers ==
  ASSUME NEW T, NEW s \in Seq(T), s # <<>>
  PROVE  /\ ToSet(s) = ToSet(Tail(s)) \cup {Head(s)}
         /\ ToSet(Tail(s)) \subseteq ToSet(s) /\ Head(s) \in ToSet(s)
<1>1. /\ Len(s) \in Nat \ {0} /\ DOMAIN s = 1..Len(s)
      /\ DOMAIN Tail(s) = 1..Len(s) - 1 /\ Head(s) = s[1]
      /\ \A i \in 1..Len(s) - 1 : Tail(s)[i] = s[i + 1]
  <2>1. Tail(s) \in Seq(T) /\ Len(Tail(s)) = Len(s) - 1
        /\ \A i \in 1..Len(s) - 1 : Tail(s)[i] = s[i + 1]
    BY HeadTailProperties
  <2> QED
    BY <2>1, LenProperties, EmptySeq
<1>2. ASSUME NEW i \in 1..Len(s) - 1 PROVE Tail(s)[i] \in ToSet(s)
  BY <1>1, <1>2 DEF ToSet
<1>3. ASSUME NEW i \in 1..Len(s) PROVE s[i] \in ToSet(Tail(s)) \cup {Head(s)}
  <2>1. CASE i = 1
    BY <1>1, <2>1
  <2>2. CASE i # 1
    <3>1. i - 1 \in 1..Len(s) - 1 /\ (i - 1) + 1 = i
      BY <1>1, <2>2
    <3>2. Tail(s)[i - 1] = s[i]
      BY <1>1, <3>1
    <3> QED
      BY <1>1, <3>1, <3>2 DEF ToSet
  <2> QED
    BY <2>1, <2>2
<1>4. ToSet(s) \subseteq ToSet(Tail(s)) \cup {Head(s)}
  BY <1>1, <1>3 DEF ToSet
<1>5. ToSet(Tail(s)) \subseteq ToSet(s) /\ Head(s) \in ToSet(s)
  BY <1>1, <1>2 DEF ToSet
<1> QED
  BY <1>4, <1>5

LEMMA AppendMembers ==
  ASSUME NEW T, NEW s \in Seq(T), NEW e \in T
  PROVE  ToSet(Append(s, e)) = ToSet(s) \cup {e}
<1>1. /\ DOMAIN s = 1..Len(s) /\ Len(s) \in Nat
      /\ DOMAIN Append(s, e) = 1..Len(s) + 1
      /\ \A i \in 1..Len(s) : Append(s, e)[i] = s[i]
      /\ Append(s, e)[Len(s) + 1] = e
  BY AppendProperties, LenProperties
<1>2. ToSet(s) \cup {e} \subseteq ToSet(Append(s, e))
  BY <1>1 DEF ToSet
<1>3. ASSUME NEW i \in 1..Len(s) + 1 PROVE Append(s, e)[i] \in ToSet(s) \cup {e}
  BY <1>1 DEF ToSet
<1> QED
  BY <1>1, <1>2, <1>3 DEF ToSet

\* A pop moves an element, and makes none.
LEMMA PopPresent ==
  ASSUME TypeOK, NEW k \in Key, NEW c \in Cmd, Pop(k, c)
  PROVE  Lists!Present' \subseteq Lists!Present
<1> SUFFICES ASSUME NEW e \in Lists!Present' PROVE e \in Lists!Present
  OBVIOUS
<1>1. \/ \E j \in Key : e \in ToSet(list'[j])
      \/ \E d \in Cmd : e \in ToSet(taken'[d])
  BY PresentMembersNext
<1>2. CASE list[k] = <<>>
  BY <1>1, <1>2, PresentMembers DEF Pop
<1>3. CASE list[k] # <<>>
  <2>1. list[k] \in Seq(Elem) /\ taken[c] \in Seq(Elem) /\ Head(list[k]) \in Elem
    BY <1>3, HeadTailProperties DEF TypeOK
  <2>2. /\ ToSet(Tail(list[k])) \subseteq ToSet(list[k])
        /\ Head(list[k]) \in ToSet(list[k])
        /\ ToSet(Append(taken[c], Head(list[k]))) = ToSet(taken[c]) \cup {Head(list[k])}
    BY <1>3, <2>1, TailMembers, AppendMembers
  <2>3. \A j \in Key : ToSet(list'[j]) \subseteq ToSet(list[j])
    BY <1>3, <2>2 DEF Pop, TypeOK
  <2>4. \A d \in Cmd : ToSet(taken'[d]) \subseteq ToSet(taken[d]) \cup ToSet(list[k])
    BY <1>3, <2>2 DEF Pop, TypeOK
  <2> QED
    BY <1>1, <2>3, <2>4, PresentMembers
<1> QED
  BY <1>2, <1>3

\* A step that leaves the data alone.
LEMMA SamePresent ==
  ASSUME UNCHANGED <<list, taken>>
  PROVE  Lists!Present' = Lists!Present
BY PresentMembers, PresentMembersNext

\* What a push adds: elements of this operation, each of them once.
LEMMA BatchProperties ==
  ASSUME NEW c \in Cmd, NEW s \in Nat, NEW op \in Op
  PROVE  /\ Batch(c, s, op) \in Seq(Elem) /\ Len(Batch(c, s, op)) = op.count
         /\ IsInjective(Batch(c, s, op))
         /\ \A e \in ToSet(Batch(c, s, op)) : e[1] = c /\ e[2] = s
<1> DEFINE b == Batch(c, s, op)
           n == op.count
<1>1. n \in Nat
  BY OpKeys
<1>2. b = [i \in 1..n |-> <<c, s, IF op.front THEN n + 1 - i ELSE i>>]
  BY DEF Batch
<1>3. b \in Seq(Elem)
  BY BatchType
<1> HIDE DEF n, b
<1>4. DOMAIN b = 1..n /\ Len(b) = n
  BY <1>1, <1>2, <1>3, LenProperties
<1>5. \A i, j \in 1..n : b[i] = b[j] => i = j
  <2> SUFFICES ASSUME NEW i \in 1..n, NEW j \in 1..n, b[i] = b[j] PROVE i = j
    OBVIOUS
  <2>1. b[i][3] = IF op.front THEN n + 1 - i ELSE i
    BY <1>2
  <2>2. b[j][3] = IF op.front THEN n + 1 - j ELSE j
    BY <1>2
  <2> QED
    BY <1>1, <2>1, <2>2
<1>6. IsInjective(b)
  BY <1>4, <1>5 DEF IsInjective
<1>7. \A e \in ToSet(b) : e[1] = c /\ e[2] = s
  BY <1>2, <1>4 DEF ToSet
<1> QED
  BY <1>3, <1>4, <1>6, <1>7 DEF b, n

\* The members of a concatenation are those of its parts.
LEMMA ConcatMembersOnly ==
  ASSUME NEW T, NEW s \in Seq(T), NEW t \in Seq(T)
  PROVE  ToSet(s \o t) = ToSet(s) \cup ToSet(t)
<1>1. /\ DOMAIN s = 1..Len(s) /\ Len(s) \in Nat /\ DOMAIN t = 1..Len(t) /\ Len(t) \in Nat
      /\ DOMAIN (s \o t) = 1..Len(s) + Len(t)
      /\ \A i \in 1..Len(s) + Len(t) : (s \o t)[i] = IF i <= Len(s) THEN s[i] ELSE t[i - Len(s)]
  BY ConcatProperties, LenProperties
<1>2. ASSUME NEW i \in 1..Len(s) + Len(t) PROVE (s \o t)[i] \in ToSet(s) \cup ToSet(t)
  <2>1. CASE i <= Len(s)
    BY <1>1, <2>1 DEF ToSet
  <2>2. CASE ~(i <= Len(s))
    <3>1. i - Len(s) \in 1..Len(t)
      BY <1>1, <2>2
    <3> QED
      BY <1>1, <2>2, <3>1 DEF ToSet
  <2> QED
    BY <2>1, <2>2
<1>3. ToSet(s \o t) \subseteq ToSet(s) \cup ToSet(t)
  BY <1>1, <1>2 DEF ToSet
<1> QED
  BY <1>3, ConcatMembers

\* The parts of a concatenation are where they were put.
LEMMA ConcatParts ==
  ASSUME NEW T, NEW s \in Seq(T), NEW t \in Seq(T)
  PROVE  /\ SubSeq(s \o t, 1, Len(s)) = s
         /\ SubSeq(s \o t, Len(s) + 1, Len(s \o t)) = t
         /\ Len(s \o t) - Len(t) = Len(s) /\ Len(s \o t) >= Len(s) /\ Len(s \o t) >= Len(t)
<1> DEFINE u == s \o t
           a == SubSeq(u, 1, Len(s))
           b == SubSeq(u, Len(s) + 1, Len(u))
<1>1. /\ Len(s) \in Nat /\ Len(t) \in Nat /\ u \in Seq(T) /\ Len(u) = Len(s) + Len(t)
      /\ \A i \in 1..Len(s) + Len(t) : u[i] = IF i <= Len(s) THEN s[i] ELSE t[i - Len(s)]
      /\ \A i \in 1..Len(u) : u[i] \in T
  BY ConcatProperties, LenProperties, ElementOfSeq
<1> HIDE DEF u
<1>2. a = s
  <2>1. /\ a \in Seq(T) /\ Len(a) = Len(s)
        /\ \A i \in 1..Len(s) : a[i] = u[i]
    <3>1. \A i \in 1..Len(s) : u[i] \in T
      BY <1>1
    <3>2. Len(a) = Len(s) /\ a \in Seq(T) /\ \A i \in 1..Len(a) : a[i] = u[1 + i - 1]
      BY <1>1, <3>1, SubSeqProperties
    <3> QED
      BY <1>1, <3>2
  <2>2. \A i \in 1..Len(s) : a[i] = s[i]
    BY <1>1, <2>1
  <2> QED
    BY <2>1, <2>2, SeqEqual
<1>3. b = t
  <2>1. \A i \in Len(s) + 1..Len(u) : u[i] \in T
    BY <1>1
  <2>2. Len(b) = Len(t) /\ b \in Seq(T)
        /\ \A i \in 1..Len(b) : b[i] = u[Len(s) + 1 + i - 1]
    BY <1>1, <2>1, SubSeqProperties
  <2>3. \A i \in 1..Len(t) : b[i] = t[i]
    <3> TAKE i \in 1..Len(t)
    <3> DEFINE m == Len(s) + i
    <3>1. m \in 1..Len(s) + Len(t) /\ ~(m <= Len(s)) /\ m - Len(s) = i /\ Len(s) + 1 + i - 1 = m
      BY <1>1
    <3> HIDE DEF m
    <3> QED
      BY <1>1, <2>2, <3>1
  <2> QED
    BY <2>2, <2>3, SeqEqual
<1> QED
  BY <1>1, <1>2, <1>3 DEF u

\* What a push that is not refused does.
LEMMA PushEffect ==
  ASSUME Awake, Push, Body[cur][step].keys[1] \notin str
  PROVE  \E k \in Key : \E b \in Seq(Elem) :
           /\ list' = [list EXCEPT ![k] = b \o list[k]] \/ list' = [list EXCEPT ![k] = list[k] \o b]
           /\ taken' = taken /\ IsInjective(b) /\ list[k] \in Seq(Elem)
           /\ \A e \in ToSet(b) : e[1] = cur /\ e[2] = step
<1> DEFINE op == Body[cur][step]
           k  == op.keys[1]
           b  == Batch(cur, step, op)
<1>1. TypeOK /\ cur \in Cmd /\ step \in 1..Len(Body[cur]) /\ step \in Nat
  BY DEF Push, Running, Awake, Control, TypeOK
<1>2. op \in Op /\ k \in Key
  BY <1>1, OpType, OpKeys
<1>3. list' = [list EXCEPT ![k] = Pushed(k, op)] /\ taken' = taken
  BY DEF Push
<1>4. Pushed(k, op) = b \o list[k] \/ Pushed(k, op) = list[k] \o b
  BY DEF Pushed
<1>5. /\ b \in Seq(Elem) /\ IsInjective(b)
      /\ \A e \in ToSet(b) : e[1] = cur /\ e[2] = step
  BY <1>1, <1>2, BatchProperties
<1>6. list[k] \in Seq(Elem)
  BY <1>1, <1>2 DEF TypeOK
<1> HIDE DEF op, k, b
<1> QED
  BY <1>2, <1>3, <1>4, <1>5, <1>6

\* Elements are new when no element of this operation exists yet.
LEMMA NewElements ==
  ASSUME Awake, Fresh, pc = "body", NEW b \in Seq(Elem),
         \A e \in ToSet(b) : e[1] = cur /\ e[2] = step
  PROVE  ToSet(b) \cap Lists!Present = {}
<1> SUFFICES ASSUME NEW e \in ToSet(b), e \in Lists!Present PROVE FALSE
  OBVIOUS
<1>1. e[1] = cur /\ e[2] = step /\ step \in Nat
  BY DEF Awake, TypeOK
<1>2. e[2] < step
  BY <1>1 DEF Fresh
<1> QED
  BY <1>1, <1>2

\* A push is an Insert, a SET a Replace, a pop a Take or nothing.
LEMMA PushRefines ==
  ASSUME Awake, Fresh, Push
  PROVE  [Lists!Next]_<<list, taken>>
<1>1. CASE Body[cur][step].keys[1] \in str
  BY <1>1 DEF Push
<1>2. CASE Body[cur][step].keys[1] \notin str
  <2>1. PICK k \in Key, b \in Seq(Elem) :
          /\ list' = [list EXCEPT ![k] = b \o list[k]] \/ list' = [list EXCEPT ![k] = list[k] \o b]
          /\ taken' = taken /\ IsInjective(b) /\ list[k] \in Seq(Elem)
          /\ \A e \in ToSet(b) : e[1] = cur /\ e[2] = step
    BY <1>2, PushEffect, Zenon
  <2>2. pc = "body" /\ list \in [Key -> Seq(Elem)]
    BY DEF Push, Running, Awake, TypeOK
  <2>3. Lists!Joins(b)
    BY <2>1, <2>2, NewElements DEF Lists!Joins, Lists!ToSet, ToSet, IsInjective
  <2>4. \A j \in Key \ {k} : list'[j] = list[j]
    BY <2>1, <2>2
  <2>5. CASE list' = [list EXCEPT ![k] = b \o list[k]]
    <3>1. list'[k] = b \o list[k]
      BY <2>2, <2>5
    <3>2. /\ SubSeq(list'[k], 1, Len(b)) = b
          /\ SubSeq(list'[k], Len(b) + 1, Len(list'[k])) = list[k]
          /\ Len(list'[k]) - Len(list[k]) = Len(b) /\ Len(list'[k]) >= Len(list[k])
      BY <2>1, <3>1, ConcatParts
    <3> QED
      BY <2>1, <2>3, <2>4, <3>2 DEF Lists!Next, Lists!Insert
  <2>6. CASE list' = [list EXCEPT ![k] = list[k] \o b]
    <3>1. list'[k] = list[k] \o b
      BY <2>2, <2>6
    <3>2. /\ SubSeq(list'[k], 1, Len(list[k])) = list[k]
          /\ SubSeq(list'[k], Len(list[k]) + 1, Len(list'[k])) = b
          /\ Len(list'[k]) >= Len(list[k])
      <4>1. /\ SubSeq(list[k] \o b, 1, Len(list[k])) = list[k]
            /\ SubSeq(list[k] \o b, Len(list[k]) + 1, Len(list[k] \o b)) = b
            /\ Len(list[k] \o b) >= Len(list[k])
        <5>1. list[k] \in Seq(Elem) /\ b \in Seq(Elem)
          BY <2>1
        <5> DEFINE old == list[k]
        <5> HIDE DEF old
        <5>2. /\ SubSeq(old \o b, 1, Len(old)) = old
              /\ SubSeq(old \o b, Len(old) + 1, Len(old \o b)) = b
              /\ Len(old \o b) >= Len(old)
          BY <5>1, ConcatParts DEF old
        <5> QED
          BY <5>2 DEF old
      <4> QED
        BY <3>1, <4>1
    <3> QED
      BY <2>1, <2>3, <2>4, <3>2 DEF Lists!Next, Lists!Insert
  <2> QED
    BY <2>1, <2>5, <2>6
<1> QED
  BY <1>1, <1>2

LEMMA SetStringRefines ==
  ASSUME Awake, SetString
  PROVE  [Lists!Next]_<<list, taken>>
<1> DEFINE k == Body[cur][step].keys[1]
<1>1. cur \in Cmd /\ step \in 1..Len(Body[cur])
  BY DEF SetString, Running, Awake, Control
<1>2. k \in Key
  BY <1>1, OpType, OpKeys
<1>3. list' = [list EXCEPT ![k] = <<>>] /\ taken' = taken
  BY DEF SetString
<1> QED
  BY <1>2, <1>3 DEF Lists!Next, Lists!Replace

LEMMA PopRefines ==
  ASSUME NEW k \in Key, NEW c \in Cmd, Pop(k, c)
  PROVE  [Lists!Next]_<<list, taken>>
BY DEF Pop, Lists!Next, Lists!Take

\* The steps that pop, with the key and the command.
LEMMA PopSteps ==
  ASSUME Awake, PopLeft \/ BlockingPop \/ Wake
  PROVE  \E k \in Key : \E c \in Cmd : Pop(k, c)
<1>1. CASE PopLeft
  <2>1. cur \in Cmd /\ step \in 1..Len(Body[cur])
    BY <1>1 DEF PopLeft, Running, Awake, Control
  <2>2. Body[cur][step].keys[1] \in Key
    BY <2>1, OpType, OpKeys
  <2> QED
    BY <1>1, <2>1, <2>2 DEF PopLeft
<1>2. CASE BlockingPop
  <2>1. cur \in Cmd /\ step \in 1..Len(Body[cur]) /\ ~Blocks(Body[cur][step].keys)
    BY <1>2 DEF BlockingPop, Running, Awake, Control
  <2>2. HitKey(Body[cur][step].keys) \in Key
    BY <2>1, OpType, OpKeys, HitKeyProperties
  <2> QED
    BY <1>2, <2>1, <2>2 DEF BlockingPop
<1>3. CASE Wake
  <2>1. pos \in 1..Len(array) /\ array \in Seq(WaitersOn(Head(todo)))
    <3>1. pc = "scan" /\ pos <= Len(array)
      BY <1>3 DEF Wake
    <3>2. pos = last + 1 /\ array \in Seq(WaitersOn(Head(todo))) /\ last \in Nat
      BY <3>1 DEF Awake, Control, TypeOK
    <3> QED
      BY <3>1, <3>2, LenProperties
  <2>2. array[pos] \in Plain /\ ~Blocks(Keys(array[pos]))
    BY <1>3, <2>1, ElementOfSeq DEF Wake, WaitersOn
  <2>3. array[pos] \in Cmd /\ HitKey(Keys(array[pos])) \in Key
    BY <2>2, PlainKeys, HitKeyProperties
  <2> QED
    BY <1>3, <2>3 DEF Wake
<1> QED
  BY <1>1, <1>2, <1>3

\* Every step keeps the promise of the lists.
LEMMA StepRefines ==
  ASSUME Awake, Fresh, [Next]_vars
  PROVE  [Lists!Next]_<<list, taken>>
<1>1. CASE Push
  BY <1>1, PushRefines
<1>2. CASE SetString
  BY <1>2, SetStringRefines
<1>3. CASE PopLeft \/ BlockingPop \/ Wake
  BY <1>3, PopSteps, PopRefines
<1>4. CASE ~(Push \/ SetString \/ PopLeft \/ BlockingPop \/ Wake)
  <2>1. UNCHANGED <<list, taken>>
    BY <1>4, SMTT(30) DEF Next, vars, ExecutorStep, TimerStep, Issue, TakeCommand, TakeTransaction, Begin,
       BlockingPopWaits, Register, StartScan, Deregister, AnswerWoken, EndScan, Answer,
       TimerFire, TimerRead, TimerWrite, TimerAnswer, ConcurrentMapAbort, dataVars
  <2> QED
    BY <2>1
<1> QED
  BY <1>1, <1>2, <1>3, <1>4

-----------------------------------------------------------------------------
(* Sequences without a repetition.                                         *)

LEMMA ConcatDistinct ==
  ASSUME NEW T, NEW s \in Seq(T), NEW t \in Seq(T), IsInjective(s), IsInjective(t),
         ToSet(s) \cap ToSet(t) = {}
  PROVE  IsInjective(s \o t)
<1> DEFINE u == s \o t
<1>1. /\ DOMAIN s = 1..Len(s) /\ Len(s) \in Nat /\ DOMAIN t = 1..Len(t) /\ Len(t) \in Nat
      /\ DOMAIN u = 1..Len(s) + Len(t)
      /\ \A i \in 1..Len(s) + Len(t) : u[i] = IF i <= Len(s) THEN s[i] ELSE t[i - Len(s)]
  BY ConcatProperties, LenProperties
<1> HIDE DEF u
<1>2. ASSUME NEW i \in 1..Len(s) + Len(t), NEW j \in 1..Len(s) + Len(t), u[i] = u[j]
      PROVE  i = j
  <2>1. CASE i <= Len(s) /\ j <= Len(s)
    <3>1. i \in DOMAIN s /\ j \in DOMAIN s /\ s[i] = s[j]
      BY <1>1, <1>2, <2>1
    <3> QED
      BY <3>1 DEF IsInjective
  <2>2. CASE ~(i <= Len(s)) /\ ~(j <= Len(s))
    <3>1. i - Len(s) \in DOMAIN t /\ j - Len(s) \in DOMAIN t /\ t[i - Len(s)] = t[j - Len(s)]
      BY <1>1, <1>2, <2>2
    <3>2. i - Len(s) = j - Len(s)
      BY <3>1 DEF IsInjective
    <3> QED
      BY <1>1, <3>2
  <2>3. CASE i <= Len(s) /\ ~(j <= Len(s))
    <3>1. i \in DOMAIN s /\ j - Len(s) \in DOMAIN t /\ s[i] = t[j - Len(s)]
      BY <1>1, <1>2, <2>3
    <3> QED
      BY <3>1 DEF ToSet
  <2>4. CASE ~(i <= Len(s)) /\ j <= Len(s)
    <3>1. j \in DOMAIN s /\ i - Len(s) \in DOMAIN t /\ s[j] = t[i - Len(s)]
      BY <1>1, <1>2, <2>4
    <3> QED
      BY <3>1 DEF ToSet
  <2> QED
    BY <2>1, <2>2, <2>3, <2>4
<1>3. IsInjective(u)
  BY <1>1, <1>2 DEF IsInjective
<1> QED
  BY <1>3 DEF u

LEMMA AppendDistinct ==
  ASSUME NEW T, NEW s \in Seq(T), NEW e \in T, IsInjective(s), e \notin ToSet(s)
  PROVE  IsInjective(Append(s, e))
<1> DEFINE u == Append(s, e)
<1>1. /\ DOMAIN s = 1..Len(s) /\ Len(s) \in Nat
      /\ DOMAIN u = 1..Len(s) + 1
      /\ \A i \in 1..Len(s) : u[i] = s[i]
      /\ u[Len(s) + 1] = e
  BY AppendProperties, LenProperties
<1> HIDE DEF u
<1>2. ASSUME NEW i \in 1..Len(s) + 1, NEW j \in 1..Len(s) + 1,
             u[i] = u[j]
      PROVE  i = j
  <2>1. CASE i \in 1..Len(s) /\ j \in 1..Len(s)
    BY <1>1, <1>2, <2>1 DEF IsInjective
  <2>2. CASE i = Len(s) + 1 /\ j \in 1..Len(s)
    BY <1>1, <1>2, <2>2 DEF ToSet
  <2>3. CASE j = Len(s) + 1 /\ i \in 1..Len(s)
    BY <1>1, <1>2, <2>3 DEF ToSet
  <2> QED
    BY <1>1, <2>1, <2>2, <2>3
<1>3. IsInjective(u)
  BY <1>1, <1>2 DEF IsInjective
<1> QED
  BY <1>3 DEF u

LEMMA TailDistinct ==
  ASSUME NEW T, NEW s \in Seq(T), s # <<>>, IsInjective(s)
  PROVE  IsInjective(Tail(s)) /\ Head(s) \notin ToSet(Tail(s))
<1>1. /\ Len(s) \in Nat \ {0} /\ DOMAIN s = 1..Len(s)
      /\ DOMAIN Tail(s) = 1..Len(s) - 1 /\ Head(s) = s[1]
      /\ \A i \in 1..Len(s) - 1 : Tail(s)[i] = s[i + 1]
  <2>1. Tail(s) \in Seq(T) /\ Len(Tail(s)) = Len(s) - 1
        /\ \A i \in 1..Len(s) - 1 : Tail(s)[i] = s[i + 1]
    BY HeadTailProperties
  <2> QED
    BY <2>1, LenProperties, EmptySeq
<1>2. ASSUME NEW i \in 1..Len(s) - 1, NEW j \in 1..Len(s) - 1, Tail(s)[i] = Tail(s)[j]
      PROVE  i = j
  <2>1. i + 1 \in DOMAIN s /\ j + 1 \in DOMAIN s /\ s[i + 1] = s[j + 1]
    BY <1>1, <1>2
  <2>2. i + 1 = j + 1
    BY <2>1 DEF IsInjective
  <2> QED
    BY <2>2
<1>3. ASSUME NEW i \in 1..Len(s) - 1, Tail(s)[i] = Head(s) PROVE FALSE
  <2>1. i + 1 \in DOMAIN s /\ 1 \in DOMAIN s /\ s[i + 1] = s[1]
    BY <1>1, <1>3
  <2>2. i + 1 = 1
    BY <2>1 DEF IsInjective
  <2> QED
    BY <2>2
<1> QED
  BY <1>1, <1>2, <1>3 DEF IsInjective, ToSet

\* No element twice in a list, nor in two places.
Separate ==
  /\ \A k \in Key : IsInjective(list[k])
  /\ \A c \in Cmd : IsInjective(taken[c])
  /\ \A j, k \in Key : j # k => ToSet(list[j]) \cap ToSet(list[k]) = {}
  /\ \A c, d \in Cmd : c # d => ToSet(taken[c]) \cap ToSet(taken[d]) = {}
  /\ \A k \in Key, c \in Cmd : ToSet(list[k]) \cap ToSet(taken[c]) = {}

LEMMA SeparatePlaces ==
  ASSUME Separate
  PROVE  OnePlaceEach
<1> DEFINE ins  == {{<<"in", k, i>> : i \in DOMAIN list[k]} : k \in Key}
           outs == {{<<"out", c, i>> : i \in DOMAIN taken[c]} : c \in Cmd}
<1>1. Lists!Places = UNION (ins \cup outs)
  BY Zenon DEF Lists!Places
<1>2. ASSUME NEW p \in Lists!Places
      PROVE  \/ \E k \in Key : \E i \in DOMAIN list[k] : p = <<"in", k, i>>
             \/ \E c \in Cmd : \E i \in DOMAIN taken[c] : p = <<"out", c, i>>
  BY <1>1
<1> HIDE DEF ins, outs
<1>3. SUFFICES ASSUME NEW p \in Lists!Places, NEW q \in Lists!Places, Lists!At(p) = Lists!At(q)
               PROVE  p = q
  BY DEF OnePlaceEach, Lists!OnePlaceEach
<1>4. ASSUME NEW k \in Key, NEW i \in DOMAIN list[k], p = <<"in", k, i>>,
             NEW j \in Key, NEW m \in DOMAIN list[j], q = <<"in", j, m>>
      PROVE  p = q
  <2>1. list[k][i] = list[j][m]
    BY <1>3, <1>4 DEF Lists!At
  <2>2. k = j
    BY <2>1 DEF Separate, ToSet
  <2>3. i = m
    BY <2>1, <2>2 DEF Separate, IsInjective
  <2> QED
    BY <1>4, <2>2, <2>3
<1>5. ASSUME NEW c \in Cmd, NEW i \in DOMAIN taken[c], p = <<"out", c, i>>,
             NEW d \in Cmd, NEW m \in DOMAIN taken[d], q = <<"out", d, m>>
      PROVE  p = q
  <2>1. taken[c][i] = taken[d][m]
    BY <1>3, <1>5 DEF Lists!At
  <2>2. c = d
    BY <2>1 DEF Separate, ToSet
  <2>3. i = m
    BY <2>1, <2>2 DEF Separate, IsInjective
  <2> QED
    BY <1>5, <2>2, <2>3
<1>6. ASSUME NEW r \in Lists!Places, NEW k \in Key, NEW i \in DOMAIN list[k], r = <<"in", k, i>>,
             NEW t \in Lists!Places, NEW c \in Cmd, NEW m \in DOMAIN taken[c], t = <<"out", c, m>>
      PROVE  Lists!At(r) # Lists!At(t)
  BY <1>6 DEF Lists!At, Separate, ToSet
<1> DEFINE In(r)  == \E k \in Key : \E i \in DOMAIN list[k] : r = <<"in", k, i>>
           Out(r) == \E c \in Cmd : \E i \in DOMAIN taken[c] : r = <<"out", c, i>>
<1>7. CASE In(p) /\ In(q)
  BY <1>4, <1>7
<1>8. CASE Out(p) /\ Out(q)
  BY <1>5, <1>8
<1>9. CASE (In(p) /\ Out(q)) \/ (Out(p) /\ In(q))
  BY <1>3, <1>6, <1>9
<1> QED
  BY <1>2, <1>7, <1>8, <1>9

LEMMA InitSeparate == Init => Separate
BY DEF Init, Separate, IsInjective, ToSet

\* New elements at either end of one list.
LEMMA SeparateAdd ==
  ASSUME TypeOK, Separate, NEW k \in Key, NEW b \in Seq(Elem),
         list' = [list EXCEPT ![k] = b \o list[k]] \/ list' = [list EXCEPT ![k] = list[k] \o b],
         taken' = taken, IsInjective(b), ToSet(b) \cap Lists!Present = {}
  PROVE  Separate'
<1>1. list \in [Key -> Seq(Elem)] /\ list[k] \in Seq(Elem)
  BY DEF TypeOK
<1>2. /\ \A j \in Key : ToSet(b) \cap ToSet(list[j]) = {}
      /\ \A c \in Cmd : ToSet(b) \cap ToSet(taken[c]) = {}
  BY PresentMembers
<1>3. /\ IsInjective(b \o list[k]) /\ IsInjective(list[k] \o b)
      /\ ToSet(b \o list[k]) = ToSet(b) \cup ToSet(list[k])
      /\ ToSet(list[k] \o b) = ToSet(b) \cup ToSet(list[k])
  <2>1. IsInjective(list[k])
    BY DEF Separate
  <2>2. ToSet(b) \cap ToSet(list[k]) = {}
    BY <1>2
  <2> DEFINE old == list[k]
  <2>3. old \in Seq(Elem) /\ IsInjective(old) /\ ToSet(b) \cap ToSet(old) = {}
        /\ ToSet(old) \cap ToSet(b) = {}
    BY <1>1, <2>1, <2>2
  <2> HIDE DEF old
  <2>4. IsInjective(b \o old) /\ IsInjective(old \o b)
    BY <2>3, ConcatDistinct
  <2>5. ToSet(b \o old) = ToSet(b) \cup ToSet(old) /\ ToSet(old \o b) = ToSet(b) \cup ToSet(old)
    BY <2>3, ConcatMembersOnly
  <2> QED
    BY <2>4, <2>5 DEF old
<1>4. /\ IsInjective(list'[k]) /\ ToSet(list'[k]) = ToSet(b) \cup ToSet(list[k])
      /\ \A j \in Key \ {k} : list'[j] = list[j]
  BY <1>1, <1>3
<1>5. \A j \in Key : IsInjective(list'[j])
  BY <1>4 DEF Separate
<1>6. ASSUME NEW i \in Key, NEW j \in Key, i # j PROVE ToSet(list'[i]) \cap ToSet(list'[j]) = {}
  BY <1>2, <1>4, <1>6 DEF Separate
<1>7. ASSUME NEW j \in Key, NEW c \in Cmd PROVE ToSet(list'[j]) \cap ToSet(taken'[c]) = {}
  BY <1>2, <1>4, <1>7 DEF Separate
<1> QED
  BY <1>5, <1>6, <1>7 DEF Separate

\* An element moves from the head of a list to what a command took.
LEMMA SeparatePop ==
  ASSUME TypeOK, Separate, NEW k \in Key, NEW c \in Cmd, Pop(k, c)
  PROVE  Separate'
<1>1. CASE list[k] = <<>>
  BY <1>1 DEF Pop, Separate
<1>2. CASE list[k] # <<>>
  <2> DEFINE e == Head(list[k])
  <2>1. /\ list \in [Key -> Seq(Elem)] /\ taken \in [Cmd -> Seq(Elem)]
        /\ list[k] \in Seq(Elem) /\ taken[c] \in Seq(Elem) /\ e \in Elem
    BY <1>2, HeadTailProperties DEF TypeOK
  <2>2. /\ list'[k] = Tail(list[k]) /\ taken'[c] = Append(taken[c], e)
        /\ \A j \in Key \ {k} : list'[j] = list[j]
        /\ \A d \in Cmd \ {c} : taken'[d] = taken[d]
    BY <1>2, <2>1 DEF Pop
  <2>3. /\ IsInjective(list'[k]) /\ ToSet(list'[k]) \subseteq ToSet(list[k])
        /\ e \in ToSet(list[k]) /\ e \notin ToSet(list'[k])
    BY <1>2, <2>1, <2>2, TailDistinct, TailMembers DEF Separate
  <2> HIDE DEF e
  <2>4. e \notin ToSet(taken[c])
    BY <2>3 DEF Separate
  <2>5. IsInjective(taken'[c]) /\ ToSet(taken'[c]) = ToSet(taken[c]) \cup {e}
    <3> DEFINE old == taken[c]
    <3>1. old \in Seq(Elem) /\ e \in Elem /\ e \notin ToSet(old) /\ IsInjective(old)
      BY <2>1, <2>4 DEF Separate
    <3> HIDE DEF old
    <3>2. IsInjective(Append(old, e))
      BY <3>1, AppendDistinct
    <3>3. ToSet(Append(old, e)) = ToSet(old) \cup {e}
      BY <3>1, AppendMembers
    <3> QED
      BY <2>2, <3>2, <3>3 DEF old
  <2>6. /\ \A j \in Key : IsInjective(list'[j]) /\ ToSet(list'[j]) \subseteq ToSet(list[j])
        /\ \A j \in Key : e \notin ToSet(list'[j])
    BY <2>2, <2>3 DEF Separate
  <2>7. /\ \A d \in Cmd : IsInjective(taken'[d])
        /\ \A d \in Cmd \ {c} : e \notin ToSet(taken'[d])
    BY <2>2, <2>3, <2>5 DEF Separate
  <2>8. \A i, j \in Key : i # j => ToSet(list'[i]) \cap ToSet(list'[j]) = {}
    BY <2>6 DEF Separate
  <2>9. \A d, f \in Cmd : d # f => ToSet(taken'[d]) \cap ToSet(taken'[f]) = {}
    <3>1. \A d, f \in Cmd : d # f => ToSet(taken[d]) \cap ToSet(taken[f]) = {}
      BY DEF Separate
    <3> TAKE d, f \in Cmd
    <3>2. CASE d # c /\ f # c
      BY <2>2, <3>1, <3>2
    <3>3. \A g \in Cmd \ {c} : ToSet(taken'[g]) \cap ToSet(taken'[c]) = {}
      <4> TAKE g \in Cmd \ {c}
      <4>1. taken'[g] = taken[g] /\ ToSet(taken[g]) \cap ToSet(taken[c]) = {}
        BY <2>2, <3>1
      <4> QED
        BY <2>5, <2>7, <4>1
    <3>4. CASE d = c \/ f = c
      BY <3>3, <3>4
    <3> QED
      BY <3>2, <3>3, <3>4
  <2>10. \A j \in Key, d \in Cmd : ToSet(list'[j]) \cap ToSet(taken'[d]) = {}
    <3>1. \A j \in Key, d \in Cmd : ToSet(list[j]) \cap ToSet(taken[d]) = {}
      BY DEF Separate
    <3> TAKE j \in Key, d \in Cmd
    <3>2. CASE d # c
      BY <2>2, <2>6, <3>1, <3>2
    <3>3. CASE d = c
      BY <2>5, <2>6, <3>1, <3>3
    <3> QED
      BY <3>2, <3>3
  <2> QED
    BY <2>6, <2>7, <2>8, <2>9, <2>10 DEF Separate
<1> QED
  BY <1>1, <1>2

LEMMA SeparateStep ==
  ASSUME Awake, Fresh, Separate, [Next]_vars
  PROVE  Separate'
<1>1. CASE Push
  <2>1. CASE Body[cur][step].keys[1] \in str
    BY <1>1, <2>1 DEF Push, Separate
  <2>2. CASE Body[cur][step].keys[1] \notin str
    <3>1. PICK k \in Key, b \in Seq(Elem) :
            /\ list' = [list EXCEPT ![k] = b \o list[k]] \/ list' = [list EXCEPT ![k] = list[k] \o b]
            /\ taken' = taken /\ IsInjective(b) /\ list[k] \in Seq(Elem)
            /\ \A e \in ToSet(b) : e[1] = cur /\ e[2] = step
      BY <1>1, <2>2, PushEffect, Zenon
    <3>2. pc = "body" /\ TypeOK
      BY <1>1 DEF Push, Running, Awake
    <3>3. ToSet(b) \cap Lists!Present = {}
      BY <3>1, <3>2, NewElements
    <3> QED
      BY <3>1, <3>2, <3>3, SeparateAdd
  <2> QED
    BY <2>1, <2>2
<1>2. CASE SetString
  <2>1. list \in [Key -> Seq(Elem)] /\ taken' = taken
        /\ list' = [list EXCEPT ![Body[cur][step].keys[1]] = <<>>]
    BY <1>2 DEF SetString, Awake, TypeOK
  <2>2. \A j \in Key : list'[j] = list[j] \/ list'[j] = <<>>
    BY <2>1
  <2>3. IsInjective(<<>>) /\ ToSet(<<>>) = {}
    BY DEF IsInjective, ToSet
  <2>4. \A j \in Key : IsInjective(list'[j]) /\ ToSet(list'[j]) \subseteq ToSet(list[j])
    BY <2>2, <2>3 DEF Separate
  <2>5. \A i, j \in Key : i # j => ToSet(list'[i]) \cap ToSet(list'[j]) = {}
    BY <2>4 DEF Separate
  <2>6. \A j \in Key, d \in Cmd : ToSet(list'[j]) \cap ToSet(taken'[d]) = {}
    BY <2>1, <2>4 DEF Separate
  <2> QED
    BY <2>1, <2>4, <2>5, <2>6 DEF Separate
<1>3. CASE PopLeft \/ BlockingPop \/ Wake
  BY <1>3, PopSteps, SeparatePop DEF Awake
<1>4. CASE ~(Push \/ SetString \/ PopLeft \/ BlockingPop \/ Wake)
  <2>1. UNCHANGED <<list, taken>>
    BY <1>4, SMTT(30) DEF Next, vars, ExecutorStep, TimerStep, Issue, TakeCommand, TakeTransaction, Begin,
       BlockingPopWaits, Register, StartScan, Deregister, AnswerWoken, EndScan, Answer,
       TimerFire, TimerRead, TimerWrite, TimerAnswer, ConcurrentMapAbort, dataVars
  <2> QED
    BY <2>1 DEF Separate
<1> QED
  BY <1>1, <1>2, <1>3, <1>4

-----------------------------------------------------------------------------
(* Fresh is inductive.                                                     *)

LEMMA InitFresh == Init => Fresh
<1> SUFFICES ASSUME Init PROVE Fresh
  OBVIOUS
<1>1. Lists!Present = {}
  <2>1. \A e : e \notin Lists!Present
    BY PresentMembers DEF Init, ToSet
  <2> QED
    BY <2>1
<1> QED
  BY <1>1 DEF Init, Fresh, IsInjective, ToSet

\* A step that takes no request and makes no element.
LEMMA FreshKept ==
  ASSUME Awake, Fresh, UNCHANGED <<cmdQueue, txQueue, issued>>, cur' \in {cur, None},
         Lists!Present' \subseteq Lists!Present,
         pc' = "body" => pc = "body" /\ cur' = cur /\ step' \in {step, step + 1}
  PROVE  Fresh'
<1>1. Executed' = Executed
  BY DEF Executed
<1>2. ASSUME NEW e \in Lists!Present'
      PROVE  e[1] \in Executed /\ (pc' = "body" /\ e[1] = cur' => e[2] < step')
  <2>1. e[2] \in Nat /\ step \in Nat
    BY PresentElements DEF Elem, Awake, TypeOK
  <2>2. e[1] \in Executed /\ (pc = "body" /\ e[1] = cur => e[2] < step)
    BY DEF Fresh
  <2> QED
    BY <2>1, <2>2
<1> QED
  BY <1>1, <1>2 DEF Fresh

\* A request that is issued waits in a channel: it is not executed yet.
LEMMA IssueQueues ==
  ASSUME Awake, Fresh, NEW c \in Cmd, Issue(c)
  PROVE  /\ IsInjective(cmdQueue') /\ ToSet(cmdQueue') \subseteq {x \in issued' : ~IsTx[x]}
         /\ IsInjective(txQueue') /\ ToSet(txQueue') \subseteq {x \in issued' : IsTx[x]}
         /\ Executed' = Executed
<1>1. /\ issued' = issued \cup {c} /\ c \notin issued
      /\ UNCHANGED <<list, taken, pc, cur, step>>
      /\ cmdQueue \in Seq(Cmd) /\ txQueue \in Seq(Cmd)
  BY DEF Issue, dataVars, Awake, TypeOK
<1>2. /\ \/ IsTx[c] /\ txQueue' = Append(txQueue, c) /\ cmdQueue' = cmdQueue
         \/ ~IsTx[c] /\ cmdQueue' = Append(cmdQueue, c) /\ txQueue' = txQueue
  BY DEF Issue
<1>3. /\ IsInjective(cmdQueue) /\ ToSet(cmdQueue) \subseteq {x \in issued : ~IsTx[x]}
      /\ IsInjective(txQueue) /\ ToSet(txQueue) \subseteq {x \in issued : IsTx[x]}
  BY DEF Fresh
<1>4. /\ IsInjective(cmdQueue') /\ ToSet(cmdQueue') \subseteq {x \in issued' : ~IsTx[x]}
      /\ IsInjective(txQueue') /\ ToSet(txQueue') \subseteq {x \in issued' : IsTx[x]}
      /\ ToSet(cmdQueue') \cup ToSet(txQueue') = ToSet(cmdQueue) \cup ToSet(txQueue) \cup {c}
  <2>1. CASE IsTx[c] /\ txQueue' = Append(txQueue, c) /\ cmdQueue' = cmdQueue
    <3>1. IsInjective(txQueue') /\ ToSet(txQueue') = ToSet(txQueue) \cup {c}
      BY <1>1, <1>3, <2>1, AppendDistinct, AppendMembers
    <3> QED
      BY <1>1, <1>3, <2>1, <3>1
  <2>2. CASE ~IsTx[c] /\ cmdQueue' = Append(cmdQueue, c) /\ txQueue' = txQueue
    <3>1. IsInjective(cmdQueue') /\ ToSet(cmdQueue') = ToSet(cmdQueue) \cup {c}
      BY <1>1, <1>3, <2>2, AppendDistinct, AppendMembers
    <3> QED
      BY <1>1, <1>3, <2>2, <3>1
  <2> QED
    BY <1>2, <2>1, <2>2
<1>5. Executed' = Executed
  BY <1>1, <1>3, <1>4 DEF Executed
<1> QED
  BY <1>4, <1>5

LEMMA IssueFresh == ASSUME Awake, Fresh, NEW c \in Cmd, Issue(c) PROVE Fresh'
<1>1. UNCHANGED <<list, taken, pc, cur, step>>
  BY DEF Issue, dataVars
<1>2. Lists!Present' = Lists!Present
  BY <1>1, SamePresent
<1>3. /\ IsInjective(cmdQueue') /\ ToSet(cmdQueue') \subseteq {x \in issued' : ~IsTx[x]}
      /\ IsInjective(txQueue') /\ ToSet(txQueue') \subseteq {x \in issued' : IsTx[x]}
      /\ Executed' = Executed
  BY IssueQueues
<1> QED
  BY <1>1, <1>2, <1>3 DEF Fresh

\* A request that is taken from its channel is executed for the first time.
LEMMA TakeBegins ==
  ASSUME Awake, Fresh, TakeCommand \/ TakeTransaction
  PROVE  \E c \in Cmd :
           /\ Begin(c) /\ issued' = issued
           /\ IsInjective(cmdQueue') /\ ToSet(cmdQueue') \subseteq {x \in issued : ~IsTx[x]}
           /\ IsInjective(txQueue') /\ ToSet(txQueue') \subseteq {x \in issued : IsTx[x]}
           /\ c \notin Executed /\ Executed' = Executed \cup {c}
<1>1. cmdQueue \in Seq(Cmd) /\ txQueue \in Seq(Cmd)
  BY DEF Awake, TypeOK
<1>2. /\ IsInjective(cmdQueue) /\ ToSet(cmdQueue) \subseteq {x \in issued : ~IsTx[x]}
      /\ IsInjective(txQueue) /\ ToSet(txQueue) \subseteq {x \in issued : IsTx[x]}
  BY DEF Fresh
<1>3. \E c \in Cmd :
        /\ Begin(c) /\ c \in issued
        /\ IsInjective(cmdQueue') /\ ToSet(cmdQueue') \subseteq {x \in issued : ~IsTx[x]}
        /\ IsInjective(txQueue') /\ ToSet(txQueue') \subseteq {x \in issued : IsTx[x]}
        /\ c \notin ToSet(cmdQueue') \cup ToSet(txQueue')
        /\ ToSet(cmdQueue) \cup ToSet(txQueue) = ToSet(cmdQueue') \cup ToSet(txQueue') \cup {c}
  <2>1. CASE TakeCommand
    <3>1. /\ cmdQueue # <<>> /\ cmdQueue' = Tail(cmdQueue) /\ Begin(Head(cmdQueue))
          /\ txQueue' = txQueue
      BY <2>1 DEF TakeCommand
    <3>2. /\ Head(cmdQueue) \in Cmd /\ IsInjective(cmdQueue')
          /\ Head(cmdQueue) \notin ToSet(cmdQueue') /\ Head(cmdQueue) \in ToSet(cmdQueue)
          /\ ToSet(cmdQueue) = ToSet(cmdQueue') \cup {Head(cmdQueue)}
      BY <1>1, <1>2, <3>1, HeadTailProperties, TailDistinct, TailMembers
    <3> QED
      BY <1>2, <3>1, <3>2
  <2>2. CASE TakeTransaction
    <3>1. /\ txQueue # <<>> /\ txQueue' = Tail(txQueue) /\ Begin(Head(txQueue))
          /\ cmdQueue' = cmdQueue
      BY <2>2 DEF TakeTransaction
    <3>2. /\ Head(txQueue) \in Cmd /\ IsInjective(txQueue')
          /\ Head(txQueue) \notin ToSet(txQueue') /\ Head(txQueue) \in ToSet(txQueue)
          /\ ToSet(txQueue) = ToSet(txQueue') \cup {Head(txQueue)}
      BY <1>1, <1>2, <3>1, HeadTailProperties, TailDistinct, TailMembers
    <3> QED
      BY <1>2, <3>1, <3>2
  <2> QED
    BY <2>1, <2>2
<1>4. PICK c \in Cmd :
        /\ Begin(c) /\ c \in issued
        /\ IsInjective(cmdQueue') /\ ToSet(cmdQueue') \subseteq {x \in issued : ~IsTx[x]}
        /\ IsInjective(txQueue') /\ ToSet(txQueue') \subseteq {x \in issued : IsTx[x]}
        /\ c \notin ToSet(cmdQueue') \cup ToSet(txQueue')
        /\ ToSet(cmdQueue) \cup ToSet(txQueue) = ToSet(cmdQueue') \cup ToSet(txQueue') \cup {c}
  BY <1>3
<1>5. issued' = issued
  BY <1>4 DEF Begin
<1>6. ToSet(cmdQueue) \cup ToSet(txQueue) = ToSet(cmdQueue') \cup ToSet(txQueue') \cup {c}
  BY <1>4
<1>7. c \notin Executed /\ Executed' = Executed \cup {c}
  BY <1>4, <1>5, <1>6 DEF Executed
<1> QED
  BY <1>4, <1>5, <1>7

LEMMA TakeFresh == ASSUME Awake, Fresh, TakeCommand \/ TakeTransaction PROVE Fresh'
<1>1. PICK c \in Cmd :
        /\ Begin(c) /\ issued' = issued
        /\ IsInjective(cmdQueue') /\ ToSet(cmdQueue') \subseteq {x \in issued : ~IsTx[x]}
        /\ IsInjective(txQueue') /\ ToSet(txQueue') \subseteq {x \in issued : IsTx[x]}
        /\ c \notin Executed /\ Executed' = Executed \cup {c}
  BY TakeBegins
<1>2. cur' = c /\ UNCHANGED <<list, taken>>
  BY <1>1 DEF Begin, dataVars
<1>3. Lists!Present' = Lists!Present
  BY <1>2, SamePresent
<1>4. \A e \in Lists!Present : e[1] \in Executed
  BY DEF Fresh
<1> QED
  BY <1>1, <1>2, <1>3, <1>4 DEF Fresh

LEMMA PushFresh == ASSUME Awake, Fresh, Push PROVE Fresh'
<1>1. /\ pc = "body" /\ step \in Nat /\ step' = step + 1 /\ cur \in Executed /\ cur' = cur
      /\ UNCHANGED <<cmdQueue, txQueue, issued>> /\ TypeOK
  <2>1. pc = "body" /\ TypeOK /\ step \in Nat
    BY DEF Push, Running, Awake, TypeOK
  <2>2. cur \in Cmd /\ cur # None
    BY <2>1, ConstantsAssumption DEF Awake, Control
  <2> QED
    BY <2>1, <2>2 DEF Push, NextOperation, Fresh, queueVars
<1>2. ASSUME NEW e \in Lists!Present', e \notin Lists!Present PROVE e[1] = cur /\ e[2] = step
  <2>1. CASE Body[cur][step].keys[1] \in str
    <3>1. Lists!Present' = Lists!Present
      BY <2>1, SamePresent DEF Push
    <3> QED
      BY <1>2, <3>1
  <2>2. CASE Body[cur][step].keys[1] \notin str
    <3>1. PICK k \in Key, b \in Seq(Elem) :
            /\ list' = [list EXCEPT ![k] = b \o list[k]] \/ list' = [list EXCEPT ![k] = list[k] \o b]
            /\ taken' = taken /\ IsInjective(b) /\ list[k] \in Seq(Elem)
            /\ \A x \in ToSet(b) : x[1] = cur /\ x[2] = step
      BY <2>2, PushEffect, Zenon
    <3>2. \A j \in Key : ToSet(list'[j]) \subseteq ToSet(list[j]) \cup ToSet(b)
      <4> DEFINE old == list[k]
      <4>1. old \in Seq(Elem) /\ list \in [Key -> Seq(Elem)]
        BY <1>1, <3>1 DEF TypeOK
      <4> HIDE DEF old
      <4>2. ToSet(b \o old) = ToSet(b) \cup ToSet(old) /\ ToSet(old \o b) = ToSet(b) \cup ToSet(old)
        BY <4>1, ConcatMembersOnly
      <4> QED
        BY <3>1, <4>1, <4>2 DEF old
    <3>3. (\E j \in Key : e \in ToSet(list'[j])) \/ \E c \in Cmd : e \in ToSet(taken'[c])
      BY PresentMembersNext
    <3>4. /\ \A j \in Key : e \notin ToSet(list[j])
          /\ \A c \in Cmd : e \notin ToSet(taken[c])
      BY <1>2, PresentMembers
    <3>5. e \in ToSet(b)
      BY <3>1, <3>2, <3>3, <3>4
    <3> QED
      BY <3>1, <3>5
  <2> QED
    BY <2>1, <2>2
<1>3. ASSUME NEW e \in Lists!Present'
      PROVE  e[1] \in Executed /\ (e[1] = cur => e[2] < step + 1)
  <2>1. CASE e \in Lists!Present
    <3>1. e[2] \in Nat
      BY <2>1, <1>1, PresentElements DEF Elem
    <3> QED
      BY <1>1, <2>1, <3>1 DEF Fresh
  <2>2. CASE e \notin Lists!Present
    BY <1>1, <1>2, <2>2
  <2> QED
    BY <2>1, <2>2
<1>4. Executed' = Executed
  BY <1>1 DEF Executed
<1> QED
  BY <1>1, <1>3, <1>4 DEF Fresh

LEMMA SetStringFresh == ASSUME Awake, Fresh, SetString PROVE Fresh'
<1>1. /\ pc = "body" /\ list \in [Key -> Seq(Elem)]
      /\ list' = [list EXCEPT ![Body[cur][step].keys[1]] = <<>>]
      /\ step' = step + 1 /\ cur' = cur /\ taken' = taken
      /\ UNCHANGED <<cmdQueue, txQueue, issued>>
  BY DEF SetString, Running, NextOperation, Awake, TypeOK, queueVars
<1>2. \A j \in Key : ToSet(list'[j]) \subseteq ToSet(list[j])
  <2>1. ToSet(<<>>) = {}
    BY DEF ToSet
  <2> QED
    BY <1>1, <2>1
<1>3. Lists!Present' \subseteq Lists!Present
  BY <1>1, <1>2, PresentMembers, PresentMembersNext
<1> QED
  BY <1>1, <1>3, FreshKept

LEMMA PopFresh == ASSUME Awake, Fresh, PopLeft \/ BlockingPop \/ Wake PROVE Fresh'
<1>1. Lists!Present' \subseteq Lists!Present
  BY PopSteps, PopPresent DEF Awake
<1>2. /\ UNCHANGED <<cmdQueue, txQueue, issued>> /\ cur' = cur
      /\ pc' = "body" => pc = "body" /\ step' = step + 1
  BY DEF PopLeft, BlockingPop, Wake, NextOperation, Running, queueVars
<1> QED
  BY <1>1, <1>2, FreshKept

LEMMA FreshStep == ASSUME Awake, Fresh, [Next]_vars PROVE Fresh'
<1>1. CASE \E c \in Cmd : Issue(c)
  BY <1>1, IssueFresh
<1>2. CASE TakeCommand \/ TakeTransaction
  BY <1>2, TakeFresh
<1>3. CASE Push \/ SetString
  BY <1>3, PushFresh, SetStringFresh
<1>4. CASE PopLeft \/ BlockingPop \/ Wake
  BY <1>4, PopFresh
<1>5. CASE \/ BlockingPopWaits \/ Register \/ StartScan \/ Deregister \/ AnswerWoken
           \/ EndScan \/ Answer
  <2>1. /\ UNCHANGED <<list, taken, cmdQueue, txQueue, issued>> /\ cur' \in {cur, None}
        /\ pc' = "body" => pc = "body" /\ step' = step + 1 /\ cur' = cur
    BY <1>5 DEF BlockingPopWaits, Register, StartScan, Deregister, AnswerWoken, EndScan, Answer,
       NextOperation, Running, dataVars, queueVars
  <2> QED
    BY <2>1, SamePresent, FreshKept
<1>6. CASE ConcurrentMapAbort \/ (\E c \in Cmd : TimerStep(c)) \/ UNCHANGED vars
  <2>1. /\ UNCHANGED <<list, taken, cmdQueue, txQueue, issued, cur>>
        /\ pc' = "body" => pc = "body" /\ step' = step
    BY <1>6 DEF ConcurrentMapAbort, TimerStep, TimerFire, TimerRead, TimerWrite, TimerAnswer,
       vars, dataVars, queueVars
  <2> QED
    BY <2>1, SamePresent, FreshKept
<1> QED
  BY <1>1, <1>2, <1>3, <1>4, <1>5, <1>6 DEF Next, ExecutorStep

-----------------------------------------------------------------------------
(* Cutting a command out of a list without a repetition.                   *)

LEMMA WithoutDistinct ==
  ASSUME NEW T, NEW s \in Seq(T), NEW e, IsInjective(s)
  PROVE  IsInjective(Without(s, e)) /\ ToSet(Without(s, e)) = ToSet(s) \ {e}
<1>1. CASE e \notin ToSet(s)
  BY <1>1 DEF Without
<1>2. CASE e \in ToSet(s)
  <2> DEFINE n == Position(s, e)
             L == Len(s)
             a == SubSeq(s, 1, n - 1)
             b == SubSeq(s, n + 1, L)
  <2>1. /\ n \in 1..L /\ s[n] = e /\ L \in Nat /\ DOMAIN s = 1..L
        /\ \A i \in 1..L : s[i] \in T
    BY <1>2, PositionProperties, LenProperties, ElementOfSeq
  <2>2. Without(s, e) = a \o b
    BY <1>2 DEF Without, RemoveAt
  <2> HIDE DEF n, L
  <2>3. \A i, j \in 1..L : s[i] = s[j] => i = j
    BY <2>1 DEF IsInjective
  <2>4. a \in Seq(T) /\ Len(a) = n - 1 /\ \A i \in 1..n - 1 : a[i] = s[i]
    <3>1. \A i \in 1..n - 1 : s[i] \in T
      BY <2>1
    <3>2. /\ a \in Seq(T) /\ Len(a) = IF 1 <= n - 1 THEN n - 1 - 1 + 1 ELSE 0
          /\ \A i \in 1..n - 1 - 1 + 1 : a[i] = s[1 + i - 1]
      BY <2>1, <3>1, SubSeqProperties
    <3> QED
      BY <2>1, <3>2
  <2>5. b \in Seq(T) /\ Len(b) = L - n /\ \A i \in 1..L - n : b[i] = s[n + i]
    <3>1. \A i \in n + 1..L : s[i] \in T
      BY <2>1
    <3>2. /\ b \in Seq(T) /\ Len(b) = IF n + 1 <= L THEN L - (n + 1) + 1 ELSE 0
          /\ \A i \in 1..L - (n + 1) + 1 : b[i] = s[n + 1 + i - 1]
      BY <2>1, <3>1, SubSeqProperties
    <3> QED
      BY <2>1, <3>2
  <2> HIDE DEF a, b
  <2>6. /\ DOMAIN a = 1..n - 1 /\ DOMAIN b = 1..L - n
    BY <2>4, <2>5, LenProperties
  <2>7. IsInjective(a) /\ IsInjective(b) /\ ToSet(a) \cap ToSet(b) = {}
    <3>1. \A i, j \in 1..n - 1 : a[i] = a[j] => i = j
      BY <2>1, <2>3, <2>4
    <3>2. \A i, j \in 1..L - n : b[i] = b[j] => i = j
      <4> TAKE i, j \in 1..L - n
      <4>1. n + i \in 1..L /\ n + j \in 1..L /\ b[i] = s[n + i] /\ b[j] = s[n + j]
        BY <2>1, <2>5
      <4>2. b[i] = b[j] => n + i = n + j
        BY <2>3, <4>1
      <4> QED
        BY <2>1, <4>2
    <3>3. \A i \in 1..n - 1, j \in 1..L - n : a[i] # b[j]
      <4> TAKE i \in 1..n - 1, j \in 1..L - n
      <4>1. i \in 1..L /\ n + j \in 1..L /\ i # n + j /\ a[i] = s[i] /\ b[j] = s[n + j]
        BY <2>1, <2>4, <2>5
      <4> QED
        BY <2>3, <4>1
    <3> QED
      BY <2>6, <3>1, <3>2, <3>3 DEF IsInjective, ToSet
  <2>8. ToSet(a) \cup ToSet(b) = ToSet(s) \ {e}
    <3>1. \A i \in 1..n - 1 : a[i] \in ToSet(s) /\ a[i] # e
      BY <2>1, <2>3, <2>4 DEF ToSet
    <3>2. \A i \in 1..L - n : b[i] \in ToSet(s) /\ b[i] # e
      <4> TAKE i \in 1..L - n
      <4>1. n + i \in 1..L /\ n + i # n /\ b[i] = s[n + i]
        BY <2>1, <2>5
      <4> QED
        BY <2>1, <2>3, <4>1 DEF ToSet
    <3>3. ASSUME NEW i \in 1..L, s[i] # e PROVE s[i] \in ToSet(a) \cup ToSet(b)
      <4>1. CASE i < n
        BY <2>1, <2>4, <2>6, <4>1 DEF ToSet
      <4>2. CASE i > n
        <5>1. i - n \in 1..L - n /\ n + (i - n) = i
          BY <2>1, <4>2
        <5>2. b[i - n] = s[i]
          BY <2>5, <5>1
        <5> QED
          BY <2>6, <5>1, <5>2 DEF ToSet
      <4> QED
        BY <2>1, <3>3, <4>1, <4>2
    <3>4. ToSet(s) \ {e} \subseteq ToSet(a) \cup ToSet(b)
      BY <2>1, <3>3 DEF ToSet
    <3>5. ToSet(a) \cup ToSet(b) \subseteq ToSet(s) \ {e}
      BY <2>6, <3>1, <3>2 DEF ToSet
    <3> QED
      BY <3>4, <3>5
  <2>9. IsInjective(a \o b)
    BY <2>4, <2>5, <2>7, ConcatDistinct
  <2>10. ToSet(a \o b) = ToSet(a) \cup ToSet(b)
    BY <2>4, <2>5, ConcatMembersOnly
  <2> QED
    BY <2>2, <2>8, <2>9, <2>10
<1> QED
  BY <1>1, <1>2

\* A list without a repetition has room for two waiters only.
LEMMA TwoAtMost ==
  ASSUME TwoWaiters, NEW k \in Key, NEW s \in Seq(Cmd), IsInjective(s), ToSet(s) \subseteq BlocksFor(k)
  PROVE  Len(s) <= 2
<1> SUFFICES ASSUME ~(Len(s) <= 2) PROVE FALSE
  OBVIOUS
<1>1. DOMAIN s = 1..Len(s) /\ Len(s) \in Nat
  BY LenProperties
<1>2. 1 \in DOMAIN s /\ 2 \in DOMAIN s /\ 3 \in DOMAIN s
  BY <1>1
<1>3. s[1] # s[2] /\ s[2] # s[3] /\ s[1] # s[3]
  BY <1>2 DEF IsInjective
<1>4. s[1] \in BlocksFor(k) /\ s[2] \in BlocksFor(k) /\ s[3] \in BlocksFor(k)
  BY <1>2 DEF ToSet
<1> QED
  BY <1>3, <1>4 DEF TwoWaiters

\* The end of a sequence from place p on.
LEMMA RestProperties ==
  ASSUME NEW T, NEW a \in Seq(T), NEW p \in 1..Len(a)
  PROVE  LET s == SubSeq(a, p, Len(a))
         IN /\ s \in Seq(T) /\ Len(s) = Len(a) - p + 1 /\ s[1] = a[p] /\ a[p] \in ToSet(s)
            /\ \A i \in 1..Len(s) : s[i] = a[p + i - 1]
            /\ 1 \in DOMAIN s /\ DOMAIN s = 1..Len(s)
<1> DEFINE s == SubSeq(a, p, Len(a))
<1>1. Len(a) \in Nat /\ p \in Nat /\ p <= Len(a) /\ 1 <= p /\ \A i \in 1..Len(a) : a[i] \in T
  BY LenProperties, ElementOfSeq
<1>2. \A i \in p..Len(a) : a[i] \in T
  BY <1>1
<1>3. /\ s \in Seq(T) /\ Len(s) = IF p <= Len(a) THEN Len(a) - p + 1 ELSE 0
      /\ \A i \in 1..Len(a) - p + 1 : s[i] = a[p + i - 1]
  BY <1>1, <1>2, SubSeqProperties
<1>4. DOMAIN s = 1..Len(s)
  BY <1>3, LenProperties
<1> HIDE DEF s
<1>5. /\ Len(s) = Len(a) - p + 1 /\ 1 \in 1..Len(s) /\ p + 1 - 1 = p
  BY <1>1, <1>3
<1>6. s[1] = a[p]
  BY <1>1, <1>3, <1>5
<1>7. a[p] \in ToSet(s)
  BY <1>4, <1>5, <1>6 DEF ToSet
<1>8. /\ s \in Seq(T) /\ Len(s) = Len(a) - p + 1 /\ s[1] = a[p] /\ a[p] \in ToSet(s)
      /\ \A i \in 1..Len(s) : s[i] = a[p + i - 1]
      /\ 1 \in DOMAIN s /\ DOMAIN s = 1..Len(s)
  BY <1>3, <1>4, <1>5, <1>6, <1>7
<1> QED
  BY <1>8 DEF s

\* With two waiters the shift in place moves nothing that is still to come: of
\* [b1, b2] it leaves [b2, b2] when b1 is cut out, and the range is at 2 then.
LEMMA ShiftOfTwo ==
  ASSUME NEW T, NEW a \in Seq(T), Len(a) <= 2, NEW p \in 1..Len(a), NEW s \in Seq(T),
         s = SubSeq(a, p, Len(a)), IsInjective(s)
  PROVE  /\ Without(s, a[p]) = SubSeq(a, p + 1, Len(a))
         /\ Len(Shifted(a, s, a[p])) = Len(a)
         /\ SubSeq(Shifted(a, s, a[p]), p + 1, Len(a)) = SubSeq(a, p + 1, Len(a))
<1> DEFINE e == a[p]
           L == Len(a)
           h == Shifted(a, s, e)
<1>1. L \in Nat /\ p \in 1..L /\ L <= 2 /\ DOMAIN a = 1..L /\ \A i \in 1..L : a[i] \in T
  BY LenProperties, ElementOfSeq
<1>2. /\ Len(s) = L - p + 1 /\ s[1] = e /\ e \in ToSet(s)
      /\ \A i \in 1..Len(s) : s[i] = a[p + i - 1]
      /\ 1 \in DOMAIN s /\ DOMAIN s = 1..Len(s)
  BY RestProperties
<1>3. Position(s, e) = 1
  <2>1. Position(s, e) \in DOMAIN s /\ s[Position(s, e)] = e
    BY <1>2, PositionProperties
  <2> QED
    BY <1>2, <2>1 DEF IsInjective
<1>4. h = [q \in DOMAIN a |-> IF 1 <= q /\ q < Len(s) /\ q < L THEN a[q + 1] ELSE a[q]]
  BY <1>2, <1>3, Zenon DEF Shifted
<1>5. h \in Seq(T) /\ Len(h) = L
  <2>1. h \in Seq(T)
    BY ShiftedProperties
  <2>2. DOMAIN h = 1..L
    BY <1>1, <1>4
  <2> HIDE DEF h
  <2> QED
    BY <1>1, <2>1, <2>2, LenProperties
<1>6. Without(s, e) = SubSeq(s, 1, 0) \o SubSeq(s, 2, Len(s))
  BY <1>2, <1>3 DEF Without, RemoveAt
<1>7. Without(s, e) = SubSeq(s, 2, Len(s))
  <2>1. SubSeq(s, 1, 0) = <<>>
    BY SubSeqEmpty
  <2>2. \A i \in 2..Len(s) : s[i] \in T
    BY <1>2, ElementOfSeq
  <2>3. SubSeq(s, 2, Len(s)) \in Seq(T)
    BY <1>1, <1>2, <2>2, SubSeqProperties
  <2> QED
    BY <1>6, <2>1, <2>3, ConcatEmptySeq
<1> HIDE DEF e, h, L
<1>8. CASE p = L
  <2>1. Len(s) = 1
    BY <1>1, <1>2, <1>8
  <2>2. SubSeq(s, 2, 1) = <<>> /\ SubSeq(a, p + 1, L) = <<>> /\ SubSeq(h, p + 1, L) = <<>>
    BY <1>1, <1>8, SubSeqEmpty
  <2> QED
    BY <1>5, <1>7, <2>1, <2>2 DEF e, h, L
<1>9. CASE p # L
  <2>1. p = 1 /\ L = 2 /\ Len(s) = 2
    BY <1>1, <1>2, <1>9
  <2>2. s = a
    BY <2>1, SubSeqFull DEF L
  <2>3. h[2] = a[2]
    BY <1>1, <1>4, <2>1
  <2>4. SubSeq(h, 2, 2) = <<h[2]>> /\ SubSeq(a, 2, 2) = <<a[2]>>
    <3>1. ASSUME NEW t \in Seq(T), Len(t) = 2 PROVE SubSeq(t, 2, 2) = <<t[2]>>
      <4> DEFINE u == SubSeq(t, 2, 2)
                 v == <<t[2]>>
      <4>1. \A i \in 1..2 : t[i] \in T
        BY <3>1, ElementOfSeq
      <4>2. t[2] \in T /\ \A i \in 2..2 : t[i] \in T
        BY <4>1
      <4>3. /\ u \in Seq(T) /\ Len(u) = IF 2 <= 2 THEN 2 - 2 + 1 ELSE 0
            /\ \A i \in 1..2 - 2 + 1 : u[i] = t[2 + i - 1]
        BY <4>2, SubSeqProperties
      <4>4. v \in Seq(T) /\ Len(v) = 1 /\ v[1] = t[2]
        BY <4>2
      <4> HIDE DEF u, v
      <4>5. Len(u) = 1 /\ u[1] = t[2]
        BY <4>3
      <4>6. \A i \in 1..Len(u) : u[i] = v[i]
        BY <4>4, <4>5
      <4>7. u = v
        BY <4>3, <4>4, <4>5, <4>6, SeqEqual
      <4> QED
        BY <4>7 DEF u, v
    <3> QED
      BY <1>5, <2>1, <3>1 DEF L
  <2> QED
    BY <1>5, <1>7, <2>1, <2>2, <2>3, <2>4 DEF e, h, L
<1> QED
  BY <1>8, <1>9

-----------------------------------------------------------------------------
(* WaitersRight is inductive.                                              *)

\* The parts of WaitersRight that hold while no timeout interfered.
Good == ListsRight /\ NobodyMissing /\ RangeRight /\ AnswersRight

\* Who is on a list of waiters, in the words of ListsRight.
LEMMA Registered ==
  ASSUME Good, NEW k \in Key, NEW c \in ToSet(waiting[k])
  PROVE  /\ c \in BlocksFor(k) /\ c \in Plain /\ c \in Cmd /\ c \in Executed
         /\ k \in ToSet(Keys(c)) /\ answer[c] = "open" /\ NotTimedOut(c, k)
         /\ c = cur => pc = "register" /\ \E i \in 1 .. step - 1 : Keys(c)[i] = k
         /\ c = woken /\ pc \in {"remove", "wake"} =>
              pc = "remove" /\ \E i \in step .. Len(Keys(c)) : Keys(c)[i] = k
<1>1. c \in BlocksFor(k)
  BY DEF Good, ListsRight
<1> QED
  BY <1>1 DEF Good, ListsRight, BlocksFor, WaitersOn, Plain

LEMMA InitGood == Init => Good
<1> SUFFICES ASSUME Init PROVE Good
  OBVIOUS
<1>1. ListsRight
  BY DEF Init, ListsRight, IsInjective, ToSet
<1>2. NobodyMissing
  BY DEF Init, NobodyMissing, Executed
<1>3. RangeRight
  BY DEF Init, RangeRight
<1>4. AnswersRight
  BY DEF Init, AnswersRight, Gets, Plain
<1> QED
  BY <1>1, <1>2, <1>3, <1>4 DEF Good

\* A step that touches nothing that Good speaks of.
LEMMA GoodKept ==
  ASSUME Good, Executed' = Executed,
         UNCHANGED <<list, str, taken, answer, pc, cur, step, todo, reply, scanVars,
                     waiting, timer, tstep>>
  PROVE  Good'
<1> USE DEF scanVars
<1>1. ListsRight'
  BY DEF Good, ListsRight, NotTimedOut
<1>2. NobodyMissing'
  BY DEF Good, NobodyMissing
<1>3. RangeRight'
  BY DEF Good, RangeRight, NotTimedOut
<1>4. AnswersRight'
  BY DEF Good, AnswersRight, Gets
<1> QED
  BY <1>1, <1>2, <1>3, <1>4 DEF Good

LEMMA IssueGood == ASSUME Awake, Fresh, Good, NEW c \in Cmd, Issue(c) PROVE Good'
<1>1. Executed' = Executed
  BY IssueQueues
<1>2. UNCHANGED <<list, str, taken, answer, pc, cur, step, todo, reply, scanVars,
                  waiting, timer, tstep>>
  BY DEF Issue, dataVars, timerVars
<1> QED
  BY <1>1, <1>2, GoodKept

LEMMA TakeGood == ASSUME Awake, Fresh, Good, TakeCommand \/ TakeTransaction PROVE Good'
<1>1. PICK c \in Cmd : Begin(c) /\ c \notin Executed /\ Executed' = Executed \cup {c}
  BY TakeBegins
<1>2. /\ pc = "idle" /\ cur' = c /\ step' = 1 /\ reply' = "ok" /\ pc' \in {"body", "unblock"}
      /\ UNCHANGED <<list, str, taken, answer, waiting, timer, tstep>>
  BY <1>1 DEF Begin, dataVars, timerVars
<1>3. cur = None /\ None \notin Cmd
  BY <1>2, ConstantsAssumption DEF Good, NobodyMissing
<1>4. ListsRight'
  <2>1. ASSUME NEW k \in Key, NEW x \in ToSet(waiting[k]) PROVE x \in Executed /\ x # c
    BY <1>1, <2>1, Registered
  <2> QED
    BY <1>1, <1>2, <2>1 DEF Good, ListsRight, NotTimedOut
<1>5. NobodyMissing'
  <2>1. \A x \in (Plain \cap Executed') \ {c} : x \in (Plain \cap Executed) \ {cur}
    BY <1>1, <1>3 DEF Plain
  <2> QED
    BY <1>2, <2>1 DEF Good, NobodyMissing
<1>6. RangeRight'
  BY <1>2 DEF RangeRight
<1>7. AnswersRight'
  <2>1. \A x \in Cmd : Gets(x)' <=> Gets(x)
    BY <1>2, <1>3 DEF Gets
  <2>2. \A x \in Cmd : timer'[x] # "off" \/ answer'[x] # "open" => x \in Executed' \ {c}
    BY <1>1, <1>2 DEF Good, AnswersRight
  <2> QED
    BY <1>2, <2>1, <2>2 DEF Good, AnswersRight, Plain
<1> QED
  BY <1>4, <1>5, <1>6, <1>7 DEF Good

\* What the invariant says of the request that is being executed.
LEMMA CurrentRequest ==
  ASSUME Awake, Fresh, Good, cur \in Cmd, pc \in {"body", "register"}
  PROVE  /\ answer[cur] = "open" /\ timer[cur] = "off" /\ cur \in Executed
         /\ cur \in Plain => Len(taken[cur]) = 0
         /\ pc = "body" => \A k \in Key : cur \notin ToSet(waiting[k])
<1>1. answer[cur] = "open" /\ timer[cur] = "off"
  BY DEF Good, AnswersRight
<1>2. cur \in Executed
  BY ConstantsAssumption DEF Fresh
<1>3. ~Gets(cur)
  BY <1>1 DEF Gets
<1>4. cur \in Plain => Len(taken[cur]) = 0
  BY <1>3 DEF Good, AnswersRight
<1>5. pc = "body" => \A k \in Key : cur \notin ToSet(waiting[k])
  BY Registered
<1> QED
  BY <1>1, <1>2, <1>4, <1>5

\* An operation that is over: its reply is an element exactly when it took one.
LEMMA OperationGood ==
  ASSUME Awake, Fresh, Good, pc = "body", cur \in Cmd,
         NEW r \in {"ok", "value", "nil", "error"}, NEW modified,
         NextOperation(r, modified),
         UNCHANGED <<queueVars, answer, log, cur, scanVars, waiting, timerVars, raced>>,
         \A c \in Cmd \ {cur} : taken'[c] = taken[c],
         Len(taken'[cur]) = IF r = "value" THEN Len(taken[cur]) + 1 ELSE Len(taken[cur]),
         \A k \in str' : list'[k] = <<>>
  PROVE  Good'
<1> USE DEF scanVars, timerVars, queueVars
<1>1. /\ pc' = IF step < Len(Body[cur]) THEN "body" ELSE "unblock"
      /\ reply' = IF IsTx[cur] THEN "ok" ELSE r
  BY DEF NextOperation
<1>2. /\ answer[cur] = "open"
      /\ cur \in Plain => Len(taken[cur]) = 0
      /\ \A k \in Key : cur \notin ToSet(waiting[k])
  BY CurrentRequest
<1>3. cur \in Plain => pc' = "unblock" /\ reply' = r
  <2> SUFFICES ASSUME cur \in Plain PROVE pc' = "unblock" /\ reply' = r
    OBVIOUS
  <2>1. Len(Body[cur]) = 1 /\ ~IsTx[cur] /\ step \in 1..Len(Body[cur])
    BY PlainKeys DEF Plain, Awake, Control
  <2> QED
    BY <1>1, <2>1
<1>4. Executed' = Executed
  BY DEF Executed
<1>5. ListsRight'
  BY <1>1, <1>2, <1>4 DEF Good, ListsRight, NotTimedOut
<1>6. NobodyMissing'
  BY <1>1, <1>4 DEF Good, NobodyMissing
<1>7. RangeRight'
  BY <1>1 DEF RangeRight
<1>8. AnswersRight'
  <2>1. ASSUME NEW c \in Plain PROVE Len(taken'[c]) = IF Gets(c)' THEN 1 ELSE 0
    <3>1. CASE c = cur
      <4>1. cur \in Plain /\ cur' = cur /\ answer'[cur] # "value"
        BY <1>2, <3>1
      <4>2. pc' = "unblock" /\ reply' = r
        BY <1>3, <4>1
      <4>3. Gets(c)' <=> r = "value"
        BY <3>1, <4>1, <4>2 DEF Gets
      <4>4. Len(taken'[c]) = IF r = "value" THEN 1 ELSE 0
        BY <1>2, <3>1, <4>1
      <4>5. CASE r = "value"
        BY <4>3, <4>4, <4>5
      <4>6. CASE r # "value"
        BY <4>3, <4>4, <4>6
      <4> QED
        BY <4>5, <4>6
    <3>2. CASE c # cur
      <4>1. taken'[c] = taken[c] /\ (Gets(c)' <=> Gets(c))
        BY <1>1, <3>2 DEF Gets, Plain
      <4> QED
        BY <4>1 DEF Good, AnswersRight
    <3> QED
      BY <3>1, <3>2
  <2> QED
    BY <1>4, <2>1 DEF Good, AnswersRight
<1> QED
  BY <1>5, <1>6, <1>7, <1>8 DEF Good

\* What a pop does to one request and to the strings.
LEMMA PopTakes ==
  ASSUME TypeOK, AnswersRight, NEW k \in Key, NEW c \in Cmd, Pop(k, c)
  PROVE  /\ \A d \in Cmd \ {c} : taken'[d] = taken[d]
         /\ Len(taken'[c]) = IF list[k] # <<>> THEN Len(taken[c]) + 1 ELSE Len(taken[c])
         /\ \A j \in str : list'[j] = <<>>
<1>1. CASE list[k] = <<>>
  <2>1. taken[c] \in Seq(Elem) /\ taken' = taken /\ list' = list
    BY <1>1 DEF TypeOK, Pop
  <2>2. Len(taken[c]) \in Nat
    BY <2>1, LenProperties
  <2> QED
    BY <1>1, <2>1, <2>2 DEF AnswersRight
<1>2. CASE list[k] # <<>>
  <2>1. /\ list' = [list EXCEPT ![k] = Tail(@)]
        /\ taken' = [taken EXCEPT ![c] = Append(@, Head(list[k]))]
        /\ list \in [Key -> Seq(Elem)] /\ taken \in [Cmd -> Seq(Elem)] /\ str \in SUBSET Key
    BY <1>2 DEF TypeOK, Pop
  <2>2. Head(list[k]) \in Elem
    BY <1>2, <2>1, HeadTailProperties
  <2>3. taken'[c] = Append(taken[c], Head(list[k]))
    BY <2>1
  <2>4. Len(taken'[c]) = Len(taken[c]) + 1
    BY <2>1, <2>2, <2>3, AppendProperties
  <2>5. k \notin str
    BY <1>2 DEF AnswersRight
  <2> QED
    BY <1>2, <2>1, <2>4, <2>5 DEF AnswersRight
<1> QED
  BY <1>1, <1>2

LEMMA PushGood == ASSUME Awake, Fresh, Good, Push PROVE Good'
<1> DEFINE op == Body[cur][step]
           k  == op.keys[1]
<1>1. /\ pc = "body" /\ cur \in Cmd /\ TypeOK
      /\ UNCHANGED <<str, taken, queueVars, answer, log, cur, scanVars, waiting, timerVars, raced>>
  BY DEF Push, Running, Awake, Control
<1>2. taken[cur] \in Seq(Elem)
  BY <1>1 DEF TypeOK
<1>3. Len(taken'[cur]) = Len(taken[cur])
  BY <1>1, <1>2, LenProperties
<1>4. \A j \in str : list[j] = <<>>
  BY DEF Good, AnswersRight
<1>5. CASE k \in str
  <2>1. list' = list /\ NextOperation("error", <<>>)
    BY <1>5 DEF Push
  <2> QED
    BY <1>1, <1>3, <1>4, <2>1, OperationGood
<1>6. CASE k \notin str
  <2>1. list' = [list EXCEPT ![k] = Pushed(k, op)] /\ NextOperation("ok", <<k>>)
    BY <1>6 DEF Push
  <2>2. \A j \in str' : list'[j] = <<>>
    <3>1. list \in [Key -> Seq(Elem)] /\ str \in SUBSET Key
      BY <1>1 DEF TypeOK
    <3> QED
      BY <1>1, <1>4, <1>6, <2>1, <3>1
  <2> QED
    BY <1>1, <1>3, <2>1, <2>2, OperationGood
<1> QED
  BY <1>5, <1>6

LEMMA SetStringGood == ASSUME Awake, Fresh, Good, SetString PROVE Good'
<1> DEFINE k == Body[cur][step].keys[1]
<1>1. /\ pc = "body" /\ cur \in Cmd /\ TypeOK /\ step \in 1..Len(Body[cur])
      /\ str' = str \cup {k} /\ list' = [list EXCEPT ![k] = <<>>] /\ NextOperation("ok", <<k>>)
      /\ UNCHANGED <<taken, queueVars, answer, log, cur, scanVars, waiting, timerVars, raced>>
  BY DEF SetString, Running, Awake, Control
<1>2. taken[cur] \in Seq(Elem) /\ list \in [Key -> Seq(Elem)] /\ str \in SUBSET Key
  BY <1>1 DEF TypeOK
<1>3. Len(taken'[cur]) = Len(taken[cur])
  BY <1>1, <1>2, LenProperties
<1>4. \A j \in str : list[j] = <<>>
  BY DEF Good, AnswersRight
<1>5. k \in Key
  BY <1>1, OpType, OpKeys
<1>6. \A j \in str' : list'[j] = <<>>
  BY <1>1, <1>2, <1>4, <1>5
<1> QED
  BY <1>1, <1>3, <1>6, OperationGood

LEMMA PopLeftGood == ASSUME Awake, Fresh, Good, PopLeft PROVE Good'
<1> DEFINE k == Body[cur][step].keys[1]
           r == IF list[k] # <<>> THEN "value" ELSE "nil"
<1>1. /\ pc = "body" /\ cur \in Cmd /\ TypeOK /\ step \in 1..Len(Body[cur])
      /\ Pop(k, cur) /\ NextOperation(r, <<>>)
      /\ UNCHANGED <<str, queueVars, answer, log, cur, scanVars, waiting, timerVars, raced>>
  BY DEF PopLeft, Running, Awake, Control
<1>2. k \in Key /\ AnswersRight
  BY <1>1, OpType, OpKeys DEF Good
<1>3. /\ \A d \in Cmd \ {cur} : taken'[d] = taken[d]
      /\ Len(taken'[cur]) = IF list[k] # <<>> THEN Len(taken[cur]) + 1 ELSE Len(taken[cur])
      /\ \A j \in str : list'[j] = <<>>
  BY <1>1, <1>2, PopTakes
<1>4. (r = "value") = (list[k] # <<>>) /\ r \in {"ok", "value", "nil", "error"}
  OBVIOUS
<1> HIDE DEF r
<1> QED
  BY <1>1, <1>3, <1>4, OperationGood

LEMMA BlockingPopGood == ASSUME Awake, Fresh, Good, BlockingPop PROVE Good'
<1> DEFINE ks == Body[cur][step].keys
           k  == HitKey(ks)
           r  == PopReply(k)
           m  == IF k \in str THEN <<>> ELSE <<k>>
<1>1. /\ pc = "body" /\ cur \in Cmd /\ TypeOK /\ step \in 1..Len(Body[cur])
      /\ ~Blocks(ks) /\ Pop(k, cur) /\ NextOperation(r, m)
      /\ UNCHANGED <<str, queueVars, answer, log, cur, scanVars, waiting, timerVars, raced>>
  BY DEF BlockingPop, Running, Awake, Control
<1>2. ks \in Seq(Key) /\ AnswersRight
  BY <1>1, OpType, OpKeys DEF Good
<1>3. k \in Key
  BY <1>1, <1>2, HitKeyProperties
<1>4. /\ \A d \in Cmd \ {cur} : taken'[d] = taken[d]
      /\ Len(taken'[cur]) = IF list[k] # <<>> THEN Len(taken[cur]) + 1 ELSE Len(taken[cur])
      /\ \A j \in str : list'[j] = <<>>
  BY <1>1, <1>2, <1>3, PopTakes
<1>5. (r = "value") = (list[k] # <<>>) /\ r \in {"ok", "value", "nil", "error"}
  BY <1>2 DEF PopReply, AnswersRight
<1> HIDE DEF r, m, k
<1> QED
  BY <1>1, <1>4, <1>5, OperationGood

LEMMA BlockingPopWaitsGood ==
  ASSUME Awake, Fresh, Good, BlockingPopWaits, Up'
  PROVE  Good'
<1> DEFINE op == Body[cur][step]
<1>1. /\ pc = "body" /\ cur \in Cmd /\ TypeOK /\ step \in 1..Len(Body[cur]) /\ op.kind = "blpop"
      /\ UNCHANGED <<dataVars, queueVars, answer, log, cur, scanVars, waiting, timerVars, raced>>
  BY DEF BlockingPopWaits, Running, Awake, Control
<1>2. CASE op.wait = "none"
  <2>1. NextOperation("nil", <<>>)
    BY <1>2 DEF BlockingPopWaits
  <2>2. taken[cur] \in Seq(Elem) /\ UNCHANGED <<list, str, taken>>
    BY <1>1 DEF TypeOK, dataVars
  <2>3. Len(taken'[cur]) = Len(taken[cur])
    BY <2>2, LenProperties
  <2>4. \A j \in str' : list'[j] = <<>>
    BY <2>2 DEF Good, AnswersRight
  <2> QED
    BY <1>1, <2>1, <2>2, <2>3, <2>4, OperationGood
<1>3. CASE op.wait # "none"
  <2> USE DEF dataVars, queueVars, scanVars, timerVars
  <2>1. pc' = "register" /\ ~IsTx[cur] /\ step' = 1 /\ UNCHANGED <<todo, reply>>
    BY <1>3 DEF BlockingPopWaits, Up
  <2>2. cur \in Plain /\ step = 1
    <3>1. cur \in Plain
      BY <1>1, <2>1 DEF Plain
    <3>2. Len(Body[cur]) = 1
      BY <3>1, PlainKeys
    <3> QED
      BY <1>1, <3>1, <3>2
  <2>3. cur \in BlocksFor(Keys(cur)[1])
    BY <1>1, <1>3, <2>2, PlainKeys DEF BlocksFor
  <2>4. /\ answer[cur] = "open" /\ \A k \in Key : cur \notin ToSet(waiting[k])
    BY <1>1, CurrentRequest
  <2>5. Executed' = Executed
    BY <1>1 DEF Executed
  <2>6. ListsRight'
    BY <1>1, <2>1, <2>4, <2>5 DEF Good, ListsRight, NotTimedOut
  <2>7. NobodyMissing'
    BY <1>1, <2>1, <2>3, <2>5 DEF Good, NobodyMissing
  <2>8. RangeRight'
    BY <2>1 DEF RangeRight
  <2>9. AnswersRight'
    BY <1>1, <2>1, <2>4, <2>5 DEF Good, AnswersRight, Gets
  <2> QED
    BY <2>6, <2>7, <2>8, <2>9 DEF Good
<1> QED
  BY <1>2, <1>3

\* A command joins the list of the next of its keys.
LEMMA RegisterGood ==
  ASSUME Awake, Fresh, TwoWaiters, Good, Register
  PROVE  Good'
<1> USE DEF dataVars, queueVars, scanVars
<1> DEFINE k == Keys(cur)[step]
           n == Len(Keys(cur))
<1>1. /\ pc = "register" /\ cur \in Plain /\ cur \in Cmd /\ step \in 1..n /\ TypeOK
      /\ n \in Nat /\ DOMAIN Keys(cur) = 1..n /\ k \in Key
      /\ \A i \in 1..n : Keys(cur)[i] \in Key /\ cur \in WaitersOn(Keys(cur)[i])
  <2>1. pc = "register" /\ cur \in Plain /\ step \in 1..n /\ TypeOK
    BY DEF Register, Awake, Control
  <2> QED
    BY <2>1, PlainKeys, LenProperties
<1>2. /\ waiting' = [waiting EXCEPT ![k] = Append(@, cur)]
      /\ UNCHANGED <<dataVars, queueVars, answer, log, todo, reply, scanVars, tstep>>
  BY DEF Register
<1>3. cur \in BlocksFor(k) /\ IsInjective(Keys(cur))
  BY <1>1 DEF Good, NobodyMissing, TwoWaiters
<1>4. /\ answer[cur] = "open" /\ timer[cur] = "off" /\ cur \in Executed
  BY <1>1, CurrentRequest
<1>5. cur \notin ToSet(waiting[k])
  <2> SUFFICES ASSUME cur \in ToSet(waiting[k]) PROVE FALSE
    OBVIOUS
  <2>1. PICK i \in 1 .. step - 1 : Keys(cur)[i] = k
    BY <1>1, Registered
  <2>2. i \in 1..n /\ i # step
    BY <1>1, <2>1
  <2> QED
    BY <1>1, <1>3, <2>1, <2>2 DEF IsInjective
<1>6. /\ waiting[k] \in Seq(Cmd) /\ waiting \in [Key -> Seq(Cmd)]
      /\ timer \in [Cmd -> {"off", "sleep", "read", "write", "send", "done"}]
  BY <1>1 DEF TypeOK
<1>7. waiting'[k] = Append(waiting[k], cur) /\ \A j \in Key \ {k} : waiting'[j] = waiting[j]
  BY <1>1, <1>2, <1>6
<1>8. IsInjective(waiting[k])
  BY <1>1 DEF Good, ListsRight
<1>9. IsInjective(waiting'[k]) /\ ToSet(waiting'[k]) = ToSet(waiting[k]) \cup {cur}
  BY <1>1, <1>5, <1>6, <1>7, <1>8, AppendDistinct, AppendMembers
<1>10. \A j \in Key : ToSet(waiting[j]) \subseteq ToSet(waiting'[j])
  BY <1>7, <1>9
<1>11. Executed' = Executed
  BY <1>2 DEF Executed
<1>12. \A i \in 1..step : cur \in ToSet(waiting'[Keys(cur)[i]])
  <2> TAKE i \in 1..step
  <2>1. CASE i = step
    BY <1>9, <2>1
  <2>2. CASE i # step
    <3>1. i \in 1 .. step - 1 /\ Keys(cur)[i] \in Key
      BY <1>1, <2>2
    <3>2. cur \in ToSet(waiting[Keys(cur)[i]])
      BY <1>1, <3>1 DEF Good, NobodyMissing
    <3> QED
      BY <1>10, <3>1, <3>2
  <2> QED
    BY <2>1, <2>2
<1>13. CASE step < n
  <2>1. step' = step + 1 /\ UNCHANGED <<pc, cur, timer>>
    BY <1>13 DEF Register
  <2>2. ListsRight'
    <3> SUFFICES ASSUME NEW j \in Key
                 PROVE  /\ IsInjective(waiting'[j])
                        /\ \A c \in ToSet(waiting'[j]) :
                             /\ c \in BlocksFor(j) \cap Executed
                             /\ answer[c] = "open" /\ NotTimedOut(c, j)
                             /\ c = cur => \E i \in 1 .. step : Keys(c)[i] = j
      BY <1>1, <1>2, <1>11, <2>1 DEF ListsRight, NotTimedOut
    <3>1. CASE j = k
      <4>1. \A c \in ToSet(waiting[k]) :
              /\ c \in BlocksFor(k) \cap Executed /\ answer[c] = "open" /\ NotTimedOut(c, k)
        BY <1>1, Registered
      <4>2. NotTimedOut(cur, k)
        BY <1>4 DEF NotTimedOut
      <4>3. step \in 1..step
        BY <1>1
      <4> QED
        BY <1>3, <1>4, <1>5, <1>9, <3>1, <4>1, <4>2, <4>3
    <3>2. CASE j # k
      <4>1. waiting'[j] = waiting[j] /\ IsInjective(waiting[j])
        BY <1>7, <3>2 DEF Good, ListsRight
      <4>2. ASSUME NEW c \in ToSet(waiting[j]), c = cur
            PROVE  \E i \in 1 .. step : Keys(c)[i] = j
        <5>1. PICK i \in 1 .. step - 1 : Keys(c)[i] = j
          BY <4>2, Registered
        <5>2. i \in 1..step
          BY <1>1
        <5> QED
          BY <5>1, <5>2
      <4> QED
        BY <4>1, <4>2, Registered
    <3> QED
      BY <3>1, <3>2
  <2>3. NobodyMissing'
    <3>1. Keys(cur)[step + 1] \in Key /\ cur \in BlocksFor(Keys(cur)[step + 1])
      <4>1. step + 1 \in 1..n
        BY <1>1, <1>13
      <4> QED
        BY <1>1, <1>3, <4>1 DEF BlocksFor
    <3>2. ASSUME NEW c \in (Plain \cap Executed) \ {cur}, answer[c] = "open",
                 timer[c] \in {"off", "sleep"}
          PROVE  \A j \in ToSet(Keys(c)) : c \in ToSet(waiting'[j])
      <4>1. \A j \in ToSet(Keys(c)) : c \in ToSet(waiting[j]) /\ j \in Key
        <5>1. \A j \in ToSet(Keys(c)) : j \in Key
          BY PlainKeys, LenProperties DEF ToSet
        <5> QED
          BY <1>1, <3>2, <5>1 DEF Good, NobodyMissing
      <4> QED
        BY <1>10, <4>1
    <3>3. \A i \in 1 .. (step + 1) - 1 : i \in 1..step
      BY <1>1
    <3> QED
      BY <1>1, <1>2, <1>11, <1>12, <2>1, <3>1, <3>2, <3>3 DEF NobodyMissing
  <2>4. RangeRight'
    BY <1>1, <2>1 DEF RangeRight
  <2>5. AnswersRight'
    BY <1>1, <1>2, <1>11, <2>1 DEF Good, AnswersRight, Gets
  <2> QED
    BY <2>2, <2>3, <2>4, <2>5 DEF Good
<1>14. CASE ~(step < n)
  <2>1. /\ pc' = "idle" /\ cur' = None /\ step = n /\ None \notin Cmd
        /\ timer' = IF Body[cur][1].wait = "timed"
                    THEN [timer EXCEPT ![cur] = "sleep"] ELSE timer
    BY <1>1, <1>14, ConstantsAssumption DEF Register
  <2>2. /\ \A c \in Cmd \ {cur} : timer'[c] = timer[c]
        /\ timer'[cur] \in {"off", "sleep"}
    BY <1>1, <1>4, <1>6, <2>1
  <2>3. ListsRight'
    <3> SUFFICES ASSUME NEW j \in Key
                 PROVE  /\ IsInjective(waiting'[j])
                        /\ \A c \in ToSet(waiting'[j]) :
                             /\ c \in BlocksFor(j) \cap Executed /\ c # None
                             /\ answer[c] = "open" /\ NotTimedOut(c, j)'
      BY <1>2, <1>11, <2>1 DEF ListsRight
    <3>1. \A c \in ToSet(waiting'[j]) : c \in ToSet(waiting[j]) \/ (c = cur /\ j = k)
      BY <1>7, <1>9
    <3>2. IsInjective(waiting'[j])
      BY <1>7, <1>9 DEF Good, ListsRight
    <3>3. ASSUME NEW c \in ToSet(waiting[j])
          PROVE  /\ c \in BlocksFor(j) \cap Executed /\ c # None
                 /\ answer[c] = "open" /\ NotTimedOut(c, j)'
      <4>1. c \in BlocksFor(j) /\ c \in Executed /\ c \in Cmd /\ answer[c] = "open" /\ NotTimedOut(c, j)
        BY <3>3, Registered
      <4>2. CASE c = cur
        BY <2>1, <2>2, <4>1, <4>2 DEF NotTimedOut
      <4>3. CASE c # cur
        BY <1>2, <2>1, <2>2, <4>1, <4>3 DEF NotTimedOut
      <4> QED
        BY <4>2, <4>3
    <3>4. ASSUME NEW c, c = cur PROVE NotTimedOut(c, j)'
      BY <2>2, <3>4 DEF NotTimedOut
    <3> QED
      BY <1>1, <1>3, <1>4, <2>1, <3>1, <3>2, <3>3, <3>4
  <2>4. NobodyMissing'
    <3>1. ASSUME NEW c \in (Plain \cap Executed) \ {None}, answer[c] = "open",
                 timer'[c] \in {"off", "sleep"}, NEW j \in ToSet(Keys(c))
          PROVE  c \in ToSet(waiting'[j])
      <4>1. j \in Key
        BY PlainKeys, LenProperties DEF ToSet
      <4>2. CASE c = cur
        <5>1. PICK i \in 1..n : j = Keys(cur)[i]
          BY <1>1, <4>2 DEF ToSet
        <5> QED
          BY <1>12, <2>1, <4>2, <5>1
      <4>3. CASE c # cur
        <5>1. c \in Cmd /\ timer[c] \in {"off", "sleep"}
          BY <2>2, <3>1, <4>3 DEF Plain
        <5>2. c \in ToSet(waiting[j])
          BY <1>1, <3>1, <4>3, <5>1 DEF Good, NobodyMissing
        <5> QED
          BY <1>10, <4>1, <5>2
      <4> QED
        BY <4>2, <4>3
    <3> QED
      BY <1>2, <1>11, <2>1, <3>1 DEF NobodyMissing
  <2>5. RangeRight'
    BY <2>1 DEF RangeRight
  <2>6. AnswersRight'
    <3>1. \A c \in Cmd : Gets(c)' <=> Gets(c)
      BY <1>1, <1>2, <2>1 DEF Gets
    <3>2. \A c \in Cmd : timer'[c] # "off" \/ answer'[c] # "open" => c \in Executed' \ {None}
      BY <1>2, <1>4, <1>11, <2>1, <2>2 DEF Good, AnswersRight
    <3> QED
      BY <1>2, <2>1, <3>1, <3>2 DEF Good, AnswersRight, Plain
  <2> QED
    BY <2>3, <2>4, <2>5, <2>6 DEF Good
<1> QED
  BY <1>13, <1>14

LEMMA StartScanGood ==
  ASSUME Awake, Fresh, TwoWaiters, Good, StartScan
  PROVE  Good'
<1> USE DEF dataVars, queueVars, timerVars
<1> DEFINE h == Head(todo)
<1>1. /\ pc = "unblock" /\ todo \in Seq(Key) /\ h \in Key /\ waiting[h] \in Seq(Cmd)
      /\ array' = waiting[h] /\ pos' = 1 /\ pc' = "scan"
      /\ UNCHANGED <<dataVars, queueVars, answer, log, cur, step, todo, reply, wreply, woken,
                     waiting, timerVars, raced>>
  BY HeadTailProperties DEF StartScan, Awake, TypeOK
<1>2. Executed' = Executed
  BY <1>1 DEF Executed
<1>3. Len(waiting[h]) <= 2
  <2>1. IsInjective(waiting[h]) /\ ToSet(waiting[h]) \subseteq BlocksFor(h)
    BY <1>1, Registered DEF Good, ListsRight
  <2> QED
    BY <1>1, <2>1, TwoAtMost
<1>4. waiting[h] = SubSeq(array', 1, Len(array'))
  BY <1>1, SubSeqFull
<1>5. ListsRight'
  BY <1>1, <1>2 DEF Good, ListsRight, NotTimedOut
<1>6. NobodyMissing'
  BY <1>1, <1>2 DEF Good, NobodyMissing
<1>7. RangeRight'
  BY <1>1, <1>3, <1>4 DEF RangeRight
<1>8. AnswersRight'
  BY <1>1, <1>2 DEF Good, AnswersRight, Gets
<1> QED
  BY <1>5, <1>6, <1>7, <1>8 DEF Good

LEMMA WakeGood ==
  ASSUME Awake, Fresh, Good, Wake
  PROVE  Good'
<1> USE DEF queueVars, timerVars
<1> DEFINE c == array[pos]
           h == Head(todo)
           k == HitKey(Keys(c))
<1>1. /\ pc = "scan" /\ TypeOK /\ todo # <<>> /\ cur \in Cmd /\ h \in Key
      /\ pos \in 1..Len(array) /\ DOMAIN array = 1..Len(array) /\ array \in Seq(Cmd)
  <2>1. pc = "scan" /\ pos <= Len(array)
    BY DEF Wake
  <2>2. TypeOK /\ todo # <<>> /\ cur \in Cmd /\ pos = last + 1
    BY <2>1 DEF Awake, Control
  <2>3. /\ array \in Seq(Cmd) /\ Len(array) \in Nat /\ DOMAIN array = 1..Len(array)
        /\ last \in Nat /\ h \in Key
    BY <2>2, LenProperties, HeadTailProperties DEF TypeOK
  <2> QED
    BY <2>1, <2>2, <2>3
<1>2. /\ woken' = c /\ Pop(k, c) /\ ~Blocks(Keys(c)) /\ wreply' = PopReply(k) /\ step' = 1
      /\ pc' = "remove"
      /\ UNCHANGED <<str, queueVars, answer, log, cur, todo, reply, array, pos, last,
                     waiting, timerVars, raced>>
  BY DEF Wake
<1>3. c \in ToSet(waiting[h])
  <2>1. waiting[h] = SubSeq(array, pos, Len(array))
    BY <1>1 DEF Good, RangeRight
  <2> QED
    BY <1>1, <2>1, RestProperties
<1>4. /\ c \in BlocksFor(h) /\ c \in Plain /\ c \in Cmd /\ c \in Executed
      /\ answer[c] = "open" /\ NotTimedOut(c, h) /\ c # cur
  BY <1>1, <1>3, Registered
<1>5. k \in Key
  BY <1>2, <1>4, PlainKeys, HitKeyProperties
<1>6. /\ \A d \in Cmd \ {c} : taken'[d] = taken[d]
      /\ Len(taken'[c]) = IF list[k] # <<>> THEN Len(taken[c]) + 1 ELSE Len(taken[c])
      /\ \A j \in str : list'[j] = <<>>
  BY <1>1, <1>2, <1>4, <1>5, PopTakes DEF Good
<1>7. wreply' = "value" <=> list[k] # <<>>
  BY <1>2 DEF PopReply, Good, AnswersRight
<1>8. Executed' = Executed
  BY <1>2 DEF Executed
<1> HIDE DEF c, h, k
<1>9. ListsRight'
  <2> SUFFICES ASSUME NEW j \in Key
               PROVE  /\ IsInjective(waiting[j])
                      /\ \A d \in ToSet(waiting[j]) :
                           /\ d \in BlocksFor(j) \cap Executed /\ d # cur
                           /\ answer[d] = "open" /\ NotTimedOut(d, j)
                           /\ d = c => \E i \in 1 .. Len(Keys(d)) : Keys(d)[i] = j
    BY <1>2, <1>8 DEF ListsRight, NotTimedOut
  <2>1. IsInjective(waiting[j])
    BY DEF Good, ListsRight
  <2>2. ASSUME NEW d \in ToSet(waiting[j])
        PROVE  /\ d \in BlocksFor(j) \cap Executed /\ d # cur
               /\ answer[d] = "open" /\ NotTimedOut(d, j)
               /\ \E i \in 1 .. Len(Keys(d)) : Keys(d)[i] = j
    <3>1. d \in Plain /\ j \in ToSet(Keys(d))
      BY Registered
    <3>2. DOMAIN Keys(d) = 1..Len(Keys(d))
      BY <3>1, PlainKeys, LenProperties
    <3> QED
      BY <1>1, <3>1, <3>2, Registered DEF ToSet
  <2> QED
    BY <2>1, <2>2
<1>10. NobodyMissing'
  BY <1>1, <1>2, <1>8 DEF Good, NobodyMissing
<1>11. RangeRight'
  <2>1. waiting[h] = SubSeq(array, pos, Len(array)) /\ Len(array) <= 2
    BY <1>1 DEF Good, RangeRight, h
  <2>2. ~(\E i \in 1 .. step' - 1 : Keys(woken')[i] = Head(todo'))
    BY <1>2
  <2>3. NotTimedOut(woken, Head(todo))'
    BY <1>2, <1>4 DEF NotTimedOut, h
  <2>4. woken' = array[pos]
    BY <1>2 DEF c
  <2> QED
    BY <1>1, <1>2, <1>4, <1>8, <2>1, <2>2, <2>3, <2>4 DEF RangeRight, h
<1>12. AnswersRight'
  <2>1. ASSUME NEW d \in Plain PROVE Len(taken'[d]) = IF Gets(d)' THEN 1 ELSE 0
    <3>1. CASE d = c
      <4>1. ~Gets(c)
        BY <1>1, <1>4 DEF Gets
      <4>2. Len(taken[c]) = 0
        BY <1>4, <4>1 DEF Good, AnswersRight
      <4>3. Gets(d)' <=> wreply' = "value"
        BY <1>2, <1>4, <3>1 DEF Gets
      <4>4. CASE list[k] # <<>>
        <5>1. Len(taken'[c]) = 1
          BY <1>6, <4>2, <4>4
        <5>2. Gets(d)'
          BY <1>7, <4>3, <4>4
        <5> QED
          BY <3>1, <5>1, <5>2
      <4>5. CASE list[k] = <<>>
        BY <1>6, <1>7, <3>1, <4>2, <4>3, <4>5
      <4> QED
        BY <4>4, <4>5
    <3>2. CASE d # c
      <4>1. taken'[d] = taken[d] /\ (Gets(d)' <=> Gets(d))
        BY <1>1, <1>2, <1>6, <3>2 DEF Gets, Plain
      <4> QED
        BY <4>1 DEF Good, AnswersRight
    <3> QED
      BY <3>1, <3>2
  <2> QED
    BY <1>2, <1>6, <1>8, <2>1 DEF Good, AnswersRight
<1> QED
  BY <1>9, <1>10, <1>11, <1>12 DEF Good

LEMMA AnswerWokenGood ==
  ASSUME Awake, Fresh, Good, AnswerWoken
  PROVE  Good'
<1> USE DEF dataVars, queueVars, timerVars
<1> DEFINE h == Head(todo)
<1>1. /\ pc = "wake" /\ TypeOK /\ todo # <<>> /\ h \in Key /\ woken \in Plain
      /\ answer[woken] = "open" /\ answer' = [answer EXCEPT ![woken] = wreply]
      /\ pos' = pos + 1 /\ pc' = "scan"
      /\ UNCHANGED <<dataVars, queueVars, log, cur, step, todo, reply, array, last, wreply,
                     woken, waiting, timerVars, raced>>
  <2>1. pc = "wake" /\ TypeOK /\ todo # <<>> /\ woken \in Plain
    BY DEF AnswerWoken, Awake, Control
  <2> QED
    BY <2>1, HeadTailProperties DEF AnswerWoken, TypeOK
<1>2. Executed' = Executed
  BY <1>1 DEF Executed
<1>3. /\ answer \in [Cmd -> {"open", "ok", "value", "nil", "error"}]
      /\ wreply \in {"ok", "value", "nil", "error"} /\ woken \in Cmd
  BY <1>1 DEF TypeOK, Plain
<1>4. /\ answer'[woken] = wreply /\ \A d \in Cmd \ {woken} : answer'[d] = answer[d]
  BY <1>1, <1>3
<1>5. woken \in Executed \ {cur} /\ waiting[h] = SubSeq(array, pos + 1, Len(array)) /\ Len(array) <= 2
  BY <1>1 DEF Good, RangeRight
<1>6. ListsRight'
  <2>1. ASSUME NEW j \in Key, NEW d \in ToSet(waiting[j])
        PROVE  d \in Cmd \ {woken} /\ d # cur
    BY <1>1, Registered
  <2> QED
    BY <1>1, <1>2, <1>4, <2>1 DEF Good, ListsRight, NotTimedOut
<1>7. NobodyMissing'
  BY <1>1, <1>2, <1>3, <1>4 DEF Good, NobodyMissing, Plain
<1>8. RangeRight'
  BY <1>1, <1>5 DEF RangeRight
<1>9. AnswersRight'
  <2>1. ASSUME NEW d \in Plain PROVE Gets(d)' <=> Gets(d)
    <3>1. CASE d = woken
      BY <1>1, <1>4, <1>5, <3>1 DEF Gets
    <3>2. CASE d # woken
      BY <1>1, <1>4, <3>2 DEF Gets, Plain
    <3> QED
      BY <3>1, <3>2
  <2>2. \A d \in Cmd : timer'[d] # "off" \/ answer'[d] # "open" => d \in Executed' \ {cur'}
    BY <1>1, <1>2, <1>4, <1>5 DEF Good, AnswersRight
  <2> QED
    BY <1>1, <2>1, <2>2 DEF Good, AnswersRight
<1> QED
  BY <1>6, <1>7, <1>8, <1>9 DEF Good

\* What the range leaves behind the last command it executed is the list.
LEMMA EndScanGood ==
  ASSUME Awake, Fresh, Good, EndScan
  PROVE  Good'
<1> USE DEF dataVars, queueVars, scanVars, timerVars
<1> DEFINE h == Head(todo)
<1>1. /\ pc = "scan" /\ TypeOK /\ todo # <<>> /\ h \in Key /\ pos = last + 1 /\ pc' = "unblock"
      /\ UNCHANGED <<dataVars, queueVars, answer, log, cur, step, reply, scanVars, timerVars,
                     raced>>
  <2>1. pc = "scan" /\ TypeOK /\ todo # <<>> /\ pos = last + 1
    BY DEF EndScan, Awake, Control
  <2> QED
    BY <2>1, HeadTailProperties DEF EndScan, TypeOK
<1>2. waiting[h] = SubSeq(array, last + 1, Len(array))
  BY <1>1 DEF Good, RangeRight
<1>3. waiting' = waiting
  BY <1>1, <1>2 DEF EndScan, TypeOK
<1>4. Executed' = Executed
  BY <1>1 DEF Executed
<1>5. ListsRight'
  BY <1>1, <1>3, <1>4 DEF Good, ListsRight, NotTimedOut
<1>6. NobodyMissing'
  BY <1>1, <1>3, <1>4 DEF Good, NobodyMissing
<1>7. RangeRight'
  BY <1>1 DEF RangeRight
<1>8. AnswersRight'
  BY <1>1, <1>4 DEF Good, AnswersRight, Gets
<1> QED
  BY <1>5, <1>6, <1>7, <1>8 DEF Good

LEMMA AnswerGood ==
  ASSUME Awake, Fresh, Good, Answer
  PROVE  Good'
<1> USE DEF dataVars, queueVars, scanVars, timerVars
<1>1. /\ pc = "unblock" /\ TypeOK /\ cur \in Cmd /\ answer[cur] = "open"
      /\ answer' = [answer EXCEPT ![cur] = reply] /\ pc' = "idle" /\ cur' = None
      /\ UNCHANGED <<dataVars, queueVars, step, todo, reply, scanVars, waiting, timerVars,
                     raced>>
  BY DEF Answer, Awake, Control
<1>2. Executed' = Executed /\ cur \in Executed /\ None \notin Cmd
  BY <1>1, ConstantsAssumption DEF Executed, Fresh
<1>3. /\ answer \in [Cmd -> {"open", "ok", "value", "nil", "error"}]
      /\ reply \in {"ok", "value", "nil", "error"}
  BY <1>1 DEF TypeOK
<1>4. answer'[cur] = reply /\ \A d \in Cmd \ {cur} : answer'[d] = answer[d]
  BY <1>1, <1>3
<1>5. ListsRight'
  <2>1. ASSUME NEW j \in Key, NEW d \in ToSet(waiting[j])
        PROVE  d \in Cmd \ {cur} /\ d # None
    BY <1>1, <1>2, Registered
  <2> QED
    BY <1>1, <1>2, <1>4, <2>1 DEF Good, ListsRight, NotTimedOut
<1>6. NobodyMissing'
  BY <1>1, <1>2, <1>3, <1>4 DEF Good, NobodyMissing, Plain
<1>7. RangeRight'
  BY <1>1 DEF RangeRight
<1>8. AnswersRight'
  <2>1. ASSUME NEW d \in Plain PROVE Gets(d)' <=> Gets(d)
    <3>1. CASE d = cur
      BY <1>1, <1>4, <3>1 DEF Gets
    <3>2. CASE d # cur
      BY <1>1, <1>2, <1>4, <3>2 DEF Gets, Plain
    <3> QED
      BY <3>1, <3>2
  <2>2. \A d \in Cmd : timer'[d] # "off" \/ answer'[d] # "open" => d \in Executed' \ {cur'}
    BY <1>1, <1>2, <1>4 DEF Good, AnswersRight
  <2> QED
    BY <1>1, <2>1, <2>2 DEF Good, AnswersRight
<1> QED
  BY <1>5, <1>6, <1>7, <1>8 DEF Good

\* A command that is executed again leaves the lists of its keys one by one;
\* the list being ranged over is shifted in place, and no place is passed over.
LEMMA DeregisterGood ==
  ASSUME Awake, Fresh, TwoWaiters, Good, Deregister
  PROVE  Good'
<1> USE DEF dataVars, queueVars, timerVars
<1> DEFINE k == Keys(woken)[step]
           n == Len(Keys(woken))
           h == Head(todo)
           L == Len(array)
<1>1. /\ pc = "remove" /\ TypeOK /\ todo # <<>> /\ cur \in Cmd /\ h \in Key
      /\ woken \in Plain /\ woken \in Cmd /\ step \in 1..n
      /\ n \in Nat /\ DOMAIN Keys(woken) = 1..n /\ k \in Key
      /\ array \in Seq(Cmd) /\ L \in Nat /\ DOMAIN array = 1..L
  <2>1. pc = "remove" /\ TypeOK /\ todo # <<>> /\ cur \in Cmd /\ woken \in Plain /\ step \in 1..n
    BY DEF Deregister, Awake, Control
  <2>2. h \in Key /\ array \in Seq(Cmd)
    BY <2>1, HeadTailProperties DEF TypeOK
  <2> QED
    BY <2>1, <2>2, PlainKeys, LenProperties
<1>2. /\ waiting' = [waiting EXCEPT ![k] = Without(@, woken)]
      /\ array' = IF k = h THEN Shifted(array, waiting[k], woken) ELSE array
      /\ UNCHANGED <<dataVars, queueVars, answer, log, cur, todo, reply, pos, wreply,
                     woken, timerVars, raced>>
  BY DEF Deregister
<1>15. /\ step < n => step' = step + 1 /\ pc' = "remove"
       /\ ~(step < n) => step' = step /\ pc' = "wake"
  BY <1>1 DEF Deregister
<1>16. step \in Nat /\ step >= 1 /\ step <= n /\ pc' \in {"remove", "wake"}
  BY <1>1, <1>15
<1>3. Executed' = Executed
  BY <1>2 DEF Executed
<1>4. /\ pos \in 1..L /\ L <= 2 /\ woken \in (BlocksFor(h) \cap Executed) \ {cur}
      /\ answer[woken] = "open" /\ NotTimedOut(woken, h)
  BY <1>1 DEF Good, RangeRight
<1>5. h \in ToSet(Keys(woken)) /\ IsInjective(Keys(woken))
  BY <1>1, <1>4 DEF TwoWaiters, BlocksFor, WaitersOn
<1>6. \A i \in 1..n : Keys(woken)[i] = k => i = step
  BY <1>1, <1>5 DEF IsInjective
<1>7. waiting[k] \in Seq(Cmd) /\ waiting \in [Key -> Seq(Cmd)] /\ IsInjective(waiting[k])
  BY <1>1 DEF TypeOK, Good, ListsRight
<1>8. waiting'[k] = Without(waiting[k], woken) /\ \A j \in Key \ {k} : waiting'[j] = waiting[j]
  BY <1>1, <1>2, <1>7
<1>9. IsInjective(waiting'[k]) /\ ToSet(waiting'[k]) = ToSet(waiting[k]) \ {woken}
  BY <1>7, <1>8, WithoutDistinct
<1>10. /\ \A j \in Key : \A c \in ToSet(waiting'[j]) : c \in ToSet(waiting[j])
       /\ \A j \in Key : \A c \in ToSet(waiting[j]) \ {woken} : c \in ToSet(waiting'[j])
  BY <1>8, <1>9
<1>11. ListsRight'
  <2> SUFFICES ASSUME NEW j \in Key
               PROVE  /\ IsInjective(waiting'[j])
                      /\ \A c \in ToSet(waiting'[j]) :
                           /\ c \in BlocksFor(j) \cap Executed /\ c # cur
                           /\ answer[c] = "open" /\ NotTimedOut(c, j)
                           /\ c = woken => /\ pc' = "remove"
                                           /\ \E i \in step' .. n : Keys(c)[i] = j
    BY <1>2, <1>3, <1>16 DEF ListsRight, NotTimedOut
  <2>1. IsInjective(waiting'[j])
    BY <1>8, <1>9 DEF Good, ListsRight
  <2>2. ASSUME NEW c \in ToSet(waiting'[j])
        PROVE  /\ c \in BlocksFor(j) \cap Executed /\ c # cur
               /\ answer[c] = "open" /\ NotTimedOut(c, j)
    BY <1>1, <1>10, <2>2, Registered
  <2>3. ASSUME woken \in ToSet(waiting'[j])
        PROVE  pc' = "remove" /\ \E i \in step' .. n : Keys(woken)[i] = j
    <3>1. j # k /\ woken \in ToSet(waiting[j])
      BY <1>9, <1>10, <2>3
    <3>2. PICK i \in step .. n : Keys(woken)[i] = j
      BY <1>1, <3>1, Registered
    <3>3. i # step /\ i \in 1..n
      BY <1>1, <3>1, <3>2
    <3>4. step < n /\ i \in step + 1 .. n
      BY <1>1, <3>2, <3>3
    <3>5. step' = step + 1 /\ pc' = "remove"
      BY <1>15, <3>4
    <3> QED
      BY <3>2, <3>4, <3>5
  <2> QED
    BY <2>1, <2>2, <2>3
<1>12. NobodyMissing'
  <2>1. ASSUME NEW c \in (Plain \cap Executed) \ {cur}, answer[c] = "open",
               timer[c] \in {"off", "sleep"}, c # woken, NEW j \in ToSet(Keys(c))
        PROVE  c \in ToSet(waiting'[j])
    <3>1. j \in Key
      BY PlainKeys, LenProperties DEF ToSet
    <3>2. c \in ToSet(waiting[j])
      BY <1>1, <2>1 DEF Good, NobodyMissing
    <3> QED
      BY <1>10, <2>1, <3>1, <3>2
  <2> QED
    BY <1>2, <1>3, <1>16, <2>1 DEF NobodyMissing
<1>13. RangeRight'
  <2> DEFINE before == \E i \in 1 .. step - 1 : Keys(woken)[i] = h
             after  == pc' = "wake" \/ \E i \in 1 .. step' - 1 : Keys(woken)[i] = h
  <2>1. /\ waiting[h] = SubSeq(array, IF before THEN pos + 1 ELSE pos, L)
        /\ ~before => woken = array[pos]
    BY <1>1 DEF Good, RangeRight
  <2>2. /\ waiting'[h] = SubSeq(array', IF after THEN pos + 1 ELSE pos, L)
        /\ Len(array') = L /\ DOMAIN array' = 1..L
        /\ ~after => woken = array'[pos]
    <3>1. CASE k = h
      <4>1. ~before
        BY <1>1, <1>6, <3>1
      <4>2. after
        <5>1. CASE step < n
          <6>1. step' - 1 = step /\ step \in 1 .. step
            BY <1>15, <1>16, <5>1
          <6> QED
            BY <3>1, <6>1
        <5>2. CASE ~(step < n)
          BY <1>15, <5>2
        <5> QED
          BY <5>1, <5>2
      <4>3. waiting[k] = SubSeq(array, pos, L) /\ woken = array[pos]
        BY <2>1, <3>1, <4>1
      <4>4. /\ Without(waiting[k], woken) = SubSeq(array, pos + 1, L)
            /\ Len(Shifted(array, waiting[k], woken)) = L
            /\ SubSeq(Shifted(array, waiting[k], woken), pos + 1, L) = SubSeq(array, pos + 1, L)
        <5> DEFINE w == waiting[k]
        <5>1. w \in Seq(Cmd) /\ IsInjective(w) /\ w = SubSeq(array, pos, Len(array))
          BY <1>7, <4>3
        <5>2. array \in Seq(Cmd) /\ Len(array) <= 2 /\ pos \in 1..Len(array)
          BY <1>1, <1>4
        <5> HIDE DEF w
        <5>3. /\ Without(w, array[pos]) = SubSeq(array, pos + 1, Len(array))
              /\ Len(Shifted(array, w, array[pos])) = Len(array)
              /\ SubSeq(Shifted(array, w, array[pos]), pos + 1, Len(array)) = SubSeq(array, pos + 1, Len(array))
          BY <5>1, <5>2, ShiftOfTwo
        <5> QED
          BY <4>3, <5>3 DEF w
      <4>5. array' = Shifted(array, waiting[k], woken)
        BY <1>2, <3>1
      <4>6. array' \in Seq(Cmd)
        BY <1>1, <4>5, ShiftedProperties
      <4>7. DOMAIN array' = 1..L
        BY <4>4, <4>5, <4>6, LenProperties
      <4> HIDE DEF after
      <4> QED
        BY <1>8, <3>1, <4>2, <4>4, <4>5, <4>7
    <3>2. CASE k # h
      <4>1. array' = array /\ waiting'[h] = waiting[h]
        BY <1>1, <1>2, <1>8, <3>2
      <4>2. after <=> before
        <5>1. PICK p \in 1..n : Keys(woken)[p] = h
          BY <1>1, <1>5 DEF ToSet
        <5>2. p # step
          BY <3>2, <5>1
        <5>3. CASE step < n
          <6>1. step' = step + 1 /\ pc' = "remove" /\ 1 .. step' - 1 = 1..step
            BY <1>15, <1>16, <5>3
          <6>2. \A i \in 1..step : i = step \/ i \in 1 .. step - 1
            BY <1>16
          <6>3. \A i \in 1 .. step - 1 : i \in 1..step
            BY <1>16
          <6> QED
            BY <3>2, <6>1, <6>2, <6>3
        <5>4. CASE ~(step < n)
          <6>1. pc' = "wake" /\ p \in 1 .. step - 1
            BY <1>1, <1>15, <1>16, <5>1, <5>2, <5>4
          <6> QED
            BY <5>1, <6>1
        <5> QED
          BY <5>3, <5>4
      <4> HIDE DEF before, after
      <4> QED
        BY <1>1, <2>1, <4>1, <4>2
    <3> QED
      BY <3>1, <3>2
  <2>3. NotTimedOut(woken, h)'
    BY <1>2, <1>4 DEF NotTimedOut
  <2>4. pc' \in {"remove", "wake"}
    BY <1>16
  <2> QED
    BY <1>2, <1>3, <1>4, <2>2, <2>3, <2>4 DEF RangeRight
<1>14. AnswersRight'
  BY <1>1, <1>2, <1>3, <1>16 DEF Good, AnswersRight, Gets
<1> QED
  BY <1>11, <1>12, <1>13, <1>14 DEF Good

-----------------------------------------------------------------------------
(* The timeouts.                                                           *)

LEMMA TimerFireGood ==
  ASSUME Awake, Fresh, Good, NEW c \in Cmd, TimerFire(c)
  PROVE  Good'
<1> USE DEF dataVars, queueVars, scanVars
<1>1. /\ timer[c] = "sleep" /\ TypeOK /\ c \in Plain
      /\ timer' = [timer EXCEPT ![c] = "read"] /\ tstep' = [tstep EXCEPT ![c] = 1]
      /\ UNCHANGED <<dataVars, queueVars, answer, log, pc, cur, step, todo, reply, scanVars,
                     waiting, snap, raced>>
  BY DEF TimerFire, Awake, Control
<1>2. /\ \A d \in Cmd \ {c} : timer'[d] = timer[d] /\ tstep'[d] = tstep[d]
      /\ timer'[c] = "read" /\ tstep'[c] = 1
  BY <1>1 DEF TypeOK
<1>3. Executed' = Executed
  BY <1>1 DEF Executed
<1>4. ASSUME NEW k \in Key, NEW d \in BlocksFor(k), NotTimedOut(d, k)
      PROVE  NotTimedOut(d, k)'
  <2>1. CASE d = c
    <3>1. k \in ToSet(Keys(c)) /\ DOMAIN Keys(c) = 1 .. Len(Keys(c))
      BY <1>1, <1>4, <2>1, PlainKeys, LenProperties DEF BlocksFor, WaitersOn
    <3> QED
      BY <1>2, <2>1, <3>1 DEF NotTimedOut, ToSet
  <2>2. CASE d # c
    BY <1>2, <1>4, <2>2 DEF NotTimedOut, BlocksFor, WaitersOn, Plain
  <2> QED
    BY <2>1, <2>2
<1>5. ListsRight'
  BY <1>1, <1>3, <1>4 DEF Good, ListsRight
<1>6. NobodyMissing'
  BY <1>1, <1>2, <1>3 DEF Good, NobodyMissing, Plain
<1>7. RangeRight'
  <2>1. ASSUME pc \in {"remove", "wake"} PROVE NotTimedOut(woken, Head(todo))'
    <3>1. woken \in BlocksFor(Head(todo)) /\ NotTimedOut(woken, Head(todo)) /\ Head(todo) \in Key
      BY <2>1, HeadTailProperties DEF Good, RangeRight, Awake, TypeOK, Control
    <3> QED
      BY <1>1, <1>4, <3>1
  <2> QED
    BY <1>1, <1>3, <2>1 DEF Good, RangeRight
<1>8. AnswersRight'
  BY <1>1, <1>2, <1>3 DEF Good, AnswersRight, Gets
<1> QED
  BY <1>5, <1>6, <1>7, <1>8 DEF Good

LEMMA TimerReadGood ==
  ASSUME Awake, Fresh, Good, NEW c \in Cmd, TimerRead(c)
  PROVE  Good'
<1> USE DEF dataVars, queueVars, scanVars
<1>1. /\ timer[c] = "read" /\ timer \in [Cmd -> {"off", "sleep", "read", "write", "send", "done"}]
      /\ timer' = [timer EXCEPT ![c] = "write"]
      /\ UNCHANGED <<dataVars, queueVars, answer, log, pc, cur, step, todo, reply, scanVars,
                     waiting, tstep, raced>>
  BY DEF TimerRead, Awake, TypeOK
<1>2. /\ \A d \in Cmd \ {c} : timer'[d] = timer[d]
      /\ timer'[c] = "write"
  BY <1>1
<1>3. Executed' = Executed
  BY <1>1 DEF Executed
<1>4. ASSUME NEW k, NEW d \in Cmd, NotTimedOut(d, k)
      PROVE  NotTimedOut(d, k)'
  BY <1>1, <1>2, <1>4 DEF NotTimedOut
<1>5. ListsRight'
  <2>1. \A k \in Key : \A d \in ToSet(waiting[k]) : d \in Cmd
    BY Registered
  <2> QED
    BY <1>1, <1>3, <1>4, <2>1 DEF Good, ListsRight
<1>6. NobodyMissing'
  BY <1>1, <1>2, <1>3 DEF Good, NobodyMissing, Plain
<1>7. RangeRight'
  <2>1. ASSUME pc \in {"remove", "wake"} PROVE NotTimedOut(woken, Head(todo))'
    <3>1. woken \in Cmd /\ NotTimedOut(woken, Head(todo))
      BY <2>1 DEF Good, RangeRight, Awake, Control, Plain
    <3> QED
      BY <1>1, <1>4, <3>1
  <2> QED
    BY <1>1, <1>3, <2>1 DEF Good, RangeRight
<1>8. AnswersRight'
  BY <1>1, <1>2, <1>3 DEF Good, AnswersRight, Gets
<1> QED
  BY <1>5, <1>6, <1>7, <1>8 DEF Good

\* A timeout that found nobody at the list it writes takes its command off it.
LEMMA TimerWriteGood ==
  ASSUME Awake, Fresh, Good, NEW c \in Cmd, TimerWrite(c), raced' = {}
  PROVE  Good'
<1> USE DEF dataVars, queueVars, scanVars
<1> DEFINE n == Len(Keys(c))
           k == Keys(c)[tstep[c]]
<1>1. /\ timer[c] = "write" /\ TypeOK /\ c \in Plain /\ tstep[c] \in 1..n /\ n \in Nat
      /\ k \in Key
      /\ UNCHANGED <<dataVars, queueVars, answer, log, pc, cur, step, todo, reply, pos,
                     last, wreply, woken>>
  <2>1. timer[c] = "write" /\ TypeOK /\ c \in Plain /\ tstep[c] \in 1..n
    BY DEF TimerWrite, Awake, Control
  <2> QED
    BY <2>1, PlainKeys DEF TimerWrite
<1>2. ~Storing(k) /\ ~Scanning(k) /\ snap[c] = waiting[k]
  BY DEF TimerWrite
<1>3. /\ waiting' = [waiting EXCEPT ![k] = Without(waiting[k], c)] /\ array' = array
      /\ tstep[c] < n => /\ tstep' = [tstep EXCEPT ![c] = @ + 1]
                         /\ timer' = [timer EXCEPT ![c] = "read"]
      /\ ~(tstep[c] < n) => tstep' = tstep /\ timer' = [timer EXCEPT ![c] = "send"]
  BY <1>2 DEF TimerWrite
<1>4. /\ \A d \in Cmd \ {c} : timer'[d] = timer[d] /\ tstep'[d] = tstep[d]
      /\ tstep[c] < n => timer'[c] = "read" /\ tstep'[c] = tstep[c] + 1
      /\ timer'[c] \notin {"off", "sleep"}
  BY <1>1, <1>3 DEF TypeOK
<1>5. Executed' = Executed
  BY <1>1 DEF Executed
<1>6. waiting[k] \in Seq(Cmd) /\ waiting \in [Key -> Seq(Cmd)] /\ IsInjective(waiting[k])
  BY <1>1 DEF TypeOK, Good, ListsRight
<1>7. waiting'[k] = Without(waiting[k], c) /\ \A j \in Key \ {k} : waiting'[j] = waiting[j]
  BY <1>1, <1>3, <1>6
<1>8. IsInjective(waiting'[k]) /\ ToSet(waiting'[k]) = ToSet(waiting[k]) \ {c}
  BY <1>6, <1>7, WithoutDistinct
<1>9. /\ \A j \in Key : \A d \in ToSet(waiting'[j]) : d \in ToSet(waiting[j])
      /\ \A j \in Key : \A d \in ToSet(waiting[j]) \ {c} : d \in ToSet(waiting'[j])
  BY <1>7, <1>8
<1>10. ASSUME NEW j \in Key, NEW d \in Cmd, NotTimedOut(d, j), d # c \/ j # k
       PROVE  NotTimedOut(d, j)'
  <2>1. CASE d = c
    <3>1. PICK i \in tstep[c] .. n : Keys(c)[i] = j
      BY <1>1, <1>10, <2>1 DEF NotTimedOut
    <3>2. i # tstep[c]
      BY <1>10, <2>1, <3>1
    <3>3. tstep[c] < n /\ i \in tstep[c] + 1 .. n
      BY <1>1, <3>1, <3>2
    <3>4. timer'[c] = "read" /\ tstep'[c] = tstep[c] + 1
      BY <1>4, <3>3
    <3> QED
      BY <2>1, <3>1, <3>3, <3>4 DEF NotTimedOut
  <2>2. CASE d # c
    BY <1>4, <1>10, <2>2 DEF NotTimedOut
  <2> QED
    BY <2>1, <2>2
<1>11. ListsRight'
  <2> SUFFICES ASSUME NEW j \in Key
               PROVE  /\ IsInjective(waiting'[j])
                      /\ \A d \in ToSet(waiting'[j]) :
                           /\ d \in BlocksFor(j) \cap Executed
                           /\ answer[d] = "open" /\ NotTimedOut(d, j)'
                           /\ d = cur => pc = "register" /\ \E i \in 1 .. step - 1 : Keys(d)[i] = j
                           /\ d = woken /\ pc \in {"remove", "wake"} =>
                                pc = "remove" /\ \E i \in step .. Len(Keys(d)) : Keys(d)[i] = j
    BY <1>1, <1>5 DEF ListsRight
  <2>1. IsInjective(waiting'[j])
    BY <1>7, <1>8 DEF Good, ListsRight
  <2>2. ASSUME NEW d \in ToSet(waiting'[j])
        PROVE  d \in ToSet(waiting[j]) /\ NotTimedOut(d, j)'
    <3>1. d \in ToSet(waiting[j]) /\ (d # c \/ j # k)
      BY <1>8, <1>9
    <3>2. d \in Cmd /\ NotTimedOut(d, j)
      BY <3>1, Registered
    <3> QED
      BY <1>10, <3>1, <3>2
  <2> QED
    BY <2>1, <2>2, Registered
<1>12. c # cur
  BY <1>1 DEF Good, AnswersRight
<1>13. NobodyMissing'
  <2>1. ASSUME pc = "register", NEW i \in 1 .. step - 1
        PROVE  cur \in ToSet(waiting'[Keys(cur)[i]])
    <3>1. cur \in Plain /\ i \in 1 .. Len(Keys(cur))
      BY <2>1 DEF Awake, Control
    <3>2. Keys(cur)[i] \in Key
      BY <3>1, PlainKeys
    <3>3. cur \in ToSet(waiting[Keys(cur)[i]])
      BY <2>1 DEF Good, NobodyMissing
    <3> QED
      BY <1>9, <1>12, <3>2, <3>3
  <2>2. ASSUME NEW d \in (Plain \cap Executed) \ {cur}, answer[d] = "open",
               timer'[d] \in {"off", "sleep"}, ~(d = woken /\ pc \in {"remove", "wake"}),
               NEW j \in ToSet(Keys(d))
        PROVE  d \in ToSet(waiting'[j])
    <3>1. j \in Key
      BY PlainKeys, LenProperties DEF ToSet
    <3>2. d # c /\ d \in Cmd
      BY <1>4, <2>2 DEF Plain
    <3>3. d \in ToSet(waiting[j])
      BY <1>4, <2>2, <3>2 DEF Good, NobodyMissing
    <3> QED
      BY <1>9, <3>1, <3>2, <3>3
  <2> QED
    BY <1>1, <1>5, <2>1, <2>2 DEF Good, NobodyMissing
<1>14. RangeRight'
  <2>1. ASSUME pc \in {"scan", "remove", "wake"}
        PROVE  waiting'[Head(todo)] = waiting[Head(todo)] /\ Head(todo) # k /\ Head(todo) \in Key
    <3>1. Head(todo) # k
      BY <1>2, <2>1 DEF Scanning
    <3>2. Head(todo) \in Key
      BY <2>1, HeadTailProperties DEF Awake, TypeOK, Control
    <3> QED
      BY <1>7, <3>1, <3>2
  <2>2. ASSUME pc \in {"remove", "wake"} PROVE NotTimedOut(woken, Head(todo))'
    <3>1. woken \in Cmd /\ NotTimedOut(woken, Head(todo))
      BY <2>2 DEF Good, RangeRight, Awake, Control, Plain
    <3>2. NotTimedOut(woken, Head(todo))'
      BY <1>1, <1>10, <2>1, <2>2, <3>1
    <3> QED
      BY <3>2
  <2> QED
    BY <1>1, <1>3, <1>5, <2>1, <2>2 DEF Good, RangeRight
<1>15. AnswersRight'
  <2>1. \A d \in Cmd : timer'[d] # "off" => timer[d] # "off"
    BY <1>1, <1>4
  <2> QED
    BY <1>1, <1>5, <2>1 DEF Good, AnswersRight, Gets
<1> QED
  BY <1>11, <1>13, <1>14, <1>15 DEF Good

\* A command that was timed out is on no list any more, and not being executed.
LEMMA TimerAnswerGood ==
  ASSUME Awake, Fresh, Good, NEW c \in Cmd, TimerAnswer(c)
  PROVE  Good'
<1> USE DEF dataVars, queueVars, scanVars
<1>1. /\ timer[c] = "send" /\ answer[c] = "open" /\ TypeOK
      /\ answer' = [answer EXCEPT ![c] = "nil"] /\ timer' = [timer EXCEPT ![c] = "done"]
      /\ UNCHANGED <<dataVars, queueVars, log, pc, cur, step, todo, reply, scanVars, waiting,
                     tstep, snap, raced>>
  BY DEF TimerAnswer, Awake
<1>2. /\ \A d \in Cmd \ {c} : timer'[d] = timer[d] /\ answer'[d] = answer[d]
      /\ timer'[c] = "done" /\ answer'[c] = "nil"
  BY <1>1 DEF TypeOK
<1>3. Executed' = Executed
  BY <1>1 DEF Executed
<1>4. c \in Executed \ {cur}
  BY <1>1 DEF Good, AnswersRight
<1>5. \A k \in Key : \A d \in ToSet(waiting[k]) : d \in Cmd \ {c}
  BY <1>1, Registered DEF NotTimedOut
<1>6. pc \in {"remove", "wake"} => woken \in Cmd \ {c}
  BY <1>1 DEF Good, RangeRight, NotTimedOut, Awake, Control, Plain
<1>7. ListsRight'
  BY <1>1, <1>2, <1>3, <1>5 DEF Good, ListsRight, NotTimedOut
<1>8. NobodyMissing'
  BY <1>1, <1>2, <1>3 DEF Good, NobodyMissing, Plain
<1>9. RangeRight'
  BY <1>1, <1>2, <1>3, <1>6 DEF Good, RangeRight, NotTimedOut
<1>10. AnswersRight'
  <2>1. ASSUME NEW d \in Plain PROVE Gets(d)' <=> Gets(d)
    <3>1. CASE d = c
      BY <1>1, <1>2, <1>4, <1>6, <3>1 DEF Gets
    <3>2. CASE d # c
      BY <1>1, <1>2, <3>2 DEF Gets, Plain
    <3> QED
      BY <3>1, <3>2
  <2>2. \A d \in Cmd : timer'[d] # "off" \/ answer'[d] # "open" => d \in Executed' \ {cur'}
    BY <1>1, <1>2, <1>3, <1>4 DEF Good, AnswersRight
  <2> QED
    BY <1>1, <2>1, <2>2 DEF Good, AnswersRight
<1> QED
  BY <1>7, <1>8, <1>9, <1>10 DEF Good

\* Nothing forgets that a timeout interfered, and the process does not come back.
LEMMA StillUnhurt ==
  ASSUME Awake, [Next]_vars, raced' = {}, Up'
  PROVE  raced = {} /\ Up
<1>1. CASE \E c \in Cmd : Issue(c)
  BY <1>1 DEF Issue, Up
<1>2. CASE ExecutorStep
  BY <1>2 DEF ExecutorStep, TakeCommand, TakeTransaction, Begin, Push, SetString, PopLeft,
     BlockingPop, BlockingPopWaits, Running, Register, StartScan, Wake, Deregister, AnswerWoken,
     EndScan, Answer, Up
<1>3. CASE \E c \in Cmd : TimerStep(c)
  <2>1. PICK c \in Cmd : TimerStep(c)
    BY <1>3
  <2>2. raced \subseteq raced' /\ Up
    BY <2>1 DEF TimerStep, TimerFire, TimerRead, TimerWrite, TimerAnswer, Up
  <2> QED
    BY <2>2
<1>4. CASE ConcurrentMapAbort
  BY <1>4 DEF ConcurrentMapAbort, Up
<1>5. CASE UNCHANGED vars
  BY <1>5 DEF vars, Up
<1> QED
  BY <1>1, <1>2, <1>3, <1>4, <1>5 DEF Next

LEMMA GoodStep ==
  ASSUME Awake, Fresh, TwoWaiters, Good, [Next]_vars, raced' = {}, Up'
  PROVE  Good'
<1>1. CASE \E c \in Cmd : Issue(c)
  BY <1>1, IssueGood
<1>2. CASE ExecutorStep
  BY <1>2, TakeGood, PushGood, SetStringGood, PopLeftGood, BlockingPopGood,
     BlockingPopWaitsGood, RegisterGood, StartScanGood, WakeGood, DeregisterGood,
     AnswerWokenGood, EndScanGood, AnswerGood DEF ExecutorStep
<1>3. CASE \E c \in Cmd : TimerStep(c)
  BY <1>3, TimerFireGood, TimerReadGood, TimerWriteGood, TimerAnswerGood DEF TimerStep
<1>4. CASE ConcurrentMapAbort
  BY <1>4 DEF ConcurrentMapAbort, Up
<1>5. CASE UNCHANGED vars
  <2>1. Executed' = Executed
    BY <1>5 DEF vars, queueVars, Executed
  <2>2. UNCHANGED <<list, str, taken, answer, pc, cur, step, todo, reply, scanVars,
                    waiting, timer, tstep>>
    BY <1>5 DEF vars, dataVars, timerVars
  <2> QED
    BY <2>1, <2>2, GoodKept
<1> QED
  BY <1>1, <1>2, <1>3, <1>4, <1>5 DEF Next

LEMMA WaitersRightStep ==
  ASSUME Awake, Fresh, WaitersRight, [Next]_vars
  PROVE  WaitersRight'
<1> SUFFICES ASSUME TwoWaiters, raced' = {}, Up'
             PROVE  Good'
  BY DEF WaitersRight, Good
<1>1. raced = {} /\ Up
  BY StillUnhurt
<1>2. Good
  BY <1>1 DEF WaitersRight, Good
<1> QED
  BY <1>2, GoodStep

-----------------------------------------------------------------------------
(* The theorems.                                                           *)

\* The invariant of this module: it holds at first and every step of a client, of
\* the executor, of a timeout, and the end of the process keeps it.
THEOREM Inductive == Spec => []IInv
<1>1. Init => IInv
  BY InitAwake, InitFresh, InitGood DEF IInv, WaitersRight, Good
<1>2. IInv /\ [Next]_vars => IInv'
  BY AwakeStep, FreshStep, WaitersRightStep DEF IInv
<1> QED
  BY <1>1, <1>2, PTL DEF Spec

\* The executor's variables keep to their types, for any set of keys and requests,
\* any bodies of the requests and any capacity of the channels.
THEOREM TypeCorrect == Spec => []TypeOK
<1>1. IInv => TypeOK
  BY DEF IInv, Awake
<1> QED
  BY <1>1, Inductive, PTL

\* UnblockCommandsWaitingForKey leaves nobody asleep: between two requests no
\* command waits on a key that holds a string or an element, unless a timeout wrote
\* a list of waiters while the executor held it.
THEOREM NobodySleeps == Spec => []NoSleepingWaiter
<1>1. IInv => NoSleepingWaiter
  <2> SUFFICES ASSUME IInv, pc = "idle", raced = {}, NEW k \in Key, Ready(k)
               PROVE  waiting[k] = <<>>
    BY DEF NoSleepingWaiter
  <2>1. todo = <<>> /\ (waiting[k] = <<>> \/ k \in ToSet(todo))
    BY DEF IInv, Awake, Control, Covered
  <2>2. ToSet(<<>>) = {}
    BY DEF ToSet
  <2> QED
    BY <2>1, <2>2
<1> QED
  BY <1>1, Inductive, PTL

\* The list commands, executed with all the waiting, waking and timing out, do to
\* the lists what ListService promises: every step is one insertion of elements
\* that were nowhere, one removal of a head for one request, one replacement by
\* SET, or none of them.
THEOREM ListsImplemented == Spec => ListsPromise
<1>1. Init => Lists!Init
  BY DEF Init, Lists!Init
<1>2. IInv /\ [Next]_vars => [Lists!Next]_<<list, taken>>
  BY StepRefines DEF IInv
<1> QED
  BY <1>1, <1>2, Inductive, PTL DEF Spec, ListsPromise, Lists!Spec, Lists!vars

\* No element is delivered twice, and none is delivered and still in a list.
THEOREM NoElementTwice == Spec => []OnePlaceEach
<1>1. Init => Separate
  BY InitSeparate
<1>2. IInv /\ Separate /\ [Next]_vars => Separate'
  BY SeparateStep DEF IInv
<1>3. Separate => OnePlaceEach
  BY SeparatePlaces
<1> QED
  BY <1>1, <1>2, <1>3, Inductive, PTL DEF Spec

\* A command that blocks is on the list of every key it names until it is woken or
\* timed out, as long as no key has more than two commands that can block on it and
\* no timeout interfered: waking one waiter never drops another one.
THEOREM NobodyIsForgotten == TwoWaiters => (Spec => []NobodyForgotten)
<1> SUFFICES ASSUME TwoWaiters PROVE Spec => []NobodyForgotten
  OBVIOUS
<1>1. IInv => NobodyForgotten
  <2> SUFFICES ASSUME IInv, pc = "idle", raced = {}, NEW c \in Cmd, Parked(c),
                      NEW k \in ToSet(Keys(c))
               PROVE  c \in ToSet(waiting[k])
    BY DEF NobodyForgotten
  <2>1. NobodyMissing
    BY DEF IInv, WaitersRight, Up
  <2>2. c \in Plain \cap Executed /\ c # cur
    BY DEF Parked, Plain, Executed, IInv, Fresh
  <2> QED
    BY <2>1, <2>2 DEF NobodyMissing, Parked
<1> QED
  BY <1>1, Inductive, PTL

\* Under the same condition a command that was answered is on no list of waiters
\* between two requests, so it is never executed again.
THEOREM NobodyIsWokenTwice == TwoWaiters => (Spec => []NobodyWokenTwice)
<1> SUFFICES ASSUME TwoWaiters PROVE Spec => []NobodyWokenTwice
  OBVIOUS
<1>1. IInv => NobodyWokenTwice
  BY DEF IInv, WaitersRight, ListsRight, NobodyWokenTwice, Up
<1> QED
  BY <1>1, Inductive, PTL

\* Under the same condition every element popped for a plain command is in the
\* answer its client got, between two requests, and no command popped two.
THEOREM EveryElementIsDelivered == TwoWaiters => (Spec => []TakenIsDelivered)
<1> SUFFICES ASSUME TwoWaiters PROVE Spec => []TakenIsDelivered
  OBVIOUS
<1>1. IInv => TakenIsDelivered
  <2> SUFFICES ASSUME IInv, pc = "idle", raced = {}, NEW c \in Cmd, ~IsTx[c]
               PROVE  Len(taken[c]) = IF answer[c] = "value" THEN 1 ELSE 0
    BY DEF TakenIsDelivered
  <2>1. Len(taken[c]) = IF Gets(c) THEN 1 ELSE 0
    BY DEF IInv, WaitersRight, AnswersRight, Plain, Up
  <2>2. Gets(c) <=> answer[c] = "value"
    BY DEF Gets
  <2> QED
    BY <2>1, <2>2
<1> QED
  BY <1>1, Inductive, PTL

\* Under the same condition the executor never waits for ever to answer a command
\* that was answered before: every command it wakes is still open.
THEOREM ExecutorIsNeverStuck == TwoWaiters => (Spec => []ExecutorDoesNotBlock)
<1> SUFFICES ASSUME TwoWaiters PROVE Spec => []ExecutorDoesNotBlock
  OBVIOUS
<1>1. IInv => ExecutorDoesNotBlock
  BY DEF IInv, WaitersRight, RangeRight, ExecutorDoesNotBlock, Stuck, Up
<1> QED
  BY <1>1, Inductive, PTL

=============================================================================
