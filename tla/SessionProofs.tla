--------------------------- MODULE SessionProofs ---------------------------
(***************************************************************************)
(* What Session guarantees for every number of connections, whatever their *)
(* clients send: types, the modes, the subscription indexes, that          *)
(* strangers have no effect, where messages go and how many, and that      *)
(* MULTI, EXEC and DISCARD keep the promise of Transactions.               *)
(***************************************************************************)
EXTENDS Session, SequenceTheorems, FiniteSetTheorems, TLAPS

-----------------------------------------------------------------------------
(* Helpers.                                                                *)

\* What Append, Tail and Head do to the members of a sequence.
LEMMA AppendMembers ==
  ASSUME NEW T, NEW s \in Seq(T), NEW e \in T
  PROVE  Append(s, e) \in Seq(T) /\ ToSet(Append(s, e)) = ToSet(s) \cup {e}
<1> DEFINE u == Append(s, e)
<1>1. /\ u \in Seq(T) /\ Len(u) = Len(s) + 1 /\ u[Len(s) + 1] = e
      /\ \A i \in 1..Len(s) : u[i] = s[i]
  BY AppendProperties
<1>2. DOMAIN s = 1..Len(s) /\ Len(s) \in Nat /\ DOMAIN u = 1..(Len(s) + 1)
  BY <1>1, LenProperties
<1> HIDE DEF u
<1>3. ToSet(u) = ToSet(s) \cup {e}
  BY <1>1, <1>2 DEF ToSet
<1> QED
  BY <1>1, <1>3 DEF u

LEMMA HeadTailMembers ==
  ASSUME NEW T, NEW s \in Seq(T), s # <<>>
  PROVE  /\ Head(s) \in T /\ Tail(s) \in Seq(T)
         /\ ToSet(s) = ToSet(Tail(s)) \cup {Head(s)}
<1> DEFINE u == Tail(s)
<1>1. /\ u \in Seq(T) /\ Len(u) = Len(s) - 1 /\ Head(s) \in T /\ Head(s) = s[1]
      /\ \A i \in 1..Len(u) : u[i] = s[i + 1]
  BY HeadTailProperties
<1>2. DOMAIN s = 1..Len(s) /\ Len(s) \in Nat \ {0} /\ DOMAIN u = 1..Len(u)
  BY <1>1, LenProperties, EmptySeq
<1> HIDE DEF u
<1>3. ToSet(u) \subseteq ToSet(s)
  BY <1>1, <1>2 DEF ToSet
<1>4. Head(s) \in ToSet(s)
  BY <1>1, <1>2 DEF ToSet
<1>5. ASSUME NEW i \in DOMAIN s PROVE s[i] \in ToSet(u) \cup {Head(s)}
  <2>1. CASE i = 1
    BY <1>1, <2>1
  <2>2. CASE i # 1
    <3>1. i - 1 \in 1..Len(u) /\ u[i - 1] = s[i]
      BY <1>1, <1>2, <2>2
    <3> QED
      BY <1>2, <3>1 DEF ToSet
  <2> QED
    BY <2>1, <2>2
<1>6. ToSet(s) \subseteq ToSet(u) \cup {Head(s)}
  BY <1>5 DEF ToSet
<1> QED
  BY <1>1, <1>3, <1>4, <1>6 DEF u

\* The last element of a sequence that grew by one is the new one.
LEMMA LastAppended ==
  ASSUME NEW T, NEW s \in Seq(T), NEW e \in T
  PROVE  Last(Append(s, e)) = e
<1>1. Append(s, e)[Len(s) + 1] = e /\ Len(Append(s, e)) = Len(s) + 1
  BY AppendProperties
<1> QED
  BY <1>1 DEF Last

\* A PUBLISH goes through the subscribers of its channel in some order.
LEMMA TargetsType ==
  ASSUME NEW S \in SUBSET Conn, NEW t \in SetToSeqs(S)
  PROVE  t \in Seq(Conn) /\ ToSet(t) \subseteq S
<1>1. IsFiniteSet(S)
  BY ConstantsAssumption, FS_Subset
<1>2. Cardinality(S) \in Nat
  BY <1>1, FS_CardinalityType
<1>3. t \in [1..Cardinality(S) -> S]
  BY DEF SetToSeqs
<1>4. t \in Seq(S)
  BY <1>2, <1>3
<1>5. t \in Seq(Conn)
  BY <1>4, SeqMonotonic
<1> QED
  BY <1>3, <1>5 DEF ToSet

LEMMA RequestType ==
  ASSUME NEW c \in Conn, NEW r \in Requests[c]
  PROVE  /\ r \in Request /\ r.op \in Ops /\ r.arg \in Arg
         /\ r.op \in {"publish", "subscribe", "unsubscribe"} => r.arg \in Channel
         /\ r.op \in {"auth", "setuser"} => r.arg \in Password
BY ConstantsAssumption DEF Request

\* The command made of a request of c, and a request's name.
LEMMA CommandType ==
  ASSUME TypeOK, NEW c \in Conn, NEW r \in Requests[c]
  PROVE  ThisId(c) \in Id /\ CommandOf(c, r) \in OwnCommands(c)
<1>1. handled[c] + 1 \in Nat
  BY DEF TypeOK
<1>2. ThisId(c) \in Id /\ ThisId(c)[1] = c
  BY <1>1 DEF Id, ThisId
<1> HIDE DEF ThisId
<1>3. r.op \in Ops /\ r.arg \in Arg /\ (r.op = "publish" => r.arg \in Channel)
  BY RequestType
<1> QED
  BY <1>2, <1>3 DEF CommandOf, OwnCommands, Command

LEMMA OwnCommandSeq ==
  ASSUME NEW c \in Conn, NEW s \in Seq(OwnCommands(c))
  PROVE  s \in Seq(Command)
<1>1. OwnCommands(c) \subseteq Command
  BY DEF OwnCommands
<1> QED
  BY <1>1, SeqMonotonic

LEMMA OwnJobType ==
  ASSUME NEW c \in Conn, NEW s \in Seq(OwnCommands(c)), NEW b \in BOOLEAN
  PROVE  [conn |-> c, tx |-> b, cmds |-> s] \in OwnJobs
BY OwnCommandSeq DEF OwnJobs, Job

LEMMA NoneIsAnArg == None \in Arg
BY DEF Arg

\* The reply a handler prepares.
LEMMA ReplyType ==
  ASSUME TypeOK, NEW c \in Conn, NEW a \in Arg,
         NEW kind \in {"ok", "error", "result", "array", "pong", "queued", "multi",
                       "subscribed", "unsubscribed", "stored"},
         Reply(c, kind, a)
  PROVE  /\ phase' = [phase EXCEPT ![c] = "send"]
         /\ answer' \in [Conn -> Written] /\ answer'[c].kind # "message"
         /\ \A d \in Conn \ {c} : answer'[d] = answer[d]
<1> DEFINE w == [kind |-> kind, arg |-> a, of |-> ThisId(c)]
<1>1. handled[c] + 1 \in Nat /\ answer \in [Conn -> Written]
  BY DEF TypeOK
<1>2. ThisId(c) \in Id
  BY <1>1 DEF Id, ThisId
<1>3. w \in Written /\ w.kind # "message"
  BY <1>2 DEF Written
<1>4. answer' = [answer EXCEPT ![c] = w] /\ phase' = [phase EXCEPT ![c] = "send"]
  BY DEF Reply
<1> HIDE DEF w
<1> QED
  BY <1>1, <1>3, <1>4

-----------------------------------------------------------------------------
(* The invariant in the form the steps need.                               *)

\* The owners of the jobs and of what was executed, and the connections that are
\* in a transaction, subscribed, or in the middle of a request, are authenticated.
Known ==
  /\ \A j \in Jobs : authenticated[j.conn]
  /\ \A i \in DOMAIN executed : authenticated[executed[i][1]]
  /\ \A c \in Conn :
       inTransaction[c] \/ subscriptions[c] # {} \/ phase[c] \in {"wait", "store"}
         => authenticated[c]

\* Jobs and executed commands belong to connections.
LEMMA Owners ==
  ASSUME TypeOK, Held
  PROVE  /\ \A j \in Jobs : j \in OwnJobs /\ j.conn \in Conn
         /\ \A i \in DOMAIN executed : executed[i][1] \in Conn
<1>1. \A j \in OwnJobs : j.conn \in Conn
  BY DEF OwnJobs, Job
<1>2. ToSet(cmdQueue) \subseteq OwnJobs /\ ToSet(txQueue) \subseteq OwnJobs
  BY ElementOfSeq, LenProperties DEF Held, ToSet
<1>3. executed \in Seq(Id)
  BY DEF TypeOK
<1>4. \A i \in DOMAIN executed : executed[i] \in Id
  BY <1>3, ElementOfSeq, LenProperties
<1> QED
  BY <1>1, <1>2, <1>4 DEF Jobs, Held, Id

LEMMA KnownIff == ASSUME TypeOK, Held PROVE StrangersDoNothing <=> Known
<1>1. \A c \in Conn : JobsOf(c) = {j \in Jobs : j.conn = c}
  BY DEF JobsOf
<1>2. \A j \in Jobs : j.conn \in Conn
  BY Owners
<1>3. \A i \in DOMAIN executed : executed[i][1] \in Conn
  BY Owners
<1>4. ASSUME StrangersDoNothing PROVE Known
  <2>1. \A j \in Jobs : authenticated[j.conn]
    BY <1>1, <1>2, <1>4 DEF StrangersDoNothing
  <2>2. \A i \in DOMAIN executed : authenticated[executed[i][1]]
    BY <1>3, <1>4 DEF StrangersDoNothing
  <2> QED
    BY <1>4, <2>1, <2>2 DEF StrangersDoNothing, Known
<1>5. ASSUME Known PROVE StrangersDoNothing
  <2> SUFFICES ASSUME NEW c \in Conn, ~authenticated[c]
               PROVE  /\ ~inTransaction[c] /\ subscriptions[c] = {}
                      /\ phase[c] \notin {"wait", "store"} /\ JobsOf(c) = {}
                      /\ \A i \in DOMAIN executed : executed[i][1] # c
    BY DEF StrangersDoNothing
  <2>1. JobsOf(c) = {}
    BY <1>1, <1>5 DEF Known
  <2> QED
    BY <1>5, <2>1 DEF Known
<1> QED
  BY <1>4, <1>5

SStep == TypeOK /\ Held /\ ModesExclude /\ SubscriptionsAgree /\ Known

LEMMA SInvIff == SInv <=> SStep /\ Delivering
BY KnownIff DEF SInv, SStep

LEMMA InitSInv == Init => SInv
<1> SUFFICES ASSUME Init PROVE SInv
  OBVIOUS
<1>0. \A T : <<>> \in Seq(T) /\ ToSet(<<>>) = {} /\ Len(<<>>) = 0
  BY EmptySeq DEF ToSet
<1>1. \A c \in Conn : NoReply(c) \in Written
  BY DEF NoReply, Written, Id, Arg
<1>2. TypeOK
  <2>1. /\ <<>> \in Seq(Command) /\ <<>> \in Seq(Job) /\ <<>> \in Seq(Conn)
        /\ <<>> \in Seq(Id) /\ <<>> \in Seq(Written)
    BY <1>0
  <2>2. answer \in [Conn -> Written]
    BY <1>1 DEF Init
  <2>3. /\ phase \in [Conn -> {"absent", "read", "wait", "store", "send", "gone"}]
        /\ handled \in [Conn -> Nat] /\ seen \in [Conn -> Nat]
        /\ inTransaction \in [Conn -> BOOLEAN] /\ inPubSubMode \in [Conn -> BOOLEAN]
        /\ authenticated \in [Conn -> BOOLEAN] /\ open \in [Conn -> BOOLEAN]
    BY DEF Init
  <2>4. /\ queuedCommands \in [Conn -> Seq(Command)] /\ out \in [Conn -> Seq(Written)]
        /\ cmdQueue \in Seq(Job) /\ txQueue \in Seq(Job)
        /\ targets \in Seq(Conn) /\ executed \in Seq(Id)
    BY <2>1 DEF Init
  <2>5. /\ draft \in [Conn -> SUBSET Password] /\ passwords \in SUBSET Password
        /\ channels \in [Channel -> SUBSET Conn] /\ subscriptions \in [Conn -> SUBSET Channel]
        /\ job \in Job \cup {None} /\ pos \in Nat \ {0}
        /\ publishing \in BOOLEAN /\ discarded \in SUBSET Id
    <3>1. job = None /\ pos = 1 /\ publishing = FALSE /\ discarded = {} /\ passwords = {}
      BY DEF Init
    <3>2. draft = [c \in Conn |-> {}] /\ subscriptions = [c \in Conn |-> {}]
      BY DEF Init
    <3>3. channels = [ch \in Channel |-> {}]
      BY DEF Init
    <3>4. publishing \in BOOLEAN
      BY <3>1, Zenon
    <3>5. draft \in [Conn -> SUBSET Password] /\ subscriptions \in [Conn -> SUBSET Channel]
      BY <3>2
    <3>6. channels \in [Channel -> SUBSET Conn]
      BY <3>3
    <3>7. discarded \in SUBSET Id /\ passwords \in SUBSET Password
      BY <3>1
    <3> QED
      BY <3>1, <3>4, <3>5, <3>6, <3>7
  <2> QED
    BY <2>2, <2>3, <2>4, <2>5 DEF TypeOK
<1>3. Held
  BY <1>0 DEF Init, Held, NoReply
<1>4. ModesExclude /\ SubscriptionsAgree
  BY DEF Init, ModesExclude, SubscriptionsAgree
<1>5. Known
  BY <1>0 DEF Init, Known, Jobs
<1>6. Delivering
  BY <1>0 DEF Init, Delivering, CountIsDelivered
<1> QED
  BY <1>2, <1>3, <1>4, <1>5, <1>6, SInvIff DEF SStep

-----------------------------------------------------------------------------
(* The steps of a connection.                                              *)

LEMMA AcceptSInv == ASSUME SStep, NEW c \in Conn, Accept(c) PROVE SStep'
<1>1. TypeOK /\ Held /\ ModesExclude /\ SubscriptionsAgree /\ Known
  BY DEF SStep
<1>2. /\ UNCHANGED <<handled, inTransaction, queuedCommands, inPubSubMode, answer, draft,
                     passwords, channels, subscriptions, cmdQueue, txQueue, job, pos,
                     targets, publishing, executed, discarded, out, seen>>
      /\ phase[c] = "absent" /\ phase' = [phase EXCEPT ![c] = "read"]
      /\ open' = [open EXCEPT ![c] = TRUE]
      /\ \E b \in BOOLEAN : authenticated' = [authenticated EXCEPT ![c] = b]
  BY DEF Accept, connVars, aclVars, indexVars, queueVars, execVars, sockVars
<1>3. TypeOK'
  BY <1>1, <1>2 DEF TypeOK
<1>4. Held'
  BY <1>1, <1>2 DEF Held, TypeOK, Running, Current
<1>5. ModesExclude'
  BY <1>1, <1>2 DEF ModesExclude, TypeOK
<1>6. SubscriptionsAgree'
  BY <1>1, <1>2 DEF SubscriptionsAgree, TypeOK
<1>7. Known'
  <2>1. /\ \A j \in Jobs : j.conn \in Conn /\ j.conn # c
        /\ \A i \in DOMAIN executed : executed[i][1] \in Conn /\ executed[i][1] # c
    BY <1>1, <1>2, Owners DEF Held, Known
  <2>2. Jobs' = Jobs
    BY <1>2 DEF Jobs
  <2> QED
    BY <1>1, <1>2, <2>1, <2>2 DEF Known, Held, TypeOK
<1> QED
  BY <1>3, <1>4, <1>5, <1>6, <1>7 DEF SStep

LEMMA DisconnectSInv == ASSUME SStep, NEW c \in Conn, Disconnect(c) PROVE SStep'
<1>1. TypeOK /\ Held /\ ModesExclude /\ SubscriptionsAgree /\ Known
  BY DEF SStep
<1>2. /\ UNCHANGED <<phase, handled, inTransaction, queuedCommands, inPubSubMode,
                     authenticated, answer, draft, passwords, channels, subscriptions,
                     cmdQueue, txQueue, job, pos, targets, publishing, executed, discarded,
                     out, seen>>
      /\ open' = [open EXCEPT ![c] = FALSE]
  BY DEF Disconnect, connVars, aclVars, indexVars, queueVars, execVars, sockVars
<1>3. TypeOK'
  BY <1>1, <1>2 DEF TypeOK
<1>4. Held'
  BY <1>1, <1>2 DEF Held, TypeOK, Running, Current
<1>5. ModesExclude'
  BY <1>1, <1>2 DEF ModesExclude, TypeOK
<1>6. SubscriptionsAgree'
  BY <1>1, <1>2 DEF SubscriptionsAgree, TypeOK
<1>7. Known'
  BY <1>1, <1>2 DEF Known, Jobs, TypeOK
<1> QED
  BY <1>3, <1>4, <1>5, <1>6, <1>7 DEF SStep

LEMMA LeaveSInv == ASSUME SStep, NEW c \in Conn, Leave(c) PROVE SStep'
<1>1. TypeOK /\ Held /\ ModesExclude /\ SubscriptionsAgree /\ Known
  BY DEF SStep
<1>2. /\ UNCHANGED <<handled, inTransaction, queuedCommands, inPubSubMode, authenticated,
                     answer, draft, passwords, channels, subscriptions, cmdQueue, txQueue,
                     job, pos, targets, publishing, executed, discarded, out, seen, open>>
      /\ phase[c] = "read" /\ phase' = [phase EXCEPT ![c] = "gone"]
  BY DEF Leave, connVars, aclVars, indexVars, queueVars, execVars, sockVars
<1>3. TypeOK'
  BY <1>1, <1>2 DEF TypeOK
<1>4. Held'
  BY <1>1, <1>2 DEF Held, TypeOK, Running, Current
<1>5. ModesExclude'
  BY <1>1, <1>2 DEF ModesExclude, TypeOK
<1>6. SubscriptionsAgree'
  BY <1>1, <1>2 DEF SubscriptionsAgree, TypeOK
<1>7. Known'
  BY <1>1, <1>2 DEF Known, Jobs, TypeOK
<1> QED
  BY <1>3, <1>4, <1>5, <1>6, <1>7 DEF SStep

LEMMA ReadReplySInv == ASSUME SStep, NEW c \in Conn, ReadReply(c) PROVE SStep'
<1>1. TypeOK /\ Held /\ ModesExclude /\ SubscriptionsAgree /\ Known
  BY DEF SStep
<1>2. Len(out[c]) \in Nat
  BY LenProperties DEF SStep, TypeOK
<1>3. /\ UNCHANGED <<phase, handled, inTransaction, queuedCommands, inPubSubMode,
                     authenticated, answer, draft, passwords, channels, subscriptions,
                     cmdQueue, txQueue, job, pos, targets, publishing, executed, discarded,
                     out, open>>
      /\ seen' = [seen EXCEPT ![c] = Len(out[c])]
  BY DEF ReadReply, connVars, aclVars, indexVars, queueVars, execVars, sockVars
<1>4. TypeOK'
  BY <1>1, <1>2, <1>3 DEF TypeOK
<1>5. Held'
  BY <1>1, <1>2, <1>3 DEF Held, TypeOK, Running, Current
<1>6. ModesExclude'
  BY <1>1, <1>2, <1>3 DEF ModesExclude, TypeOK
<1>7. SubscriptionsAgree'
  BY <1>1, <1>2, <1>3 DEF SubscriptionsAgree, TypeOK
<1>8. Known'
  BY <1>1, <1>2, <1>3 DEF Known, Jobs, TypeOK
<1> QED
  BY <1>4, <1>5, <1>6, <1>7, <1>8 DEF SStep

\* A request that is answered at once, with no other effect.
LEMMA RepliedSInv ==
  ASSUME SStep, NEW c \in Conn, NEW r \in Requests[c], Takes(c, r),
         NEW kind \in {"error", "pong"}, Reply(c, kind, None),
         UNCHANGED <<connVars, aclVars, indexVars, queueVars, execVars, discarded, sockVars>>
  PROVE  SStep'
<1>1. TypeOK /\ Held /\ ModesExclude /\ SubscriptionsAgree /\ Known
  BY DEF SStep
<1>2. /\ phase' = [phase EXCEPT ![c] = "send"]
      /\ answer' \in [Conn -> Written] /\ answer'[c].kind # "message"
      /\ \A d \in Conn \ {c} : answer'[d] = answer[d]
  BY <1>1, ReplyType, NoneIsAnArg
<1>3. /\ UNCHANGED <<inTransaction, queuedCommands, inPubSubMode, authenticated, draft,
                     passwords, channels, subscriptions, cmdQueue, txQueue, job, pos,
                     targets, publishing, executed, discarded, out, seen, open>>
      /\ phase[c] = "read" /\ handled' = [handled EXCEPT ![c] = @ + 1]
  BY DEF Takes, connVars, aclVars, indexVars, queueVars, execVars, sockVars
<1>4. TypeOK'
  BY <1>1, <1>2, <1>3 DEF TypeOK
<1>5. Held'
  BY <1>1, <1>2, <1>3 DEF Held, TypeOK, Running, Current
<1>6. ModesExclude' /\ SubscriptionsAgree'
  BY <1>1, <1>3 DEF ModesExclude, SubscriptionsAgree
<1>7. Known'
  BY <1>1, <1>2, <1>3 DEF Known, Jobs, TypeOK
<1> QED
  BY <1>4, <1>5, <1>6, <1>7 DEF SStep

\* A job that an authenticated connection hands to the executor.
LEMMA SubmittedSInv ==
  ASSUME SStep, NEW c \in Conn, NEW r \in Requests[c], Takes(c, r), Await(c),
         NEW j \in OwnJobs, j.conn = c, authenticated[c],
         \/ cmdQueue' = Append(cmdQueue, j) /\ UNCHANGED <<txQueue, inTransaction>>
         \/ /\ txQueue' = Append(txQueue, j) /\ UNCHANGED cmdQueue
            /\ inTransaction' = [inTransaction EXCEPT ![c] = FALSE],
         UNCHANGED <<queuedCommands, inPubSubMode, authenticated, aclVars, indexVars,
                     execVars, discarded, sockVars>>
  PROVE  SStep'
<1>1. TypeOK /\ Held /\ ModesExclude /\ SubscriptionsAgree /\ Known
  BY DEF SStep
<1>2. j \in Job
  BY DEF OwnJobs
<1>3. /\ cmdQueue' \in Seq(Job) /\ txQueue' \in Seq(Job)
      /\ cmdQueue' \in Seq(OwnJobs) /\ txQueue' \in Seq(OwnJobs)
      /\ ToSet(cmdQueue)' \cup ToSet(txQueue)' = ToSet(cmdQueue) \cup ToSet(txQueue) \cup {j}
  <2>1. /\ cmdQueue \in Seq(Job) /\ txQueue \in Seq(Job)
        /\ cmdQueue \in Seq(OwnJobs) /\ txQueue \in Seq(OwnJobs)
    BY <1>1 DEF TypeOK, Held
  <2>2. /\ Append(cmdQueue, j) \in Seq(Job) /\ Append(cmdQueue, j) \in Seq(OwnJobs)
        /\ ToSet(Append(cmdQueue, j)) = ToSet(cmdQueue) \cup {j}
    BY <1>2, <2>1, AppendMembers
  <2>3. /\ Append(txQueue, j) \in Seq(Job) /\ Append(txQueue, j) \in Seq(OwnJobs)
        /\ ToSet(Append(txQueue, j)) = ToSet(txQueue) \cup {j}
    BY <1>2, <2>1, AppendMembers
  <2>4. \/ cmdQueue' = Append(cmdQueue, j) /\ txQueue' = txQueue
        \/ txQueue' = Append(txQueue, j) /\ cmdQueue' = cmdQueue
    OBVIOUS
  <2>5. CASE cmdQueue' = Append(cmdQueue, j) /\ txQueue' = txQueue
    <3>1. ToSet(cmdQueue)' = ToSet(cmdQueue) \cup {j} /\ ToSet(txQueue)' = ToSet(txQueue)
      BY <2>2, <2>5
    <3> QED
      BY <2>1, <2>2, <2>5, <3>1
  <2>6. CASE txQueue' = Append(txQueue, j) /\ cmdQueue' = cmdQueue
    <3>1. ToSet(txQueue)' = ToSet(txQueue) \cup {j} /\ ToSet(cmdQueue)' = ToSet(cmdQueue)
      BY <2>3, <2>6
    <3> QED
      BY <2>1, <2>3, <2>6, <3>1
  <2> QED
    BY <2>4, <2>5, <2>6
<1>4. /\ UNCHANGED <<queuedCommands, inPubSubMode, authenticated, answer, draft, passwords,
                     channels, subscriptions, job, pos, targets, publishing, executed,
                     discarded, out, seen, open>>
      /\ phase[c] = "read" /\ handled' = [handled EXCEPT ![c] = @ + 1]
      /\ phase' = [phase EXCEPT ![c] = "wait"]
  BY DEF Takes, Await, aclVars, indexVars, execVars, sockVars
<1>5. inTransaction' = inTransaction \/ inTransaction' = [inTransaction EXCEPT ![c] = FALSE]
  OBVIOUS
<1>6. TypeOK'
  <2>1. inTransaction' \in [Conn -> BOOLEAN]
    <3>1. CASE inTransaction' = inTransaction
      BY <1>1, <3>1 DEF TypeOK
    <3>2. CASE inTransaction' = [inTransaction EXCEPT ![c] = FALSE]
      BY <1>1, <3>2 DEF TypeOK
    <3> QED
      BY <1>5, <3>1, <3>2
  <2>2. /\ phase' \in [Conn -> {"absent", "read", "wait", "store", "send", "gone"}]
        /\ handled' \in [Conn -> Nat]
    BY <1>1, <1>3, <1>4 DEF TypeOK
  <2> QED
    BY <1>1, <1>3, <1>4, <2>2, <2>1, Zenon DEF TypeOK
<1>7. Held'
  BY <1>1, <1>3, <1>4 DEF Held, TypeOK, Running, Current
<1>8. ModesExclude' /\ SubscriptionsAgree'
  <2>1. \A d \in Conn : inTransaction'[d] => inTransaction[d]
    BY <1>1, <1>5 DEF TypeOK
  <2> QED
    BY <1>1, <1>4, <2>1 DEF ModesExclude, SubscriptionsAgree
<1>9. Jobs' = Jobs \cup {j}
  BY <1>3, <1>4 DEF Jobs
<1>10. Known'
  BY <1>1, <1>4, <1>5, <1>9 DEF Known, TypeOK
<1> QED
  BY <1>6, <1>7, <1>8, <1>10 DEF SStep

LEMMA RefuseSInv ==
  ASSUME SStep, NEW c \in Conn, NEW r \in Requests[c], Refuse(c, r)
  PROVE  SStep'
BY RepliedSInv DEF Refuse

LEMMA ExecSInv ==
  ASSUME SStep, NEW c \in Conn, NEW r \in Requests[c], Exec(c, r)
  PROVE  SStep'
<1>1. CASE inTransaction[c]
  <2> DEFINE j == [conn |-> c, tx |-> TRUE, cmds |-> queuedCommands[c]]
  <2>1. queuedCommands[c] \in Seq(OwnCommands(c))
    BY DEF SStep, Held
  <2>2. j \in OwnJobs /\ j.conn = c
    BY <2>1, OwnJobType
  <2>3. /\ Takes(c, r) /\ Await(c) /\ authenticated[c]
        /\ txQueue' = Append(txQueue, j) /\ UNCHANGED cmdQueue
        /\ inTransaction' = [inTransaction EXCEPT ![c] = FALSE]
        /\ UNCHANGED <<queuedCommands, inPubSubMode, authenticated, aclVars, indexVars,
                       execVars, discarded, sockVars>>
    BY <1>1 DEF Exec, Admits, Unauthorized
  <2> HIDE DEF j
  <2> QED
    BY <2>2, <2>3, SubmittedSInv
<1>2. CASE ~inTransaction[c]
  <2>1. /\ Takes(c, r) /\ Reply(c, "error", None)
        /\ UNCHANGED <<connVars, aclVars, indexVars, queueVars, execVars, discarded, sockVars>>
    BY <1>2 DEF Exec, connVars, queueVars
  <2> QED
    BY <2>1, RepliedSInv
<1> QED
  BY <1>1, <1>2

LEMMA DataCommandSInv ==
  ASSUME SStep, NEW c \in Conn, NEW r \in Requests[c], DataCommand(c, r)
  PROVE  SStep'
<1>1. CASE r.op = "ping" /\ inPubSubMode[c]
  <2>1. /\ Takes(c, r) /\ Reply(c, "pong", None)
        /\ UNCHANGED <<connVars, aclVars, indexVars, queueVars, execVars, discarded, sockVars>>
    BY <1>1 DEF DataCommand, queueVars
  <2> QED
    BY <2>1, RepliedSInv
<1>2. CASE ~(r.op = "ping" /\ inPubSubMode[c])
  <2> DEFINE j == [conn |-> c, tx |-> FALSE, cmds |-> <<CommandOf(c, r)>>]
  <2>1. CommandOf(c, r) \in OwnCommands(c)
    BY CommandType DEF SStep
  <2>2. <<CommandOf(c, r)>> \in Seq(OwnCommands(c))
    BY <2>1
  <2>3. j \in OwnJobs /\ j.conn = c
    BY <2>2, OwnJobType
  <2>4. /\ Takes(c, r) /\ Await(c) /\ authenticated[c]
        /\ cmdQueue' = Append(cmdQueue, j) /\ UNCHANGED <<txQueue, inTransaction>>
        /\ UNCHANGED <<queuedCommands, inPubSubMode, authenticated, aclVars, indexVars,
                       execVars, discarded, sockVars>>
    BY <1>2 DEF DataCommand, Admits, Unauthorized, connVars, SessionHandlers
  <2> HIDE DEF j
  <2> QED
    BY <2>3, <2>4, SubmittedSInv
<1> QED
  BY <1>1, <1>2

LEMMA QueueCommandSInv ==
  ASSUME SStep, NEW c \in Conn, NEW r \in Requests[c], QueueCommand(c, r)
  PROVE  SStep'
<1>1. TypeOK /\ Held /\ ModesExclude /\ SubscriptionsAgree /\ Known
  BY DEF SStep
<1>2. /\ r.op \in Ops /\ r.arg \in Arg /\ None \in Arg
      /\ r.op \in {"publish", "subscribe", "unsubscribe"} => r.arg \in Channel
      /\ r.op \in {"auth", "setuser"} => r.arg \in Password
  BY RequestType, NoneIsAnArg
<1>3. /\ phase' = [phase EXCEPT ![c] = "send"]
      /\ answer' \in [Conn -> Written] /\ answer'[c].kind # "message"
      /\ \A d \in Conn \ {c} : answer'[d] = answer[d]
  BY <1>1, <1>2, ReplyType DEF QueueCommand
<1>4. /\ UNCHANGED <<inTransaction, inPubSubMode, authenticated, draft, passwords,
                     channels, subscriptions, cmdQueue, txQueue, job, pos, targets,
                     publishing, executed, discarded, out, seen, open>>
      /\ phase[c] = "read" /\ handled' = [handled EXCEPT ![c] = @ + 1]
      /\ queuedCommands' = [queuedCommands EXCEPT ![c] = Append(@, CommandOf(c, r))]
  BY DEF QueueCommand, connVars, aclVars, indexVars, queueVars, execVars, sockVars,
     Takes, Admits, Unauthorized, Queues, NotInMode, TransactionControl, PubSubCommands,
     Lock
<1>5. TypeOK'
  <2>1. queuedCommands[c] \in Seq(Command) /\ CommandOf(c, r) \in Command
    BY <1>1, CommandType DEF TypeOK, OwnCommands
  <2>2. Append(queuedCommands[c], CommandOf(c, r)) \in Seq(Command)
    BY <2>1, AppendMembers
  <2> QED
    BY <1>1, <1>3, <1>4, <2>2 DEF TypeOK
<1>6. Held'
  <2>1. queuedCommands[c] \in Seq(OwnCommands(c)) /\ CommandOf(c, r) \in OwnCommands(c)
    BY <1>1, CommandType DEF Held
  <2>2. Append(queuedCommands[c], CommandOf(c, r)) \in Seq(OwnCommands(c))
    BY <2>1, AppendMembers
  <2> QED
    BY <1>1, <1>3, <1>4, <2>2 DEF Held, TypeOK, Running, Current
<1>7. ModesExclude'
  BY <1>1, <1>2, <1>3, <1>4 DEF ModesExclude, TypeOK
<1>8. SubscriptionsAgree'
  BY <1>1, <1>2, <1>3, <1>4 DEF SubscriptionsAgree, TypeOK
<1>9. Known'
  BY <1>1, <1>2, <1>3, <1>4 DEF Known, Jobs, TypeOK
<1> QED
  BY <1>5, <1>6, <1>7, <1>8, <1>9 DEF SStep

LEMMA MultiSInv ==
  ASSUME SStep, NEW c \in Conn, NEW r \in Requests[c], Multi(c, r)
  PROVE  SStep'
<1>1. TypeOK /\ Held /\ ModesExclude /\ SubscriptionsAgree /\ Known
  BY DEF SStep
<1>2. /\ r.op \in Ops /\ r.arg \in Arg /\ None \in Arg
      /\ r.op \in {"publish", "subscribe", "unsubscribe"} => r.arg \in Channel
      /\ r.op \in {"auth", "setuser"} => r.arg \in Password
  BY RequestType, NoneIsAnArg
<1>3. /\ phase' = [phase EXCEPT ![c] = "send"]
      /\ answer' \in [Conn -> Written] /\ answer'[c].kind # "message"
      /\ \A d \in Conn \ {c} : answer'[d] = answer[d]
  BY <1>1, <1>2, ReplyType DEF Multi
<1>4. /\ UNCHANGED <<queuedCommands, inPubSubMode, authenticated, draft, passwords,
                     channels, subscriptions, cmdQueue, txQueue, job, pos, targets,
                     publishing, executed, discarded, out, seen, open>>
      /\ phase[c] = "read" /\ handled' = [handled EXCEPT ![c] = @ + 1]
      /\ authenticated[c] /\ ~inPubSubMode[c]
      /\ inTransaction' = [inTransaction EXCEPT ![c] = TRUE]
  BY DEF Multi, connVars, aclVars, indexVars, queueVars, execVars, sockVars, Takes,
     Admits, Unauthorized, Queues, NotInMode, TransactionControl, PubSubCommands, Lock
<1>5. TypeOK'
  BY <1>1, <1>2, <1>3, <1>4 DEF TypeOK
<1>6. Held'
  BY <1>1, <1>2, <1>3, <1>4 DEF Held, TypeOK, Running, Current
<1>7. ModesExclude'
  BY <1>1, <1>2, <1>3, <1>4 DEF ModesExclude, TypeOK
<1>8. SubscriptionsAgree'
  BY <1>1, <1>2, <1>3, <1>4 DEF SubscriptionsAgree, TypeOK
<1>9. Known'
  BY <1>1, <1>2, <1>3, <1>4 DEF Known, Jobs, TypeOK
<1> QED
  BY <1>5, <1>6, <1>7, <1>8, <1>9 DEF SStep

LEMMA DiscardSInv ==
  ASSUME SStep, NEW c \in Conn, NEW r \in Requests[c], Discard(c, r)
  PROVE  SStep'
<1>1. TypeOK /\ Held /\ ModesExclude /\ SubscriptionsAgree /\ Known
  BY DEF SStep
<1>2. /\ r.op \in Ops /\ r.arg \in Arg /\ None \in Arg
      /\ r.op \in {"publish", "subscribe", "unsubscribe"} => r.arg \in Channel
      /\ r.op \in {"auth", "setuser"} => r.arg \in Password
  BY RequestType, NoneIsAnArg
<1>3. /\ phase' = [phase EXCEPT ![c] = "send"]
      /\ answer' \in [Conn -> Written] /\ answer'[c].kind # "message"
      /\ \A d \in Conn \ {c} : answer'[d] = answer[d]
  BY <1>1, <1>2, ReplyType DEF Discard
<1>4. /\ UNCHANGED <<inPubSubMode, authenticated, draft, passwords, channels,
                     subscriptions, cmdQueue, txQueue, job, pos, targets, publishing,
                     executed, out, seen, open>>
      /\ phase[c] = "read" /\ handled' = [handled EXCEPT ![c] = @ + 1]
  BY DEF Discard, connVars, aclVars, indexVars, queueVars, execVars, sockVars, Takes,
     Admits, Unauthorized, Queues, NotInMode, TransactionControl, PubSubCommands, Lock
<1>5. \/ /\ inTransaction' = [inTransaction EXCEPT ![c] = FALSE]
         /\ queuedCommands' = [queuedCommands EXCEPT ![c] = <<>>]
         /\ discarded' = discarded \cup {cmd.id : cmd \in ToSet(queuedCommands[c])}
      \/ UNCHANGED <<inTransaction, queuedCommands, discarded>>
  BY DEF Discard
<1>6. TypeOK'
  <2>1. queuedCommands[c] \in Seq(Command) /\ <<>> \in Seq(Command)
    BY <1>1 DEF TypeOK
  <2>2. ToSet(queuedCommands[c]) \subseteq Command
    BY <2>1, ElementOfSeq, LenProperties DEF ToSet
  <2>3. {cmd.id : cmd \in ToSet(queuedCommands[c])} \subseteq Id
    BY <2>2 DEF Command
  <2>4. /\ discarded' \in SUBSET Id /\ queuedCommands' \in [Conn -> Seq(Command)]
        /\ inTransaction' \in [Conn -> BOOLEAN]
    <3>1. CASE /\ inTransaction' = [inTransaction EXCEPT ![c] = FALSE]
               /\ queuedCommands' = [queuedCommands EXCEPT ![c] = <<>>]
               /\ discarded' = discarded \cup {cmd.id : cmd \in ToSet(queuedCommands[c])}
      BY <1>1, <2>1, <2>3, <3>1 DEF TypeOK
    <3>2. CASE UNCHANGED <<inTransaction, queuedCommands, discarded>>
      BY <1>1, <2>1, <2>3, <3>2 DEF TypeOK
    <3> QED
      BY <1>5, <3>1, <3>2
  <2>5. /\ phase' \in [Conn -> {"absent", "read", "wait", "store", "send", "gone"}]
        /\ handled' \in [Conn -> Nat]
    BY <1>1, <1>3, <1>4 DEF TypeOK
  <2> QED
    BY <1>1, <1>3, <1>4, <2>5, <2>4, Zenon DEF TypeOK
<1>7. Held'
  <2>1. <<>> \in Seq(OwnCommands(c))
    OBVIOUS
  <2>2. \A d \in Conn : queuedCommands'[d] \in Seq(OwnCommands(d))
    BY <1>1, <1>4, <1>5, <2>1 DEF Held, TypeOK
  <2> QED
    BY <1>1, <1>3, <1>4, <2>2 DEF Held, TypeOK, Running, Current
<1>8. ModesExclude'
  BY <1>1, <1>2, <1>3, <1>4, <1>5 DEF ModesExclude, TypeOK
<1>9. SubscriptionsAgree'
  BY <1>1, <1>2, <1>3, <1>4, <1>5 DEF SubscriptionsAgree, TypeOK
<1>10. Known'
  BY <1>1, <1>2, <1>3, <1>4, <1>5 DEF Known, Jobs, TypeOK
<1> QED
  BY <1>6, <1>7, <1>8, <1>9, <1>10 DEF SStep

LEMMA SubscribeSInv ==
  ASSUME SStep, NEW c \in Conn, NEW r \in Requests[c], Subscribe(c, r)
  PROVE  SStep'
<1>1. TypeOK /\ Held /\ ModesExclude /\ SubscriptionsAgree /\ Known
  BY DEF SStep
<1>2. /\ r.op \in Ops /\ r.arg \in Arg /\ None \in Arg
      /\ r.op \in {"publish", "subscribe", "unsubscribe"} => r.arg \in Channel
      /\ r.op \in {"auth", "setuser"} => r.arg \in Password
  BY RequestType, NoneIsAnArg
<1>3. /\ phase' = [phase EXCEPT ![c] = "send"]
      /\ answer' \in [Conn -> Written] /\ answer'[c].kind # "message"
      /\ \A d \in Conn \ {c} : answer'[d] = answer[d]
  BY <1>1, <1>2, ReplyType DEF Subscribe
<1>4. /\ UNCHANGED <<inTransaction, queuedCommands, authenticated, draft, passwords,
                     cmdQueue, txQueue, job, pos, targets, publishing, executed, discarded,
                     out, seen, open>>
      /\ phase[c] = "read" /\ handled' = [handled EXCEPT ![c] = @ + 1]
      /\ r.op = "subscribe" /\ authenticated[c] /\ ~inTransaction[c] /\ ~publishing
      /\ inPubSubMode' = [inPubSubMode EXCEPT ![c] = TRUE]
      /\ channels' = [channels EXCEPT ![r.arg] = @ \cup {c}]
      /\ subscriptions' = [subscriptions EXCEPT ![c] = @ \cup {r.arg}]
  BY DEF Subscribe, connVars, aclVars, indexVars, queueVars, execVars, sockVars, Takes,
     Admits, Unauthorized, Queues, NotInMode, TransactionControl, PubSubCommands, Lock
<1>5. TypeOK'
  BY <1>1, <1>2, <1>3, <1>4 DEF TypeOK
<1>6. Held'
  BY <1>1, <1>2, <1>3, <1>4 DEF Held, TypeOK, Running, Current
<1>7. ModesExclude'
  BY <1>1, <1>2, <1>3, <1>4 DEF ModesExclude, TypeOK
<1>8. SubscriptionsAgree'
  BY <1>1, <1>2, <1>3, <1>4 DEF SubscriptionsAgree, TypeOK
<1>9. Known'
  BY <1>1, <1>2, <1>3, <1>4 DEF Known, Jobs, TypeOK
<1> QED
  BY <1>5, <1>6, <1>7, <1>8, <1>9 DEF SStep

LEMMA UnsubscribeSInv ==
  ASSUME SStep, NEW c \in Conn, NEW r \in Requests[c], Unsubscribe(c, r)
  PROVE  SStep'
<1>1. TypeOK /\ Held /\ ModesExclude /\ SubscriptionsAgree /\ Known
  BY DEF SStep
<1>2. /\ r.op \in Ops /\ r.arg \in Arg /\ None \in Arg
      /\ r.op \in {"publish", "subscribe", "unsubscribe"} => r.arg \in Channel
      /\ r.op \in {"auth", "setuser"} => r.arg \in Password
  BY RequestType, NoneIsAnArg
<1>3. /\ phase' = [phase EXCEPT ![c] = "send"]
      /\ answer' \in [Conn -> Written] /\ answer'[c].kind # "message"
      /\ \A d \in Conn \ {c} : answer'[d] = answer[d]
  BY <1>1, <1>2, ReplyType DEF Unsubscribe
<1>4. /\ UNCHANGED <<inTransaction, queuedCommands, authenticated, draft, passwords,
                     cmdQueue, txQueue, job, pos, targets, publishing, executed, discarded,
                     out, seen, open>>
      /\ phase[c] = "read" /\ handled' = [handled EXCEPT ![c] = @ + 1]
      /\ r.op = "unsubscribe" /\ authenticated[c] /\ ~publishing
      /\ channels' = [channels EXCEPT ![r.arg] = @ \ {c}]
      /\ subscriptions' = [subscriptions EXCEPT ![c] = @ \ {r.arg}]
      /\ inPubSubMode' = [inPubSubMode EXCEPT ![c] = @ /\ subscriptions'[c] # {}]
  BY DEF Unsubscribe, connVars, aclVars, indexVars, queueVars, execVars, sockVars, Takes,
     Admits, Unauthorized, Queues, NotInMode, TransactionControl, PubSubCommands, Lock
<1>5. TypeOK'
  BY <1>1, <1>2, <1>3, <1>4 DEF TypeOK
<1>6. Held'
  BY <1>1, <1>2, <1>3, <1>4 DEF Held, TypeOK, Running, Current
<1>7. ModesExclude'
  BY <1>1, <1>2, <1>3, <1>4 DEF ModesExclude, TypeOK
<1>8. SubscriptionsAgree'
  BY <1>1, <1>2, <1>3, <1>4 DEF SubscriptionsAgree, TypeOK
<1>9. Known'
  BY <1>1, <1>2, <1>3, <1>4 DEF Known, Jobs, TypeOK
<1> QED
  BY <1>5, <1>6, <1>7, <1>8, <1>9 DEF SStep

LEMMA AuthSInv ==
  ASSUME SStep, NEW c \in Conn, NEW r \in Requests[c], Auth(c, r)
  PROVE  SStep'
<1>1. TypeOK /\ Held /\ ModesExclude /\ SubscriptionsAgree /\ Known
  BY DEF SStep
<1>2. /\ r.op \in Ops /\ r.arg \in Arg /\ None \in Arg
      /\ r.op \in {"publish", "subscribe", "unsubscribe"} => r.arg \in Channel
      /\ r.op \in {"auth", "setuser"} => r.arg \in Password
  BY RequestType, NoneIsAnArg
<1>3. /\ phase' = [phase EXCEPT ![c] = "send"]
      /\ answer' \in [Conn -> Written] /\ answer'[c].kind # "message"
      /\ \A d \in Conn \ {c} : answer'[d] = answer[d]
  BY <1>1, <1>2, ReplyType DEF Auth
<1>4. /\ UNCHANGED <<inTransaction, queuedCommands, inPubSubMode, draft, passwords,
                     channels, subscriptions, cmdQueue, txQueue, job, pos, targets,
                     publishing, executed, discarded, out, seen, open>>
      /\ phase[c] = "read" /\ handled' = [handled EXCEPT ![c] = @ + 1]
  BY DEF Auth, connVars, aclVars, indexVars, queueVars, execVars, sockVars, Takes,
     Admits, Unauthorized, Queues, NotInMode, TransactionControl, PubSubCommands, Lock
<1>5. \/ authenticated' = [authenticated EXCEPT ![c] = TRUE]
      \/ UNCHANGED authenticated
  BY DEF Auth
<1>6. TypeOK'
  <2>1. authenticated' \in [Conn -> BOOLEAN]
    <3>1. CASE authenticated' = [authenticated EXCEPT ![c] = TRUE]
      BY <1>1, <3>1 DEF TypeOK
    <3>2. CASE UNCHANGED authenticated
      BY <1>1, <3>2 DEF TypeOK
    <3> QED
      BY <1>5, <3>1, <3>2
  <2>2. /\ phase' \in [Conn -> {"absent", "read", "wait", "store", "send", "gone"}]
        /\ handled' \in [Conn -> Nat]
    BY <1>1, <1>3, <1>4 DEF TypeOK
  <2> QED
    BY <1>1, <1>3, <1>4, <2>2, <2>1, Zenon DEF TypeOK
<1>7. Held'
  BY <1>1, <1>2, <1>3, <1>4, <1>5 DEF Held, TypeOK, Running, Current
<1>8. ModesExclude'
  BY <1>1, <1>2, <1>3, <1>4, <1>5 DEF ModesExclude, TypeOK
<1>9. SubscriptionsAgree'
  BY <1>1, <1>2, <1>3, <1>4, <1>5 DEF SubscriptionsAgree, TypeOK
<1>10. Known'
  <2>1. /\ \A j \in Jobs : j.conn \in Conn
        /\ \A i \in DOMAIN executed : executed[i][1] \in Conn
    BY <1>1, Owners
  <2>2. \A d \in Conn : authenticated[d] => authenticated'[d]
    BY <1>1, <1>5 DEF TypeOK
  <2>3. Jobs' = Jobs
    BY <1>4 DEF Jobs
  <2> QED
    BY <1>1, <1>3, <1>4, <2>1, <2>2, <2>3 DEF Known, TypeOK
<1> QED
  BY <1>6, <1>7, <1>8, <1>9, <1>10 DEF SStep

LEMMA SetUserSInv ==
  ASSUME SStep, NEW c \in Conn, NEW r \in Requests[c], SetUser(c, r)
  PROVE  SStep'
<1>1. TypeOK /\ Held /\ ModesExclude /\ SubscriptionsAgree /\ Known
  BY DEF SStep
<1>2. /\ r.op \in Ops /\ r.arg \in Arg /\ None \in Arg
      /\ r.op \in {"publish", "subscribe", "unsubscribe"} => r.arg \in Channel
      /\ r.op \in {"auth", "setuser"} => r.arg \in Password
  BY RequestType, NoneIsAnArg
<1>3. answer' \in [Conn -> Written] /\ \A d \in Conn : answer'[d].kind # "message"
  <2> DEFINE w == [kind |-> "stored", arg |-> r.arg, of |-> ThisId(c)]
  <2>1. ThisId(c) \in Id /\ answer \in [Conn -> Written]
    BY <1>1, CommandType DEF TypeOK
  <2>2. w \in Written /\ w.kind = "stored"
    BY <1>2, <2>1 DEF Written
  <2>3. answer' = [answer EXCEPT ![c] = w]
    BY DEF SetUser
  <2> HIDE DEF w
  <2> QED
    BY <1>1, <2>1, <2>2, <2>3 DEF Held
<1>4. /\ UNCHANGED <<inTransaction, queuedCommands, inPubSubMode, authenticated, passwords,
                     channels, subscriptions, cmdQueue, txQueue, job, pos, targets,
                     publishing, executed, discarded, out, seen, open>>
      /\ phase[c] = "read" /\ handled' = [handled EXCEPT ![c] = @ + 1]
      /\ authenticated[c] /\ r.op = "setuser"
      /\ phase' = [phase EXCEPT ![c] = "store"]
      /\ draft' = [draft EXCEPT ![c] = passwords \cup {r.arg}]
  BY DEF SetUser, connVars, aclVars, indexVars, queueVars, execVars, sockVars, Takes,
     Admits, Unauthorized, Queues, NotInMode, TransactionControl, PubSubCommands, Lock
<1>5. TypeOK'
  BY <1>1, <1>2, <1>3, <1>4 DEF TypeOK
<1>6. Held'
  BY <1>1, <1>2, <1>3, <1>4 DEF Held, TypeOK, Running, Current
<1>7. ModesExclude'
  BY <1>1, <1>2, <1>3, <1>4 DEF ModesExclude, TypeOK
<1>8. SubscriptionsAgree'
  BY <1>1, <1>2, <1>3, <1>4 DEF SubscriptionsAgree, TypeOK
<1>9. Known'
  BY <1>1, <1>2, <1>3, <1>4 DEF Known, Jobs, TypeOK
<1> QED
  BY <1>5, <1>6, <1>7, <1>8, <1>9 DEF SStep

LEMMA StorePasswordsSInv == ASSUME SStep, NEW c \in Conn, StorePasswords(c) PROVE SStep'
<1>1. TypeOK /\ Held /\ ModesExclude /\ SubscriptionsAgree /\ Known
  BY DEF SStep
<1>2. /\ UNCHANGED <<handled, inTransaction, queuedCommands, inPubSubMode, authenticated,
                     answer, channels, subscriptions, cmdQueue, txQueue, job, pos, targets,
                     publishing, executed, discarded, out, seen, open>>
      /\ phase[c] = "store" /\ phase' = [phase EXCEPT ![c] = "send"]
      /\ passwords' = draft[c] /\ draft' = [draft EXCEPT ![c] = {}]
  BY DEF StorePasswords, connVars, aclVars, indexVars, queueVars, execVars, sockVars
<1>3. TypeOK'
  BY <1>1, <1>2 DEF TypeOK
<1>4. Held'
  BY <1>1, <1>2 DEF Held, TypeOK, Running, Current
<1>5. ModesExclude'
  BY <1>1, <1>2 DEF ModesExclude, TypeOK
<1>6. SubscriptionsAgree'
  BY <1>1, <1>2 DEF SubscriptionsAgree, TypeOK
<1>7. Known'
  BY <1>1, <1>2 DEF Known, Jobs, TypeOK
<1> QED
  BY <1>3, <1>4, <1>5, <1>6, <1>7 DEF SStep

LEMMA SendResponseSInv == ASSUME SStep, NEW c \in Conn, SendResponse(c) PROVE SStep'
<1>1. TypeOK /\ Held /\ ModesExclude /\ SubscriptionsAgree /\ Known
  BY DEF SStep
<1>2. Append(out[c], answer[c]) \in Seq(Written)
  BY <1>1, AppendMembers DEF TypeOK
<1>3. /\ UNCHANGED <<handled, inTransaction, queuedCommands, inPubSubMode, authenticated,
                     answer, draft, passwords, channels, subscriptions, cmdQueue, txQueue,
                     job, pos, targets, publishing, executed, discarded, seen, open>>
      /\ phase[c] = "send" /\ phase' = [phase EXCEPT ![c] = "read"]
      /\ out' = [out EXCEPT ![c] = Append(@, answer[c])]
  BY DEF SendResponse, connVars, aclVars, indexVars, queueVars, execVars, sockVars
<1>4. TypeOK'
  BY <1>1, <1>2, <1>3 DEF TypeOK
<1>5. Held'
  BY <1>1, <1>2, <1>3 DEF Held, TypeOK, Running, Current
<1>6. ModesExclude'
  BY <1>1, <1>2, <1>3 DEF ModesExclude, TypeOK
<1>7. SubscriptionsAgree'
  BY <1>1, <1>2, <1>3 DEF SubscriptionsAgree, TypeOK
<1>8. Known'
  BY <1>1, <1>2, <1>3 DEF Known, Jobs, TypeOK
<1> QED
  BY <1>4, <1>5, <1>6, <1>7, <1>8 DEF SStep

-----------------------------------------------------------------------------
(* The steps of the executor.                                              *)

LEMMA TakeSInv ==
  ASSUME SStep, TakeCommand \/ TakeTransaction
  PROVE  SStep'
<1>1. TypeOK /\ Held /\ ModesExclude /\ SubscriptionsAgree /\ Known
  BY DEF SStep
<1>2. /\ UNCHANGED <<phase, handled, inTransaction, queuedCommands, inPubSubMode,
                     authenticated, answer, draft, passwords, channels, subscriptions,
                     targets, publishing, executed, discarded, out, seen, open>>
      /\ job = None /\ pos' = 1
  BY DEF TakeCommand, TakeTransaction, Take, connVars, aclVars, indexVars, queueVars,
     execVars, sockVars
<1>3. ~publishing
  BY <1>1, <1>2 DEF Held, Running
<1>4. /\ job' \in OwnJobs /\ job' \in Job /\ job' \in Jobs
      /\ cmdQueue' \in Seq(OwnJobs) /\ txQueue' \in Seq(OwnJobs)
      /\ cmdQueue' \in Seq(Job) /\ txQueue' \in Seq(Job)
      /\ ToSet(cmdQueue)' \subseteq ToSet(cmdQueue) /\ ToSet(txQueue)' \subseteq ToSet(txQueue)
  <2>1. /\ cmdQueue \in Seq(Job) /\ txQueue \in Seq(Job)
        /\ cmdQueue \in Seq(OwnJobs) /\ txQueue \in Seq(OwnJobs)
    BY <1>1 DEF TypeOK, Held
  <2>2. CASE TakeCommand
    <3>1. cmdQueue # <<>> /\ job' = Head(cmdQueue) /\ cmdQueue' = Tail(cmdQueue) /\ txQueue' = txQueue
      BY <2>2 DEF TakeCommand, Take
    <3>2. /\ Head(cmdQueue) \in OwnJobs /\ Head(cmdQueue) \in Job
          /\ Tail(cmdQueue) \in Seq(OwnJobs) /\ Tail(cmdQueue) \in Seq(Job)
          /\ ToSet(cmdQueue) = ToSet(Tail(cmdQueue)) \cup {Head(cmdQueue)}
      BY <2>1, <3>1, HeadTailMembers
    <3>3. ToSet(cmdQueue)' = ToSet(Tail(cmdQueue)) /\ ToSet(txQueue)' = ToSet(txQueue)
      BY <3>1
    <3> QED
      BY <2>1, <3>1, <3>2, <3>3 DEF Jobs
  <2>3. CASE TakeTransaction
    <3>1. txQueue # <<>> /\ job' = Head(txQueue) /\ txQueue' = Tail(txQueue) /\ cmdQueue' = cmdQueue
      BY <2>3 DEF TakeTransaction, Take
    <3>2. /\ Head(txQueue) \in OwnJobs /\ Head(txQueue) \in Job
          /\ Tail(txQueue) \in Seq(OwnJobs) /\ Tail(txQueue) \in Seq(Job)
          /\ ToSet(txQueue) = ToSet(Tail(txQueue)) \cup {Head(txQueue)}
      BY <2>1, <3>1, HeadTailMembers
    <3>3. ToSet(txQueue)' = ToSet(Tail(txQueue)) /\ ToSet(cmdQueue)' = ToSet(cmdQueue)
      BY <3>1
    <3> QED
      BY <2>1, <3>1, <3>2, <3>3 DEF Jobs
  <2> QED
    BY <2>2, <2>3
<1>5. TypeOK'
  BY <1>1, <1>2, <1>4 DEF TypeOK
<1>6. Held'
  BY <1>1, <1>2, <1>3, <1>4 DEF Held
<1>7. ModesExclude' /\ SubscriptionsAgree'
  BY <1>1, <1>2 DEF ModesExclude, SubscriptionsAgree
<1>8. Jobs' \subseteq Jobs
  BY <1>4 DEF Jobs
<1>9. Known'
  BY <1>1, <1>2, <1>8 DEF Known
<1> QED
  BY <1>5, <1>6, <1>7, <1>9 DEF SStep

\* The command the executor is at belongs to the owner of its job.
LEMMA CurrentType ==
  ASSUME TypeOK, Held, Known, Running
  PROVE  /\ job \in OwnJobs /\ job \in Jobs /\ job.conn \in Conn /\ authenticated[job.conn]
         /\ Current \in Command /\ Current.id \in Id /\ Current.id[1] = job.conn
         /\ Current.arg \in Arg /\ (Current.op = "publish" => Current.arg \in Channel)
<1>1. job \in OwnJobs /\ job \in Jobs
  BY DEF Held, Running, Jobs
<1>2. job.conn \in Conn /\ authenticated[job.conn]
  BY <1>1, Owners DEF Known
<1>3. job.cmds \in Seq(OwnCommands(job.conn)) /\ pos \in 1..Len(job.cmds)
  BY <1>1, LenProperties DEF OwnJobs, Running, TypeOK
<1>4. Current \in OwnCommands(job.conn)
  BY <1>3, ElementOfSeq DEF Current
<1> QED
  BY <1>1, <1>2, <1>4 DEF OwnCommands, Command

\* A command has run: the executor moves on, and remembers it.
LEMMA ExecutedSInv ==
  ASSUME SStep, Running, executed' = Append(executed, Current.id), pos' = pos + 1,
         publishing' = FALSE,
         UNCHANGED <<phase, handled, connVars, answer, aclVars, indexVars, queueVars, job,
                     targets, discarded, sockVars>>
  PROVE  SStep'
<1>1. TypeOK /\ Held /\ ModesExclude /\ SubscriptionsAgree /\ Known
  BY DEF SStep
<1>2. UNCHANGED <<phase, handled, inTransaction, queuedCommands, inPubSubMode,
                     authenticated, answer, draft, passwords, channels, subscriptions,
                     cmdQueue, txQueue, job, targets, discarded, out, seen, open>>
  BY DEF connVars, aclVars, indexVars, queueVars, sockVars
<1>3. /\ Current.id \in Id /\ Current.id[1] = job.conn /\ authenticated[job.conn]
  BY <1>1, CurrentType
<1>4. executed \in Seq(Id)
  BY <1>1 DEF TypeOK
<1>5. executed' \in Seq(Id) /\ ToSet(executed') = ToSet(executed) \cup {Current.id}
  BY <1>3, <1>4, AppendMembers
<1>6. TypeOK'
  <2>1. publishing' \in BOOLEAN
    BY Zenon
  <2>2. pos' \in Nat \ {0}
    BY <1>1 DEF TypeOK
  <2> QED
    BY <1>1, <1>2, <1>5, <2>1, <2>2, Zenon DEF TypeOK
<1>7. Held'
  BY <1>1, <1>2 DEF Held
<1>8. ModesExclude' /\ SubscriptionsAgree'
  BY <1>1, <1>2 DEF ModesExclude, SubscriptionsAgree
<1>9. Known'
  <2>1. \A id \in ToSet(executed) : authenticated[id[1]]
    BY <1>1 DEF Known, ToSet
  <2>2. \A id \in ToSet(executed') : authenticated[id[1]]
    BY <1>3, <1>5, <2>1
  <2>3. \A i \in DOMAIN executed' : authenticated[executed'[i][1]]
    BY <2>2 DEF ToSet
  <2>4. Jobs' = Jobs
    BY <1>2 DEF Jobs
  <2> QED
    BY <1>1, <1>2, <2>3, <2>4 DEF Known
<1> QED
  BY <1>6, <1>7, <1>8, <1>9 DEF SStep

LEMMA ExecuteCommandSInv == ASSUME SStep, ExecuteCommand PROVE SStep'
<1>1. ~publishing
  BY DEF SStep, Held, ExecuteCommand
<1>2. publishing' = FALSE
  <2>1. publishing \in BOOLEAN /\ publishing' = publishing
    BY DEF SStep, TypeOK, ExecuteCommand, execVars
  <2> QED
    BY <1>1, <2>1, Zenon
<1> QED
  BY <1>2, ExecutedSInv DEF ExecuteCommand

LEMMA PublishEndSInv == ASSUME SStep, PublishEnd PROVE SStep'
<1>1. Running
  BY DEF SStep, Held, PublishEnd
<1>2. publishing' = FALSE
  BY DEF PublishEnd
<1> QED
  BY <1>1, <1>2, ExecutedSInv DEF PublishEnd


LEMMA PublishStartSInv == ASSUME SStep, PublishStart PROVE SStep'
<1>1. TypeOK /\ Held /\ ModesExclude /\ SubscriptionsAgree /\ Known
  BY DEF SStep
<1>2. /\ UNCHANGED <<phase, handled, inTransaction, queuedCommands, inPubSubMode,
                     authenticated, answer, draft, passwords, channels, subscriptions,
                     cmdQueue, txQueue, job, pos, executed, discarded, out, seen, open>>
      /\ Running /\ Current.op = "publish"
      /\ targets' \in SetToSeqs(channels[Current.arg])
  BY DEF PublishStart, connVars, aclVars, indexVars, queueVars, execVars, sockVars
<1>3. Current.arg \in Channel
  BY <1>1, <1>2, CurrentType
<1>4. targets' \in Seq(Conn) /\ ToSet(targets') \subseteq channels[Current.arg]
  <2>1. channels[Current.arg] \in SUBSET Conn
    BY <1>1, <1>3 DEF TypeOK
  <2> QED
    BY <1>2, <2>1, TargetsType
<1>5. publishing' = TRUE
  BY DEF PublishStart
<1>6. TypeOK'
  <2>1. publishing' \in BOOLEAN
    BY <1>5, Zenon
  <2> QED
    BY <1>1, <1>2, <1>4, <2>1, Zenon DEF TypeOK
<1>7. Held'
  BY <1>1, <1>2, <1>4 DEF Held, Running, Current
<1>8. ModesExclude'
  BY <1>1, <1>2 DEF ModesExclude
<1>9. SubscriptionsAgree'
  BY <1>1, <1>2 DEF SubscriptionsAgree
<1>10. Known'
  BY <1>1, <1>2 DEF Known, Jobs
<1> QED
  BY <1>6, <1>7, <1>8, <1>9, <1>10 DEF SStep

LEMMA MessageType ==
  ASSUME TypeOK, Held, Known, Running
  PROVE  Message \in Written /\ Message.kind = "message" /\ Message.arg = Current.arg
<1>1. Len(executed) \in Nat
  BY LenProperties DEF TypeOK
<1>2. Current.id \in Id /\ Current.arg \in Arg
  BY CurrentType
<1>3. ThisRun \in Id
  BY <1>1, <1>2 DEF Id, ThisRun
<1> QED
  BY <1>2, <1>3 DEF Message, Written

LEMMA PublishToSInv == ASSUME SStep, PublishTo PROVE SStep'
<1>1. TypeOK /\ Held /\ ModesExclude /\ SubscriptionsAgree /\ Known
  BY DEF SStep
<1>2. /\ UNCHANGED <<phase, handled, inTransaction, queuedCommands, inPubSubMode,
                     authenticated, answer, draft, passwords, channels, subscriptions,
                     cmdQueue, txQueue, job, pos, publishing, executed, discarded, seen,
                     open>>
      /\ publishing /\ targets # <<>>
      /\ out' = [out EXCEPT ![Head(targets)] = Append(@, Message)]
      /\ targets' = Tail(targets)
  BY DEF PublishTo, connVars, aclVars, indexVars, queueVars, execVars, sockVars
<1>3. Message \in Written
  BY <1>1, <1>2, MessageType DEF Held
<1>4. /\ Head(targets) \in Conn /\ targets' \in Seq(Conn)
      /\ ToSet(targets') \subseteq ToSet(targets)
  <2>1. targets \in Seq(Conn)
    BY <1>1 DEF TypeOK
  <2> QED
    BY <1>2, <2>1, HeadTailMembers
<1>5. out' \in [Conn -> Seq(Written)]
  <2>1. out \in [Conn -> Seq(Written)]
    BY <1>1 DEF TypeOK
  <2>2. Append(out[Head(targets)], Message) \in Seq(Written)
    BY <1>3, <1>4, <2>1, AppendMembers
  <2> QED
    BY <1>2, <2>1, <2>2
<1>6. TypeOK'
  BY <1>1, <1>2, <1>4, <1>5, Zenon DEF TypeOK
<1>7. Held'
  BY <1>1, <1>2, <1>4 DEF Held, Running, Current
<1>8. ModesExclude'
  BY <1>1, <1>2 DEF ModesExclude
<1>9. SubscriptionsAgree'
  BY <1>1, <1>2 DEF SubscriptionsAgree
<1>10. Known'
  BY <1>1, <1>2 DEF Known, Jobs
<1> QED
  BY <1>6, <1>7, <1>8, <1>9, <1>10 DEF SStep

LEMMA FinishSInv == ASSUME SStep, Finish PROVE SStep'
<1>1. TypeOK /\ Held /\ ModesExclude /\ SubscriptionsAgree /\ Known
  BY DEF SStep
<1>2. /\ UNCHANGED <<handled, inTransaction, queuedCommands, inPubSubMode, authenticated,
                     draft, passwords, channels, subscriptions, cmdQueue, txQueue, pos,
                     targets, publishing, executed, discarded, out, seen, open>>
      /\ job # None /\ pos > Len(job.cmds) /\ job' = None
      /\ phase' = [phase EXCEPT ![job.conn] = "send"]
  BY DEF Finish, connVars, aclVars, indexVars, queueVars, execVars, sockVars
<1>3. job \in OwnJobs /\ job.conn \in Conn /\ ~publishing
  BY <1>1, <1>2, Owners, LenProperties DEF Held, Running, Jobs, OwnJobs, TypeOK
<1>4. answer' \in [Conn -> Written] /\ \A d \in Conn : answer'[d].kind # "message"
  <2> DEFINE w == [kind |-> IF job.tx THEN "array" ELSE "result", arg |-> None,
                   of |-> <<job.conn, handled[job.conn]>>]
  <2>1. answer \in [Conn -> Written] /\ <<job.conn, handled[job.conn]>> \in Id
    BY <1>1, <1>3 DEF TypeOK, Id
  <2>2. w \in Written /\ w.kind # "message"
    BY <2>1, NoneIsAnArg DEF Written
  <2>3. answer' = [answer EXCEPT ![job.conn] = w]
    BY DEF Finish
  <2> HIDE DEF w
  <2> QED
    BY <1>1, <1>3, <2>1, <2>2, <2>3 DEF Held
<1>5. TypeOK'
  BY <1>1, <1>2, <1>3, <1>4 DEF TypeOK
<1>6. Held'
  BY <1>1, <1>2, <1>3, <1>4 DEF Held, TypeOK, Running, Current
<1>7. ModesExclude'
  BY <1>1, <1>2, <1>3, <1>4 DEF ModesExclude, TypeOK
<1>8. SubscriptionsAgree'
  BY <1>1, <1>2, <1>3, <1>4 DEF SubscriptionsAgree, TypeOK
<1>9. Known'
  BY <1>1, <1>2, <1>3, <1>4 DEF Known, Jobs, TypeOK
<1> QED
  BY <1>5, <1>6, <1>7, <1>8, <1>9 DEF SStep

-----------------------------------------------------------------------------
(* Every step keeps the invariant, PUBLISH aside.                          *)

LEMMA NextSStep == ASSUME SStep, [Next]_vars PROVE SStep'
<1>1. ASSUME NEW c \in Conn, NEW r \in Requests[c], Route(c, r) PROVE SStep'
  BY <1>1, RefuseSInv, QueueCommandSInv, DataCommandSInv, MultiSInv, ExecSInv, DiscardSInv,
     SubscribeSInv, UnsubscribeSInv, AuthSInv, SetUserSInv DEF Route
<1>2. ASSUME NEW c \in Conn, ConnStep(c) PROVE SStep'
  BY <1>2, StorePasswordsSInv, SendResponseSInv, LeaveSInv DEF ConnStep
<1>3. ASSUME NEW c \in Conn, Accept(c) \/ Disconnect(c) \/ ReadReply(c) PROVE SStep'
  BY <1>3, AcceptSInv, DisconnectSInv, ReadReplySInv
<1>4. ASSUME ExecutorStep PROVE SStep'
  BY <1>4, TakeSInv, ExecuteCommandSInv, PublishStartSInv, PublishToSInv, PublishEndSInv,
     FinishSInv DEF ExecutorStep
<1>5. ASSUME UNCHANGED vars PROVE SStep'
  <2>1. UNCHANGED <<phase, handled, connVars, answer, aclVars, indexVars, queueVars,
                    execVars, discarded, sockVars>>
    BY <1>5 DEF vars
  <2>2. TypeOK' = TypeOK
    BY <2>1 DEF TypeOK, connVars, aclVars, indexVars, queueVars, execVars, sockVars
  <2>3. Held' = Held
    BY <2>1 DEF Held, Running, Current, connVars, indexVars, queueVars, execVars
  <2>4. ModesExclude' = ModesExclude /\ SubscriptionsAgree' = SubscriptionsAgree
    BY <2>1 DEF ModesExclude, SubscriptionsAgree, connVars, indexVars
  <2>5. Known' = Known
    BY <2>1 DEF Known, Jobs, connVars, indexVars, queueVars, execVars
  <2> QED
    BY <2>2, <2>3, <2>4, <2>5 DEF SStep
<1> QED
  BY <1>1, <1>2, <1>3, <1>4, <1>5 DEF Next

-----------------------------------------------------------------------------
(* PUBLISH and what it has delivered.                                      *)

\* What Delivering says of the messages written so far.
MessagesArePast ==
  \A c \in Conn : \A i \in DOMAIN out[c] :
    out[c][i].kind = "message" /\ out[c][i].of[2] > Len(executed)
      => publishing /\ out[c][i].of[2] = Len(executed) + 1

LEMMA DeliveringIdle ==
  ASSUME ~publishing
  PROVE  Delivering <=> MessagesArePast
BY DEF Delivering, CountIsDelivered, MessagesArePast

\* Steps that neither write a message nor touch the subscribers while one is written.
LEMMA DeliveringKept ==
  ASSUME Delivering, publishing' = publishing, out' = out, executed' = executed,
         publishing => UNCHANGED <<targets, job, pos, channels>>
  PROVE  Delivering'
<1>1. CASE publishing
  <2>1. ThisRun' = ThisRun /\ Current' = Current
    BY <1>1 DEF ThisRun, Current
  <2>2. \A c \in Conn : Copies(c, ThisRun)' = Copies(c, ThisRun)
    BY <2>1 DEF Copies
  <2> QED
    BY <1>1, <2>1, <2>2 DEF Delivering, CountIsDelivered
<1>2. CASE ~publishing
  BY <1>2 DEF Delivering, CountIsDelivered
<1> QED
  BY <1>1, <1>2

\* Cardinality of what is empty, and of what has one member.
LEMMA NoneOrOne ==
  /\ Cardinality({}) = 0
  /\ \A x : Cardinality({x}) = 1
  /\ \A S : IsFiniteSet(S) /\ Cardinality(S) = 0 => S = {}
BY FS_EmptySet, FS_Singleton

\* What an append does to the copies of a run, and that there are finitely many.
LEMMA CopiesAppended ==
  ASSUME TypeOK, NEW c \in Conn, NEW w \in Written, NEW run,
         out'[c] = Append(out[c], w)
  PROVE  /\ IsFiniteSet(Copies(c, run))
         /\ w.kind = "message" /\ w.of = run
              => Copies(c, run)' = Copies(c, run) \cup {Len(out[c]) + 1}
         /\ ~(w.kind = "message" /\ w.of = run) => Copies(c, run)' = Copies(c, run)
<1> DEFINE s == out[c]
           u == Append(s, w)
<1>1. s \in Seq(Written)
  BY DEF TypeOK
<1>2. /\ Len(u) = Len(s) + 1 /\ u[Len(s) + 1] = w /\ u \in Seq(Written)
      /\ \A i \in 1..Len(s) : u[i] = s[i]
  BY <1>1, AppendProperties
<1>3. DOMAIN s = 1..Len(s) /\ Len(s) \in Nat /\ DOMAIN u = 1..(Len(s) + 1)
  BY <1>1, <1>2, LenProperties
<1>4. out'[c] = u
  OBVIOUS
<1> HIDE DEF u
<1>5. /\ Copies(c, run) = {i \in 1..Len(s) : s[i].kind = "message" /\ s[i].of = run}
      /\ Copies(c, run)' = {i \in 1..(Len(s) + 1) : u[i].kind = "message" /\ u[i].of = run}
  BY <1>3, <1>4 DEF Copies
<1>6. IsFiniteSet(1..Len(s))
  BY <1>3, FS_Interval
<1>7. IsFiniteSet(Copies(c, run))
  BY <1>5, <1>6, FS_Subset
<1> HIDE DEF s
<1> QED
  BY <1>2, <1>3, <1>5, <1>7 DEF s

LEMMA SendResponseDelivers ==
  ASSUME SStep, Delivering, NEW c \in Conn, SendResponse(c)
  PROVE  Delivering'
<1>1. TypeOK /\ Held
  BY DEF SStep
<1>2. /\ UNCHANGED <<executed, publishing, targets, job, pos, channels>>
      /\ out' = [out EXCEPT ![c] = Append(@, answer[c])]
  BY DEF SendResponse, execVars, indexVars
<1>3. /\ answer[c] \in Written /\ answer[c].kind # "message"
      /\ out \in [Conn -> Seq(Written)]
  BY <1>1 DEF TypeOK, Held
<1>4. ThisRun' = ThisRun /\ Current' = Current
  BY <1>2 DEF ThisRun, Current
<1>5. \A d \in Conn : d # c => out'[d] = out[d]
  BY <1>2, <1>3
<1>6. out'[c] = Append(out[c], answer[c])
  BY <1>2, <1>3
<1>7. ASSUME NEW d \in Conn PROVE Copies(d, ThisRun)' = Copies(d, ThisRun)
  <2>1. CASE d = c
    <3>1. PICK run : run = ThisRun
      OBVIOUS
    <3>2. Copies(c, run)' = Copies(c, run)
      BY <1>1, <1>3, <1>6, CopiesAppended
    <3> QED
      BY <1>4, <2>1, <3>1, <3>2 DEF Copies
  <2>2. CASE d # c
    BY <1>4, <1>5, <2>2 DEF Copies
  <2> QED
    BY <2>1, <2>2
<1>8. MessagesArePast'
  <2> SUFFICES ASSUME NEW d \in Conn, NEW i \in DOMAIN out'[d], out'[d][i].kind = "message"
               PROVE  i \in DOMAIN out[d] /\ out'[d][i] = out[d][i]
    BY <1>2 DEF MessagesArePast, Delivering
  <2>1. CASE d # c
    BY <1>5, <2>1
  <2>2. CASE d = c
    <3> DEFINE s == out[c]
               u == Append(s, answer[c])
    <3>1. s \in Seq(Written)
      BY <1>3
    <3>2. /\ Len(u) = Len(s) + 1 /\ u[Len(s) + 1] = answer[c] /\ u \in Seq(Written)
          /\ \A k \in 1..Len(s) : u[k] = s[k]
      BY <1>3, <3>1, AppendProperties
    <3>3. DOMAIN s = 1..Len(s) /\ Len(s) \in Nat /\ DOMAIN u = 1..(Len(s) + 1)
      BY <3>1, <3>2, LenProperties
    <3>4. out'[d] = u
      BY <1>6, <2>2
    <3> HIDE DEF u
    <3>5. i \in 1..(Len(s) + 1) /\ u[i].kind = "message"
      BY <3>3, <3>4
    <3>6. i \in 1..Len(s)
      BY <1>3, <3>2, <3>3, <3>5
    <3> QED
      BY <2>2, <3>2, <3>3, <3>4, <3>6
  <2> QED
    BY <2>1, <2>2
<1>9. CountIsDelivered'
  BY <1>2, <1>4, <1>7 DEF Delivering, CountIsDelivered
<1> QED
  BY <1>2, <1>8, <1>9 DEF Delivering, MessagesArePast

\* PUBLISH starts: all subscribers are targets, once each, and none has a message of
\* this run.
LEMMA PublishStartDelivers == ASSUME SStep, Delivering, PublishStart PROVE Delivering'
<1>1. TypeOK /\ Held /\ Known
  BY DEF SStep
<1>2. /\ UNCHANGED <<job, pos, executed, out, channels>>
      /\ Running /\ Current.op = "publish" /\ ~publishing
      /\ targets' \in SetToSeqs(channels[Current.arg])
  BY DEF PublishStart, indexVars, sockVars
<1>3. publishing'
  BY DEF PublishStart
<1>4. ThisRun' = ThisRun /\ Current' = Current /\ ThisRun[2] = Len(executed) + 1
  BY <1>2 DEF ThisRun, Current
<1>5. Current.arg \in Channel
  BY <1>1, <1>2, CurrentType
<1>6. channels[Current.arg] \in SUBSET Conn
  BY <1>1, <1>5 DEF TypeOK
<1>7. /\ targets' \in Seq(Conn) /\ ToSet(targets') = channels[Current.arg]
      /\ \A i, j \in DOMAIN targets' : targets'[i] = targets'[j] => i = j
  <2> DEFINE S == channels[Current.arg]
  <2>1. S \in SUBSET Conn /\ targets' \in SetToSeqs(S)
    BY <1>2, <1>6
  <2> HIDE DEF S
  <2>2. targets' \in Seq(Conn) /\ ToSet(targets') \subseteq S
    BY <2>1, TargetsType
  <2>3. IsFiniteSet(S) /\ Cardinality(S) \in Nat
    BY <2>1, ConstantsAssumption, FS_Subset, FS_CardinalityType
  <2> DEFINE n == Cardinality(S)
  <2>4. /\ targets' \in [1..n -> S]
        /\ \A i, j \in 1..n : targets'[i] = targets'[j] => i = j
    BY <2>1 DEF SetToSeqs
  <2> HIDE DEF n
  <2>5. PICK t : t = targets'
    OBVIOUS
  <2>6. t \in Injection(1..n, S)
    BY <2>4, <2>5 DEF Injection, IsInjective
  <2>7. Cardinality(1..n) = n
    BY <2>3, FS_Interval DEF n
  <2>8. t \in Surjection(1..n, S)
    BY <2>3, <2>6, <2>7, FS_Injection DEF n
  <2>9. \A e \in S : \E i \in 1..n : targets'[i] = e
    BY <2>5, <2>8 DEF Surjection
  <2>10. DOMAIN targets' = 1..n
    BY <2>4
  <2>11. S \subseteq ToSet(targets')
    BY <2>9, <2>10 DEF ToSet
  <2> QED
    BY <2>2, <2>4, <2>10, <2>11 DEF S
<1>8. Len(executed) \in Nat
  BY <1>1, LenProperties DEF TypeOK
<1>9. \A c \in Conn : Copies(c, ThisRun) = {}
  BY <1>2, <1>4, <1>8 DEF Delivering, Copies
<1>10. \A c \in Conn : Cardinality(Copies(c, ThisRun)') = 0
  <2>1. \A c \in Conn : Copies(c, ThisRun)' = Copies(c, ThisRun)
    BY <1>2, <1>4 DEF Copies
  <2> QED
    BY <1>9, <2>1, NoneOrOne
<1>11. CountIsDelivered'
  BY <1>2, <1>4, <1>7, <1>10 DEF CountIsDelivered
<1>12. MessagesArePast'
  BY <1>2, <1>3 DEF Delivering, MessagesArePast
<1> QED
  BY <1>7, <1>11, <1>12 DEF Delivering, MessagesArePast

\* PUBLISH writes to a target: one copy more for it, and it is no target any more.
LEMMA PublishToDelivers == ASSUME SStep, Delivering, PublishTo PROVE Delivering'
<1>1. TypeOK /\ Held /\ Known
  BY DEF SStep
<1>2. /\ UNCHANGED <<job, pos, publishing, executed, channels>>
      /\ publishing /\ targets # <<>> /\ targets' = Tail(targets)
      /\ out' = [out EXCEPT ![Head(targets)] = Append(@, Message)]
  BY DEF PublishTo, indexVars
<1>3. Running /\ Current.op = "publish" /\ ToSet(targets) \subseteq channels[Current.arg]
  BY <1>1, <1>2 DEF Held
<1>4. /\ Current.id \in Id /\ Current.arg \in Arg
      /\ targets \in Seq(Conn) /\ out \in [Conn -> Seq(Written)] /\ executed \in Seq(Id)
  BY <1>1, <1>3, CurrentType DEF TypeOK
<1>5. PICK w : w = Message
  OBVIOUS
<1>6. PICK run : run = ThisRun
  OBVIOUS
<1>7. /\ w \in Written /\ w.kind = "message" /\ w.of = run
      /\ run[2] = Len(executed) + 1 /\ Len(executed) \in Nat
  <2>1. Len(executed) \in Nat
    BY <1>4, LenProperties
  <2>2. ThisRun \in Id /\ ThisRun[2] = Len(executed) + 1
    BY <1>4, <2>1 DEF Id, ThisRun
  <2> QED
    BY <1>4, <1>5, <1>6, <2>1, <2>2 DEF Message, Written
<1>8. ThisRun' = ThisRun /\ Current' = Current
  BY <1>2 DEF ThisRun, Current
<1>9. PICK c \in Conn : c = Head(targets)
  BY <1>2, <1>4, HeadTailMembers
<1>10. /\ targets' \in Seq(Conn) /\ ToSet(targets) = ToSet(targets') \cup {c}
       /\ c \notin ToSet(targets')
       /\ \A i, j \in DOMAIN targets' : targets'[i] = targets'[j] => i = j
  <2> DEFINE t == targets
             u == Tail(t)
  <2>1. ToSet(t) = ToSet(u) \cup {c}
    BY <1>2, <1>4, <1>9, HeadTailMembers
  <2>2. /\ u \in Seq(Conn) /\ Len(u) = Len(t) - 1 /\ c = t[1]
        /\ \A i \in 1..Len(u) : u[i] = t[i + 1]
    BY <1>2, <1>4, <1>9, HeadTailProperties
  <2>3. DOMAIN t = 1..Len(t) /\ Len(t) \in Nat \ {0} /\ DOMAIN u = 1..Len(u)
    BY <1>2, <1>4, <2>2, LenProperties, EmptySeq
  <2>4. \A i, j \in DOMAIN t : t[i] = t[j] => i = j
    BY <1>2 DEF Delivering
  <2>5. targets' = u
    BY <1>2
  <2> HIDE DEF t, u
  <2>6. \A i, j \in DOMAIN u : u[i] = u[j] => i = j
    BY <2>2, <2>3, <2>4
  <2>7. \A i \in DOMAIN u : u[i] # c
    BY <2>2, <2>3, <2>4
  <2>8. c \notin ToSet(u)
    BY <2>7 DEF ToSet
  <2> QED
    BY <2>1, <2>2, <2>5, <2>6, <2>8 DEF t
<1>11. out'[c] = Append(out[c], w) /\ \A d \in Conn : d # c => out'[d] = out[d]
  BY <1>2, <1>4, <1>5, <1>9
<1>12. Cardinality(Copies(c, run)) = 0 /\ IsFiniteSet(Copies(c, run))
  <2>1. IsFiniteSet(Copies(c, run))
    BY <1>1, <1>7, <1>11, CopiesAppended
  <2>2. Cardinality(Copies(c, ThisRun)) = 0
    BY <1>2, <1>10 DEF Delivering, CountIsDelivered
  <2> QED
    BY <1>6, <2>1, <2>2
<1>13. Cardinality(Copies(c, run)') = 1
  <2>1. Copies(c, run)' = Copies(c, run) \cup {Len(out[c]) + 1}
    BY <1>1, <1>7, <1>11, CopiesAppended
  <2>2. Copies(c, run) = {}
    BY <1>12, NoneOrOne
  <2>3. Copies(c, run)' = {Len(out[c]) + 1}
    BY <2>1, <2>2
  <2> QED
    BY <2>3, NoneOrOne
<1>14. \A d \in Conn : d # c => Copies(d, run)' = Copies(d, run)
  BY <1>11 DEF Copies
<1>15. CountIsDelivered'
  <2> SUFFICES ASSUME NEW d \in Conn
               PROVE  Cardinality(Copies(d, run)') =
                        IF d \in channels[Current.arg] \ ToSet(targets') THEN 1 ELSE 0
    BY <1>2, <1>6, <1>8 DEF CountIsDelivered, Copies
  <2>1. CASE d = c
    <3>1. c \in channels[Current.arg] \ ToSet(targets')
      BY <1>3, <1>10
    <3> QED
      BY <1>13, <2>1, <3>1
  <2>2. CASE d # c
    <3>1. d \in ToSet(targets') <=> d \in ToSet(targets)
      BY <1>10, <2>2
    <3>2. Cardinality(Copies(d, run)) =
            IF d \in channels[Current.arg] \ ToSet(targets) THEN 1 ELSE 0
      BY <1>2, <1>6 DEF Delivering, CountIsDelivered
    <3> QED
      BY <1>14, <2>2, <3>1, <3>2
  <2> QED
    BY <2>1, <2>2
<1>16. MessagesArePast'
  <2> SUFFICES ASSUME NEW d \in Conn, NEW i \in DOMAIN out'[d]
               PROVE  \/ i \in DOMAIN out[d] /\ out'[d][i] = out[d][i]
                      \/ out'[d][i] = w
    BY <1>2, <1>7 DEF MessagesArePast, Delivering
  <2>1. CASE d # c
    BY <1>11, <2>1
  <2>2. CASE d = c
    <3> DEFINE s == out[c]
               u == Append(s, w)
    <3>1. s \in Seq(Written)
      BY <1>4
    <3>2. /\ Len(u) = Len(s) + 1 /\ u[Len(s) + 1] = w /\ u \in Seq(Written)
          /\ \A k \in 1..Len(s) : u[k] = s[k]
      BY <1>7, <3>1, AppendProperties
    <3>3. DOMAIN s = 1..Len(s) /\ Len(s) \in Nat /\ DOMAIN u = 1..(Len(s) + 1)
      BY <3>1, <3>2, LenProperties
    <3>4. out'[d] = u
      BY <1>11, <2>2
    <3> HIDE DEF u
    <3> QED
      BY <2>2, <3>2, <3>3, <3>4
  <2> QED
    BY <2>1, <2>2
<1> QED
  BY <1>10, <1>15, <1>16 DEF Delivering, MessagesArePast

\* A command has run: a message of its run is of a past one from now on.
LEMMA ExecutedDelivers ==
  ASSUME SStep, Delivering, executed' = Append(executed, Current.id), ~publishing',
         Running, out' = out
  PROVE  Delivering'
<1>1. Len(executed') = Len(executed) + 1 /\ Len(executed) \in Nat
  <2>1. executed \in Seq(Id) /\ Current.id \in Id
    BY CurrentType DEF SStep, TypeOK
  <2> QED
    BY <2>1, AppendProperties, LenProperties
<1>2. ASSUME NEW c \in Conn, NEW i \in DOMAIN out[c], out[c][i].kind = "message"
      PROVE  out[c][i].of[2] \in Nat
  <2>1. out[c] \in Seq(Written)
    BY DEF SStep, TypeOK
  <2>2. out[c][i] \in Written
    BY <2>1, ElementOfSeq, LenProperties
  <2> QED
    BY <2>2 DEF Written, Id
<1>3. MessagesArePast'
  BY <1>1, <1>2 DEF Delivering, MessagesArePast
<1> QED
  BY <1>3 DEF Delivering, CountIsDelivered, MessagesArePast

LEMMA NextDelivers == ASSUME SStep, Delivering, [Next]_vars PROVE Delivering'
<1> USE DEF connVars, aclVars, indexVars, queueVars, execVars, sockVars
<1>0. TypeOK /\ Held
  BY DEF SStep
<1>1. ASSUME NEW c \in Conn, NEW r \in Requests[c], Route(c, r) PROVE Delivering'
  <2>1. publishing' = publishing /\ out' = out /\ executed' = executed
    BY <1>1 DEF Route, Refuse, QueueCommand, DataCommand, Multi, Exec, Discard, Subscribe,
       Unsubscribe, Auth, SetUser
  <2>2. publishing => UNCHANGED <<targets, job, pos, channels>>
    BY <1>1 DEF Route, Refuse, QueueCommand, DataCommand, Multi, Exec, Discard, Subscribe,
       Unsubscribe, Auth, SetUser, Lock
  <2> QED
    BY <2>1, <2>2, DeliveringKept
<1>2. ASSUME NEW c \in Conn,
             Accept(c) \/ Disconnect(c) \/ ReadReply(c) \/ StorePasswords(c) \/ Leave(c)
      PROVE  Delivering'
  <2>1. UNCHANGED <<publishing, out, executed, targets, job, pos, channels>>
    BY <1>2 DEF Accept, Disconnect, ReadReply, StorePasswords, Leave
  <2> QED
    BY <2>1, DeliveringKept
<1>3. ASSUME NEW c \in Conn, SendResponse(c) PROVE Delivering'
  BY <1>3, SendResponseDelivers
<1>4. ASSUME TakeCommand \/ TakeTransaction \/ Finish PROVE Delivering'
  <2>1. UNCHANGED <<publishing, out, executed>>
    BY <1>4 DEF TakeCommand, TakeTransaction, Take, Finish
  <2>2. ~Running
    <3>1. job # None => Len(job.cmds) \in Nat /\ pos \in Nat
      BY <1>0, LenProperties DEF TypeOK, Job
    <3> QED
      BY <1>4, <3>1 DEF TakeCommand, TakeTransaction, Take, Finish, Running
  <2>3. ~publishing
    BY <1>0, <2>2 DEF Held
  <2> QED
    BY <2>1, <2>3, DeliveringKept
<1>5. ASSUME ExecuteCommand PROVE Delivering'
  <2>1. ~publishing /\ publishing' = publishing
    BY <1>0, <1>5 DEF Held, ExecuteCommand
  <2> QED
    BY <1>5, <2>1, ExecutedDelivers DEF ExecuteCommand
<1>6. ASSUME PublishEnd PROVE Delivering'
  <2>1. Running /\ ~publishing'
    BY <1>0, <1>6 DEF Held, PublishEnd
  <2> QED
    BY <1>6, <2>1, ExecutedDelivers DEF PublishEnd
<1>7. ASSUME PublishStart \/ PublishTo PROVE Delivering'
  BY <1>7, PublishStartDelivers, PublishToDelivers
<1>8. ASSUME UNCHANGED vars PROVE Delivering'
  <2>1. UNCHANGED <<publishing, out, executed, targets, job, pos, channels>>
    BY <1>8 DEF vars
  <2> QED
    BY <2>1, DeliveringKept
<1> QED
  BY <1>1, <1>2, <1>3, <1>4, <1>5, <1>6, <1>7, <1>8 DEF Next, ConnStep, ExecutorStep

LEMMA NextSInv == SInv /\ [Next]_vars => SInv'
<1> SUFFICES ASSUME SStep, Delivering, [Next]_vars PROVE SStep' /\ Delivering'
  <2>1. SInv' <=> SStep' /\ Delivering'
    BY SInvIff, PTL
  <2> QED
    BY <2>1, SInvIff
<1> QED
  BY NextSStep, NextDelivers


-----------------------------------------------------------------------------
(* Jobs, queues and names.                                                 *)

\* The members of Jobs and of the queues are commands of their connections.
LEMMA Members ==
  ASSUME TypeOK, Held
  PROVE  /\ \A j \in Jobs :
              /\ j \in Job /\ j.conn \in Conn /\ j.cmds \in Seq(Command) /\ j.tx \in BOOLEAN
              /\ \A cmd \in ToSet(j.cmds) : cmd \in Command /\ cmd.id \in Id /\ cmd.id[1] = j.conn
         /\ \A c \in Conn : \A cmd \in ToSet(queuedCommands[c]) :
              cmd \in Command /\ cmd.id \in Id /\ cmd.id[1] = c
         /\ \A id \in discarded \cup ToSet(executed) : id \in Id
<1>1. ASSUME NEW c \in Conn, NEW s \in Seq(OwnCommands(c)), NEW cmd \in ToSet(s)
      PROVE  cmd \in Command /\ cmd.id \in Id /\ cmd.id[1] = c
  <2>1. PICK i \in DOMAIN s : cmd = s[i]
    BY DEF ToSet
  <2>2. cmd \in OwnCommands(c)
    BY <2>1, ElementOfSeq, LenProperties
  <2> QED
    BY <2>2 DEF OwnCommands, Command
<1>2. ASSUME NEW j \in Jobs
      PROVE  /\ j \in Job /\ j.conn \in Conn /\ j.cmds \in Seq(Command) /\ j.tx \in BOOLEAN
             /\ j.cmds \in Seq(OwnCommands(j.conn))
  <2>1. j \in OwnJobs /\ j.conn \in Conn
    BY Owners
  <2> QED
    BY <2>1 DEF OwnJobs, Job
<1>3. \A c \in Conn : queuedCommands[c] \in Seq(OwnCommands(c))
  BY DEF Held
<1>4. ASSUME NEW id \in ToSet(executed) PROVE id \in Id
  <2>1. executed \in Seq(Id)
    BY DEF TypeOK
  <2>2. PICK i \in DOMAIN executed : id = executed[i]
    BY DEF ToSet
  <2> QED
    BY <2>1, <2>2, ElementOfSeq, LenProperties
<1>5. discarded \subseteq Id
  BY DEF TypeOK
<1> QED
  BY <1>1, <1>2, <1>3, <1>4, <1>5

\* A connection whose goroutine does not wait has no job.
LEMMA NoJobs ==
  ASSUME OneJobEach, NEW c, phase[c] # "wait"
  PROVE  \A j \in Jobs : j.conn # c
BY DEF OneJobEach

\* What a step of c's goroutine leaves of the jobs, when c has none.
LEMMA OneJobKept ==
  ASSUME TypeOK, Held, OneJobEach, NEW c \in Conn, phase[c] # "wait",
         UNCHANGED <<cmdQueue, txQueue, job>>,
         \A d \in Conn \ {c} : phase'[d] = phase[d] /\ inTransaction'[d] = inTransaction[d]
  PROVE  OneJobEach'
<1>1. Jobs' = Jobs
  BY DEF Jobs
<1>2. \A j \in Jobs : j.conn \in Conn \ {c}
  BY Members, NoJobs
<1>3. \A j \in Jobs' : phase'[j.conn] = "wait" /\ ~inTransaction'[j.conn]
  BY <1>1, <1>2 DEF OneJobEach
<1> QED
  BY <1>3 DEF OneJobEach

LEMMA JobsKept ==
  ASSUME TypeOK, Held, OneJobEach, JobsAreQueues, NEW c \in Conn, phase[c] # "wait",
         UNCHANGED <<cmdQueue, txQueue, job, pos, executed>>,
         \A d \in Conn \ {c} : queuedCommands'[d] = queuedCommands[d]
  PROVE  JobsAreQueues'
<1>1. Jobs' = Jobs
  BY DEF Jobs
<1>2. \A j \in Jobs : j.conn \in Conn \ {c}
  BY Members, NoJobs
<1>3. \A j \in Jobs' : IF j.tx THEN j.cmds = queuedCommands'[j.conn] ELSE Len(j.cmds) = 1
  BY <1>1, <1>2 DEF JobsAreQueues
<1> QED
  BY <1>3 DEF JobsAreQueues

\* Names stay taken.
LEMMA NamedKept ==
  ASSUME TypeOK, Held, Named,
         UNCHANGED <<cmdQueue, txQueue, job, executed, queuedCommands, discarded>>,
         handled' \in [Conn -> Nat], \A d \in Conn : handled[d] <= handled'[d]
  PROVE  Named'
<1>1. Jobs' = Jobs
  BY DEF Jobs
<1>2. ASSUME NEW id \in Id, Taken(id) PROVE Taken(id)'
  <2>1. id[1] \in Conn /\ id[2] \in Nat
    BY DEF Id
  <2>2. handled[id[1]] \in Nat /\ handled'[id[1]] \in Nat /\ handled[id[1]] <= handled'[id[1]]
    BY <2>1 DEF TypeOK
  <2> QED
    BY <1>2, <2>1, <2>2 DEF Taken
<1>3. \A c \in Conn : \A cmd \in ToSet(queuedCommands[c]) : cmd.id \in Id
  BY Members
<1>4. \A j \in Jobs : \A cmd \in ToSet(j.cmds) : cmd.id \in Id
  BY Members
<1>5. \A id \in discarded \cup ToSet(executed) : id \in Id
  BY Members
<1>6. \A c \in Conn : \A cmd \in ToSet(queuedCommands'[c]) :
        Taken(cmd.id)' /\ cmd.id \notin discarded'
  BY <1>2, <1>3 DEF Named
<1>7. \A j \in Jobs' : \A cmd \in ToSet(j.cmds) : Taken(cmd.id)' /\ cmd.id \notin discarded'
  BY <1>1, <1>2, <1>4 DEF Named
<1>8. \A id \in discarded' \cup ToSet(executed') : Taken(id)'
  BY <1>2, <1>5 DEF Named
<1> QED
  BY <1>6, <1>7, <1>8 DEF Named

\* c's goroutine is about to answer an EXEC.
Sending(c) == phase[c] \in {"store", "send"} /\ answer[c].kind = "array"
HasArray(c) == \E i \in DOMAIN out[c] : out[c][i].kind = "array"

LEMMA ExecsCount == TypeOK => \A c \in Conn : Execs(c) \in Nat /\ (Execs(c) > 0 <=> HasArray(c))
<1> SUFFICES ASSUME TypeOK, NEW c \in Conn
             PROVE  Execs(c) \in Nat /\ (Execs(c) > 0 <=> HasArray(c))
  OBVIOUS
<1> DEFINE S == {i \in DOMAIN out[c] : out[c][i].kind = "array"}
<1>1. out[c] \in Seq(Written)
  BY DEF TypeOK
<1>2. DOMAIN out[c] = 1..Len(out[c]) /\ Len(out[c]) \in Nat
  BY <1>1, LenProperties
<1>3. IsFiniteSet(1..Len(out[c]))
  BY <1>2, FS_Interval
<1>4. S \subseteq 1..Len(out[c])
  BY <1>2
<1>5. Execs(c) = Cardinality(S) /\ (HasArray(c) <=> S # {})
  BY DEF Execs, HasArray
<1> HIDE DEF S
<1>6. IsFiniteSet(S)
  BY <1>3, <1>4, FS_Subset
<1>7. Cardinality(S) \in Nat /\ (Cardinality(S) = 0 <=> S = {})
  BY <1>6, FS_CardinalityType, FS_EmptySet
<1> QED
  BY <1>5, <1>7

LEMMA AnsweredIff == TypeOK => \A c \in Conn : Answered(c) <=> HasArray(c) \/ Sending(c)
BY ExecsCount DEF Answered, Sending

LEMMA AnsweredNext ==
  ASSUME TypeOK' PROVE \A c \in Conn : Answered(c)' <=> HasArray(c)' \/ Sending(c)'
<1>1. TypeOK' => (\A c \in Conn : Answered(c) <=> HasArray(c) \/ Sending(c))'
  BY AnsweredIff, PTL
<1> QED
  BY <1>1

\* A step that changes neither what is answered, nor what is queued.
LEMMA QueuesEndKept ==
  ASSUME TypeOK, TypeOK', QueuesEnd,
         UNCHANGED <<inTransaction, queuedCommands>>,
         \A c \in Conn : /\ InExec(c)' <=> InExec(c)
                         /\ HasArray(c)' \/ Sending(c)' <=> HasArray(c) \/ Sending(c)
  PROVE  QueuesEnd'
<1>1. \A c \in Conn : Answered(c) <=> HasArray(c) \/ Sending(c)
  BY AnsweredIff
<1>2. \A c \in Conn : Answered(c)' <=> HasArray(c)' \/ Sending(c)'
  BY AnsweredNext
<1> QED
  BY <1>1, <1>2 DEF QueuesEnd

\* Steps that change nothing of it all.
LEMMA XInvKept ==
  ASSUME XInv,
         UNCHANGED <<phase, handled, inTransaction, queuedCommands, answer, cmdQueue,
                     txQueue, job, pos, executed, discarded, out>>
  PROVE  XInv'
<1>1. Jobs' = Jobs
  BY DEF Jobs
<1>2. OneJobEach' = OneJobEach
  BY <1>1 DEF OneJobEach
<1>3. Named' = Named
  BY <1>1 DEF Named, Taken
<1>4. JobsAreQueues' = JobsAreQueues
  BY <1>1 DEF JobsAreQueues
<1>5. \A c \in Conn : InExec(c)' = InExec(c) /\ Answered(c)' = Answered(c)
  BY <1>1 DEF InExec, JobsOf, Answered, Execs
<1>6. QueuesEnd => QueuesEnd'
  BY <1>5 DEF QueuesEnd
<1> QED
  BY <1>2, <1>3, <1>4, <1>6 DEF XInv

\* A step of c's goroutine that neither queues, submits nor writes anything.
LEMMA XInvQuiet ==
  ASSUME SStep, SStep', XInv, NEW c \in Conn, phase[c] # "wait",
         UNCHANGED <<inTransaction, queuedCommands, cmdQueue, txQueue, job, pos, executed,
                     discarded, out>>,
         \/ handled' = handled
         \/ handled' = [handled EXCEPT ![c] = @ + 1],
         \A d \in Conn \ {c} : phase'[d] = phase[d] /\ answer'[d] = answer[d],
         Sending(c)' <=> Sending(c)
  PROVE  XInv'
<1>1. TypeOK /\ TypeOK' /\ Held
  BY DEF SStep
<1>2. OneJobEach /\ Named /\ JobsAreQueues
  BY DEF XInv
<1>3. OneJobEach'
  BY <1>1, <1>2, OneJobKept
<1>4. JobsAreQueues'
  BY <1>1, <1>2, JobsKept
<1>5. Named'
  <2>1. handled \in [Conn -> Nat] /\ handled' \in [Conn -> Nat]
    BY <1>1 DEF TypeOK
  <2>2. \A d \in Conn : handled[d] <= handled'[d]
    BY <2>1
  <2> QED
    BY <1>1, <1>2, <2>1, <2>2, NamedKept
<1>6. ASSUME QueuesEnd PROVE QueuesEnd'
  <2>1. Jobs' = Jobs
    BY DEF Jobs
  <2>2. \A d \in Conn : InExec(d)' = InExec(d) /\ HasArray(d)' = HasArray(d)
    BY <2>1 DEF InExec, JobsOf, HasArray
  <2>3. \A d \in Conn \ {c} : Sending(d)' = Sending(d)
    BY DEF Sending
  <2>4. \A d \in Conn : /\ InExec(d)' <=> InExec(d)
                        /\ HasArray(d)' \/ Sending(d)' <=> HasArray(d) \/ Sending(d)
    BY <2>2, <2>3
  <2> QED
    BY <1>1, <1>6, <2>4, QueuesEndKept
<1> QED
  BY <1>2, <1>3, <1>4, <1>5, <1>6 DEF XInv

\* Connections that are in a queue at most once, before and after an append and a tail.
OnceEach(q) == \A i, j \in DOMAIN q : q[i].conn = q[j].conn => i = j

LEMMA AppendOnce ==
  ASSUME NEW T, NEW q \in Seq(T), NEW e \in T, OnceEach(q),
         \A j \in ToSet(q) : j.conn # e.conn
  PROVE  OnceEach(Append(q, e))
<1> DEFINE u == Append(q, e)
<1>1. /\ Len(u) = Len(q) + 1 /\ u[Len(q) + 1] = e /\ u \in Seq(T)
      /\ \A k \in 1..Len(q) : u[k] = q[k]
  BY AppendProperties
<1>2. DOMAIN q = 1..Len(q) /\ Len(q) \in Nat /\ DOMAIN u = 1..(Len(q) + 1)
  BY <1>1, LenProperties
<1>3. \A k \in DOMAIN q : q[k].conn # e.conn
  BY DEF ToSet
<1> HIDE DEF u
<1>4. ASSUME NEW i \in DOMAIN u, NEW j \in DOMAIN u, u[i].conn = u[j].conn PROVE i = j
  <2>1. CASE i \in DOMAIN q /\ j \in DOMAIN q
    BY <1>1, <1>2, <1>4, <2>1 DEF OnceEach
  <2>2. CASE i \notin DOMAIN q
    <3>1. i = Len(q) + 1
      BY <1>2, <2>2
    <3> QED
      BY <1>1, <1>2, <1>3, <1>4, <3>1
  <2>3. CASE j \notin DOMAIN q
    <3>1. j = Len(q) + 1
      BY <1>2, <2>3
    <3> QED
      BY <1>1, <1>2, <1>3, <1>4, <3>1
  <2> QED
    BY <2>1, <2>2, <2>3
<1> QED
  BY <1>4 DEF OnceEach, u

LEMMA TailOnce ==
  ASSUME NEW T, NEW q \in Seq(T), q # <<>>, OnceEach(q)
  PROVE  /\ OnceEach(Tail(q))
         /\ \A j \in ToSet(Tail(q)) : j.conn # Head(q).conn
<1> DEFINE u == Tail(q)
<1>1. /\ u \in Seq(T) /\ Len(u) = Len(q) - 1 /\ Head(q) = q[1]
      /\ \A i \in 1..Len(u) : u[i] = q[i + 1]
  BY HeadTailProperties
<1>2. DOMAIN q = 1..Len(q) /\ Len(q) \in Nat \ {0} /\ DOMAIN u = 1..Len(u)
  BY <1>1, LenProperties, EmptySeq
<1> DEFINE n == Len(q)
           m == Len(u)
<1>0. /\ n \in Nat \ {0} /\ m = n - 1 /\ DOMAIN u = 1..m /\ Head(q) = q[1]
      /\ \A i \in 1..m : u[i] = q[i + 1]
      /\ \A i, j \in 1..n : q[i].conn = q[j].conn => i = j
  BY <1>1, <1>2 DEF OnceEach
<1> HIDE DEF u, n, m
<1>3. ASSUME NEW i \in DOMAIN u, NEW j \in DOMAIN u, u[i].conn = u[j].conn PROVE i = j
  <2>1. i + 1 \in 1..n /\ j + 1 \in 1..n /\ i \in Nat /\ j \in Nat
    BY <1>0
  <2>2. q[i + 1].conn = q[j + 1].conn
    BY <1>0, <1>3
  <2>3. i + 1 = j + 1
    BY <1>0, <2>1, <2>2
  <2> QED
    BY <2>1, <2>3
<1>4. ASSUME NEW i \in DOMAIN u PROVE u[i].conn # Head(q).conn
  <2>1. i + 1 \in 1..n /\ i + 1 # 1 /\ 1 \in 1..n /\ u[i] = q[i + 1]
    BY <1>0
  <2> QED
    BY <1>0, <2>1
<1>5. \A j \in ToSet(u) : j.conn # Head(q).conn
  BY <1>4 DEF ToSet
<1> QED
  BY <1>3, <1>5 DEF OnceEach, u

\* OneJobEach by the members of the queues.
OneJobByMembers ==
  /\ OnceEach(cmdQueue) /\ OnceEach(txQueue)
  /\ \A i \in ToSet(cmdQueue), j \in ToSet(txQueue) : i.conn # j.conn
  /\ job # None => \A j \in ToSet(cmdQueue) \cup ToSet(txQueue) : j.conn # job.conn
  /\ \A j \in Jobs : phase[j.conn] = "wait" /\ ~inTransaction[j.conn]

LEMMA OneJobIff == OneJobEach <=> OneJobByMembers
<1>1. (\A q \in {cmdQueue, txQueue} : \A i, j \in DOMAIN q : q[i].conn = q[j].conn => i = j)
        <=> OnceEach(cmdQueue) /\ OnceEach(txQueue)
  BY DEF OnceEach
<1>2. (\A i \in DOMAIN cmdQueue, j \in DOMAIN txQueue : cmdQueue[i].conn # txQueue[j].conn)
        <=> \A i \in ToSet(cmdQueue), j \in ToSet(txQueue) : i.conn # j.conn
  BY DEF ToSet
<1> QED
  BY <1>1, <1>2 DEF OneJobEach, OneJobByMembers

LEMMA OneJobNext == ASSUME OneJobByMembers' PROVE OneJobEach'
<1>1. OneJobByMembers' => OneJobEach'
  BY OneJobIff, PTL
<1> QED
  BY <1>1

\* The name of the request that c's goroutine takes is new.
LEMMA ThisIsNew ==
  ASSUME TypeOK, Held, Named, NEW c \in Conn, handled' = [handled EXCEPT ![c] = @ + 1],
         NEW this, this = ThisId(c)
  PROVE  /\ this \in Id /\ this[1] = c /\ ~Taken(this) /\ Taken(this)'
         /\ this \notin discarded /\ this \notin ToSet(executed)
         /\ handled' \in [Conn -> Nat] /\ \A d \in Conn : handled[d] <= handled'[d]
         /\ \A id \in Id : Taken(id) => Taken(id)'
<1>1. handled \in [Conn -> Nat]
  BY DEF TypeOK
<1>2. handled[c] \in Nat
  BY <1>1
<1>3. this \in Id /\ this[1] = c /\ this[2] = handled[c] + 1
  BY <1>2 DEF Id, ThisId
<1>4. handled'[c] = handled[c] + 1 /\ \A d \in Conn : d # c => handled'[d] = handled[d]
  BY <1>1
<1>5. handled' \in [Conn -> Nat] /\ \A d \in Conn : handled[d] <= handled'[d]
  BY <1>1, <1>4
<1>6. ~Taken(this) /\ Taken(this)'
  BY <1>2, <1>3, <1>4 DEF Taken
<1>7. ASSUME NEW id \in Id, Taken(id) PROVE Taken(id)'
  <2>1. id[1] \in Conn /\ id[2] \in Nat
    BY DEF Id
  <2>2. handled[id[1]] \in Nat /\ handled'[id[1]] \in Nat /\ handled[id[1]] <= handled'[id[1]]
    BY <1>1, <1>5, <2>1
  <2> QED
    BY <1>7, <2>1, <2>2 DEF Taken
<1>8. this \notin discarded \cup ToSet(executed)
  BY <1>6 DEF Named
<1> QED
  BY <1>3, <1>5, <1>6, <1>7, <1>8

LEMMA QueueCommandX ==
  ASSUME SStep, TypeOK', XInv, NEW c \in Conn, NEW r \in Requests[c], QueueCommand(c, r)
  PROVE  XInv'
<1>1. TypeOK /\ Held
  BY DEF SStep
<1>2. OneJobEach /\ Named /\ JobsAreQueues
  BY DEF XInv
<1>3. /\ phase[c] = "read" /\ phase' = [phase EXCEPT ![c] = "send"]
      /\ handled' = [handled EXCEPT ![c] = @ + 1] /\ inTransaction[c]
      /\ queuedCommands' = [queuedCommands EXCEPT ![c] = Append(@, CommandOf(c, r))]
      /\ answer' = [answer EXCEPT ![c] = [kind |-> "queued", arg |-> None, of |-> ThisId(c)]]
      /\ UNCHANGED <<inTransaction, cmdQueue, txQueue, job, pos, executed, discarded, out>>
  BY DEF QueueCommand, Takes, Reply, Queues, queueVars, execVars, sockVars
<1>4. /\ \A d \in Conn \ {c} : /\ phase'[d] = phase[d] /\ inTransaction'[d] = inTransaction[d]
                               /\ queuedCommands'[d] = queuedCommands[d]
                               /\ answer'[d] = answer[d]
      /\ phase'[c] = "send" /\ answer'[c].kind = "queued"
      /\ queuedCommands'[c] = Append(queuedCommands[c], CommandOf(c, r))
  BY <1>1, <1>3 DEF TypeOK
<1>5. OneJobEach' /\ JobsAreQueues'
  BY <1>1, <1>2, <1>3, <1>4, OneJobKept, JobsKept
<1>6. Named'
  <2>0. PICK this : this = ThisId(c)
    OBVIOUS
  <2>1. /\ Taken(this)' /\ this \notin discarded
        /\ \A id \in Id : Taken(id) => Taken(id)'
    BY <1>1, <1>2, <1>3, <2>0, ThisIsNew
  <2>2. ToSet(queuedCommands'[c]) = ToSet(queuedCommands[c]) \cup {CommandOf(c, r)}
    <3>1. queuedCommands[c] \in Seq(OwnCommands(c))
      BY <1>1 DEF Held
    <3>2. CommandOf(c, r) \in OwnCommands(c)
      BY <1>1, CommandType
    <3>3. ToSet(Append(queuedCommands[c], CommandOf(c, r)))
            = ToSet(queuedCommands[c]) \cup {CommandOf(c, r)}
      BY <3>1, <3>2, AppendMembers
    <3> QED
      BY <1>4, <3>3
  <2>3. \A d \in Conn : \A cmd \in ToSet(queuedCommands[d]) : Taken(cmd.id)' /\ cmd.id \notin discarded
    BY <1>1, <1>2, <2>1, Members DEF Named
  <2>4. CommandOf(c, r).id = this
    BY <2>0 DEF CommandOf
  <2>5. ASSUME NEW d \in Conn, NEW cmd \in ToSet(queuedCommands'[d])
        PROVE  Taken(cmd.id)' /\ cmd.id \notin discarded'
    <3>1. CASE d = c
      <4>1. cmd \in ToSet(queuedCommands[c]) \/ cmd.id = this
        BY <2>2, <2>4, <2>5, <3>1
      <4> QED
        BY <1>3, <2>1, <2>3, <4>1
    <3>2. CASE d # c
      <4>1. queuedCommands'[d] = queuedCommands[d]
        BY <1>4, <3>2
      <4> QED
        BY <1>3, <2>3, <2>5, <4>1
    <3> QED
      BY <3>1, <3>2
  <2>6. Jobs' = Jobs
    BY <1>3 DEF Jobs
  <2>7. \A j \in Jobs' : \A cmd \in ToSet(j.cmds) : Taken(cmd.id)' /\ cmd.id \notin discarded'
    BY <1>1, <1>2, <1>3, <2>1, <2>6, Members DEF Named
  <2>8. \A id \in discarded' \cup ToSet(executed') : Taken(id)'
    BY <1>1, <1>2, <1>3, <2>1, Members DEF Named
  <2> QED
    BY <2>5, <2>7, <2>8 DEF Named
<1>7. ASSUME QueuesEnd PROVE QueuesEnd'
  <2>1. Jobs' = Jobs
    BY <1>3 DEF Jobs
  <2>2. \A d \in Conn : InExec(d)' = InExec(d) /\ HasArray(d)' = HasArray(d)
    BY <1>3, <2>1 DEF InExec, JobsOf, HasArray
  <2>3. \A d \in Conn : Sending(d)' <=> Sending(d)
    BY <1>3, <1>4 DEF Sending
  <2>4. \A d \in Conn : Answered(d) <=> HasArray(d) \/ Sending(d)
    BY <1>1, AnsweredIff
  <2>5. \A d \in Conn : Answered(d)' <=> HasArray(d)' \/ Sending(d)'
    BY AnsweredNext
  <2>6. \A d \in Conn : Answered(d)' <=> Answered(d)
    BY <1>1, <2>2, <2>3, <2>4, <2>5
  <2> QED
    BY <1>3, <1>4, <1>7, <2>2, <2>6 DEF QueuesEnd
<1> QED
  BY <1>2, <1>5, <1>6, <1>7 DEF XInv

LEMMA MultiX ==
  ASSUME SStep, TypeOK', XInv, NEW c \in Conn, NEW r \in Requests[c], Multi(c, r)
  PROVE  XInv'
<1>1. TypeOK /\ Held
  BY DEF SStep
<1>2. OneJobEach /\ Named /\ JobsAreQueues
  BY DEF XInv
<1>3. /\ phase[c] = "read" /\ phase' = [phase EXCEPT ![c] = "send"]
      /\ handled' = [handled EXCEPT ![c] = @ + 1] /\ Execs(c) < MaxExec
      /\ inTransaction' = [inTransaction EXCEPT ![c] = TRUE]
      /\ answer' = [answer EXCEPT ![c] = [kind |-> "multi", arg |-> None, of |-> ThisId(c)]]
      /\ UNCHANGED <<queuedCommands, cmdQueue, txQueue, job, pos, executed, discarded, out>>
  BY DEF Multi, Takes, Reply, queueVars, execVars, sockVars
<1>4. /\ \A d \in Conn \ {c} : /\ phase'[d] = phase[d] /\ inTransaction'[d] = inTransaction[d]
                               /\ answer'[d] = answer[d]
      /\ phase'[c] = "send" /\ answer'[c].kind = "multi"
  BY <1>1, <1>3 DEF TypeOK
<1>5. OneJobEach' /\ JobsAreQueues'
  BY <1>1, <1>2, <1>3, <1>4, OneJobKept, JobsKept
<1>6. Named'
  BY <1>1, <1>2, <1>3, ThisIsNew, NamedKept
<1>7. ASSUME OneExec, QueuesEnd PROVE QueuesEnd'
  <2>1. Jobs' = Jobs
    BY <1>3 DEF Jobs
  <2>2. \A d \in Conn : InExec(d)' = InExec(d) /\ HasArray(d)' = HasArray(d)
    BY <1>3, <2>1 DEF InExec, JobsOf, HasArray
  <2>3. \A d \in Conn : Sending(d)' <=> Sending(d)
    BY <1>3, <1>4 DEF Sending
  <2>4. \A d \in Conn : Answered(d) <=> HasArray(d) \/ Sending(d)
    BY <1>1, AnsweredIff
  <2>5. \A d \in Conn : Answered(d)' <=> HasArray(d)' \/ Sending(d)'
    BY AnsweredNext
  <2>6. \A d \in Conn : Answered(d)' <=> Answered(d)
    BY <1>1, <2>2, <2>3, <2>4, <2>5
  <2>7. ~Answered(c)
    <3>1. Execs(c) \in Nat /\ MaxExec \in Nat
      BY <1>1, ExecsCount, ConstantsAssumption
    <3>2. ~(Execs(c) > 0)
      BY <1>3, <1>7, <3>1 DEF OneExec
    <3> QED
      BY <1>3, <3>2 DEF Answered
  <2>8. inTransaction'[c]
    BY <1>1, <1>3 DEF TypeOK
  <2> QED
    BY <1>3, <1>4, <1>7, <2>2, <2>6, <2>7, <2>8 DEF QueuesEnd
<1> QED
  BY <1>2, <1>5, <1>6, <1>7 DEF XInv

\* A DISCARD in a transaction: the queue's names are dropped, and nothing else has them.
LEMMA DiscardedX ==
  ASSUME SStep, TypeOK', XInv, NEW c \in Conn, NEW r \in Requests[c], Discard(c, r),
         inTransaction[c]
  PROVE  XInv'
<1>1. TypeOK /\ Held
  BY DEF SStep
<1>2. OneJobEach /\ Named /\ JobsAreQueues
  BY DEF XInv
<1>3. /\ phase[c] = "read" /\ phase' = [phase EXCEPT ![c] = "send"]
      /\ handled' = [handled EXCEPT ![c] = @ + 1]
      /\ inTransaction' = [inTransaction EXCEPT ![c] = FALSE]
      /\ queuedCommands' = [queuedCommands EXCEPT ![c] = <<>>]
      /\ discarded' = discarded \cup {cmd.id : cmd \in ToSet(queuedCommands[c])}
      /\ answer' = [answer EXCEPT ![c] = [kind |-> "ok", arg |-> None, of |-> ThisId(c)]]
      /\ UNCHANGED <<cmdQueue, txQueue, job, pos, executed, out>>
  BY DEF Discard, Takes, Reply, queueVars, execVars, sockVars
<1>4. /\ \A d \in Conn \ {c} : /\ phase'[d] = phase[d] /\ inTransaction'[d] = inTransaction[d]
                               /\ queuedCommands'[d] = queuedCommands[d]
                               /\ answer'[d] = answer[d]
      /\ phase'[c] = "send" /\ answer'[c].kind = "ok" /\ ~inTransaction'[c]
      /\ queuedCommands'[c] = <<>>
  BY <1>1, <1>3 DEF TypeOK
<1>5. OneJobEach' /\ JobsAreQueues'
  BY <1>1, <1>2, <1>3, <1>4, OneJobKept, JobsKept
<1>6. Jobs' = Jobs /\ \A j \in Jobs : j.conn # c
  BY <1>2, <1>3, NoJobs DEF Jobs
<1>7. Named'
  <2>1. \A id \in Id : Taken(id) => Taken(id)'
    BY <1>1, <1>2, <1>3, ThisIsNew
  <2>2. \A id \in discarded' \ discarded : id \in Id /\ id[1] = c /\ Taken(id)
    BY <1>1, <1>2, <1>3, Members DEF Named
  <2>3. ASSUME NEW d \in Conn, NEW cmd \in ToSet(queuedCommands'[d])
        PROVE  Taken(cmd.id)' /\ cmd.id \notin discarded'
    <3>1. d # c
      <4>1. ToSet(<<>>) = {}
        BY EmptySeq DEF ToSet
      <4> QED
        BY <1>4, <2>3, <4>1
    <3>2. cmd \in ToSet(queuedCommands[d])
      BY <1>4, <2>3, <3>1
    <3>3. cmd.id \in Id /\ cmd.id[1] = d /\ Taken(cmd.id) /\ cmd.id \notin discarded
      BY <1>1, <1>2, <3>2, Members DEF Named
    <3> QED
      BY <2>1, <2>2, <3>1, <3>3
  <2>4. ASSUME NEW j \in Jobs', NEW cmd \in ToSet(j.cmds)
        PROVE  Taken(cmd.id)' /\ cmd.id \notin discarded'
    <3>1. cmd.id \in Id /\ cmd.id[1] # c /\ Taken(cmd.id) /\ cmd.id \notin discarded
      BY <1>1, <1>2, <1>6, <2>4, Members DEF Named
    <3> QED
      BY <2>1, <2>2, <3>1
  <2>5. \A id \in discarded' \cup ToSet(executed') : Taken(id)'
    BY <1>1, <1>2, <1>3, <2>1, <2>2, Members DEF Named
  <2> QED
    BY <2>3, <2>4, <2>5 DEF Named
<1>8. ASSUME QueuesEnd PROVE QueuesEnd'
  <2>1. \A d \in Conn : InExec(d)' = InExec(d) /\ HasArray(d)' = HasArray(d)
    BY <1>3, <1>6 DEF InExec, JobsOf, HasArray
  <2>2. \A d \in Conn : Sending(d)' <=> Sending(d)
    BY <1>3, <1>4 DEF Sending
  <2>3. \A d \in Conn : Answered(d) <=> HasArray(d) \/ Sending(d)
    BY <1>1, AnsweredIff
  <2>4. \A d \in Conn : Answered(d)' <=> HasArray(d)' \/ Sending(d)'
    BY AnsweredNext
  <2>5. \A d \in Conn : Answered(d)' <=> Answered(d)
    BY <1>1, <2>1, <2>2, <2>3, <2>4
  <2>6. ~InExec(c)
    BY <1>6 DEF InExec, JobsOf
  <2> QED
    BY <1>4, <1>8, <2>1, <2>5, <2>6 DEF QueuesEnd
<1> QED
  BY <1>2, <1>5, <1>7, <1>8 DEF XInv

\* A job that c's goroutine, which has none, hands over: a command that has not run, or
\* the queue of c at the end of its transaction.
LEMMA SubmittedX ==
  ASSUME SStep, TypeOK', XInv, NEW c \in Conn, NEW r \in Requests[c], Takes(c, r), Await(c),
         NEW j \in OwnJobs, j.conn = c,
         \/ /\ cmdQueue' = Append(cmdQueue, j)
            /\ UNCHANGED <<txQueue, inTransaction>> /\ ~inTransaction[c]
            /\ ~j.tx /\ j.cmds = <<CommandOf(c, r)>>
         \/ /\ txQueue' = Append(txQueue, j)
            /\ UNCHANGED cmdQueue
            /\ inTransaction[c] /\ inTransaction' = [inTransaction EXCEPT ![c] = FALSE]
            /\ j.tx /\ j.cmds = queuedCommands[c],
         UNCHANGED <<queuedCommands, execVars, discarded, sockVars>>
  PROVE  XInv'
<1>1. TypeOK /\ Held
  BY DEF SStep
<1>2. OneJobEach /\ Named /\ JobsAreQueues
  BY DEF XInv
<1>3. /\ phase[c] = "read" /\ phase' = [phase EXCEPT ![c] = "wait"]
      /\ handled' = [handled EXCEPT ![c] = @ + 1]
      /\ UNCHANGED <<queuedCommands, job, pos, executed, discarded, out, answer>>
  BY DEF Takes, Await, execVars, sockVars
<1>4. /\ \A d \in Conn \ {c} : phase'[d] = phase[d] /\ inTransaction'[d] = inTransaction[d]
      /\ phase'[c] = "wait" /\ ~inTransaction'[c]
  BY <1>1, <1>3 DEF TypeOK
<1>5. \A i \in Jobs : i.conn \in Conn \ {c}
  BY <1>1, <1>2, <1>3, NoJobs, Members
<1>6. cmdQueue \in Seq(OwnJobs) /\ txQueue \in Seq(OwnJobs)
  BY <1>1 DEF Held
<1>7. /\ ToSet(Append(cmdQueue, j)) = ToSet(cmdQueue) \cup {j}
      /\ ToSet(Append(txQueue, j)) = ToSet(txQueue) \cup {j}
  BY <1>6, AppendMembers
<1>8. \/ /\ cmdQueue' = Append(cmdQueue, j) /\ txQueue' = txQueue /\ ~j.tx
         /\ ToSet(cmdQueue)' = ToSet(cmdQueue) \cup {j} /\ ToSet(txQueue)' = ToSet(txQueue)
      \/ /\ txQueue' = Append(txQueue, j) /\ cmdQueue' = cmdQueue /\ j.tx
         /\ ToSet(txQueue)' = ToSet(txQueue) \cup {j} /\ ToSet(cmdQueue)' = ToSet(cmdQueue)
  BY <1>7
<1>9. Jobs' = Jobs \cup {j}
  <2>2. CASE cmdQueue' = Append(cmdQueue, j) /\ txQueue' = txQueue
    BY <1>3, <1>7, <2>2 DEF Jobs
  <2>3. CASE txQueue' = Append(txQueue, j) /\ cmdQueue' = cmdQueue
    BY <1>3, <1>7, <2>3 DEF Jobs
  <2> QED
    BY <1>8, <2>2, <2>3
<1>10. OneJobEach'
  <2>1. /\ OnceEach(cmdQueue) /\ OnceEach(txQueue)
        /\ \A i \in ToSet(cmdQueue), k \in ToSet(txQueue) : i.conn # k.conn
        /\ job # None => \A k \in ToSet(cmdQueue) \cup ToSet(txQueue) : k.conn # job.conn
    BY <1>2, OneJobIff DEF OneJobByMembers
  <2>2. /\ \A i \in ToSet(cmdQueue) : i.conn # c
        /\ \A i \in ToSet(txQueue) : i.conn # c
        /\ job # None => job.conn # c
    BY <1>5 DEF Jobs
  <2>3. OnceEach(Append(cmdQueue, j)) /\ OnceEach(Append(txQueue, j))
    BY <1>6, <2>1, <2>2, AppendOnce
  <2>4. OnceEach(cmdQueue)' /\ OnceEach(txQueue)'
    <3>1. CASE cmdQueue' = Append(cmdQueue, j) /\ txQueue' = txQueue
      BY <2>1, <2>3, <3>1 DEF OnceEach
    <3>2. CASE txQueue' = Append(txQueue, j) /\ cmdQueue' = cmdQueue
      BY <2>1, <2>3, <3>2 DEF OnceEach
    <3> QED
      BY <1>8, <3>1, <3>2
  <2>5. \A i \in ToSet(cmdQueue)', k \in ToSet(txQueue)' : i.conn # k.conn
    BY <1>8, <2>1, <2>2
  <2>6. job' # None => \A k \in ToSet(cmdQueue)' \cup ToSet(txQueue)' : k.conn # job'.conn
    BY <1>3, <1>8, <2>1, <2>2
  <2>7. \A i \in Jobs' : phase'[i.conn] = "wait" /\ ~inTransaction'[i.conn]
    BY <1>2, <1>4, <1>5, <1>9 DEF OneJobEach
  <2> QED
    BY <2>4, <2>5, <2>6, <2>7, OneJobNext DEF OneJobByMembers
<1>11. PICK this : this = ThisId(c)
  OBVIOUS
<1>12. /\ Taken(this)' /\ this \notin discarded /\ this \notin ToSet(executed)
       /\ \A id \in Id : Taken(id) => Taken(id)'
       /\ handled' \in [Conn -> Nat] /\ \A d \in Conn : handled[d] <= handled'[d]
  BY <1>1, <1>2, <1>3, <1>11, ThisIsNew
<1>13. ~j.tx => Len(j.cmds) = 1 /\ j.cmds[1].id = this /\ \A cmd \in ToSet(j.cmds) : cmd.id = this
  <2> SUFFICES ASSUME ~j.tx
               PROVE  Len(j.cmds) = 1 /\ j.cmds[1].id = this
                      /\ \A cmd \in ToSet(j.cmds) : cmd.id = this
    OBVIOUS
  <2>1. PICK cmd : cmd = CommandOf(c, r)
    OBVIOUS
  <2>2. j.cmds = <<cmd>> /\ cmd.id = this
    BY <1>11, <2>1 DEF CommandOf
  <2> QED
    BY <2>2 DEF ToSet
<1>14. Named'
  <2>1. \A d \in Conn : \A cmd \in ToSet(queuedCommands[d]) : Taken(cmd.id)' /\ cmd.id \notin discarded
    BY <1>1, <1>2, <1>12, Members DEF Named
  <2>2. \A i \in Jobs : \A cmd \in ToSet(i.cmds) : Taken(cmd.id)' /\ cmd.id \notin discarded
    BY <1>1, <1>2, <1>12, Members DEF Named
  <2>3. \A cmd \in ToSet(j.cmds) : Taken(cmd.id)' /\ cmd.id \notin discarded
    <3>1. CASE ~j.tx
      BY <1>12, <1>13, <3>1
    <3>2. CASE j.tx
      BY <2>1, <3>2
    <3> QED
      BY <3>1, <3>2
  <2>4. \A id \in discarded \cup ToSet(executed) : Taken(id)'
    BY <1>1, <1>2, <1>12, Members DEF Named
  <2> QED
    BY <1>3, <1>9, <2>1, <2>2, <2>3, <2>4 DEF Named
<1>15. JobsAreQueues'
  <2>1. /\ \A i \in ToSet(cmdQueue) : ~i.tx /\ \A cmd \in ToSet(i.cmds) : cmd.id \notin ToSet(executed)
        /\ \A i \in ToSet(txQueue) : i.tx
        /\ \A i \in Jobs : IF i.tx THEN i.cmds = queuedCommands[i.conn] ELSE Len(i.cmds) = 1
    BY <1>2 DEF JobsAreQueues
  <2>2. /\ \A i \in ToSet(cmdQueue)' : ~i.tx /\ \A cmd \in ToSet(i.cmds) : cmd.id \notin ToSet(executed)
        /\ \A i \in ToSet(txQueue)' : i.tx
    BY <1>8, <1>12, <1>13, <2>1
  <2>3. \A i \in Jobs' : IF i.tx THEN i.cmds = queuedCommands'[i.conn] ELSE Len(i.cmds) = 1
    BY <1>3, <1>9, <1>13, <2>1
  <2> QED
    BY <1>2, <1>3, <2>2, <2>3 DEF JobsAreQueues
<1>16. ASSUME QueuesEnd PROVE QueuesEnd'
  <2>1. \A d \in Conn : HasArray(d)' = HasArray(d)
    BY <1>3 DEF HasArray
  <2>2. \A d \in Conn : Sending(d)' <=> Sending(d)
    BY <1>3, <1>4 DEF Sending
  <2>3. \A d \in Conn : Answered(d) <=> HasArray(d) \/ Sending(d)
    BY <1>1, AnsweredIff
  <2>4. \A d \in Conn : Answered(d)' <=> HasArray(d)' \/ Sending(d)'
    BY AnsweredNext
  <2>5. \A d \in Conn : Answered(d)' <=> Answered(d)
    BY <2>1, <2>2, <2>3, <2>4
  <2>6. \A d \in Conn \ {c} : InExec(d)' <=> InExec(d)
    BY <1>9 DEF InExec, JobsOf
  <2>7. ~InExec(c) /\ (InExec(c)' <=> j.tx)
    BY <1>5, <1>9 DEF InExec, JobsOf
  <2>8. inTransaction[c] <=> j.tx
    OBVIOUS
  <2> QED
    BY <1>3, <1>4, <1>16, <2>5, <2>6, <2>7, <2>8 DEF QueuesEnd
<1> QED
  BY <1>2, <1>10, <1>14, <1>15, <1>16 DEF XInv

LEMMA ExecX ==
  ASSUME SStep, SStep', XInv, NEW c \in Conn, NEW r \in Requests[c], Exec(c, r)
  PROVE  XInv'
<1>1. TypeOK /\ TypeOK' /\ Held
  BY DEF SStep
<1>2. CASE inTransaction[c]
  <2> DEFINE j == [conn |-> c, tx |-> TRUE, cmds |-> queuedCommands[c]]
  <2>1. j \in OwnJobs /\ j.conn = c /\ j.tx /\ j.cmds = queuedCommands[c]
    BY <1>1, OwnJobType DEF Held
  <2>2. /\ Takes(c, r) /\ Await(c) /\ inTransaction' = [inTransaction EXCEPT ![c] = FALSE]
        /\ txQueue' = Append(txQueue, j)
        /\ UNCHANGED <<cmdQueue, queuedCommands, execVars, discarded, sockVars>>
    BY <1>2 DEF Exec
  <2> HIDE DEF j
  <2> QED
    BY <1>1, <1>2, <2>1, <2>2, SubmittedX
<1>3. CASE ~inTransaction[c]
  <2>1. /\ phase[c] = "read" /\ phase' = [phase EXCEPT ![c] = "send"]
        /\ handled' = [handled EXCEPT ![c] = @ + 1]
        /\ answer' = [answer EXCEPT ![c] = [kind |-> "error", arg |-> None, of |-> ThisId(c)]]
        /\ UNCHANGED <<inTransaction, queuedCommands, cmdQueue, txQueue, job, pos, executed,
                       discarded, out>>
    BY <1>3 DEF Exec, Takes, Reply, execVars, sockVars
  <2>2. /\ \A d \in Conn \ {c} : phase'[d] = phase[d] /\ answer'[d] = answer[d]
        /\ ~Sending(c) /\ ~Sending(c)'
    BY <1>1, <2>1 DEF TypeOK, Sending
  <2> QED
    BY <2>1, <2>2, XInvQuiet
<1> QED
  BY <1>2, <1>3

LEMMA DataCommandX ==
  ASSUME SStep, SStep', XInv, NEW c \in Conn, NEW r \in Requests[c], DataCommand(c, r)
  PROVE  XInv'
<1>1. TypeOK /\ TypeOK' /\ Held
  BY DEF SStep
<1>2. CASE ~(r.op = "ping" /\ inPubSubMode[c])
  <2> DEFINE j == [conn |-> c, tx |-> FALSE, cmds |-> <<CommandOf(c, r)>>]
  <2>1. j \in OwnJobs /\ j.conn = c /\ ~j.tx /\ j.cmds = <<CommandOf(c, r)>>
    <3>1. <<CommandOf(c, r)>> \in Seq(OwnCommands(c))
      BY <1>1, CommandType
    <3> QED
      BY <3>1, OwnJobType
  <2>2. /\ Takes(c, r) /\ Await(c) /\ cmdQueue' = Append(cmdQueue, j)
        /\ UNCHANGED <<txQueue, inTransaction, queuedCommands, execVars, discarded, sockVars>>
    BY <1>2 DEF DataCommand, connVars
  <2>3. ~inTransaction[c]
    BY DEF DataCommand, Admits, Queues, SessionHandlers, TransactionControl
  <2> HIDE DEF j
  <2> QED
    BY <1>1, <2>1, <2>2, <2>3, SubmittedX
<1>3. CASE r.op = "ping" /\ inPubSubMode[c]
  <2>1. /\ phase[c] = "read" /\ phase' = [phase EXCEPT ![c] = "send"]
        /\ handled' = [handled EXCEPT ![c] = @ + 1]
        /\ answer' = [answer EXCEPT ![c] = [kind |-> "pong", arg |-> None, of |-> ThisId(c)]]
        /\ UNCHANGED <<inTransaction, queuedCommands, cmdQueue, txQueue, job, pos, executed,
                       discarded, out>>
    BY <1>3 DEF DataCommand, Takes, Reply, connVars, execVars, sockVars
  <2>2. /\ \A d \in Conn \ {c} : phase'[d] = phase[d] /\ answer'[d] = answer[d]
        /\ ~Sending(c) /\ ~Sending(c)'
    BY <1>1, <2>1 DEF TypeOK, Sending
  <2> QED
    BY <2>1, <2>2, XInvQuiet
<1> QED
  BY <1>2, <1>3

\* The requests that are answered and nothing more, as far as jobs are concerned.
LEMMA AnsweredAtOnceX ==
  ASSUME SStep, SStep', XInv, NEW c \in Conn, NEW r \in Requests[c],
         \/ Refuse(c, r) \/ Subscribe(c, r) \/ Unsubscribe(c, r) \/ Auth(c, r) \/ SetUser(c, r)
         \/ Discard(c, r) /\ ~inTransaction[c]
  PROVE  XInv'
<1>1. TypeOK /\ TypeOK' /\ Held
  BY DEF SStep
<1>2. /\ phase[c] = "read" /\ handled' = [handled EXCEPT ![c] = @ + 1]
      /\ UNCHANGED <<inTransaction, queuedCommands, cmdQueue, txQueue, job, pos, executed,
                     discarded, out>>
      /\ \E p \in {"send", "store"} : phase' = [phase EXCEPT ![c] = p]
      /\ \E kind \in {"ok", "error", "subscribed", "unsubscribed", "stored"} : \E a :
           answer' = [answer EXCEPT ![c] = [kind |-> kind, arg |-> a, of |-> ThisId(c)]]
  BY DEF Refuse, Subscribe, Unsubscribe, Auth, SetUser, Discard, Takes, Reply, connVars,
     queueVars, execVars, sockVars
<1>3. /\ \A d \in Conn \ {c} : phase'[d] = phase[d] /\ answer'[d] = answer[d]
      /\ ~Sending(c) /\ ~Sending(c)'
  BY <1>1, <1>2 DEF TypeOK, Sending
<1> QED
  BY <1>2, <1>3, XInvQuiet

\* What is written: the answer, or a message.
LEMMA WrittenX ==
  ASSUME SStep, SStep', XInv, NEW c \in Conn, NEW w \in Written,
         out' = [out EXCEPT ![c] = Append(@, w)],
         UNCHANGED <<handled, inTransaction, queuedCommands, answer, cmdQueue, txQueue, job,
                     pos, executed, discarded>>,
         \/ /\ phase[c] = "send" /\ phase' = [phase EXCEPT ![c] = "read"] /\ w = answer[c]
         \/ phase' = phase /\ w.kind = "message"
  PROVE  XInv'
<1>1. TypeOK /\ TypeOK' /\ Held
  BY DEF SStep
<1>2. OneJobEach /\ Named /\ JobsAreQueues
  BY DEF XInv
<1>3. Jobs' = Jobs
  BY DEF Jobs
<1>4. \A d \in Conn : phase[d] = "wait" => phase'[d] = "wait"
  BY <1>1 DEF TypeOK
<1>5. OneJobEach'
  <2>1. \A j \in Jobs' : phase'[j.conn] = "wait" /\ ~inTransaction'[j.conn]
    BY <1>1, <1>2, <1>3, <1>4, Members DEF OneJobEach
  <2> QED
    BY <1>2, <2>1 DEF OneJobEach
<1>6. Named' /\ JobsAreQueues'
  BY <1>2, <1>3 DEF Named, JobsAreQueues, Taken
<1>7. ASSUME QueuesEnd PROVE QueuesEnd'
  <2>1. out'[c] = Append(out[c], w) /\ \A d \in Conn \ {c} : out'[d] = out[d]
    BY <1>1 DEF TypeOK
  <2>2. HasArray(c)' <=> HasArray(c) \/ w.kind = "array"
    <3> DEFINE s == out[c]
               u == Append(s, w)
    <3>1. s \in Seq(Written)
      BY <1>1 DEF TypeOK
    <3>2. /\ Len(u) = Len(s) + 1 /\ u[Len(s) + 1] = w /\ u \in Seq(Written)
          /\ \A k \in 1..Len(s) : u[k] = s[k]
      BY <3>1, AppendProperties
    <3>3. DOMAIN s = 1..Len(s) /\ Len(s) \in Nat /\ DOMAIN u = 1..(Len(s) + 1)
      BY <3>1, <3>2, LenProperties
    <3>4. out'[c] = u
      BY <2>1
    <3> HIDE DEF u
    <3>5. HasArray(c) <=> \E i \in 1..Len(s) : s[i].kind = "array"
      BY <3>3 DEF HasArray
    <3>6. HasArray(c)' <=> \E i \in 1..(Len(s) + 1) : u[i].kind = "array"
      BY <3>3, <3>4 DEF HasArray
    <3> HIDE DEF s
    <3> QED
      BY <3>2, <3>3, <3>5, <3>6
  <2>3. \A d \in Conn \ {c} : (HasArray(d)' <=> HasArray(d)) /\ (Sending(d)' <=> Sending(d))
    BY <1>1, <2>1 DEF HasArray, Sending, TypeOK
  <2>4. HasArray(c)' \/ Sending(c)' <=> HasArray(c) \/ Sending(c)
    <3>1. CASE phase[c] = "send" /\ phase' = [phase EXCEPT ![c] = "read"] /\ w = answer[c]
      <4>1. ~Sending(c)' /\ (Sending(c) <=> w.kind = "array")
        BY <1>1, <3>1 DEF TypeOK, Sending
      <4> QED
        BY <2>2, <4>1
    <3>2. CASE phase' = phase /\ w.kind = "message"
      <4>1. Sending(c)' <=> Sending(c)
        BY <3>2 DEF Sending
      <4> QED
        BY <2>2, <3>2, <4>1
    <3> QED
      BY <3>1, <3>2
  <2>5. \A d \in Conn : InExec(d)' <=> InExec(d)
    BY <1>3 DEF InExec, JobsOf
  <2>6. \A d \in Conn : HasArray(d)' \/ Sending(d)' <=> HasArray(d) \/ Sending(d)
    BY <2>3, <2>4
  <2> QED
    BY <1>1, <1>7, <2>5, <2>6, QueuesEndKept
<1> QED
  BY <1>2, <1>5, <1>6, <1>7 DEF XInv

LEMMA TakeX ==
  ASSUME SStep, TypeOK', XInv, TakeCommand \/ TakeTransaction
  PROVE  XInv'
<1>1. TypeOK /\ Held
  BY DEF SStep
<1>2. OneJobEach /\ Named /\ JobsAreQueues
  BY DEF XInv
<1>3. /\ job = None /\ pos' = 1
      /\ UNCHANGED <<phase, handled, inTransaction, queuedCommands, answer, executed,
                     discarded, out>>
  BY DEF TakeCommand, TakeTransaction, Take, connVars, sockVars
<1>4. cmdQueue \in Seq(OwnJobs) /\ txQueue \in Seq(OwnJobs)
  BY <1>1 DEF Held
<1>5. /\ OnceEach(cmdQueue) /\ OnceEach(txQueue)
      /\ \A i \in ToSet(cmdQueue), k \in ToSet(txQueue) : i.conn # k.conn
  BY <1>2, OneJobIff DEF OneJobByMembers
<1>6. /\ job' \in Jobs /\ job' # None
      /\ OnceEach(cmdQueue)' /\ OnceEach(txQueue)'
      /\ ToSet(cmdQueue)' \subseteq ToSet(cmdQueue) /\ ToSet(txQueue)' \subseteq ToSet(txQueue)
      /\ ToSet(cmdQueue) \cup ToSet(txQueue) = ToSet(cmdQueue)' \cup ToSet(txQueue)' \cup {job'}
      /\ \A k \in ToSet(cmdQueue)' \cup ToSet(txQueue)' : k.conn # job'.conn
      /\ job' \in ToSet(cmdQueue) \/ (job' \in ToSet(txQueue) /\ job' \notin ToSet(cmdQueue))
  <2>1. None \notin OwnJobs
    BY NoJobAssumption DEF OwnJobs
  <2>2. CASE TakeCommand
    <3>1. cmdQueue # <<>> /\ job' = Head(cmdQueue) /\ cmdQueue' = Tail(cmdQueue) /\ txQueue' = txQueue
      BY <2>2 DEF TakeCommand, Take
    <3>2. /\ Head(cmdQueue) \in OwnJobs
          /\ ToSet(cmdQueue) = ToSet(Tail(cmdQueue)) \cup {Head(cmdQueue)}
      BY <1>4, <3>1, HeadTailMembers
    <3>3. /\ OnceEach(Tail(cmdQueue))
          /\ \A k \in ToSet(Tail(cmdQueue)) : k.conn # Head(cmdQueue).conn
      BY <1>4, <1>5, <3>1, TailOnce
    <3>4. ToSet(cmdQueue)' = ToSet(Tail(cmdQueue)) /\ ToSet(txQueue)' = ToSet(txQueue)
      BY <3>1
    <3>5. OnceEach(cmdQueue)' /\ OnceEach(txQueue)'
      BY <1>5, <3>1, <3>3 DEF OnceEach
    <3> QED
      BY <1>5, <2>1, <3>1, <3>2, <3>3, <3>4, <3>5 DEF Jobs
  <2>3. CASE TakeTransaction
    <3>1. txQueue # <<>> /\ job' = Head(txQueue) /\ txQueue' = Tail(txQueue) /\ cmdQueue' = cmdQueue
      BY <2>3 DEF TakeTransaction, Take
    <3>2. /\ Head(txQueue) \in OwnJobs
          /\ ToSet(txQueue) = ToSet(Tail(txQueue)) \cup {Head(txQueue)}
      BY <1>4, <3>1, HeadTailMembers
    <3>3. /\ OnceEach(Tail(txQueue))
          /\ \A k \in ToSet(Tail(txQueue)) : k.conn # Head(txQueue).conn
      BY <1>4, <1>5, <3>1, TailOnce
    <3>4. ToSet(txQueue)' = ToSet(Tail(txQueue)) /\ ToSet(cmdQueue)' = ToSet(cmdQueue)
      BY <3>1
    <3>5. OnceEach(cmdQueue)' /\ OnceEach(txQueue)'
      BY <1>5, <3>1, <3>3 DEF OnceEach
    <3> QED
      BY <1>5, <2>1, <3>1, <3>2, <3>3, <3>4, <3>5 DEF Jobs
  <2> QED
    BY <2>2, <2>3
<1>7. Jobs' = Jobs
  BY <1>3, <1>6 DEF Jobs
<1>8. OneJobEach'
  <2>1. \A i \in ToSet(cmdQueue)', k \in ToSet(txQueue)' : i.conn # k.conn
    BY <1>5, <1>6
  <2>2. \A j \in Jobs' : phase'[j.conn] = "wait" /\ ~inTransaction'[j.conn]
    BY <1>2, <1>3, <1>7 DEF OneJobEach
  <2> QED
    BY <1>6, <2>1, <2>2, OneJobNext DEF OneJobByMembers
<1>9. Named'
  BY <1>2, <1>3, <1>7 DEF Named, Taken
<1>10. JobsAreQueues'
  <2>1. /\ \A j \in ToSet(cmdQueue) : ~j.tx /\ \A cmd \in ToSet(j.cmds) : cmd.id \notin ToSet(executed)
        /\ \A j \in ToSet(txQueue) : j.tx
        /\ \A j \in Jobs : IF j.tx THEN j.cmds = queuedCommands[j.conn] ELSE Len(j.cmds) = 1
    BY <1>2 DEF JobsAreQueues
  <2>2. job'.cmds \in Seq(Command) /\ Len(job'.cmds) \in Nat
    <3>1. job'.cmds \in Seq(Command)
      BY <1>1, <1>6, Members
    <3> QED
      BY <3>1, LenProperties
  <2>3. ~job'.tx => job'.cmds[1].id \notin ToSet(executed)
    <3> SUFFICES ASSUME ~job'.tx PROVE job'.cmds[1].id \notin ToSet(executed)
      OBVIOUS
    <3>1. job' \in ToSet(cmdQueue) /\ Len(job'.cmds) = 1
      BY <1>6, <2>1
    <3>2. job'.cmds[1] \in ToSet(job'.cmds)
      <4>1. DOMAIN job'.cmds = 1..1
        BY <2>2, <3>1, LenProperties
      <4> QED
        BY <4>1 DEF ToSet
    <3> QED
      BY <2>1, <3>1, <3>2
  <2>4. Len(executed) \in Nat
    BY <1>1, LenProperties DEF TypeOK
  <2>5. /\ \A j \in ToSet(cmdQueue)' : ~j.tx /\ \A cmd \in ToSet(j.cmds) : cmd.id \notin ToSet(executed')
        /\ \A j \in ToSet(txQueue)' : j.tx
        /\ \A j \in Jobs' : IF j.tx THEN j.cmds = queuedCommands'[j.conn] ELSE Len(j.cmds) = 1
    BY <1>3, <1>6, <1>7, <2>1
  <2>6. /\ pos' <= Len(job'.cmds) + 1 /\ pos' - 1 <= Len(executed')
        /\ \A k \in 1 .. pos' - 1 :
             executed'[Len(executed') - (pos' - 1) + k] = job'.cmds[k].id
    BY <1>3, <2>2, <2>4
  <2> QED
    BY <1>3, <2>3, <2>5, <2>6 DEF JobsAreQueues
<1>11. ASSUME QueuesEnd PROVE QueuesEnd'
  <2>1. \A d \in Conn : /\ InExec(d)' <=> InExec(d)
                        /\ HasArray(d)' \/ Sending(d)' <=> HasArray(d) \/ Sending(d)
    BY <1>3, <1>7 DEF InExec, JobsOf, HasArray, Sending
  <2> QED
    BY <1>1, <1>3, <1>11, <2>1, QueuesEndKept
<1> QED
  BY <1>2, <1>8, <1>9, <1>10, <1>11 DEF XInv

\* The command at which the executor is belongs to the job's commands.
LEMMA CurrentOfJob ==
  ASSUME TypeOK, Held, Known, Running
  PROVE  /\ job \in Jobs /\ Current \in ToSet(job.cmds) /\ pos \in 1..Len(job.cmds)
         /\ Len(job.cmds) \in Nat /\ Current.id \in Id /\ Current.id[1] = job.conn
<1>1. job \in Jobs /\ Current.id \in Id /\ Current.id[1] = job.conn
  BY CurrentType
<1>2. job.cmds \in Seq(Command)
  BY <1>1, Members
<1>3. DOMAIN job.cmds = 1..Len(job.cmds) /\ Len(job.cmds) \in Nat
  BY <1>2, LenProperties
<1>4. pos \in 1..Len(job.cmds)
  BY <1>3 DEF Running, TypeOK
<1>5. Current \in ToSet(job.cmds)
  BY <1>3, <1>4 DEF Current, ToSet
<1> QED
  BY <1>1, <1>3, <1>4, <1>5

LEMMA ExecutedX ==
  ASSUME SStep, TypeOK', XInv, Running, executed' = Append(executed, Current.id), pos' = pos + 1,
         UNCHANGED <<phase, handled, connVars, answer, queueVars, job, discarded, sockVars>>
  PROVE  XInv'
<1>1. TypeOK /\ Held /\ Known
  BY DEF SStep
<1>2. OneJobEach /\ Named /\ JobsAreQueues
  BY DEF XInv
<1>3. UNCHANGED <<phase, handled, inTransaction, queuedCommands, answer, cmdQueue, txQueue,
                  job, discarded, out>>
  BY DEF connVars, queueVars, sockVars
<1>4. /\ job \in Jobs /\ Current \in ToSet(job.cmds) /\ pos \in 1..Len(job.cmds)
      /\ Len(job.cmds) \in Nat /\ Current.id \in Id /\ Current.id[1] = job.conn
      /\ job # None
  BY <1>1, CurrentOfJob DEF Running
<1>5. Jobs' = Jobs
  BY <1>3 DEF Jobs
<1>6. executed \in Seq(Id) /\ ToSet(executed') = ToSet(executed) \cup {Current.id}
  <2>1. executed \in Seq(Id)
    BY <1>1 DEF TypeOK
  <2> QED
    BY <1>4, <2>1, AppendMembers
<1>7. OneJobEach'
  BY <1>2, <1>3, <1>5 DEF OneJobEach
<1>8. Named'
  <2>1. Taken(Current.id)
    BY <1>2, <1>4 DEF Named
  <2>2. \A id \in discarded \cup ToSet(executed') : Taken(id)
    BY <1>2, <1>6, <2>1 DEF Named
  <2>3. \A id : Taken(id)' <=> Taken(id)
    BY <1>3 DEF Taken
  <2> QED
    BY <1>2, <1>3, <1>5, <2>2, <2>3 DEF Named
<1>9. JobsAreQueues'
  <2>1. ASSUME NEW j \in ToSet(cmdQueue), NEW cmd \in ToSet(j.cmds)
        PROVE  ~j.tx /\ cmd.id \notin ToSet(executed')
    <3>1. j \in Jobs /\ j.conn # job.conn /\ ~j.tx /\ cmd.id \notin ToSet(executed)
      BY <1>2, <1>4 DEF Jobs, OneJobEach, JobsAreQueues
    <3>2. cmd.id[1] = j.conn
      BY <1>1, <3>1, Members
    <3> QED
      BY <1>4, <1>6, <3>1, <3>2
  <2>2. pos' <= Len(job'.cmds) + 1 /\ pos' # 1
    BY <1>3, <1>4
  <2>3. ASSUME job.tx
        PROVE  /\ pos' - 1 <= Len(executed')
               /\ \A k \in 1 .. pos' - 1 :
                    executed'[Len(executed') - (pos' - 1) + k] = job'.cmds[k].id
    <3> DEFINE n == Len(executed)
               u == Append(executed, Current.id)
    <3>1. /\ u[n + 1] = Current.id /\ Len(u) = n + 1 /\ n \in Nat
          /\ \A k \in 1..n : u[k] = executed[k]
      BY <1>4, <1>6, AppendProperties, LenProperties
    <3>2. /\ pos - 1 <= n
          /\ \A k \in 1 .. pos - 1 : executed[n - (pos - 1) + k] = job.cmds[k].id
      BY <1>2, <1>4, <2>3 DEF JobsAreQueues
    <3>3. executed' = u /\ pos' - 1 = pos /\ pos \in Nat \ {0}
      BY <1>4
    <3>4. Current.id = job.cmds[pos].id
      BY DEF Current
    <3> HIDE DEF u, n
    <3>5. ASSUME NEW k \in 1..pos PROVE u[n + 1 - pos + k] = job.cmds[k].id
      <4>1. CASE k = pos
        <5>1. n + 1 - pos + k = n + 1
          BY <3>1, <3>3, <4>1
        <5> QED
          BY <3>1, <3>4, <4>1, <5>1
      <4>2. CASE k # pos
        <5>1. k \in 1..(pos - 1) /\ n + 1 - pos + k \in 1..n /\ n + 1 - pos + k = n - (pos - 1) + k
          BY <3>1, <3>2, <3>3, <4>2
        <5> QED
          BY <3>1, <3>2, <5>1
      <4> QED
        BY <4>1, <4>2
    <3>6. Len(executed') = n + 1 /\ pos' - 1 <= Len(executed')
      BY <3>1, <3>2, <3>3
    <3>7. ASSUME NEW k \in 1 .. pos' - 1
          PROVE  executed'[Len(executed') - (pos' - 1) + k] = job'.cmds[k].id
      <4>1. k \in 1..pos /\ Len(executed') - (pos' - 1) + k = n + 1 - pos + k
        BY <3>1, <3>3, <3>6
      <4>2. executed'[n + 1 - pos + k] = job.cmds[k].id
        BY <3>3, <3>5, <4>1
      <4> QED
        BY <1>3, <4>1, <4>2
    <3> QED
      BY <3>6, <3>7
  <2>4. /\ \A j \in ToSet(cmdQueue)' : ~j.tx
        /\ \A j \in ToSet(cmdQueue)' : \A cmd \in ToSet(j.cmds) : cmd.id \notin ToSet(executed')
    <3>1. ToSet(cmdQueue)' = ToSet(cmdQueue)
      BY <1>3
    <3> QED
      BY <1>2, <2>1, <3>1 DEF JobsAreQueues
  <2>5. /\ \A j \in ToSet(txQueue)' : j.tx
        /\ \A j \in Jobs' : IF j.tx THEN j.cmds = queuedCommands'[j.conn] ELSE Len(j.cmds) = 1
    BY <1>2, <1>3, <1>5 DEF JobsAreQueues
  <2> QED
    BY <1>3, <2>2, <2>3, <2>4, <2>5 DEF JobsAreQueues
<1>10. ASSUME QueuesEnd PROVE QueuesEnd'
  <2>1. \A d \in Conn : /\ InExec(d)' <=> InExec(d)
                        /\ HasArray(d)' \/ Sending(d)' <=> HasArray(d) \/ Sending(d)
    BY <1>3, <1>5 DEF InExec, JobsOf, HasArray, Sending
  <2> QED
    BY <1>1, <1>3, <1>10, <2>1, QueuesEndKept
<1> QED
  BY <1>2, <1>7, <1>8, <1>9, <1>10 DEF XInv

\* The job is done: its connection has no other, and goes on to answer.
LEMMA FinishX == ASSUME SStep, TypeOK', XInv, Finish PROVE XInv'
<1>1. TypeOK /\ Held
  BY DEF SStep
<1>2. OneJobEach /\ Named /\ JobsAreQueues
  BY DEF XInv
<1>3. /\ UNCHANGED <<handled, inTransaction, queuedCommands, cmdQueue, txQueue, pos, executed,
                     discarded, out>>
      /\ job # None /\ job' = None
      /\ phase' = [phase EXCEPT ![job.conn] = "send"]
      /\ answer' = [answer EXCEPT ![job.conn] =
                      [kind |-> IF job.tx THEN "array" ELSE "result", arg |-> None,
                       of |-> <<job.conn, handled[job.conn]>>]]
  BY DEF Finish, connVars, queueVars, sockVars
<1>4. job \in Jobs
  BY <1>3 DEF Jobs
<1>5. PICK c \in Conn : c = job.conn
  BY <1>1, <1>4, Members
<1>6. /\ phase'[c] = "send" /\ answer'[c].kind = (IF job.tx THEN "array" ELSE "result")
      /\ \A d \in Conn \ {c} : phase'[d] = phase[d] /\ answer'[d] = answer[d]
      /\ phase[c] = "wait" /\ ~inTransaction[c]
  BY <1>1, <1>2, <1>3, <1>4, <1>5 DEF TypeOK, OneJobEach
<1>7. /\ Jobs' = ToSet(cmdQueue) \cup ToSet(txQueue) /\ Jobs = Jobs' \cup {job}
      /\ \A j \in Jobs' : j.conn # c
  BY <1>2, <1>3, <1>5 DEF Jobs, OneJobEach
<1>8. OneJobEach'
  <2>1. \A j \in Jobs' : phase'[j.conn] = "wait" /\ ~inTransaction'[j.conn]
    BY <1>1, <1>2, <1>3, <1>6, <1>7, Members DEF OneJobEach
  <2> QED
    BY <1>2, <1>3, <2>1 DEF OneJobEach
<1>9. Named'
  BY <1>2, <1>3, <1>7 DEF Named, Taken
<1>10. JobsAreQueues'
  BY <1>2, <1>3, <1>7 DEF JobsAreQueues
<1>11. ASSUME QueuesEnd PROVE QueuesEnd'
  <2>1. \A d \in Conn \ {c} :
          /\ InExec(d)' <=> InExec(d)
          /\ HasArray(d)' <=> HasArray(d)
          /\ Sending(d)' <=> Sending(d)
    BY <1>3, <1>5, <1>6, <1>7 DEF InExec, JobsOf, HasArray, Sending
  <2>2. /\ ~InExec(c)' /\ (InExec(c) <=> job.tx) /\ (HasArray(c)' <=> HasArray(c))
        /\ ~Sending(c) /\ (Sending(c)' <=> job.tx)
    BY <1>3, <1>5, <1>6, <1>7 DEF InExec, JobsOf, HasArray, Sending
  <2>3. \A d \in Conn : Answered(d) <=> HasArray(d) \/ Sending(d)
    BY <1>1, AnsweredIff
  <2>4. \A d \in Conn : Answered(d)' <=> HasArray(d)' \/ Sending(d)'
    BY AnsweredNext
  <2>5. ASSUME NEW d \in Conn
        PROVE  /\ inTransaction'[d] \/ InExec(d)' => ~Answered(d)'
               /\ queuedCommands'[d] # <<>> => inTransaction'[d] \/ InExec(d)' \/ Answered(d)'
    <3>1. CASE d = c
      BY <1>3, <1>6, <1>11, <2>2, <2>3, <2>4, <3>1 DEF QueuesEnd
    <3>2. CASE d # c
      BY <1>3, <1>11, <2>1, <2>3, <2>4, <3>2 DEF QueuesEnd
    <3> QED
      BY <3>1, <3>2
  <2> QED
    BY <2>5 DEF QueuesEnd
<1> QED
  BY <1>2, <1>8, <1>9, <1>10, <1>11 DEF XInv

LEMMA InitXInv == Init => XInv
<1> SUFFICES ASSUME Init PROVE XInv
  OBVIOUS
<1>1. ToSet(<<>>) = {} /\ DOMAIN <<>> = {}
  BY EmptySeq DEF ToSet
<1>2. Jobs = {}
  BY <1>1 DEF Init, Jobs
<1>3. TypeOK
  BY InitSInv DEF SInv
<1>4. OneJobEach
  BY <1>1, <1>2 DEF Init, OneJobEach
<1>5. Named
  BY <1>1, <1>2 DEF Init, Named
<1>6. JobsAreQueues
  BY <1>1, <1>2 DEF Init, JobsAreQueues
<1>7. QueuesEnd
  BY <1>2 DEF Init, QueuesEnd, InExec, JobsOf
<1> QED
  BY <1>4, <1>5, <1>6, <1>7 DEF XInv

LEMMA NextXInv == ASSUME SInv, XInv, [Next]_vars PROVE XInv'
<1>1. SStep /\ SStep' /\ TypeOK'
  <2>1. SStep
    BY SInvIff
  <2> QED
    BY <2>1, NextSStep DEF SStep
<1>2. TypeOK /\ Held
  BY <1>1 DEF SStep
<1>3. ASSUME NEW c \in Conn, NEW r \in Requests[c], Route(c, r) PROVE XInv'
  <2>1. Discard(c, r) => XInv'
    BY <1>1, DiscardedX, AnsweredAtOnceX
  <2> QED
    BY <1>1, <1>3, <2>1, AnsweredAtOnceX, QueueCommandX, DataCommandX, MultiX, ExecX DEF Route
<1>4. ASSUME NEW c \in Conn, Accept(c) \/ StorePasswords(c) \/ Leave(c) PROVE XInv'
  <2>1. /\ phase[c] # "wait"
        /\ UNCHANGED <<handled, inTransaction, queuedCommands, cmdQueue, txQueue, job, pos,
                       executed, discarded, out, answer>>
        /\ \/ phase[c] \in {"absent", "read"} /\ phase' = [phase EXCEPT ![c] = "read"]
           \/ phase[c] = "read" /\ phase' = [phase EXCEPT ![c] = "gone"]
           \/ phase[c] = "store" /\ phase' = [phase EXCEPT ![c] = "send"]
    BY <1>4 DEF Accept, StorePasswords, Leave, connVars, queueVars, execVars, sockVars
  <2>2. \A d \in Conn \ {c} : phase'[d] = phase[d] /\ answer'[d] = answer[d]
    BY <1>2, <2>1 DEF TypeOK
  <2>3. Sending(c)' <=> Sending(c)
    BY <1>2, <2>1 DEF TypeOK, Sending
  <2> QED
    BY <1>1, <2>1, <2>2, <2>3, XInvQuiet
<1>5. ASSUME NEW c \in Conn, Disconnect(c) \/ ReadReply(c) PROVE XInv'
  <2>1. UNCHANGED <<phase, handled, inTransaction, queuedCommands, answer, cmdQueue,
                    txQueue, job, pos, executed, discarded, out>>
    BY <1>5 DEF Disconnect, ReadReply, connVars, queueVars, execVars
  <2> QED
    BY <2>1, XInvKept
<1>6. ASSUME NEW c \in Conn, SendResponse(c) PROVE XInv'
  <2>1. /\ out' = [out EXCEPT ![c] = Append(@, answer[c])]
        /\ UNCHANGED <<handled, inTransaction, queuedCommands, answer, cmdQueue, txQueue,
                       job, pos, executed, discarded>>
        /\ phase[c] = "send" /\ phase' = [phase EXCEPT ![c] = "read"]
    BY <1>6 DEF SendResponse, connVars, queueVars, execVars
  <2>2. PICK w \in Written : w = answer[c]
    BY <1>2 DEF TypeOK
  <2>3. out' = [out EXCEPT ![c] = Append(@, w)]
    BY <2>1, <2>2
  <2> QED
    BY <1>1, <2>1, <2>2, <2>3, WrittenX
<1>7. ASSUME TakeCommand \/ TakeTransaction \/ Finish PROVE XInv'
  BY <1>1, <1>7, TakeX, FinishX
<1>8. ASSUME ExecuteCommand \/ PublishEnd PROVE XInv'
  <2>1. Running /\ executed' = Append(executed, Current.id) /\ pos' = pos + 1
    BY <1>2, <1>8 DEF Held, ExecuteCommand, PublishEnd
  <2>2. UNCHANGED <<phase, handled, connVars, answer, queueVars, job, discarded, sockVars>>
    BY <1>8 DEF ExecuteCommand, PublishEnd
  <2> QED
    BY <1>1, <2>1, <2>2, ExecutedX
<1>9. ASSUME PublishStart \/ UNCHANGED vars PROVE XInv'
  <2>1. UNCHANGED <<phase, handled, inTransaction, queuedCommands, answer, cmdQueue,
                    txQueue, job, pos, executed, discarded, out>>
    BY <1>9 DEF PublishStart, vars, connVars, queueVars, execVars, sockVars
  <2> QED
    BY <2>1, XInvKept
<1>10. ASSUME PublishTo PROVE XInv'
  <2>1. /\ out' = [out EXCEPT ![Head(targets)] = Append(@, Message)]
        /\ UNCHANGED <<phase, handled, inTransaction, queuedCommands, answer, cmdQueue, txQueue,
                       job, pos, executed, discarded>>
        /\ publishing /\ targets # <<>>
    BY <1>10 DEF PublishTo, connVars, queueVars
  <2>2. targets \in Seq(Conn) /\ Running /\ Current.op = "publish"
    BY <1>2, <2>1 DEF Held, TypeOK
  <2>3. PICK c \in Conn : c = Head(targets)
    BY <2>1, <2>2, HeadTailMembers
  <2>4. PICK w : w = Message
    OBVIOUS
  <2>5. w \in Written /\ w.kind = "message"
    BY <1>1, <2>2, <2>4, MessageType DEF SStep
  <2>6. out' = [out EXCEPT ![c] = Append(@, w)]
    BY <2>1, <2>3, <2>4
  <2> QED
    BY <1>1, <2>1, <2>5, <2>6, WrittenX
<1> QED
  BY <1>3, <1>4, <1>5, <1>6, <1>7, <1>8, <1>9, <1>10 DEF Next, ConnStep, ExecutorStep

-----------------------------------------------------------------------------
(* The refinement of Transactions.                                         *)

LEMMA ModeValue ==
  ASSUME NEW c \in Conn
  PROVE  /\ Mode[c] = ModeOf(c) /\ Batch[c] = BatchOf(c)
         /\ inTransaction[c] => Mode[c] = "multi"
         /\ ~inTransaction[c] /\ InExec(c) => Mode[c] = "exec"
         /\ ~inTransaction[c] /\ ~InExec(c) => Mode[c] = "none"
         /\ Mode[c] # "none" => Batch[c] = Names(queuedCommands[c])
         /\ Mode[c] = "none" => Batch[c] = <<>>
BY DEF Mode, Batch, ModeOf, BatchOf

\* What the refinement shows of c depends on these alone.
LEMMA ShownKept ==
  ASSUME NEW c \in Conn,
         inTransaction'[c] = inTransaction[c], InExec(c)' <=> InExec(c),
         queuedCommands'[c] = queuedCommands[c]
  PROVE  ModeOf(c)' = ModeOf(c) /\ BatchOf(c)' = BatchOf(c)
<1>1. ModeOf(c)' = ModeOf(c)
  BY DEF ModeOf
<1> QED
  BY <1>1 DEF BatchOf

LEMMA AllShownKept ==
  ASSUME \A c \in Conn : /\ inTransaction'[c] = inTransaction[c] /\ (InExec(c)' <=> InExec(c))
                         /\ queuedCommands'[c] = queuedCommands[c]
  PROVE  Mode' = Mode /\ Batch' = Batch
<1>1. \A c \in Conn : ModeOf(c)' = ModeOf(c) /\ BatchOf(c)' = BatchOf(c)
  BY ShownKept
<1> QED
  BY <1>1 DEF Mode, Batch

\* A step of c alone.
LEMMA OneShown ==
  ASSUME NEW c \in Conn,
         \A d \in Conn \ {c} : /\ inTransaction'[d] = inTransaction[d] /\ (InExec(d)' <=> InExec(d))
                               /\ queuedCommands'[d] = queuedCommands[d]
  PROVE  /\ Mode' = [Mode EXCEPT ![c] = ModeOf(c)']
         /\ Batch' = [Batch EXCEPT ![c] = BatchOf(c)']
<1>1. \A d \in Conn \ {c} : ModeOf(d)' = ModeOf(d) /\ BatchOf(d)' = BatchOf(d)
  BY ShownKept
<1>2. Mode' = [d \in Conn |-> IF d = c THEN ModeOf(c)' ELSE Mode[d]]
  BY <1>1 DEF Mode
<1>3. Batch' = [d \in Conn |-> IF d = c THEN BatchOf(c)' ELSE Batch[d]]
  BY <1>1 DEF Batch
<1>4. Mode = [d \in Conn |-> Mode[d]] /\ Batch = [d \in Conn |-> Batch[d]]
  BY DEF Mode, Batch
<1> QED
  BY <1>2, <1>3, <1>4

\* What has run in batches has run.
LEMMA RanType ==
  ASSUME TypeOK, XInv
  PROVE  Ran \in Seq(Id) /\ ToSet(Ran) \subseteq ToSet(executed)
<1>1. executed \in Seq(Id)
  BY DEF TypeOK
<1>2. CASE job # None /\ job.tx
  <2> DEFINE s == executed
             m == Len(s) - (pos - 1)
             u == SubSeq(s, 1, m)
  <2>1. Len(s) \in Nat /\ pos \in Nat \ {0} /\ pos - 1 <= Len(s) /\ DOMAIN s = 1..Len(s)
    BY <1>1, <1>2, LenProperties DEF XInv, JobsAreQueues, TypeOK
  <2>2. m \in Nat /\ m <= Len(s)
    BY <2>1
  <2>3. Ran = u
    BY <1>2 DEF Ran
  <2> HIDE DEF m, s
  <2>4. s \in Seq(Id)
    BY <1>1 DEF s
  <2>5. u \in Seq(Id) /\ Len(u) = m /\ \A i \in 1..m : u[i] = s[i]
    BY <2>1, <2>2, <2>4, SubSeqProperties
  <2>6. DOMAIN u = 1..m
    BY <2>5, LenProperties
  <2> HIDE DEF u
  <2>7. ToSet(u) \subseteq ToSet(s)
    BY <2>1, <2>2, <2>5, <2>6 DEF ToSet
  <2> QED
    BY <2>3, <2>5, <2>7 DEF s
<1>3. CASE ~(job # None /\ job.tx)
  BY <1>1, <1>3 DEF Ran
<1> QED
  BY <1>2, <1>3

\* The names of an empty queue, and of one that grew.
LEMMA NamesOfNone == Names(<<>>) = <<>>
BY DEF Names

LEMMA NamesAppended ==
  ASSUME NEW q \in Seq(Command), NEW cmd \in Command
  PROVE  /\ Names(q) \in Seq(Id)
         /\ Names(Append(q, cmd)) = Append(Names(q), cmd.id)
         /\ Names(Append(q, cmd)) # <<>> /\ Last(Names(Append(q, cmd))) = cmd.id
<1> DEFINE n == Len(q)
           u == Append(q, cmd)
<1>1. /\ Len(u) = n + 1 /\ u[n + 1] = cmd /\ u \in Seq(Command)
      /\ \A k \in 1..n : u[k] = q[k]
  BY AppendProperties
<1>2. DOMAIN q = 1..n /\ n \in Nat /\ DOMAIN u = 1..(n + 1)
  BY <1>1, LenProperties
<1>3. \A k \in 1..n : q[k] \in Command
  BY ElementOfSeq
<1> HIDE DEF u, n
<1>4. Names(q) = [i \in 1..n |-> q[i].id]
  BY <1>2 DEF Names
<1>5. Names(u) = [i \in 1..(n + 1) |-> u[i].id]
  BY <1>2 DEF Names
<1>6. \A k \in 1..n : q[k].id \in Id
  BY <1>3 DEF Command
<1>7. cmd.id \in Id
  BY DEF Command
<1> DEFINE a == Names(q)
           b == Names(u)
           x == cmd.id
<1>8. a \in Seq(Id) /\ Len(a) = n /\ \A k \in 1..n : a[k] = q[k].id
  BY <1>2, <1>4, <1>6
<1>9. b \in Seq(Id) /\ Len(b) = n + 1 /\ (\A k \in 1..n : b[k] = q[k].id) /\ b[n + 1] = x
  BY <1>1, <1>2, <1>5, <1>6, <1>7
<1>10. x \in Id
  BY <1>7
<1> HIDE DEF a, b, x
<1>11. /\ Append(a, x) \in Seq(Id) /\ Len(Append(a, x)) = n + 1 /\ Append(a, x)[n + 1] = x
       /\ \A k \in 1..n : Append(a, x)[k] = a[k]
  BY <1>8, <1>10, AppendProperties
<1>12. b = Append(a, x)
  <2>1. \A k \in 1..(n + 1) : b[k] = Append(a, x)[k]
    BY <1>2, <1>8, <1>9, <1>11
  <2> QED
    BY <1>9, <1>11, <2>1, SeqEqual
<1>13. b # <<>> /\ Last(b) = x
  BY <1>2, <1>9, EmptySeq DEF Last
<1> QED
  BY <1>8, <1>12, <1>13 DEF a, b, x, u

Shown == <<Ran, Batch, Mode>>

\* Steps that touch neither jobs, nor modes, nor queues show nothing.
LEMMA NothingShown ==
  ASSUME UNCHANGED <<inTransaction, queuedCommands, cmdQueue, txQueue, job, pos, executed>>
  PROVE  UNCHANGED Shown
<1>1. Jobs' = Jobs
  BY DEF Jobs
<1>2. Ran' = Ran
  BY DEF Ran
<1>3. \A c \in Conn : InExec(c)' <=> InExec(c)
  BY <1>1 DEF InExec, JobsOf
<1> QED
  BY <1>2, <1>3, AllShownKept DEF Shown

LEMMA QueueCommandShown ==
  ASSUME SInv, XInv, NEW c \in Conn, NEW r \in Requests[c], QueueCommand(c, r)
  PROVE  Batches!Queue(c)
<1>1. SStep /\ TypeOK /\ Held /\ Named
  BY SInvIff DEF SStep, XInv
<1>2. /\ phase[c] = "read" /\ handled' = [handled EXCEPT ![c] = @ + 1] /\ inTransaction[c]
      /\ queuedCommands' = [queuedCommands EXCEPT ![c] = Append(@, CommandOf(c, r))]
      /\ UNCHANGED <<inTransaction, cmdQueue, txQueue, job, pos, executed>>
  BY DEF QueueCommand, Takes, Queues, queueVars, execVars
<1>3. PICK this : this = ThisId(c)
  OBVIOUS
<1>4. this \in Id /\ this[1] = c /\ ~Taken(this) /\ this \notin ToSet(executed)
  BY <1>1, <1>2, <1>3, ThisIsNew
<1>5. PICK cmd : cmd = CommandOf(c, r)
  OBVIOUS
<1>6. cmd \in Command /\ cmd.id = this
  <2>1. cmd \in OwnCommands(c)
    BY <1>1, <1>5, CommandType
  <2> QED
    BY <1>3, <1>5, <2>1 DEF OwnCommands, CommandOf
<1>7. PICK q \in Seq(Command) : q = queuedCommands[c]
  BY <1>1 DEF TypeOK
<1>8. /\ queuedCommands'[c] = Append(q, cmd)
      /\ \A d \in Conn \ {c} : queuedCommands'[d] = queuedCommands[d]
  BY <1>1, <1>2, <1>5, <1>7 DEF TypeOK
<1>9. Jobs' = Jobs /\ Ran' = Ran
  BY <1>2 DEF Jobs, Ran
<1>10. \A d \in Conn : InExec(d)' <=> InExec(d)
  BY <1>9 DEF InExec, JobsOf
<1>11. /\ Mode' = [Mode EXCEPT ![c] = ModeOf(c)'] /\ Batch' = [Batch EXCEPT ![c] = BatchOf(c)']
  BY <1>2, <1>8, <1>10, OneShown
<1>12. ModeOf(c)' = "multi" /\ ModeOf(c) = "multi"
  BY <1>2 DEF ModeOf
<1>13. Mode[c] = "multi" /\ Batch[c] = Names(q)
  BY <1>2, <1>7, <1>12, ModeValue
<1>14. BatchOf(c)' = Names(Append(q, cmd))
  BY <1>8, <1>12 DEF BatchOf, Names
<1>15. /\ Names(q) \in Seq(Id) /\ Names(Append(q, cmd)) = Append(Names(q), this)
       /\ Names(Append(q, cmd)) # <<>> /\ Last(Names(Append(q, cmd))) = this
  BY <1>6, NamesAppended
<1>16. Mode' = Mode
  BY <1>11, <1>12, <1>13 DEF Mode
<1>17. /\ Batch'[c] = Append(Names(q), this) /\ Batch'[c] # <<>> /\ Last(Batch'[c]) = this
       /\ Batch' = [Batch EXCEPT ![c] = Append(@, Last(Batch'[c]))]
  <2>1. Batch'[c] = BatchOf(c)'
    BY <1>11 DEF Batch
  <2> QED
    BY <1>11, <1>13, <1>14, <1>15, <2>1
<1>18. this \notin ToSet(Ran) /\ this \notin ToSet(Batch[c])
  <2>1. this \notin ToSet(Ran)
    BY <1>1, <1>4, RanType
  <2>2. this \notin ToSet(Names(q))
    <3> SUFFICES ASSUME NEW i \in DOMAIN Names(q), Names(q)[i] = this PROVE FALSE
      BY DEF ToSet
    <3>1. i \in DOMAIN q /\ q[i].id = this
      BY DEF Names
    <3>2. q[i] \in ToSet(queuedCommands[c])
      BY <1>7, <3>1 DEF ToSet
    <3> QED
      BY <1>1, <1>4, <3>1, <3>2 DEF Named
  <2> QED
    BY <1>13, <2>1, <2>2
<1> QED
  BY <1>4, <1>9, <1>13, <1>16, <1>17, <1>18
  DEF Batches!Queue, Batches!New, ToSet, Last, Batches!ToSet, Batches!Last

LEMMA MultiShown ==
  ASSUME SInv, XInv, OneExec, NEW c \in Conn, NEW r \in Requests[c], Multi(c, r)
  PROVE  Batches!Multi(c)
<1>1. SStep /\ TypeOK /\ Held /\ OneJobEach /\ QueuesEnd
  BY SInvIff DEF SStep, XInv
<1>2. /\ phase[c] = "read" /\ r.op = "multi" /\ Execs(c) < MaxExec /\ ~Queues(c, r)
      /\ inTransaction' = [inTransaction EXCEPT ![c] = TRUE]
      /\ UNCHANGED <<queuedCommands, cmdQueue, txQueue, job, pos, executed>>
  BY DEF Multi, Takes, Admits, queueVars, execVars
<1>3. ~inTransaction[c]
  BY <1>2 DEF Queues, TransactionControl
<1>4. \A j \in Jobs : j.conn # c
  BY <1>1, <1>2, NoJobs
<1>5. ~InExec(c)
  BY <1>4 DEF InExec, JobsOf
<1>6. ~Answered(c)
  <2>1. Execs(c) \in Nat /\ MaxExec \in Nat
    BY <1>1, ExecsCount, ConstantsAssumption
  <2>2. ~(Execs(c) > 0)
    BY <1>2, <2>1 DEF OneExec
  <2> QED
    BY <1>2, <2>2 DEF Answered
<1>7. queuedCommands[c] = <<>>
  BY <1>1, <1>3, <1>5, <1>6 DEF QueuesEnd
<1>8. Jobs' = Jobs /\ Ran' = Ran
  BY <1>2 DEF Jobs, Ran
<1>9. /\ \A d \in Conn : InExec(d)' <=> InExec(d)
      /\ inTransaction'[c]
      /\ \A d \in Conn \ {c} : inTransaction'[d] = inTransaction[d]
  BY <1>1, <1>2, <1>8 DEF InExec, JobsOf, TypeOK
<1>10. /\ Mode' = [Mode EXCEPT ![c] = ModeOf(c)'] /\ Batch' = [Batch EXCEPT ![c] = BatchOf(c)']
  BY <1>2, <1>9, OneShown
<1>11. ModeOf(c)' = "multi" /\ Mode[c] = "none" /\ Batch[c] = <<>>
  BY <1>3, <1>5, <1>9, ModeValue DEF ModeOf
<1>12. BatchOf(c)' = <<>>
  BY <1>2, <1>7, <1>11, NamesOfNone DEF BatchOf, Names
<1>13. Batch' = Batch
  BY <1>10, <1>11, <1>12 DEF Batch
<1> QED
  BY <1>8, <1>10, <1>11, <1>13 DEF Batches!Multi, Batches!Enter

LEMMA DiscardShown ==
  ASSUME SInv, XInv, NEW c \in Conn, NEW r \in Requests[c], Discard(c, r), inTransaction[c]
  PROVE  Batches!Discard(c)
<1>1. SStep /\ TypeOK /\ Held /\ OneJobEach
  BY SInvIff DEF SStep, XInv
<1>2. /\ phase[c] = "read"
      /\ inTransaction' = [inTransaction EXCEPT ![c] = FALSE]
      /\ queuedCommands' = [queuedCommands EXCEPT ![c] = <<>>]
      /\ UNCHANGED <<cmdQueue, txQueue, job, pos, executed>>
  BY DEF Discard, Takes, queueVars, execVars
<1>3. Jobs' = Jobs /\ Ran' = Ran
  BY <1>2 DEF Jobs, Ran
<1>4. \A j \in Jobs : j.conn # c
  BY <1>1, <1>2, NoJobs
<1>5. /\ \A d \in Conn : InExec(d)' <=> InExec(d)
      /\ ~inTransaction'[c] /\ ~InExec(c)
      /\ \A d \in Conn \ {c} : /\ inTransaction'[d] = inTransaction[d]
                               /\ queuedCommands'[d] = queuedCommands[d]
  BY <1>1, <1>2, <1>3, <1>4 DEF InExec, JobsOf, TypeOK
<1>6. /\ Mode' = [Mode EXCEPT ![c] = ModeOf(c)'] /\ Batch' = [Batch EXCEPT ![c] = BatchOf(c)']
  BY <1>5, OneShown
<1>7. ModeOf(c)' = "none" /\ Mode[c] = "multi"
  BY <1>5, ModeValue DEF ModeOf
<1>8. BatchOf(c)' = <<>>
  BY <1>7 DEF BatchOf
<1> QED
  BY <1>3, <1>6, <1>7, <1>8 DEF Batches!Discard, Batches!Enter

\* A job of c is added.
LEMMA ExecShown ==
  ASSUME SInv, XInv, NEW c \in Conn, NEW r \in Requests[c], Exec(c, r), inTransaction[c]
  PROVE  Batches!Submit(c)
<1>1. SStep /\ TypeOK /\ Held /\ OneJobEach
  BY SInvIff DEF SStep, XInv
<1> DEFINE j == [conn |-> c, tx |-> TRUE, cmds |-> queuedCommands[c]]
<1>2. /\ phase[c] = "read" /\ txQueue' = Append(txQueue, j)
      /\ inTransaction' = [inTransaction EXCEPT ![c] = FALSE]
      /\ UNCHANGED <<queuedCommands, cmdQueue, job, pos, executed>>
  BY DEF Exec, Takes, execVars
<1>3. j \in OwnJobs /\ j.conn = c /\ j.tx
  BY <1>1, OwnJobType DEF Held
<1> HIDE DEF j
<1>4. txQueue \in Seq(OwnJobs)
  BY <1>1 DEF Held
<1>5. ToSet(Append(txQueue, j)) = ToSet(txQueue) \cup {j}
  BY <1>3, <1>4, AppendMembers
<1>6. Jobs' = Jobs \cup {j} /\ Ran' = Ran
  BY <1>2, <1>5 DEF Jobs, Ran
<1>7. /\ InExec(c)' /\ \A d \in Conn \ {c} : InExec(d)' <=> InExec(d)
  BY <1>3, <1>6 DEF InExec, JobsOf
<1>8. /\ ~inTransaction'[c]
      /\ \A d \in Conn \ {c} : inTransaction'[d] = inTransaction[d]
  BY <1>1, <1>2 DEF TypeOK
<1>9. /\ Mode' = [Mode EXCEPT ![c] = ModeOf(c)'] /\ Batch' = [Batch EXCEPT ![c] = BatchOf(c)']
  BY <1>2, <1>7, <1>8, OneShown
<1>10. ModeOf(c)' = "exec" /\ Mode[c] = "multi" /\ Batch[c] = Names(queuedCommands[c])
  BY <1>7, <1>8, ModeValue DEF ModeOf
<1>11. BatchOf(c)' = Names(queuedCommands[c])
  BY <1>2, <1>10 DEF BatchOf, Names
<1>12. Batch' = Batch
  BY <1>9, <1>10, <1>11 DEF Batch
<1> QED
  BY <1>6, <1>9, <1>10, <1>12 DEF Batches!Submit, Batches!Enter

LEMMA DataCommandShown ==
  ASSUME SInv, NEW c \in Conn, NEW r \in Requests[c], DataCommand(c, r)
  PROVE  UNCHANGED Shown
<1>1. SStep /\ TypeOK /\ Held
  BY SInvIff DEF SStep
<1>2. CASE ~(r.op = "ping" /\ inPubSubMode[c])
  <2> DEFINE j == [conn |-> c, tx |-> FALSE, cmds |-> <<CommandOf(c, r)>>]
  <2>1. j \in OwnJobs /\ ~j.tx
    <3>1. <<CommandOf(c, r)>> \in Seq(OwnCommands(c))
      BY <1>1, CommandType
    <3> QED
      BY <3>1, OwnJobType
  <2>2. /\ cmdQueue' = Append(cmdQueue, j)
        /\ UNCHANGED <<txQueue, inTransaction, queuedCommands, job, pos, executed>>
    BY <1>2 DEF DataCommand, connVars, execVars
  <2> HIDE DEF j
  <2>3. ToSet(Append(cmdQueue, j)) = ToSet(cmdQueue) \cup {j}
    BY <1>1, <2>1, AppendMembers DEF Held
  <2>4. Jobs' = Jobs \cup {j} /\ Ran' = Ran
    BY <2>2, <2>3 DEF Jobs, Ran
  <2>5. \A d \in Conn : InExec(d)' <=> InExec(d)
    BY <2>1, <2>4 DEF InExec, JobsOf
  <2> QED
    BY <2>2, <2>4, <2>5, AllShownKept DEF Shown
<1>3. CASE r.op = "ping" /\ inPubSubMode[c]
  BY <1>3, NothingShown DEF DataCommand, connVars, execVars
<1> QED
  BY <1>2, <1>3

\* The executor takes a job, and has it instead of its queue.
LEMMA TakeMoves == ASSUME TypeOK, Held, TakeCommand \/ TakeTransaction PROVE Jobs' = Jobs
<1>1. cmdQueue \in Seq(OwnJobs) /\ txQueue \in Seq(OwnJobs) /\ None \notin OwnJobs
  BY NoJobAssumption DEF Held, OwnJobs
<1>2. CASE TakeCommand
  <2>1. /\ cmdQueue # <<>> /\ job = None /\ job' = Head(cmdQueue)
        /\ cmdQueue' = Tail(cmdQueue) /\ txQueue' = txQueue
    BY <1>2 DEF TakeCommand, Take
  <2>2. /\ Head(cmdQueue) \in OwnJobs
        /\ ToSet(cmdQueue) = ToSet(Tail(cmdQueue)) \cup {Head(cmdQueue)}
    BY <1>1, <2>1, HeadTailMembers
  <2> QED
    BY <1>1, <2>1, <2>2 DEF Jobs
<1>3. CASE TakeTransaction
  <2>1. /\ txQueue # <<>> /\ job = None /\ job' = Head(txQueue)
        /\ txQueue' = Tail(txQueue) /\ cmdQueue' = cmdQueue
    BY <1>3 DEF TakeTransaction, Take
  <2>2. /\ Head(txQueue) \in OwnJobs
        /\ ToSet(txQueue) = ToSet(Tail(txQueue)) \cup {Head(txQueue)}
    BY <1>1, <2>1, HeadTailMembers
  <2> QED
    BY <1>1, <2>1, <2>2 DEF Jobs
<1> QED
  BY <1>2, <1>3

LEMMA TakeShown ==
  ASSUME SInv, XInv, TakeCommand \/ TakeTransaction
  PROVE  UNCHANGED Shown
<1>1. SStep /\ TypeOK /\ Held
  BY SInvIff DEF SStep
<1>2. /\ job = None /\ pos' = 1
      /\ UNCHANGED <<inTransaction, queuedCommands, executed>>
  BY DEF TakeCommand, TakeTransaction, Take, connVars
<1>3. Jobs' = Jobs
  BY <1>1, TakeMoves
<1>4. \A d \in Conn : InExec(d)' <=> InExec(d)
  BY <1>3 DEF InExec, JobsOf
<1>5. Ran' = Ran
  <2>1. PICK s : s = executed
    OBVIOUS
  <2>2. s \in Seq(Id) /\ Len(s) \in Nat
    BY <1>1, <2>1, LenProperties DEF TypeOK
  <2>3. SubSeq(s, 1, Len(s)) = s
    BY <2>2, SubSeqFull
  <2>4. Len(s) - (pos' - 1) = Len(s) /\ executed' = s
    BY <1>2, <2>1, <2>2
  <2>5. SubSeq(executed', 1, Len(executed') - (pos' - 1)) = s
    BY <2>3, <2>4
  <2> QED
    BY <1>2, <2>1, <2>4, <2>5 DEF Ran
<1> QED
  BY <1>2, <1>4, <1>5, AllShownKept DEF Shown

\* A command has run: of a batch that is not over yet, or on its own.
LEMMA ExecutedShown ==
  ASSUME SInv, XInv, Running, executed' = Append(executed, Current.id), pos' = pos + 1,
         UNCHANGED <<connVars, queueVars, job>>
  PROVE  UNCHANGED Shown \/ \E c \in Conn : Batches!Run(c)
<1>1. SStep /\ TypeOK /\ Held /\ Known /\ OneJobEach /\ JobsAreQueues
  BY SInvIff DEF SStep, XInv
<1>2. UNCHANGED <<inTransaction, queuedCommands, cmdQueue, txQueue, job>> /\ job # None
  BY DEF connVars, queueVars, Running
<1>3. /\ job \in Jobs /\ Current \in ToSet(job.cmds) /\ pos \in 1..Len(job.cmds)
      /\ Len(job.cmds) \in Nat /\ Current.id \in Id /\ Current.id[1] = job.conn
  BY <1>1, CurrentOfJob
<1>4. Jobs' = Jobs
  BY <1>2 DEF Jobs
<1>5. \A d \in Conn : InExec(d)' <=> InExec(d)
  BY <1>4 DEF InExec, JobsOf
<1>6. Mode' = Mode /\ Batch' = Batch
  BY <1>2, <1>5, AllShownKept
<1>7. PICK s \in Seq(Id) : s = executed
  BY <1>1 DEF TypeOK
<1>8. PICK id \in Id : id = Current.id
  BY <1>3
<1>9. /\ executed' = Append(s, id) /\ Append(s, id) \in Seq(Id) /\ Len(s) \in Nat
      /\ Len(Append(s, id)) = Len(s) + 1
      /\ \A k \in 1..Len(s) : Append(s, id)[k] = s[k]
  BY <1>7, <1>8, AppendProperties, LenProperties
<1>10. CASE job.tx
  <2>1. pos \in Nat \ {0} /\ pos - 1 <= Len(s)
    BY <1>1, <1>2, <1>3, <1>7, <1>10 DEF JobsAreQueues
  <2>2. PICK m \in Nat : m = Len(s) - (pos - 1)
    BY <1>9, <2>1
  <2>3. m <= Len(s)
    BY <1>9, <2>1, <2>2
  <2>4. Ran = SubSeq(s, 1, m)
    BY <1>2, <1>7, <1>10, <2>2 DEF Ran
  <2>5. Len(executed') - (pos' - 1) = m
    BY <1>9, <2>1, <2>2
  <2>6. Ran' = SubSeq(Append(s, id), 1, m)
    BY <1>2, <1>9, <1>10, <2>5 DEF Ran
  <2>7. SubSeq(Append(s, id), 1, m) = SubSeq(s, 1, m)
    <3> DEFINE u == Append(s, id)
    <3>1. /\ \A i \in 1..m : u[i] \in Id /\ s[i] \in Id /\ u[i] = s[i]
      BY <1>9, <2>3, ElementOfSeq
    <3> HIDE DEF u
    <3> DEFINE a == SubSeq(u, 1, m)
               b == SubSeq(s, 1, m)
    <3>2. a \in Seq(Id) /\ Len(a) = m /\ \A i \in 1..m : a[i] = u[i]
      BY <3>1, SubSeqProperties
    <3>3. b \in Seq(Id) /\ Len(b) = m /\ \A i \in 1..m : b[i] = s[i]
      BY <3>1, SubSeqProperties
    <3> HIDE DEF a, b
    <3>4. a = b
      BY <3>1, <3>2, <3>3, SeqEqual
    <3> QED
      BY <3>4 DEF a, b, u
  <2> QED
    BY <1>6, <2>4, <2>6, <2>7 DEF Shown
<1>11. CASE ~job.tx
  <2>1. PICK c \in Conn : c = job.conn
    BY <1>1, <1>3, Members
  <2>2. Len(job.cmds) = 1
    BY <1>1, <1>3, <1>11 DEF JobsAreQueues
  <2>3. pos = 1
    BY <1>3, <2>2
  <2>4. id = job.cmds[1].id /\ id \notin ToSet(executed) /\ id[1] = c
    BY <1>1, <1>2, <1>3, <1>8, <1>11, <2>1, <2>3 DEF JobsAreQueues, Current
  <2>5. Ran = s /\ Ran' = Append(s, id)
    BY <1>2, <1>7, <1>9, <1>11 DEF Ran
  <2>6. ~inTransaction[c] /\ ~InExec(c)
    <3>1. \A j \in JobsOf(c) : j = job
      BY <1>1, <1>2, <2>1 DEF JobsOf, Jobs, OneJobEach
    <3> QED
      BY <1>1, <1>3, <1>11, <2>1, <3>1 DEF OneJobEach, InExec
  <2>7. Mode[c] = "none" /\ Batch[c] = <<>>
    BY <2>6, ModeValue
  <2>8. ToSet(<<>>) = {}
    BY EmptySeq DEF ToSet
  <2>9. Last(Append(s, id)) = id /\ Append(s, id) # <<>>
    BY <1>9, LastAppended, EmptySeq
  <2>10. Batches!New(c, id)
    BY <1>7, <2>4, <2>5, <2>7, <2>8 DEF Batches!New, ToSet, Batches!ToSet
  <2>11. Ran' # <<>> /\ Last(Ran') = id /\ Ran' = Append(Ran, Last(Ran'))
    BY <2>5, <2>9
  <2>12. Batches!Run(c)
    BY <1>6, <2>7, <2>10, <2>11 DEF Batches!Run, Last, Batches!Last
  <2> QED
    BY <2>12
<1> QED
  BY <1>10, <1>11

LEMMA FinishShown ==
  ASSUME SInv, XInv, Finish
  PROVE  UNCHANGED Shown \/ \E c \in Conn : Batches!Commit(c)
<1>1. SStep /\ TypeOK /\ Held /\ OneJobEach /\ JobsAreQueues
  BY SInvIff DEF SStep, XInv
<1>2. /\ UNCHANGED <<inTransaction, queuedCommands, cmdQueue, txQueue, pos, executed>>
      /\ job # None /\ job' = None /\ pos > Len(job.cmds)
  BY DEF Finish, connVars, queueVars
<1>3. job \in Jobs
  BY <1>2 DEF Jobs
<1>4. PICK c \in Conn : c = job.conn
  BY <1>1, <1>3, Members
<1>5. /\ Jobs' = ToSet(cmdQueue) \cup ToSet(txQueue) /\ Jobs = Jobs' \cup {job}
      /\ \A j \in Jobs' : j.conn # c
      /\ ~inTransaction[c]
  BY <1>1, <1>2, <1>3, <1>4 DEF Jobs, OneJobEach
<1>6. /\ \A d \in Conn \ {c} : InExec(d)' <=> InExec(d)
      /\ ~InExec(c)' /\ (InExec(c) <=> job.tx)
  BY <1>4, <1>5 DEF InExec, JobsOf
<1>7. Ran' = executed
  BY <1>2 DEF Ran
<1>8. CASE ~job.tx
  <2>1. Ran = executed
    BY <1>8 DEF Ran
  <2>2. \A d \in Conn : InExec(d)' <=> InExec(d)
    BY <1>6, <1>8
  <2>3. Mode' = Mode /\ Batch' = Batch
    BY <1>2, <2>2, AllShownKept
  <2> QED
    BY <1>7, <2>1, <2>3 DEF Shown
<1>9. CASE job.tx
  <2>1. /\ Mode' = [Mode EXCEPT ![c] = ModeOf(c)'] /\ Batch' = [Batch EXCEPT ![c] = BatchOf(c)']
    BY <1>2, <1>6, OneShown
  <2>2. ModeOf(c)' = "none" /\ Mode[c] = "exec" /\ Batch[c] = Names(queuedCommands[c])
    BY <1>2, <1>5, <1>6, <1>9, ModeValue DEF ModeOf
  <2>3. BatchOf(c)' = <<>>
    BY <2>2 DEF BatchOf
  <2>4. PICK q \in Seq(Command) : q = job.cmds
    BY <1>1, <1>3, Members
  <2>5. q = queuedCommands[c]
    BY <1>1, <1>3, <1>4, <1>9, <2>4 DEF JobsAreQueues
  <2>6. PICK s \in Seq(Id) : s = executed
    BY <1>1 DEF TypeOK
  <2>7. Len(q) \in Nat /\ Len(s) \in Nat /\ DOMAIN q = 1..Len(q) /\ \A k \in 1..Len(q) : q[k] \in Command
    BY LenProperties, ElementOfSeq
  <2>8. /\ pos - 1 = Len(q) /\ Len(q) <= Len(s)
        /\ \A k \in 1..Len(q) : s[Len(s) - Len(q) + k] = q[k].id
    <3>1. pos \in Nat /\ pos > Len(q) /\ pos <= Len(q) + 1
      BY <1>1, <1>2, <2>4 DEF JobsAreQueues, TypeOK
    <3>2. pos - 1 = Len(q)
      BY <2>7, <3>1
    <3> QED
      BY <1>1, <1>2, <1>9, <2>4, <2>6, <3>2 DEF JobsAreQueues
  <2>9. PICK m \in Nat : m = Len(s) - Len(q)
    BY <2>7, <2>8
  <2>10. Ran = SubSeq(s, 1, m)
    BY <1>2, <1>9, <2>6, <2>8, <2>9 DEF Ran
  <2>11. SubSeq(s, 1, m) \o Names(q) = s
    <3> DEFINE n == Len(q)
               a == SubSeq(s, 1, m)
               b == Names(q)
               u == a \o b
    <3>1. Len(s) = m + n /\ n \in Nat /\ \A k \in 1..n : s[m + k] = q[k].id
      BY <2>7, <2>8, <2>9
    <3>2. \A i \in 1..Len(s) : s[i] \in Id
      BY ElementOfSeq
    <3>3. b = [i \in 1..n |-> q[i].id] /\ \A k \in 1..n : q[k].id \in Id
      BY <2>7 DEF Names, Command
    <3> HIDE DEF n
    <3>4. b \in Seq(Id) /\ Len(b) = n /\ \A k \in 1..n : b[k] = q[k].id
      BY <3>1, <3>3
    <3> HIDE DEF b
    <3>5. \A i \in 1..m : s[i] \in Id
      BY <3>1, <3>2
    <3>6. a \in Seq(Id) /\ Len(a) = m /\ \A i \in 1..m : a[i] = s[i]
      BY <3>5, SubSeqProperties
    <3> HIDE DEF a
    <3>7. /\ u \in Seq(Id) /\ Len(u) = m + n
          /\ \A i \in 1..(m + n) : u[i] = IF i <= m THEN a[i] ELSE b[i - m]
      BY <3>4, <3>6, ConcatProperties
    <3> HIDE DEF u
    <3>8. ASSUME NEW i \in 1..(m + n) PROVE u[i] = s[i]
      <4>1. CASE i <= m
        <5>1. i \in 1..m
          BY <3>1, <4>1
        <5> QED
          BY <3>6, <3>7, <4>1, <5>1
      <4>2. CASE ~(i <= m)
        <5>1. i - m \in 1..n /\ m + (i - m) = i
          BY <3>1, <4>2
        <5>2. s[m + (i - m)] = q[i - m].id /\ b[i - m] = q[i - m].id
          BY <3>1, <3>4, <5>1
        <5> QED
          BY <3>7, <4>2, <5>1, <5>2
      <4> QED
        BY <4>1, <4>2
    <3>9. u = s
      BY <3>1, <3>7, <3>8, SeqEqual
    <3> QED
      BY <3>9 DEF u, a, b
  <2>12. Ran' = Ran \o Batch[c]
    BY <1>7, <2>2, <2>5, <2>6, <2>10, <2>11
  <2>13. Batches!Commit(c)
    BY <2>1, <2>2, <2>3, <2>12 DEF Batches!Commit, Batches!Enter
  <2> QED
    BY <2>13
<1> QED
  BY <1>8, <1>9

LEMMA InitShown == Init => Batches!Init
<1> SUFFICES ASSUME Init PROVE Batches!Init
  OBVIOUS
<1>1. Jobs = {} /\ job = None /\ executed = <<>>
  BY EmptySeq DEF Init, Jobs, ToSet
<1>2. Ran = <<>>
  BY <1>1 DEF Ran
<1>3. \A c \in Conn : ~inTransaction[c] /\ ~InExec(c)
  BY <1>1 DEF Init, InExec, JobsOf
<1>4. \A c \in Conn : ModeOf(c) = "none" /\ BatchOf(c) = <<>>
  BY <1>3 DEF ModeOf, BatchOf
<1> QED
  BY <1>2, <1>4 DEF Batches!Init, Mode, Batch

LEMMA NextShown ==
  ASSUME SInv, XInv, OneExec, [Next]_vars
  PROVE  Batches!Next \/ UNCHANGED Shown
<1>1. SStep /\ Held
  BY SInvIff DEF SStep
<1>2. ASSUME NEW c \in Conn, NEW r \in Requests[c], Route(c, r)
      PROVE  Batches!Next \/ UNCHANGED Shown
  <2>1. CASE QueueCommand(c, r) \/ Multi(c, r)
    <3>1. Batches!Queue(c) \/ Batches!Multi(c)
      BY <2>1, QueueCommandShown, MultiShown
    <3> QED
      BY <3>1 DEF Batches!Next
  <2>2. CASE inTransaction[c] /\ (Discard(c, r) \/ Exec(c, r))
    <3>1. Batches!Discard(c) \/ Batches!Submit(c)
      BY <2>2, DiscardShown, ExecShown
    <3> QED
      BY <3>1 DEF Batches!Next
  <2>3. CASE DataCommand(c, r)
    BY <2>3, DataCommandShown
  <2>4. CASE \/ Refuse(c, r) \/ Subscribe(c, r) \/ Unsubscribe(c, r) \/ Auth(c, r) \/ SetUser(c, r)
             \/ ~inTransaction[c] /\ (Discard(c, r) \/ Exec(c, r))
    <3>1. UNCHANGED <<inTransaction, queuedCommands, cmdQueue, txQueue, job, pos, executed>>
      BY <2>4 DEF Refuse, Subscribe, Unsubscribe, Auth, SetUser, Discard, Exec, connVars,
         queueVars, execVars
    <3> QED
      BY <3>1, NothingShown
  <2> QED
    BY <1>2, <2>1, <2>2, <2>3, <2>4 DEF Route
<1>3. ASSUME NEW c \in Conn, \/ Accept(c) \/ Disconnect(c) \/ ReadReply(c)
                             \/ StorePasswords(c) \/ SendResponse(c) \/ Leave(c)
      PROVE  UNCHANGED Shown
  <2>1. UNCHANGED <<inTransaction, queuedCommands, cmdQueue, txQueue, job, pos, executed>>
    BY <1>3 DEF Accept, Disconnect, ReadReply, StorePasswords, SendResponse, Leave, connVars,
       queueVars, execVars
  <2> QED
    BY <2>1, NothingShown
<1>4. ASSUME PublishStart \/ PublishTo \/ UNCHANGED vars PROVE UNCHANGED Shown
  <2>1. UNCHANGED <<inTransaction, queuedCommands, cmdQueue, txQueue, job, pos, executed>>
    BY <1>4 DEF PublishStart, PublishTo, vars, connVars, queueVars, execVars
  <2> QED
    BY <2>1, NothingShown
<1>5. ASSUME ExecuteCommand \/ PublishEnd PROVE Batches!Next \/ UNCHANGED Shown
  <2>1. Running /\ executed' = Append(executed, Current.id) /\ pos' = pos + 1
    BY <1>1, <1>5 DEF Held, ExecuteCommand, PublishEnd
  <2>2. UNCHANGED <<connVars, queueVars, job>>
    BY <1>5 DEF ExecuteCommand, PublishEnd
  <2>3. UNCHANGED Shown \/ \E c \in Conn : Batches!Run(c)
    BY <2>1, <2>2, ExecutedShown
  <2> QED
    BY <2>3 DEF Batches!Next
<1>6. ASSUME Finish PROVE Batches!Next \/ UNCHANGED Shown
  <2>1. UNCHANGED Shown \/ \E c \in Conn : Batches!Commit(c)
    BY <1>6, FinishShown
  <2> QED
    BY <2>1 DEF Batches!Next
<1>7. ASSUME TakeCommand \/ TakeTransaction PROVE UNCHANGED Shown
  BY <1>7, TakeShown
<1> QED
  BY <1>2, <1>3, <1>4, <1>5, <1>6, <1>7 DEF Next, ConnStep, ExecutorStep

-----------------------------------------------------------------------------
(* The theorems.                                                           *)

\* SInv is inductive: what a connection holds is its own, whoever has an effect
\* is authenticated, and the executor publishes to subscribers only.
THEOREM SessionInductive == Spec => []SInv
<1>1. Init => SInv
  BY InitSInv
<1>2. SInv /\ [Next]_vars => SInv'
  BY NextSInv
<1> QED
  BY <1>1, <1>2, PTL DEF Spec

\* Every variable of the sessions keeps to its type.
THEOREM SessionTypes == Spec => []TypeOK
<1>1. SInv => TypeOK
  BY DEF SInv
<1> QED
  BY <1>1, SessionInductive, PTL

\* However the requests of all clients interleave, no connection is in a
\* transaction and in publish/subscribe mode at once.
THEOREM ModesNeverMeet == Spec => []ModesExclude
<1>1. SInv => ModesExclude
  BY DEF SInv
<1> QED
  BY <1>1, SessionInductive, PTL

\* The two indexes of the manager and the connections' flags always agree.
THEOREM IndexesAgree == Spec => []SubscriptionsAgree
<1>1. SInv => SubscriptionsAgree
  BY DEF SInv
<1> QED
  BY <1>1, SessionInductive, PTL

\* Nothing a connection sends before it is authenticated has an effect.
THEOREM StrangersHaveNoEffect == Spec => []StrangersDoNothing
<1>1. SInv => StrangersDoNothing
  BY DEF SInv
<1> QED
  BY <1>1, SessionInductive, PTL

\* A step that writes a message to a connection writes to a subscriber of its
\* channel: the mutex keeps SUBSCRIBE and UNSUBSCRIBE out while PUBLISH runs.
THEOREM MessagesReachSubscribersOnly == Spec => MessagesOnlyToSubscribers
<1> DEFINE A == \A c \in Conn :
       out'[c] # out[c] /\ Last(out'[c]).kind = "message"
         => Last(out'[c]).arg \in subscriptions[c]
<1>1. SInv /\ [Next]_vars => [A]_vars
  <2> SUFFICES ASSUME SInv, Next, NEW c \in Conn, out'[c] # out[c], Last(out'[c]).kind = "message"
               PROVE  Last(out'[c]).arg \in subscriptions[c]
    OBVIOUS
  <2>1. TypeOK /\ Held /\ SubscriptionsAgree /\ Known
    BY SInvIff DEF SStep
  <2>2. out \in [Conn -> Seq(Written)]
    BY <2>1 DEF TypeOK
  <2>3. CASE \E d \in Conn : SendResponse(d)
    <3>1. PICK d \in Conn : SendResponse(d)
      BY <2>3
    <3>2. out' = [out EXCEPT ![d] = Append(@, answer[d])]
      BY <3>1 DEF SendResponse
    <3>3. d = c
      BY <2>2, <3>2
    <3>4. Last(out'[c]) = answer[c]
      BY <2>1, <2>2, <3>2, <3>3, LastAppended DEF TypeOK
    <3> QED
      BY <2>1, <3>4 DEF Held
  <2>4. CASE PublishTo
    <3>1. out' = [out EXCEPT ![Head(targets)] = Append(@, Message)] /\ publishing /\ targets # <<>>
      BY <2>4 DEF PublishTo
    <3>2. targets \in Seq(Conn)
      BY <2>1 DEF TypeOK
    <3>3. Head(targets) \in Conn /\ Head(targets) \in ToSet(targets)
      BY <3>1, <3>2, HeadTailMembers
    <3>4. c = Head(targets)
      BY <2>2, <3>1, <3>3
    <3>5. /\ Running /\ Current.op = "publish" /\ c \in channels[Current.arg]
      BY <2>1, <3>1, <3>3, <3>4 DEF Held
    <3>6. Current.arg \in Channel /\ Current.id \in Id /\ Current.arg \in Arg
      BY <2>1, <3>5, CurrentType
    <3>7. Message \in Written /\ Message.arg = Current.arg
      BY <2>1, <3>5, MessageType
    <3>8. Last(out'[c]) = Message
      BY <2>2, <3>1, <3>4, <3>7, LastAppended
    <3> QED
      BY <2>1, <3>5, <3>6, <3>7, <3>8 DEF SubscriptionsAgree
  <2>5. CASE ~(\E d \in Conn : SendResponse(d)) /\ ~PublishTo
    <3>1. ASSUME NEW d \in Conn, NEW r \in Requests[d], Route(d, r) PROVE UNCHANGED out
      BY <3>1 DEF Route, Refuse, QueueCommand, DataCommand, Multi, Exec, Discard, Subscribe,
         Unsubscribe, Auth, SetUser, sockVars
    <3>2. ASSUME NEW d \in Conn,
                 Accept(d) \/ Disconnect(d) \/ ReadReply(d) \/ StorePasswords(d) \/ Leave(d)
          PROVE  UNCHANGED out
      BY <3>2 DEF Accept, Disconnect, ReadReply, StorePasswords, Leave, sockVars
    <3>3. ASSUME ExecutorStep PROVE UNCHANGED out
      BY <2>5, <3>3 DEF ExecutorStep, TakeCommand, TakeTransaction, Take, ExecuteCommand,
         PublishStart, PublishEnd, Finish, sockVars
    <3>4. UNCHANGED out
      BY <2>5, <3>1, <3>2, <3>3 DEF Next, ConnStep
    <3> QED
      BY <3>4
  <2> QED
    BY <2>3, <2>4, <2>5
<1>2. SInv /\ [Next]_vars => SInv'
  BY NextSInv
<1> QED
  BY <1>1, InitSInv, <1>2, PTL DEF Spec, MessagesOnlyToSubscribers

\* XInv is inductive beside SInv: a connection has one job at a time, names are
\* given once and a dropped one is nowhere, and a job is its connection's queue.
THEOREM TransactionsInductive == Spec => []XInv
<1>1. SInv /\ XInv /\ [Next]_vars => XInv'
  BY NextXInv
<1> QED
  BY <1>1, InitXInv, InitSInv, NextSInv, PTL DEF Spec

\* However SUBSCRIBE, UNSUBSCRIBE and PUBLISH of all clients interleave, a PUBLISH
\* writes its message once to each of the subscribers that it counts.
THEOREM PublishCountsDeliveries == Spec => []CountIsDelivered
<1>1. SInv => CountIsDelivered
  BY DEF SInv, Delivering
<1>2. SInv /\ [Next]_vars => SInv'
  BY NextSInv
<1> QED
  BY <1>1, <1>2, InitSInv, PTL DEF Spec

\* A command that a DISCARD has dropped never runs afterwards, whatever the
\* connection, or another one, sends next.
THEOREM DiscardedCommandsNeverRun == Spec => DiscardedNeverRun
<1> DEFINE A == executed' # executed => Last(executed') \notin discarded
<1>1. SInv /\ XInv /\ [Next]_vars => [A]_vars
  <2> SUFFICES ASSUME SInv, XInv, Next, executed' # executed
               PROVE  Last(executed') \notin discarded
    OBVIOUS
  <2>1. SStep /\ TypeOK /\ Held /\ Known /\ Named
    BY SInvIff DEF SStep, XInv
  <2>2. CASE ExecuteCommand \/ PublishEnd
    <3>1. Running /\ executed' = Append(executed, Current.id)
      BY <2>1, <2>2 DEF Held, ExecuteCommand, PublishEnd
    <3>2. job \in Jobs /\ Current \in ToSet(job.cmds) /\ Current.id \in Id
      BY <2>1, <3>1, CurrentOfJob
    <3>3. Current.id \notin discarded
      BY <2>1, <3>2 DEF Named
    <3>4. executed \in Seq(Id)
      BY <2>1 DEF TypeOK
    <3>5. Last(executed') = Current.id
      BY <3>1, <3>2, <3>4, LastAppended
    <3> QED
      BY <3>3, <3>5
  <2>3. CASE ~(ExecuteCommand \/ PublishEnd)
    <3>1. ASSUME NEW c \in Conn, NEW r \in Requests[c], Route(c, r) PROVE UNCHANGED executed
      BY <3>1 DEF Route, Refuse, QueueCommand, DataCommand, Multi, Exec, Discard, Subscribe,
         Unsubscribe, Auth, SetUser, execVars
    <3>2. ASSUME NEW c \in Conn, \/ Accept(c) \/ Disconnect(c) \/ ReadReply(c)
                                 \/ StorePasswords(c) \/ SendResponse(c) \/ Leave(c)
          PROVE  UNCHANGED executed
      BY <3>2 DEF Accept, Disconnect, ReadReply, StorePasswords, SendResponse, Leave, execVars
    <3>3. ASSUME ExecutorStep PROVE UNCHANGED executed
      BY <2>3, <3>3 DEF ExecutorStep, TakeCommand, TakeTransaction, Take, PublishStart,
         PublishTo, Finish
    <3> QED
      BY <3>1, <3>2, <3>3 DEF Next, ConnStep
  <2> QED
    BY <2>2, <2>3
<1>2. SInv /\ XInv /\ [Next]_vars => XInv'
  BY NextXInv
<1> QED
  BY <1>1, <1>2, InitSInv, InitXInv, NextSInv, PTL DEF Spec, DiscardedNeverRun

\* MULTI, EXEC and DISCARD implement Transactions while no client sends a MULTI after
\* its first EXEC: every step is a step of the promise or shows nothing.
THEOREM TransactionsKeepTheirPromise == ASSUME OneExec PROVE Spec => TransactionsPromise
<1>1. SInv /\ XInv /\ [Next]_vars => [Batches!Next]_(Batches!vars)
  BY OneExec, NextShown DEF Shown, Batches!vars
<1>2. SInv /\ XInv /\ [Next]_vars => XInv'
  BY NextXInv
<1> QED
  BY <1>1, <1>2, InitShown, InitSInv, InitXInv, NextSInv, PTL
  DEF Spec, TransactionsPromise, Batches!Spec

=============================================================================
