--------------------------- MODULE ConsumerGroups ---------------------------
(***************************************************************************)
(* One stream of simis with its consumer groups and the reads that wait    *)
(* for its next entry (internal/datastructure/stream.go, the handlers of   *)
(* the X commands).  The executor goroutine runs one command at a time,    *)
(* with the re-execution of the waiting reads, so each is one action.      *)
(***************************************************************************)
EXTENDS Streams, FiniteSets

CONSTANTS
  Group, Consumer, Nobody,
  Reader,          \* clients whose reads may wait
  Added,           \* the IDs that XADD asks for
  Starts,          \* the IDs that XGROUP CREATE and SETID give, besides "$"
  Counts,          \* COUNT of XREADGROUP, 0 when there is none
  MinIdles,        \* min-idle-time of XCLAIM
  FirstMs, LastMs, \* the clock (bound)
  MaxEntries,      \* XADD stops here (bound)
  MaxPending,      \* a consumer's counter stops here (bound)
  MaxParked        \* reads that wait at a time (bound); of three the executor skips one, see Executor

ASSUME ConstantsAssumption ==
  /\ Nobody \notin Consumer /\ None \notin Consumer \cup {Nobody}
  /\ \A I \in SUBSET ID : I # None
  /\ Added \subseteq Requests /\ Starts \subseteq ID
  /\ Counts \subseteq Nat /\ MinIdles \subseteq Nat
  /\ FirstMs \in Nat \ {0} /\ LastMs \in FirstMs .. MaxUint
  /\ {MaxEntries, MaxPending} \subseteq Nat /\ MaxParked \in 0 .. 2

VARIABLES
  stream,    \* the IDs of the entries, or None
  last,      \* last[g]: LastDeliveredID of group g, None when there is no such group
  num,       \* num[g][c]: PendingEntriesNum of consumer c, None when there is no such consumer
  owner,     \* owner[g][i]: who has the pending entry i, Nobody, or None when i is not pending
  since,     \* since[g][i]: its DeliveredTime
  acked,     \* history: the entries that group g has acknowledged
  passed,    \* history: the IDs that CREATE and SETID have put behind group g
  rewound,   \* history: a read of group g has started, or may start, before its last ID
  parked,    \* the reads in the list of the blocking manager
  sent,      \* sent[r]: the entries the last command has answered to waiting reader r
  now        \* the clock, in milliseconds

groupVars   == <<last, num, owner, since>>
historyVars == <<acked, passed, rewound>>
vars == <<stream, groupVars, historyVars, parked, sent, now>>

Pending(g) == {i \in ID : owner[g][i] # None}
Owned(g, c) == {i \in ID : owner[g][i] = c}
Upto(a) == {i \in ID : AtMost(i, a)}
Is(g) == stream # None /\ last[g] # None

-----------------------------------------------------------------------------
(* Reads that wait.                                                        *)

\* The second execution of a waiting XREAD; that of XREADGROUP always ends in an error, because
\* its arguments were rewritten in a form that its parser does not take.
Blocks(w, s) == w.kind = "xread" /\ Scan(s, After(w.from), Top) = {}

Answer(w, s) == IF w.kind = "xread" THEN IdsAt(s, Scan(s, After(w.from), Top)) ELSE None

NothingSent == sent' = [r \in Reader |-> None]

\* UnblockCommandsWaitingForKey: the waiting reads in order, up to the first that waits on.
Wake(s) ==
  \E n \in 0 .. Len(parked) :
    /\ \A i \in 1 .. n : ~Blocks(parked[i], s)
    /\ n < Len(parked) => Blocks(parked[n + 1], s)
    /\ sent' = [r \in Reader |-> IF \E i \in 1 .. n : parked[i].reader = r
                                 THEN Answer(parked[CHOOSE i \in 1 .. n : parked[i].reader = r], s)
                                 ELSE None]
    /\ parked' = [i \in 1 .. Len(parked) - n |->
                    IF i = 1 THEN [parked[n + 1] EXCEPT !.from = LastOrZero(s)] ELSE parked[n + i]]

Free(r) == Len(parked) < MaxParked /\ \A i \in DOMAIN parked : parked[i].reader # r

Park(r, kind) ==
  /\ Free(r)
  /\ parked' = Append(parked, [reader |-> r, kind |-> kind, from |-> LastOrZero(stream)])
  /\ NothingSent

\* XREAD BLOCK with no entry after the ID it names, from then on after the last entry instead.
XRead(r) ==
  /\ stream # None
  /\ \E a \in ID : Scan(stream, After(a), Top) = {}
  /\ Park(r, "xread")
  /\ UNCHANGED <<stream, groupVars, historyVars, now>>

\* A timeout, when the executor does not look at the list at the same moment.
Timeout(r) ==
  \E n \in DOMAIN parked :
    /\ parked[n].reader = r
    /\ parked' = [i \in 1 .. Len(parked) - 1 |-> IF i < n THEN parked[i] ELSE parked[i + 1]]
    /\ sent' = [q \in Reader |-> IF q = r THEN {} ELSE None]
    /\ UNCHANGED <<stream, groupVars, historyVars, now>>

-----------------------------------------------------------------------------
(* Entries.                                                                *)

Entries == IF stream = None THEN <<>> ELSE stream

\* Mutant: XADD does not report its key.
XAddSilent(req) ==
  LET id == NextID(Last(Entries), req, now) IN
  /\ Len(Entries) < MaxEntries
  /\ stream' = IF Accepts(Entries, id) THEN Append(Entries, id) ELSE Entries
  /\ NothingSent
  /\ UNCHANGED <<groupVars, historyVars, parked, now>>

\* The stream is made before the ID is looked at.
XAdd(req) ==
  LET id == NextID(Last(Entries), req, now) IN
  /\ Len(Entries) < MaxEntries
  /\ IF Accepts(Entries, id)
     THEN stream' = Append(Entries, id) /\ Wake(stream')
     ELSE stream' = Entries /\ NothingSent /\ UNCHANGED parked
  /\ UNCHANGED <<groupVars, historyVars, now>>

-----------------------------------------------------------------------------
(* Groups.                                                                 *)

\* What XGROUP CREATE and SETID may be given: an ID, or "$".
Ids(s) == Starts \cup {LastOrZero(s)}

NoNums   == [c \in Consumer |-> None]
NoOwners == [i \in ID |-> None]
NoTimes  == [i \in ID |-> 0]

CreateGroup(g, a) ==
  /\ last' = [last EXCEPT ![g] = a]
  /\ num' = [num EXCEPT ![g] = NoNums]
  /\ owner' = [owner EXCEPT ![g] = NoOwners]
  /\ since' = [since EXCEPT ![g] = NoTimes]
  /\ acked' = [acked EXCEPT ![g] = {}]
  /\ passed' = [passed EXCEPT ![g] = Upto(a)]
  /\ rewound' = [rewound EXCEPT ![g] = FALSE]

\* Without MKSTREAM a stream that is not there is an error, and is there from then on.
XGroupCreate(g, mkstream) ==
  /\ stream' = Entries
  /\ IF stream = None /\ ~mkstream
     THEN NothingSent /\ UNCHANGED <<groupVars, historyVars, parked>>
     ELSE /\ last[g] = None
          /\ \E a \in Ids(Entries) : CreateGroup(g, a)
          /\ Wake(Entries)
  /\ UNCHANGED now

DestroyGroup(g) ==
  /\ last' = [last EXCEPT ![g] = None]
  /\ num' = [num EXCEPT ![g] = NoNums]
  /\ owner' = [owner EXCEPT ![g] = NoOwners]
  /\ since' = [since EXCEPT ![g] = NoTimes]
  /\ acked' = [acked EXCEPT ![g] = {}]
  /\ passed' = [passed EXCEPT ![g] = {}]
  /\ rewound' = [rewound EXCEPT ![g] = FALSE]

XGroupDestroy(g) ==
  /\ Is(g)
  /\ DestroyGroup(g)
  /\ Wake(stream)
  /\ UNCHANGED <<stream, now>>

SetGroupID(g, a) ==
  /\ last' = [last EXCEPT ![g] = a]
  /\ passed' = [passed EXCEPT ![g] = @ \cup Upto(a)]
  /\ rewound' = [rewound EXCEPT ![g] = @ \/ Before(a, last[g])]
  /\ UNCHANGED <<num, owner, since, acked>>

XGroupSetID(g) ==
  /\ Is(g)
  /\ \E a \in Ids(stream) : SetGroupID(g, a)
  /\ Wake(stream)
  /\ UNCHANGED <<stream, now>>

\* Mutant: the consumer goes and its entries keep its name.
DeleteConsumerOnly(g, c) ==
  /\ num' = [num EXCEPT ![g][c] = None]
  /\ UNCHANGED <<last, owner, since, historyVars>>

\* The entries stay pending, with nobody for their consumer.
DeleteConsumer(g, c) ==
  /\ num' = [num EXCEPT ![g][c] = None]
  /\ owner' = [owner EXCEPT ![g] = [i \in ID |-> IF @[i] = c THEN Nobody ELSE @[i]]]
  /\ UNCHANGED <<last, since, historyVars>>

XGroupDelConsumer(g, c) ==
  /\ Is(g)
  /\ IF num[g][c] = None THEN UNCHANGED <<groupVars, historyVars>> ELSE DeleteConsumer(g, c)
  /\ Wake(stream)
  /\ UNCHANGED <<stream, now>>

-----------------------------------------------------------------------------
(* Delivery.                                                               *)

Number(g, c) == IF num[g][c] = None THEN 0 ELSE num[g][c]

\* Mutant: the group moves on to the end of the stream though COUNT has left entries behind.
AddPendingToEnd(g, c, D) ==
  /\ num' = [num EXCEPT ![g][c] = Number(g, c) + Cardinality(D)]
  /\ owner' = [owner EXCEPT ![g] = [i \in ID |-> IF i \in D THEN c ELSE @[i]]]
  /\ since' = [since EXCEPT ![g] = [i \in ID |-> IF i \in D THEN now ELSE @[i]]]
  /\ last' = [last EXCEPT ![g] = IF D = {} THEN @ ELSE Last(stream)]

\* The IDs of D become pending entries of c, whoever had them.
AddPending(g, c, D) ==
  /\ num' = [num EXCEPT ![g][c] = Number(g, c) + Cardinality(D)]
  /\ owner' = [owner EXCEPT ![g] = [i \in ID |-> IF i \in D THEN c ELSE @[i]]]
  /\ since' = [since EXCEPT ![g] = [i \in ID |-> IF i \in D THEN now ELSE @[i]]]
  /\ \E a \in D \cup {last[g]} :
       /\ \A i \in D \cup {last[g]} : AtMost(i, a)
       /\ last' = [last EXCEPT ![g] = a]

\* Mutant: the last ID itself is read again.
NewFromLast(g, n) == IdsAt(stream, FirstOf(Scan(stream, last[g], Top), n))

\* ReadGroupNewEntries: what comes after the group's last ID, at most n entries.
New(g, n) == IdsAt(stream, FirstOf(Scan(stream, After(last[g]), Top), n))

\* The number in an ID wraps around; the scan then starts before it.
Wraps(g) == last[g][2] = MaxUint

ReadGroupNewEntries(g, c, n) ==
  /\ AddPending(g, c, New(g, n))
  /\ rewound' = [rewound EXCEPT ![g] = @ \/ Wraps(g)]
  /\ UNCHANGED <<acked, passed>>

XReadGroup(g, c, n) ==
  /\ Is(g)
  /\ Number(g, c) + Cardinality(New(g, n)) <= MaxPending
  /\ ReadGroupNewEntries(g, c, n)
  /\ NothingSent
  /\ UNCHANGED <<stream, parked, now>>

\* With BLOCK, nothing new, or nothing pending for c when an ID is given in the place of ">".
XReadGroupBlock(r, g, c) ==
  /\ Is(g)
  /\ \/ New(g, 0) = {} /\ ReadGroupNewEntries(g, c, 0)
     \/ Owned(g, c) = {} /\ UNCHANGED <<groupVars, historyVars>>
  /\ Park(r, "xreadgroup")
  /\ UNCHANGED <<stream, now>>

-----------------------------------------------------------------------------
(* Acknowledgement and claims; IDs that are not pending are passed over.   *)

\* Mutant: an acknowledged entry still counts.
AckEntriesOnly(g, A) ==
  /\ owner' = [owner EXCEPT ![g] = [i \in ID |-> IF i \in A THEN None ELSE @[i]]]
  /\ since' = [since EXCEPT ![g] = [i \in ID |-> IF i \in A THEN 0 ELSE @[i]]]
  /\ acked' = [acked EXCEPT ![g] = @ \cup A]
  /\ UNCHANGED <<last, num, passed, rewound>>

AckEntries(g, A) ==
  /\ num' = [num EXCEPT ![g] = [c \in Consumer |->
               IF @[c] = None THEN None ELSE @[c] - Cardinality(A \cap Owned(g, c))]]
  /\ owner' = [owner EXCEPT ![g] = [i \in ID |-> IF i \in A THEN None ELSE @[i]]]
  /\ since' = [since EXCEPT ![g] = [i \in ID |-> IF i \in A THEN 0 ELSE @[i]]]
  /\ acked' = [acked EXCEPT ![g] = @ \cup A]
  /\ UNCHANGED <<last, passed, rewound>>

XAck(g, A) ==
  /\ Is(g)
  /\ AckEntries(g, A)
  /\ Wake(stream)
  /\ UNCHANGED <<stream, now>>

\* The entries of C change hands; the claimant becomes a consumer, also when C is empty.
ClaimEntries(g, c, C) ==
  /\ num' = [num EXCEPT ![g] = [b \in Consumer |->
               IF b = c THEN Number(g, c) + Cardinality(C \ Owned(g, c))
               ELSE IF @[b] = None THEN None ELSE @[b] - Cardinality(C \cap Owned(g, b))]]
  /\ owner' = [owner EXCEPT ![g] = [i \in ID |-> IF i \in C THEN c ELSE @[i]]]
  /\ since' = [since EXCEPT ![g] = [i \in ID |-> IF i \in C THEN now ELSE @[i]]]
  /\ UNCHANGED <<last, historyVars>>

\* Claimed is what has been pending for long enough.
XClaim(g, c, idle, A) ==
  /\ Is(g)
  /\ ClaimEntries(g, c, {i \in A : now - since[g][i] >= idle})
  /\ Wake(stream)
  /\ UNCHANGED <<stream, now>>

-----------------------------------------------------------------------------
(* The process and the key.                                                *)

GroupsVanish ==
  /\ last' = [g \in Group |-> None]
  /\ num' = [g \in Group |-> NoNums]
  /\ owner' = [g \in Group |-> NoOwners]
  /\ since' = [g \in Group |-> NoTimes]
  /\ acked' = [g \in Group |-> {}] /\ passed' = [g \in Group |-> {}]
  /\ rewound' = [g \in Group |-> FALSE]

\* evictOne takes the stream with its groups; the reads wait on.
Evict ==
  /\ stream # None
  /\ stream' = None
  /\ GroupsVanish
  /\ NothingSent
  /\ UNCHANGED <<parked, now>>

\* XADD with a field that has no value ends the process, and so does XRANGE with reversed ends
\* when there are enough entries; the dump holds no streams.
Panic ==
  /\ \E req \in Added : NextID(Last(Entries), req, now) # None
  /\ stream' = None
  /\ GroupsVanish
  /\ parked' = <<>>
  /\ NothingSent
  /\ UNCHANGED now

Tick ==
  /\ now < LastMs
  /\ now' = now + 1
  /\ NothingSent
  /\ UNCHANGED <<stream, groupVars, historyVars, parked>>

Init ==
  /\ stream = None
  /\ last = [g \in Group |-> None]
  /\ num = [g \in Group |-> NoNums]
  /\ owner = [g \in Group |-> NoOwners]
  /\ since = [g \in Group |-> NoTimes]
  /\ acked = [g \in Group |-> {}] /\ passed = [g \in Group |-> {}]
  /\ rewound = [g \in Group |-> FALSE]
  /\ parked = <<>>
  /\ sent = [r \in Reader |-> None]
  /\ now = FirstMs

Next ==
  \/ Evict \/ Panic \/ Tick
  \/ \E req \in Added : XAdd(req)
  \/ \E r \in Reader : XRead(r) \/ Timeout(r)
  \/ \E g \in Group :
       \/ XGroupDestroy(g) \/ XGroupSetID(g)
       \/ \E mkstream \in BOOLEAN : XGroupCreate(g, mkstream)
       \/ \E A \in SUBSET Pending(g) : XAck(g, A)
       \/ \E c \in Consumer :
            \/ XGroupDelConsumer(g, c)
            \/ \E n \in Counts : XReadGroup(g, c, n)
            \/ \E r \in Reader : XReadGroupBlock(r, g, c)
            \/ \E idle \in MinIdles, A \in SUBSET Pending(g) : XClaim(g, c, idle, A)

Spec == Init /\ [][Next]_vars

-----------------------------------------------------------------------------
(* Properties.                                                             *)

Waiting == [reader : Reader, kind : {"xread", "xreadgroup"}, from : ID]

TypeOK ==
  /\ stream \in Seq(ID) \cup {None}
  /\ last \in [Group -> ID \cup {None}]
  /\ num \in [Group -> [Consumer -> Nat \cup {None}]]
  /\ owner \in [Group -> [ID -> Consumer \cup {Nobody, None}]]
  /\ since \in [Group -> [ID -> Nat]]
  /\ acked \in [Group -> SUBSET ID] /\ passed \in [Group -> SUBSET ID]
  /\ rewound \in [Group -> BOOLEAN]
  /\ parked \in Seq(Waiting)
  /\ sent \in [Reader -> (SUBSET ID) \cup {None}]
  /\ now \in FirstMs .. LastMs

\* The IDs of a stream increase; what is pending is one of its entries, and has a consumer of
\* the group or none; without a stream or a group there is nothing of it.
Shape ==
  /\ Increasing(Entries)
  /\ \A g \in Group : ~Is(g) => last[g] = None /\ Pending(g) \cup acked[g] \cup passed[g] = {}
  /\ \A g \in Group, i \in ID : owner[g][i] # None =>
       /\ \E j \in DOMAIN Entries : Entries[j] = i
       /\ owner[g][i] \in Consumer => num[g][owner[g][i]] # None

\* Every group reads on where it stopped: no entry is before its last ID but those that are
\* pending, acknowledged, or were put behind it by CREATE or SETID.  COUNT, several consumers,
\* claims and consumers that are removed lose nothing.
Handled(g) == Pending(g) \cup acked[g] \cup passed[g]

NothingSkipped ==
  \A g \in Group : Is(g) =>
    \A j \in DOMAIN stream : AtMost(stream[j], last[g]) => stream[j] \in Handled(g)

\* The same of all IDs, those that no later entry can have left aside.
Covered ==
  \A g \in Group : Is(g) =>
    \A i \in ID : AtMost(i, last[g]) =>
      \/ i \in Handled(g)
      \/ \E n \in DOMAIN stream : AtMost(i, stream[n]) /\ \A j \in DOMAIN stream : stream[j] # i

\* A consumer's number of pending entries, which is counted apart from the list of them, is
\* at least as large as what it has, and is exact until a read starts before the last ID.
CountsAgree ==
  \A g \in Group, c \in Consumer : num[g][c] # None =>
    /\ num[g][c] >= Cardinality(Owned(g, c))
    /\ ~rewound[g] => num[g][c] = Cardinality(Owned(g, c))

\* An entry that was acknowledged does not come back, unless SETID goes back or an ID wraps.
AckIsFinal ==
  \A g \in Group : ~rewound[g] => acked[g] \cap Pending(g) = {}

\* What a group has handled is not after its last ID, so that its next read goes past it.
Behind ==
  \A g \in Group : Is(g) /\ ~rewound[g] =>
    \A i \in Pending(g) \cup acked[g] : AtMost(i, last[g])

\* A client waits in one read at a time.
OncePerReader == \A i, j \in DOMAIN parked : parked[i].reader = parked[j].reader => i = j

GInv == TypeOK /\ Shape /\ Covered /\ CountsAgree /\ AckIsFinal /\ Behind /\ OncePerReader

\* XRANGE, and the look-ups of single entries by XCLAIM and XREADGROUP, get what is between
\* both ends, the ends included, when the end is an entry or the maximum.  (For an end between
\* two entries the scan goes on to the next entry, and past the last one it is an error.)
RangeIsInclusive ==
  \A a \in ID : \A b \in {Entries[j] : j \in DOMAIN Entries} \cup {Top} :
    Scan(Entries, a, b) = {i \in DOMAIN Entries : AtMost(a, Entries[i]) /\ AtMost(Entries[i], b)}

\* A new entry reaches every waiting XREAD, unless the one in front of it waits for a later ID.
\* It is answered with what comes after the ID it waits from, whatever it has waited through.
ReadersServed ==
  \A n \in DOMAIN parked :
    LET e == Last(stream')
        got == sent'[parked[n].reader] IN
    /\ stream' \notin {None, stream, <<>>}
    /\ parked[n].kind = "xread"
    /\ \A i \in 1 .. n : parked[i].kind = "xread" => Before(parked[i].from, e)
    => /\ got # None /\ e \in got
       /\ parked[n].from[2] # MaxUint => \A i \in got : Before(parked[n].from, i)
       /\ \A i \in DOMAIN parked' : parked'[i].reader # parked[n].reader

ReadersMissNothing == [][ReadersServed]_vars
=============================================================================
