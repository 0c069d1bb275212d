----------------------------- MODULE Replication -----------------------------
(***************************************************************************)
(* Replication in simis: the handshake of a slave with its master, the     *)
(* propagation of writes, GETACK and ACK, and WAIT (internal/replication,  *)
(* internal/server/slave.go, internal/server/session.go and the handlers   *)
(* PSYNC, REPLCONF and WAIT).                                              *)
(*                                                                         *)
(* A member of Replica is one slave process with its one connection to the *)
(* master; simis never connects a second time.  Writes are numbered in the *)
(* order in which the master's executor propagates them.  The two          *)
(* directions of a connection are sequences of messages; a Read returns    *)
(* any number of the messages that are there, as TCP does.                 *)
(***************************************************************************)
EXTENDS Integers, Sequences, FiniteSets, SequencesExt

CONSTANTS
  Replica,    \* slave processes
  Crashers,   \* those of them that may die
  Waiter,     \* client connections that send one WAIT each
  Executor,   \* the master's executor goroutine
  None,
  Num,        \* Num[w]: the numreplicas of w's WAIT
  Timed,      \* the waiters whose WAIT has a timeout other than 0
  WriteSize, GetAckSize,  \* bytes of a write and of REPLCONF GETACK *
  MaxWrites,  \* writes propagated (bound)
  MaxAsks     \* GETACKs a WAIT sends, see MayAsk (bound)

Sender == Waiter \cup {Executor}

\* What goes down to a slave and up to the master; n numbers a write, and is the
\* offset of an acknowledgement.
DownMsg == [kind : {"pong", "ok", "fullresync", "rdb", "error", "write", "getack"}, n : Nat]
UpMsg   == [kind : {"ping", "replconf", "psync", "ack", "reply"}, n : Int]

ASSUME ConstantsAssumption ==
  /\ IsFiniteSet(Replica) /\ IsFiniteSet(Waiter) /\ Crashers \in SUBSET Replica
  /\ Executor \notin Waiter /\ None \notin DownMsg
  /\ Num \in [Waiter -> Nat] /\ Timed \in SUBSET Waiter
  /\ WriteSize \in Nat \ {0} /\ GetAckSize \in Nat \ {0}
  /\ MaxWrites \in Nat /\ MaxAsks \in Nat

VARIABLES
  alive,       \* the master process has not died
  offset,      \* the master's replication offset
  written,     \* the writes whose propagation has begun
  registered, handshaken,  \* the keys of Manager.replicas; those with IsHandshakeDone
  lastAck,     \* lastAck[r]: LastAckOffset
  message,     \* message[s]: what sender s is propagating, or None
  todo,        \* todo[s]: the replicas it still has to write to
  up, down,    \* up[r], down[r]: what r has sent and the master has not read, and back
  leftover,    \* leftover[r]: what the master's session has read and not parsed
  inbox,       \* inbox[r]: the commands it has parsed and not routed
  psync,       \* psync[r]: where the master's session is in executePsync
  phase,       \* phase[r]: where r's goroutine for its master is
  slaveOffset, \* slaveOffset[r]: r's own replication offset
  suppress,    \* suppress[r]: suppressResponse of r's connection to the master
  wait,        \* wait[w]: where w's WAIT is
  target,      \* target[w]: currentOffset
  asks,        \* asks[w]: the GETACKs it has sent
  expired,     \* the WAITs whose deadline has passed
  base,        \* history: the writes begun when r's handshake was done
  applied,     \* history: how many writes r has executed
  goal,        \* history: the writes that were answered when w's WAIT came
  counted      \* history: the replicas that w's WAIT counted in its answer

masterVars == <<alive, offset, written, registered, handshaken, lastAck>>
sendVars   == <<message, todo>>
linkVars   == <<up, down, leftover, inbox, psync>>
slaveVars  == <<phase, slaveOffset, suppress, applied>>
waitVars   == <<wait, target, asks, expired, goal, counted>>
vars == <<masterVars, sendVars, linkVars, slaveVars, waitVars, base>>

Msg(kind, n) == [kind |-> kind, n |-> n]
Size(m) == IF m.kind = "write" THEN WriteSize ELSE GetAckSize

-----------------------------------------------------------------------------
(* PropagateCommand, by the executor for a write and by WAIT for GETACK.   *)
(* Both hold the manager's read lock from Begin to End, at the same time.  *)

\* Mutant of Begin: a replica that still has something to read is passed over.
BeginIdle(s, m) ==
  /\ message' = [message EXCEPT ![s] = m]
  /\ todo' = [todo EXCEPT ![s] = {r \in handshaken : down[r] = <<>>}]

Begin(s, m) ==
  /\ message' = [message EXCEPT ![s] = m]
  /\ todo' = [todo EXCEPT ![s] = handshaken]

\* One write to one replica; the map gives them in any order.
Send(s, r) ==
  /\ alive
  /\ r \in todo[s]
  /\ todo' = [todo EXCEPT ![s] = @ \ {r}]
  /\ down' = IF phase[r] = "dead" THEN down
             ELSE [down EXCEPT ![r] = Append(@, message[s])]
  /\ UNCHANGED <<masterVars, message, up, leftover, inbox, psync, slaveVars, waitVars, base>>

\* Mutant of End: GETACK is not counted in the offset.
EndWrites(s) ==
  /\ alive
  /\ message[s] # None
  /\ todo[s] = {}
  /\ offset' = IF s = Executor THEN offset + WriteSize ELSE offset
  /\ message' = [message EXCEPT ![s] = None]
  /\ wait' = [w \in Waiter |-> IF w = s THEN "count" ELSE wait[w]]
  /\ UNCHANGED <<alive, written, registered, handshaken, lastAck, todo, linkVars, slaveVars,
                 target, asks, expired, goal, counted, base>>

\* AddOffset; WAIT goes on to sleep.
End(s) ==
  /\ alive
  /\ message[s] # None
  /\ todo[s] = {}
  /\ offset' = offset + Size(message[s])
  /\ message' = [message EXCEPT ![s] = None]
  /\ wait' = [w \in Waiter |-> IF w = s THEN "count" ELSE wait[w]]
  /\ UNCHANGED <<alive, written, registered, handshaken, lastAck, todo, linkVars, slaveVars,
                 target, asks, expired, goal, counted, base>>

\* The executor has executed a write command.
Write ==
  /\ alive
  /\ message[Executor] = None
  /\ written < MaxWrites
  /\ written' = written + 1
  /\ Begin(Executor, Msg("write", written + 1))
  /\ UNCHANGED <<alive, offset, registered, handshaken, lastAck, linkVars, slaveVars, waitVars,
                 base>>

\* The writes that their clients have been answered.
Answered == IF message[Executor] = None THEN written ELSE written - 1

-----------------------------------------------------------------------------
(* The master's session with a replica.                                    *)

\* ParseMultipleRequests gives up at the first thing that is not an array: the
\* line is dropped, and what follows is kept for the next Read.
Unparsed(s, cut) ==
  /\ \A i \in 1..cut - 1 : s[i].kind # "reply"
  /\ cut <= Len(s) => s[cut].kind = "reply"

\* Mutant of SessionRead: what was left over goes behind what is new.
SessionReadSwaps(r) ==
  /\ alive
  /\ psync[r] = "no" /\ inbox[r] = <<>>
  /\ \E n \in 1..Len(up[r]) :
       LET buffer == SubSeq(up[r], 1, n) \o leftover[r]
       IN \E cut \in 1..Len(buffer) + 1 :
            /\ Unparsed(buffer, cut)
            /\ up' = [up EXCEPT ![r] = SubSeq(@, n + 1, Len(@))]
            /\ inbox' = [inbox EXCEPT ![r] = SubSeq(buffer, 1, cut - 1)]
            /\ leftover' = [leftover EXCEPT ![r] = SubSeq(buffer, cut + 1, Len(buffer))]
  /\ UNCHANGED <<masterVars, sendVars, down, psync, slaveVars, waitVars, base>>

SessionRead(r) ==
  /\ alive
  /\ psync[r] = "no" /\ inbox[r] = <<>>
  /\ \E n \in 1..Len(up[r]) :
       LET buffer == leftover[r] \o SubSeq(up[r], 1, n)
       IN \E cut \in 1..Len(buffer) + 1 :
            /\ Unparsed(buffer, cut)
            /\ up' = [up EXCEPT ![r] = SubSeq(@, n + 1, Len(@))]
            /\ inbox' = [inbox EXCEPT ![r] = SubSeq(buffer, 1, cut - 1)]
            /\ leftover' = [leftover EXCEPT ![r] = SubSeq(buffer, cut + 1, Len(buffer))]
  /\ UNCHANGED <<masterVars, sendVars, down, psync, slaveVars, waitVars, base>>

Tell(r, kind) ==
  down' = IF phase[r] = "dead" THEN down ELSE [down EXCEPT ![r] = Append(@, Msg(kind, 0))]

Routed(r, kind) ==
  /\ alive
  /\ psync[r] = "no"
  /\ inbox[r] # <<>>
  /\ Head(inbox[r]).kind = kind
  /\ inbox' = [inbox EXCEPT ![r] = Tail(@)]

\* PING is a data command: the executor answers it, between two others.
Ping(r) ==
  /\ Routed(r, "ping")
  /\ message[Executor] = None
  /\ Tell(r, "pong")
  /\ UNCHANGED <<masterVars, sendVars, up, leftover, psync, slaveVars, waitVars, base>>

\* The manager's lock, taken for writing by AddReplica.
Lock == \A s \in Sender : message[s] = None

Replconf(r) ==
  /\ Routed(r, "replconf")
  /\ r \in registered \/ Lock
  /\ registered' = registered \cup {r}
  /\ Tell(r, "ok")
  /\ UNCHANGED <<alive, offset, written, handshaken, lastAck, sendVars, up, leftover, psync,
                 slaveVars, waitVars, base>>

Psync(r) ==
  /\ Routed(r, "psync")
  /\ Tell(r, "fullresync")
  /\ psync' = [psync EXCEPT ![r] = "file"]
  /\ UNCHANGED <<masterVars, sendVars, up, leftover, slaveVars, waitVars, base>>

\* The dump on disk, whatever it holds by then; or there is none.
PsyncFile(r) ==
  /\ alive
  /\ psync[r] = "file"
  /\ \/ Tell(r, "rdb") /\ psync' = [psync EXCEPT ![r] = "mark"]
     \/ Tell(r, "error") /\ psync' = [psync EXCEPT ![r] = "no"]
  /\ UNCHANGED <<masterVars, sendVars, up, leftover, inbox, slaveVars, waitVars, base>>

PsyncMark(r) ==
  /\ alive
  /\ psync[r] = "mark"
  /\ handshaken' = handshaken \cup {r}
  /\ base' = IF r \in handshaken THEN base ELSE [base EXCEPT ![r] = written]
  /\ psync' = [psync EXCEPT ![r] = "no"]
  /\ UNCHANGED <<alive, offset, written, registered, lastAck, sendVars, up, down, leftover,
                 inbox, slaveVars, waitVars>>

\* Mutant of Ack: an acknowledgement stands for the offset of the master.
AckAssumes(r) ==
  /\ Routed(r, "ack")
  /\ lastAck' = [lastAck EXCEPT ![r] = offset]
  /\ UNCHANGED <<alive, offset, written, registered, handshaken, sendVars, up, down, leftover,
                 psync, slaveVars, waitVars, base>>

Ack(r) ==
  /\ Routed(r, "ack")
  /\ lastAck' = [lastAck EXCEPT ![r] = Head(inbox[r]).n]
  /\ UNCHANGED <<alive, offset, written, registered, handshaken, sendVars, up, down, leftover,
                 psync, slaveVars, waitVars, base>>

SessionStep(r) ==
  \/ SessionRead(r) \/ Ping(r) \/ Replconf(r) \/ Psync(r) \/ PsyncFile(r) \/ PsyncMark(r)
  \/ Ack(r)

-----------------------------------------------------------------------------
(* The slave.                                                              *)

Say(r, msgs) == up' = [up EXCEPT ![r] = @ \o msgs]
Drop(r, n)   == down' = [down EXCEPT ![r] = SubSeq(@, n + 1, Len(@))]

Connect(r) ==
  /\ phase[r] = "off"
  /\ phase' = [phase EXCEPT ![r] = "ping"]
  /\ Say(r, <<Msg("ping", 0)>>)
  /\ UNCHANGED <<masterVars, sendVars, down, leftover, inbox, psync, slaveOffset, suppress,
                 applied, waitVars, base>>

\* getMasterResponse: one Read, and what it returns must be the one reply that
\* is expected.
Expect(r, from, to, msgs) ==
  /\ phase[r] = from
  /\ \E n \in 1..Len(down[r]) :
       /\ Drop(r, n)
       /\ IF n = 1 THEN phase' = [phase EXCEPT ![r] = to] /\ Say(r, msgs)
                   ELSE phase' = [phase EXCEPT ![r] = "failed"] /\ UNCHANGED up
  /\ UNCHANGED <<masterVars, sendVars, leftover, inbox, psync, slaveOffset, suppress, applied,
                 waitVars, base>>

\* sendReplconfCommands sends both commands before it reads a reply.
Handshake(r) ==
  \/ Expect(r, "ping", "conf1", <<Msg("replconf", 0), Msg("replconf", 0)>>)
  \/ Expect(r, "conf1", "conf2", <<>>)
  \/ Expect(r, "conf2", "psync", <<Msg("psync", 0)>>)

\* sendPsync: FULLRESYNC alone, or with what follows it; the offset starts at 0.
FullResync(r) ==
  /\ phase[r] = "psync"
  /\ down[r] # <<>>
  /\ Drop(r, 1)
  /\ slaveOffset' = [slaveOffset EXCEPT ![r] = 0]
  /\ phase' = [phase EXCEPT ![r] = "rdb"]
  /\ UNCHANGED <<masterVars, sendVars, up, leftover, inbox, psync, suppress, applied, waitVars,
                 base>>

\* extractBinary fails when the Read has not returned all of the snapshot, or
\* returns an error in its place.
LoadSnapshot(r) ==
  /\ phase[r] = "rdb"
  /\ down[r] # <<>>
  /\ Drop(r, 1)
  /\ \E to \in {"stream", "failed"} :
       /\ to = "stream" => Head(down[r]).kind = "rdb"
       /\ phase' = [phase EXCEPT ![r] = to]
  /\ UNCHANGED <<masterVars, sendVars, up, leftover, inbox, psync, slaveOffset, suppress,
                 applied, waitVars, base>>

\* HandleRequests: Route, then AddOffset.
Streams(r, kind) ==
  /\ phase[r] = "stream"
  /\ down[r] # <<>>
  /\ Head(down[r]).kind = kind
  /\ Drop(r, 1)
  /\ slaveOffset' = [slaveOffset EXCEPT ![r] = @ + Size(Head(down[r]))]

\* A write is executed; its reply goes to the master until the first GETACK.
ApplyWrite(r) ==
  /\ Streams(r, "write")
  /\ applied' = [applied EXCEPT ![r] = @ + 1]
  /\ Say(r, IF suppress[r] THEN <<>> ELSE <<Msg("reply", 0)>>)
  /\ UNCHANGED <<masterVars, sendVars, leftover, inbox, psync, phase, suppress, waitVars, base>>

\* Mutant of GetAck: the connection is still silenced for the ACK.
GetAckSilent(r) ==
  /\ Streams(r, "getack")
  /\ Say(r, IF suppress[r] THEN <<>> ELSE <<Msg("ack", slaveOffset[r])>>)
  /\ suppress' = [suppress EXCEPT ![r] = TRUE]
  /\ UNCHANGED <<masterVars, sendVars, leftover, inbox, psync, phase, applied, waitVars, base>>

GetAck(r) ==
  /\ Streams(r, "getack")
  /\ Say(r, <<Msg("ack", slaveOffset[r])>>)
  /\ suppress' = [suppress EXCEPT ![r] = TRUE]
  /\ UNCHANGED <<masterVars, sendVars, leftover, inbox, psync, phase, applied, waitVars, base>>

\* The process dies; what it has sent may still arrive.
Crash(r) ==
  /\ r \in Crashers
  /\ phase[r] \notin {"off", "dead"}
  /\ phase' = [phase EXCEPT ![r] = "dead"]
  /\ down' = [down EXCEPT ![r] = <<>>]
  /\ UNCHANGED <<masterVars, sendVars, up, leftover, inbox, psync, slaveOffset, suppress,
                 applied, waitVars, base>>

SlaveStep(r) ==
  Handshake(r) \/ FullResync(r) \/ LoadSnapshot(r) \/ ApplyWrite(r) \/ GetAck(r)

-----------------------------------------------------------------------------
(* WAIT.                                                                   *)

Answer(w, replicas) ==
  /\ wait' = [wait EXCEPT ![w] = "answered"]
  /\ counted' = [counted EXCEPT ![w] = replicas]

WaitCommand(w) ==
  /\ alive
  /\ wait[w] = "idle"
  /\ goal' = [goal EXCEPT ![w] = Answered]
  /\ IF Num[w] = 0 THEN Answer(w, {})
     ELSE wait' = [wait EXCEPT ![w] = "check"] /\ UNCHANGED counted
  /\ UNCHANGED <<masterVars, sendVars, linkVars, slaveVars, target, asks, expired, base>>

\* The map is read without the lock here.
WaitCheck(w) ==
  /\ alive
  /\ wait[w] = "check"
  /\ IF handshaken = {} THEN Answer(w, {}) /\ UNCHANGED target
     ELSE IF offset = 0 THEN Answer(w, registered) /\ UNCHANGED target
     ELSE /\ wait' = [wait EXCEPT ![w] = "ask"]
          /\ target' = [target EXCEPT ![w] = offset]
          /\ UNCHANGED counted
  /\ UNCHANGED <<masterVars, sendVars, linkVars, slaveVars, asks, expired, goal, base>>

WaitAsk(w) ==
  /\ alive
  /\ wait[w] = "ask"
  /\ wait' = [wait EXCEPT ![w] = "send"]
  /\ asks' = [asks EXCEPT ![w] = @ + 1]
  /\ Begin(w, Msg("getack", 0))
  /\ UNCHANGED <<masterVars, linkVars, slaveVars, target, expired, goal, counted, base>>

\* The bound on GETACKs: a further one only when an ACK is kept in a session's
\* leftover, where nothing but a further message gets it out.
MayAsk(w) ==
  \/ asks[w] < MaxAsks
  \/ \E r \in Replica : phase[r] = "stream" /\ leftover[r] # <<>> /\ up[r] \o down[r] = <<>>

\* Mutant of Updated: the size of a GETACK is allowed for.
UpdatedLoose(w) == {r \in registered : lastAck[r] + GetAckSize >= target[w]}

Updated(w) == {r \in registered : lastAck[r] >= target[w]}

WaitCount(w) ==
  /\ alive
  /\ wait[w] = "count"
  /\ \/ /\ Cardinality(Updated(w)) >= Num[w] \/ w \in expired
        /\ Answer(w, Updated(w))
     \/ /\ Cardinality(Updated(w)) < Num[w] /\ w \notin expired
        /\ MayAsk(w)
        /\ wait' = [wait EXCEPT ![w] = "ask"]
        /\ UNCHANGED counted
  /\ UNCHANGED <<masterVars, sendVars, linkVars, slaveVars, target, asks, expired, goal, base>>

Deadline(w) ==
  /\ w \in Timed \ expired
  /\ wait[w] \in {"ask", "send", "count"}
  /\ expired' = expired \cup {w}
  /\ UNCHANGED <<masterVars, sendVars, linkVars, slaveVars, wait, target, asks, goal, counted,
                 base>>

WaitStep(w) == WaitCheck(w) \/ WaitAsk(w) \/ WaitCount(w) \/ Deadline(w)

\* The Go runtime ends the process when it notices that WAIT reads the map of
\* replicas while AddReplica writes it.
ConcurrentMapAbort ==
  /\ \E w \in Waiter : wait[w] = "check"
  /\ \E r \in Replica \ registered : Routed(r, "replconf")
  /\ alive' = FALSE
  /\ UNCHANGED <<offset, written, registered, handshaken, lastAck, sendVars, up, down, leftover,
                 psync, slaveVars, waitVars, base>>

-----------------------------------------------------------------------------
Init ==
  /\ alive = TRUE /\ offset = 0 /\ written = 0 /\ registered = {} /\ handshaken = {}
  /\ lastAck = [r \in Replica |-> 0]
  /\ message = [s \in Sender |-> None] /\ todo = [s \in Sender |-> {}]
  /\ up = [r \in Replica |-> <<>>] /\ down = [r \in Replica |-> <<>>]
  /\ leftover = [r \in Replica |-> <<>>] /\ inbox = [r \in Replica |-> <<>>]
  /\ psync = [r \in Replica |-> "no"]
  /\ phase = [r \in Replica |-> "off"] /\ slaveOffset = [r \in Replica |-> -1]
  /\ suppress = [r \in Replica |-> FALSE]
  /\ wait = [w \in Waiter |-> "idle"] /\ target = [w \in Waiter |-> 0]
  /\ asks = [w \in Waiter |-> 0] /\ expired = {}
  /\ base = [r \in Replica |-> 0] /\ applied = [r \in Replica |-> 0]
  /\ goal = [w \in Waiter |-> 0] /\ counted = [w \in Waiter |-> {}]

SendStep(s) == End(s) \/ \E r \in Replica : Send(s, r)

Next ==
  \/ Write
  \/ \E s \in Sender : SendStep(s)
  \/ \E r \in Replica : SessionStep(r) \/ Connect(r) \/ SlaveStep(r) \/ Crash(r)
  \/ \E w \in Waiter : WaitCommand(w) \/ WaitStep(w)
  \/ ConcurrentMapAbort

Spec == Init /\ [][Next]_vars

\* Goroutines that can run do run, and clocks go on.
FairSpec ==
  /\ Spec
  /\ \A s \in Sender : WF_vars(SendStep(s))
  /\ \A r \in Replica : WF_vars(SessionStep(r)) /\ WF_vars(SlaveStep(r))
  /\ \A w \in Waiter : WF_vars(WaitCheck(w) \/ WaitAsk(w) \/ WaitCount(w))
                       /\ WF_vars(Deadline(w))

-----------------------------------------------------------------------------
(* Properties.                                                             *)

\* Every variable keeps to its type.
TypeOK ==
  /\ alive \in BOOLEAN /\ offset \in Nat /\ written \in Nat
  /\ registered \in SUBSET Replica /\ handshaken \in SUBSET Replica
  /\ lastAck \in [Replica -> Int]
  /\ message \in [Sender -> DownMsg \cup {None}] /\ todo \in [Sender -> SUBSET Replica]
  /\ up \in [Replica -> Seq(UpMsg)] /\ down \in [Replica -> Seq(DownMsg)]
  /\ leftover \in [Replica -> Seq(UpMsg)] /\ inbox \in [Replica -> Seq(UpMsg)]
  /\ psync \in [Replica -> {"no", "file", "mark"}]
  /\ phase \in [Replica -> {"off", "ping", "conf1", "conf2", "psync", "rdb", "stream",
                            "failed", "dead"}]
  /\ slaveOffset \in [Replica -> Int] /\ suppress \in [Replica -> BOOLEAN]
  /\ wait \in [Waiter -> {"idle", "check", "ask", "send", "count", "answered"}]
  /\ target \in [Waiter -> Nat] /\ asks \in [Waiter -> Nat] /\ expired \in SUBSET Waiter
  /\ base \in [Replica -> Nat] /\ applied \in [Replica -> Nat]
  /\ goal \in [Waiter -> Nat] /\ counted \in [Waiter -> SUBSET Replica]

\* Who propagates what, and to whom.
Senders ==
  /\ \A w \in Waiter : message[w] \in {None, Msg("getack", 0)}
  /\ message[Executor] \in {None, Msg("write", written)}
  /\ message[Executor] # None => written > 0
  /\ \A s \in Sender : todo[s] \subseteq handshaken /\ (todo[s] # {} => message[s] # None)

\* What the sessions and the slaves know of the handshake, and which messages can
\* be where before it is over.
Heard(r) == ToSet(inbox[r]) \cup ToSet(leftover[r]) \cup ToSet(up[r])
PlainAt(q, i) == i \in DOMAIN q /\ q[i].kind # "write"
HandshakeOf(r) ==
  /\ phase[r] \in {"off", "ping", "conf1", "conf2"} =>
       psync[r] = "no" /\ r \notin handshaken /\ \A m \in Heard(r) : m.kind # "psync"
  /\ phase[r] = "psync" /\ (psync[r] # "no" \/ r \in handshaken) => PlainAt(down[r], 1)
  /\ phase[r] = "psync" /\ (psync[r] = "mark" \/ r \in handshaken) => PlainAt(down[r], 2)
  /\ phase[r] = "rdb" /\ (psync[r] = "mark" \/ r \in handshaken) => PlainAt(down[r], 1)
Handshakes == \A r \in Replica : HandshakeOf(r)

\* Acknowledgements, on their way or arrived, are of offsets the slave has reached;
\* there are none before the stream.
AcksOf(r) ==
  /\ lastAck[r] > 0 => lastAck[r] <= slaveOffset[r]
  /\ \A m \in Heard(r) : m.kind = "ack" => m.n <= slaveOffset[r]
  /\ phase[r] \notin {"stream", "failed", "dead"} =>
       lastAck[r] = 0 /\ \A m \in Heard(r) : m.kind # "ack"
Acks == \A r \in Replica : AcksOf(r)

\* The writes on their way to r are those between what it has executed and what
\* was sent to it, in order.
OnTheWay(q) == {i \in DOMAIN q : q[i].kind = "write"}
Numbers(q)  == {q[i].n : i \in OnTheWay(q)}
Ordered(q)  == \A i, j \in OnTheWay(q) : i < j => q[i].n < q[j].n
SentTo(r)   == IF r \in todo[Executor] THEN written - 1 ELSE written
WritesOf(r) ==
  /\ r \notin handshaken => OnTheWay(down[r]) = {} /\ applied[r] = 0
  /\ r \in handshaken /\ phase[r] # "dead" =>
       /\ base[r] + applied[r] <= SentTo(r)
       /\ Numbers(down[r]) = base[r] + applied[r] + 1 .. SentTo(r)
       /\ Ordered(down[r])
Writes == \A r \in Replica : WritesOf(r)

\* What is known of the messages and of who sends them.
Delivery == TypeOK /\ Senders /\ Handshakes /\ Acks /\ Writes

\* What the master has not processed of what r has sent: its acknowledgements are in
\* the order of their offsets, the one that counts included, and each is of the offset
\* before its GETACK.
Line(r) == inbox[r] \o leftover[r] \o up[r]
AckAt(r, i) == i \in DOMAIN Line(r) /\ Line(r)[i].kind = "ack"
AcksRiseOf(r) ==
  /\ phase[r] \in {"rdb", "stream"} => slaveOffset[r] >= 0
  /\ lastAck[r] > 0 => lastAck[r] + GetAckSize <= slaveOffset[r]
  /\ \A i \in DOMAIN Line(r) : AckAt(r, i) => /\ lastAck[r] <= Line(r)[i].n
                                   /\ Line(r)[i].n + GetAckSize <= slaveOffset[r]
  /\ \A i, j \in DOMAIN Line(r) : AckAt(r, i) /\ AckAt(r, j) /\ i < j => Line(r)[i].n <= Line(r)[j].n
AcksRise == \A r \in Replica : AcksRiseOf(r)

\* The bytes of what is ahead of the i-th message of q, as an offset counts them.
Count(q, i, kind) == Cardinality({j \in DOMAIN q : j < i /\ q[j].kind = kind})
Bytes(q, i) == WriteSize * Count(q, i, "write") + GetAckSize * Count(q, i, "getack")

\* What is being propagated and not yet added to the offset: all of it, and as much of
\* it as r was sent.
Amount(senders) ==
  (IF Executor \in senders THEN WriteSize ELSE 0) + GetAckSize * Cardinality(senders \ {Executor})
Sent(r) == {s \in Sender : message[s] # None /\ r \notin todo[s]}
Pending == Amount({s \in Sender : message[s] # None})
PendingTo(r) == Amount(Sent(r))

\* A WAIT propagates its GETACK before it looks at what it was answered.
Asking == \A w \in Waiter : wait[w] = "send" <=> message[w] # None

\* A slave that has died reads nothing more.
Gone == \A r \in Replica : phase[r] = "dead" => down[r] = <<>>

\* The offset of r when it will have processed what is ahead of the i-th message; that
\* of its last one is no more than the master has sent.
Position(r, i) == (IF slaveOffset[r] < 0 THEN 0 ELSE slaveOffset[r]) + Bytes(down[r], i)
Offsets == \A r \in Replica : Position(r, Len(down[r]) + 1) <= offset + PendingTo(r)

\* The offset that w's WAIT asks for, or will ask for if write k is answered before it
\* comes; the writes it is about.
Mark(w, k) ==
  CASE wait[w] = "idle" -> offset + (IF message[Executor] # None /\ k = written
                                     THEN WriteSize ELSE 0)
    [] wait[w] = "check" -> offset
    [] OTHER -> target[w]
About(w, k) ==
  CASE wait[w] = "idle" -> k <= written
    [] wait[w] = "answered" -> FALSE
    [] OTHER -> k <= goal[w]

\* A slave that lacks one of those writes has not acknowledged that offset, and will not
\* before it has executed the write: one GETACK at most is between.
NextOf(r) == base[r] + applied[r] + 1
MarksOf(w, r) ==
  /\ \A i \in OnTheWay(down[r]) :
       About(w, down[r][i].n) => Position(r, i) < Mark(w, down[r][i].n) + GetAckSize
  /\ phase[r] = "dead" /\ r \in handshaken /\ About(w, NextOf(r)) =>
       Position(r, 1) < Mark(w, NextOf(r)) + GetAckSize
WaitOf(w) ==
  /\ wait[w] \in {"ask", "send", "count"} => target[w] > 0
  /\ goal[w] <= Answered
  /\ \A r \in Replica : MarksOf(w, r)
  /\ wait[w] # "answered" => counted[w] = {}
  /\ \A r \in counted[w] \cap handshaken : base[r] + applied[r] >= goal[w]
Waits == (offset = 0 => Answered = 0) /\ \A w \in Waiter : WaitOf(w)

\* The GETACKs of other WAITs that a slave can have processed while none of them is in
\* the master's offset are shorter than one write, all but the last of them.  It holds
\* with two WAITs, and with more when writes are longer.
FewWaits == GetAckSize * (Cardinality(Waiter) - 2) < WriteSize

\* The inductive invariant: of NoGap and AcksAreTrue, AcksGrow, SlaveBehind, and of
\* WaitIsSound.
RInv == Delivery /\ AcksRise /\ Asking /\ Gone /\ Offsets /\ (FewWaits => Waits)

\* A slave executes the writes in the order of the master, and after the first
\* one it misses none.
NoGap ==
  [][\A r \in Replica :
       applied'[r] # applied[r] => Head(down[r]).n = base[r] + applied[r] + 1]_vars

\* A slave's offset never runs ahead of its master's, what is being propagated
\* included.
SlaveBehind ==
  \A r \in Replica : slaveOffset[r] + Bytes(down[r], Len(down[r]) + 1) <= offset + Pending

\* What a slave has acknowledged it has executed, and acknowledgements of one
\* slave never go back.
AcksAreTrue == \A r \in Replica : lastAck[r] > 0 => lastAck[r] <= slaveOffset[r]
AcksGrow == [][\A r \in Replica : lastAck'[r] >= lastAck[r]]_vars

\* A replica that was there before the first write.
Early(r) == r \in handshaken /\ base[r] = 0

\* A replica that was there before the first write is counted by a WAIT only if
\* it has executed every write that was answered before that WAIT.
WaitIsSound ==
  \A w \in Waiter : \A r \in counted[w] : Early(r) => applied[r] >= goal[w]

Waiting(w) == wait[w] \in {"check", "ask", "send", "count"}

\* A WAIT with a timeout is answered, and so is one without when enough replicas
\* that were there from the start go on.
WaitsEnd ==
  \A w \in Waiter :
    Waiting(w) /\ (w \in Timed \/ Cardinality({r \in Replica \ Crashers :
                                                 Early(r) /\ phase[r] = "stream"}) >= Num[w])
      ~> wait[w] = "answered" \/ ~alive

=============================================================================
