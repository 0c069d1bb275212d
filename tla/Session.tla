------------------------------ MODULE Session ------------------------------
(***************************************************************************)
(* The connection goroutines of simis: what the router does with a request *)
(* in each state of its connection, MULTI/EXEC/DISCARD, the publish and    *)
(* subscribe manager, AUTH and ACL SETUSER; and the executor goroutine as  *)
(* far as they depend on it (internal/server, internal/connection,         *)
(* internal/handler/session, internal/pubsub, internal/acl).               *)
(*                                                                         *)
(* The client of a connection sends the requests of Requests[c] in any     *)
(* order.  A request is named <<c, n>>: the n-th one that c's goroutine    *)
(* took from its socket.                                                   *)
(***************************************************************************)
EXTENDS Naturals, Sequences, FiniteSets, SequencesExt

CONSTANTS
  Conn,         \* connections
  Channel,      \* publish/subscribe channels
  Password,     \* passwords of the user "default", the only one there can be
  None,
  Requests,     \* Requests[c]: what the client of c may send
  MaxRequests,  \* MaxRequests[c]: how many requests it sends (bound)
  MaxExec,      \* after so many EXECs were answered it sends no further MULTI (bound)
  SocketCap,    \* unread replies a connection's socket holds before a write waits
  Readers,      \* the clients that read what they are sent
  Leavers       \* the clients that may go away

\* "data": a command of the executor; "ping", "publish": the two of them that are
\* allowed in publish/subscribe mode; the others have a session handler.
Ops == {"data", "ping", "publish", "multi", "exec", "discard", "subscribe",
        "unsubscribe", "auth", "setuser"}
Arg == Channel \cup Password \cup {None}
Request == [op : Ops, arg : Arg]

SessionHandlers == {"multi", "exec", "discard", "subscribe", "unsubscribe", "auth", "setuser"}
PubSubCommands  == {"ping", "subscribe", "unsubscribe", "publish"}
TransactionControl == {"exec", "discard"}

ASSUME ConstantsAssumption ==
  /\ IsFiniteSet(Conn)
  /\ None \notin Channel \cup Password \cup Conn
  /\ Requests \in [Conn -> SUBSET Request]
  /\ \A c \in Conn : \A r \in Requests[c] :
       /\ r.op \in {"publish", "subscribe", "unsubscribe"} => r.arg \in Channel
       /\ r.op \in {"auth", "setuser"} => r.arg \in Password
  /\ MaxRequests \in [Conn -> Nat]
  /\ MaxExec \in Nat
  /\ SocketCap \in Nat \ {0}
  /\ Readers \in SUBSET Conn /\ Leavers \in SUBSET Conn

VARIABLES
  phase,          \* phase[c]: where c's goroutine is, see TypeOK
  handled,        \* handled[c]: the requests c's goroutine has taken
  inTransaction, queuedCommands, inPubSubMode, authenticated,  \* fields of RedisConnection
  answer,         \* answer[c]: the reply c's goroutine is about to write
  draft,          \* draft[c]: the password list an ACL SETUSER is about to store
  passwords,      \* the passwords of the user "default"
  channels,       \* channels[ch]: the connections subscribed to ch
  subscriptions,  \* subscriptions[c]: the channels c is subscribed to
  cmdQueue, txQueue,  \* what waits for the executor: plain commands, transactions
  job, pos,       \* what the executor runs, and the next of its commands
  targets,        \* the subscribers a PUBLISH still has to write to, in its order
  publishing,     \* the executor holds the manager's read lock
  executed,       \* history: the commands the executor has completed, oldest first
  discarded,      \* history: the commands a DISCARD has dropped
  out,            \* out[c]: everything that was written to c's socket
  seen,           \* seen[c]: how much of it the client has read
  open            \* open[c]: the client is there

connVars  == <<inTransaction, queuedCommands, inPubSubMode, authenticated>>
aclVars   == <<draft, passwords>>
indexVars == <<channels, subscriptions>>
queueVars == <<cmdQueue, txQueue>>
execVars  == <<job, pos, targets, publishing, executed>>
sockVars  == <<out, seen, open>>
vars == <<phase, handled, connVars, answer, aclVars, indexVars, queueVars, execVars,
          discarded, sockVars>>

Id == Conn \X Nat
Command == [id : Id, op : Ops, arg : Arg]
Job == [conn : Conn, tx : BOOLEAN, cmds : Seq(Command)]
ASSUME NoJobAssumption == None \notin Job
Written == [kind : {"ok", "error", "result", "array", "pong", "queued", "multi", "subscribed",
                    "unsubscribed", "stored", "message"}, arg : Arg, of : Id]

-----------------------------------------------------------------------------
(* A connection's life.                                                    *)

\* NewRedisConnection: a connection starts authenticated iff "default" has no
\* password by then.
Accept(c) ==
  /\ phase[c] = "absent"
  /\ phase' = [phase EXCEPT ![c] = "read"]
  /\ open' = [open EXCEPT ![c] = TRUE]
  /\ authenticated' = [authenticated EXCEPT ![c] = passwords = {}]
  /\ UNCHANGED <<handled, inTransaction, queuedCommands, inPubSubMode, answer, aclVars,
                 indexVars, queueVars, execVars, discarded, out, seen>>

\* The client goes away, whatever the server is doing for it.
Disconnect(c) ==
  /\ c \in Leavers
  /\ open[c]
  /\ open' = [open EXCEPT ![c] = FALSE]
  /\ UNCHANGED <<phase, handled, connVars, answer, aclVars, indexVars, queueVars, execVars,
                 discarded, out, seen>>

\* Handle returns when a read fails, and closes the socket; nothing else.
Leave(c) ==
  /\ phase[c] = "read"
  /\ ~open[c]
  /\ phase' = [phase EXCEPT ![c] = "gone"]
  /\ UNCHANGED <<handled, connVars, answer, aclVars, indexVars, queueVars, execVars,
                 discarded, sockVars>>

\* The client reads all there is.
ReadReply(c) ==
  /\ c \in Readers
  /\ open[c]
  /\ seen[c] < Len(out[c])
  /\ seen' = [seen EXCEPT ![c] = Len(out[c])]
  /\ UNCHANGED <<phase, handled, connVars, answer, aclVars, indexVars, queueVars, execVars,
                 discarded, out, open>>

\* Mutant of Room: a write to a client that has gone waits as well.
RoomBlocks(c) == Len(out[c]) - seen[c] < SocketCap

\* conn.Write returns when the socket has room, or an error when it is closed.
Room(c) == open[c] => Len(out[c]) - seen[c] < SocketCap

-----------------------------------------------------------------------------
(* Route.  The three tests at its head, and what each session handler does *)
(* before it writes its reply.                                             *)

Takes(c, r) ==
  /\ phase[c] = "read"
  /\ handled[c] < MaxRequests[c]
  /\ r \in Requests[c]
  /\ handled' = [handled EXCEPT ![c] = @ + 1]

ThisId(c) == <<c, handled[c] + 1>>
CommandOf(c, r) == [id |-> ThisId(c), op |-> r.op, arg |-> r.arg]

Reply(c, kind, arg) ==
  /\ phase' = [phase EXCEPT ![c] = "send"]
  /\ answer' = [answer EXCEPT ![c] = [kind |-> kind, arg |-> arg, of |-> ThisId(c)]]

Unauthorized(c, r) == ~authenticated[c] /\ r.op # "auth"
Queues(c, r)       == inTransaction[c] /\ r.op \notin TransactionControl
NotInMode(c, r)    == inPubSubMode[c] /\ r.op \notin PubSubCommands

\* Mutants of Admits: a test at the head of Route is missing.
AdmitsAnyone(c, r) == ~Queues(c, r) /\ ~NotInMode(c, r)
AdmitsMulti(c, r) ==
  ~Unauthorized(c, r) /\ ~Queues(c, r) /\ (r.op = "multi" \/ ~NotInMode(c, r))

Admits(c, r) == ~Unauthorized(c, r) /\ ~Queues(c, r) /\ ~NotInMode(c, r)

Refuse(c, r) ==
  /\ Takes(c, r)
  /\ \/ Unauthorized(c, r)
     \/ ~Queues(c, r) /\ NotInMode(c, r)
  /\ Reply(c, "error", None)
  /\ UNCHANGED <<connVars, aclVars, indexVars, queueVars, execVars, discarded, sockVars>>

\* queueCommand: any request but EXEC and DISCARD, one with a session handler too.
QueueCommand(c, r) ==
  /\ Takes(c, r)
  /\ ~Unauthorized(c, r)
  /\ Queues(c, r)
  /\ queuedCommands' = [queuedCommands EXCEPT ![c] = Append(@, CommandOf(c, r))]
  /\ Reply(c, "queued", None)
  /\ UNCHANGED <<inTransaction, inPubSubMode, authenticated, aclVars, indexVars, queueVars,
                 execVars, discarded, sockVars>>

Execs(c) == Cardinality({i \in DOMAIN out[c] : out[c][i].kind = "array"})

\* StartTransaction; the commands of an earlier transaction stay in the queue.
Multi(c, r) ==
  /\ r.op = "multi"
  /\ Execs(c) < MaxExec
  /\ Takes(c, r)
  /\ Admits(c, r)
  /\ inTransaction' = [inTransaction EXCEPT ![c] = TRUE]
  /\ Reply(c, "multi", None)
  /\ UNCHANGED <<queuedCommands, inPubSubMode, authenticated, aclVars, indexVars, queueVars,
                 execVars, discarded, sockVars>>

\* Mutant of Discard: the queue is left as EndTransaction leaves it.
DiscardKeeps(c, r) ==
  /\ r.op = "discard"
  /\ Takes(c, r)
  /\ Admits(c, r)
  /\ IF inTransaction[c]
     THEN /\ inTransaction' = [inTransaction EXCEPT ![c] = FALSE]
          /\ discarded' = discarded \cup {cmd.id : cmd \in ToSet(queuedCommands[c])}
          /\ Reply(c, "ok", None)
     ELSE /\ Reply(c, "error", None)
          /\ UNCHANGED <<inTransaction, discarded>>
  /\ UNCHANGED <<queuedCommands, inPubSubMode, authenticated, aclVars, indexVars, queueVars,
                 execVars, sockVars>>

Discard(c, r) ==
  /\ r.op = "discard"
  /\ Takes(c, r)
  /\ Admits(c, r)
  /\ IF inTransaction[c]
     THEN /\ inTransaction' = [inTransaction EXCEPT ![c] = FALSE]
          /\ queuedCommands' = [queuedCommands EXCEPT ![c] = <<>>]
          /\ discarded' = discarded \cup {cmd.id : cmd \in ToSet(queuedCommands[c])}
          /\ Reply(c, "ok", None)
     ELSE /\ Reply(c, "error", None)
          /\ UNCHANGED <<inTransaction, queuedCommands, discarded>>
  /\ UNCHANGED <<inPubSubMode, authenticated, aclVars, indexVars, queueVars, execVars,
                 sockVars>>

Await(c) ==
  /\ phase' = [phase EXCEPT ![c] = "wait"]
  /\ UNCHANGED answer

\* Mutant of Exec: EndTransaction is not called.
ExecStays(c, r) ==
  /\ r.op = "exec"
  /\ Takes(c, r)
  /\ Admits(c, r)
  /\ IF inTransaction[c]
     THEN /\ txQueue' = Append(txQueue, [conn |-> c, tx |-> TRUE, cmds |-> queuedCommands[c]])
          /\ Await(c)
     ELSE Reply(c, "error", None) /\ UNCHANGED txQueue
  /\ UNCHANGED <<connVars, aclVars, indexVars, cmdQueue, execVars, discarded, sockVars>>

\* EXEC: the flag is cleared, the queue is sent and kept.
Exec(c, r) ==
  /\ r.op = "exec"
  /\ Takes(c, r)
  /\ Admits(c, r)
  /\ IF inTransaction[c]
     THEN /\ inTransaction' = [inTransaction EXCEPT ![c] = FALSE]
          /\ txQueue' = Append(txQueue, [conn |-> c, tx |-> TRUE, cmds |-> queuedCommands[c]])
          /\ Await(c)
     ELSE Reply(c, "error", None) /\ UNCHANGED <<inTransaction, txQueue>>
  /\ UNCHANGED <<queuedCommands, inPubSubMode, authenticated, aclVars, indexVars, cmdQueue,
                 execVars, discarded, sockVars>>

\* executeDataCommand.
DataCommand(c, r) ==
  /\ r.op \notin SessionHandlers
  /\ Takes(c, r)
  /\ Admits(c, r)
  /\ IF r.op = "ping" /\ inPubSubMode[c]
     THEN Reply(c, "pong", None) /\ UNCHANGED cmdQueue
     ELSE /\ cmdQueue' = Append(cmdQueue, [conn |-> c, tx |-> FALSE,
                                           cmds |-> <<CommandOf(c, r)>>])
          /\ Await(c)
  /\ UNCHANGED <<connVars, aclVars, indexVars, txQueue, execVars, discarded, sockVars>>

\* The manager's mutex, taken for writing.
Lock == ~publishing

\* Mutant of Subscribe: the mutex is not taken.
SubscribeUnlocked(c, r) ==
  /\ r.op = "subscribe"
  /\ Takes(c, r)
  /\ Admits(c, r)
  /\ inPubSubMode' = [inPubSubMode EXCEPT ![c] = TRUE]
  /\ channels' = [channels EXCEPT ![r.arg] = @ \cup {c}]
  /\ subscriptions' = [subscriptions EXCEPT ![c] = @ \cup {r.arg}]
  /\ Reply(c, "subscribed", r.arg)
  /\ UNCHANGED <<inTransaction, queuedCommands, authenticated, aclVars, queueVars, execVars,
                 discarded, sockVars>>

\* The reply is written after the manager has released its mutex.
Subscribe(c, r) ==
  /\ r.op = "subscribe"
  /\ Takes(c, r)
  /\ Admits(c, r)
  /\ Lock
  /\ inPubSubMode' = [inPubSubMode EXCEPT ![c] = TRUE]
  /\ channels' = [channels EXCEPT ![r.arg] = @ \cup {c}]
  /\ subscriptions' = [subscriptions EXCEPT ![c] = @ \cup {r.arg}]
  /\ Reply(c, "subscribed", r.arg)
  /\ UNCHANGED <<inTransaction, queuedCommands, authenticated, aclVars, queueVars, execVars,
                 discarded, sockVars>>

\* Mutants of Unsubscribe: the mutex is not taken; the mode ends with any channel.
UnsubscribeUnlocked(c, r) ==
  /\ r.op = "unsubscribe"
  /\ Takes(c, r)
  /\ Admits(c, r)
  /\ channels' = [channels EXCEPT ![r.arg] = @ \ {c}]
  /\ subscriptions' = [subscriptions EXCEPT ![c] = @ \ {r.arg}]
  /\ inPubSubMode' = [inPubSubMode EXCEPT ![c] = @ /\ subscriptions'[c] # {}]
  /\ Reply(c, "unsubscribed", r.arg)
  /\ UNCHANGED <<inTransaction, queuedCommands, authenticated, aclVars, queueVars, execVars,
                 discarded, sockVars>>

UnsubscribeLeaves(c, r) ==
  /\ r.op = "unsubscribe"
  /\ Takes(c, r)
  /\ Admits(c, r)
  /\ Lock
  /\ channels' = [channels EXCEPT ![r.arg] = @ \ {c}]
  /\ subscriptions' = [subscriptions EXCEPT ![c] = @ \ {r.arg}]
  /\ inPubSubMode' = [inPubSubMode EXCEPT ![c] = FALSE]
  /\ Reply(c, "unsubscribed", r.arg)
  /\ UNCHANGED <<inTransaction, queuedCommands, authenticated, aclVars, queueVars, execVars,
                 discarded, sockVars>>

Unsubscribe(c, r) ==
  /\ r.op = "unsubscribe"
  /\ Takes(c, r)
  /\ Admits(c, r)
  /\ Lock
  /\ channels' = [channels EXCEPT ![r.arg] = @ \ {c}]
  /\ subscriptions' = [subscriptions EXCEPT ![c] = @ \ {r.arg}]
  /\ inPubSubMode' = [inPubSubMode EXCEPT ![c] = @ /\ subscriptions'[c] # {}]
  /\ Reply(c, "unsubscribed", r.arg)
  /\ UNCHANGED <<inTransaction, queuedCommands, authenticated, aclVars, queueVars, execVars,
                 discarded, sockVars>>

Auth(c, r) ==
  /\ r.op = "auth"
  /\ Takes(c, r)
  /\ Admits(c, r)
  /\ IF r.arg \in passwords
     THEN /\ authenticated' = [authenticated EXCEPT ![c] = TRUE]
          /\ Reply(c, "ok", None)
     ELSE Reply(c, "error", None) /\ UNCHANGED authenticated
  /\ UNCHANGED <<inTransaction, queuedCommands, inPubSubMode, aclVars, indexVars, queueVars,
                 execVars, discarded, sockVars>>

\* setUserPassword reads the list of passwords here and stores it in
\* StorePasswords; no lock is held in between.
SetUser(c, r) ==
  /\ r.op = "setuser"
  /\ Takes(c, r)
  /\ Admits(c, r)
  /\ draft' = [draft EXCEPT ![c] = passwords \cup {r.arg}]
  /\ phase' = [phase EXCEPT ![c] = "store"]
  /\ answer' = [answer EXCEPT ![c] = [kind |-> "stored", arg |-> r.arg, of |-> ThisId(c)]]
  /\ UNCHANGED <<connVars, passwords, indexVars, queueVars, execVars, discarded, sockVars>>

Route(c, r) ==
  \/ Refuse(c, r) \/ QueueCommand(c, r) \/ DataCommand(c, r)
  \/ Multi(c, r) \/ Exec(c, r) \/ Discard(c, r)
  \/ Subscribe(c, r) \/ Unsubscribe(c, r) \/ Auth(c, r) \/ SetUser(c, r)

StorePasswords(c) ==
  /\ phase[c] = "store"
  /\ passwords' = draft[c]
  /\ draft' = [draft EXCEPT ![c] = {}]
  /\ phase' = [phase EXCEPT ![c] = "send"]
  /\ UNCHANGED <<handled, connVars, answer, indexVars, queueVars, execVars, discarded,
                 sockVars>>

SendResponse(c) ==
  /\ phase[c] = "send"
  /\ Room(c)
  /\ out' = [out EXCEPT ![c] = Append(@, answer[c])]
  /\ phase' = [phase EXCEPT ![c] = "read"]
  /\ UNCHANGED <<handled, connVars, answer, aclVars, indexVars, queueVars, execVars,
                 discarded, seen, open>>

-----------------------------------------------------------------------------
(* The executor goroutine.                                                 *)

Take(queue) ==
  /\ job = None
  /\ queue # <<>>
  /\ job' = Head(queue)
  /\ pos' = 1
  /\ UNCHANGED <<phase, handled, connVars, answer, aclVars, indexVars, targets,
                 publishing, executed, discarded, sockVars>>

TakeCommand     == Take(cmdQueue) /\ cmdQueue' = Tail(cmdQueue) /\ UNCHANGED txQueue
TakeTransaction == Take(txQueue) /\ txQueue' = Tail(txQueue) /\ UNCHANGED cmdQueue

Running == job # None /\ pos <= Len(job.cmds)
Current == job.cmds[pos]

\* A handler other than PUBLISH; for a command that has none, an error.
ExecuteCommand ==
  /\ Running
  /\ Current.op # "publish"
  /\ executed' = Append(executed, Current.id)
  /\ pos' = pos + 1
  /\ UNCHANGED <<phase, handled, connVars, answer, aclVars, indexVars, queueVars, job,
                 targets, publishing, discarded, sockVars>>

\* Publish takes the read lock and ranges over a map, in any order.
PublishStart ==
  /\ Running
  /\ Current.op = "publish"
  /\ ~publishing
  /\ publishing' = TRUE
  /\ targets' \in SetToSeqs(channels[Current.arg])
  /\ UNCHANGED <<phase, handled, connVars, answer, aclVars, indexVars, queueVars, job, pos,
                 executed, discarded, sockVars>>

\* A message is named after its publisher and its run: the same PUBLISH may run twice.
ThisRun == <<Current.id[1], Len(executed) + 1>>
Message == [kind |-> "message", arg |-> Current.arg, of |-> ThisRun]

PublishTo ==
  /\ publishing
  /\ targets # <<>>
  /\ Room(Head(targets))
  /\ out' = [out EXCEPT ![Head(targets)] = Append(@, Message)]
  /\ targets' = Tail(targets)
  /\ UNCHANGED <<phase, handled, connVars, answer, aclVars, indexVars, queueVars, job, pos,
                 publishing, executed, discarded, seen, open>>

PublishEnd ==
  /\ publishing
  /\ targets = <<>>
  /\ publishing' = FALSE
  /\ executed' = Append(executed, Current.id)
  /\ pos' = pos + 1
  /\ UNCHANGED <<phase, handled, connVars, answer, aclVars, indexVars, queueVars, job,
                 targets, discarded, sockVars>>

\* The reply goes to the goroutine that waits for it.
Finish ==
  /\ job # None
  /\ pos > Len(job.cmds)
  /\ phase' = [phase EXCEPT ![job.conn] = "send"]
  /\ answer' = [answer EXCEPT ![job.conn] =
                  [kind |-> IF job.tx THEN "array" ELSE "result", arg |-> None,
                   of |-> <<job.conn, handled[job.conn]>>]]
  /\ job' = None
  /\ UNCHANGED <<handled, connVars, aclVars, indexVars, queueVars, pos, targets, publishing,
                 executed, discarded, sockVars>>

ExecutorStep ==
  \/ TakeCommand \/ TakeTransaction
  \/ ExecuteCommand \/ PublishStart \/ PublishTo \/ PublishEnd
  \/ Finish

-----------------------------------------------------------------------------
NoReply(c) == [kind |-> "ok", arg |-> None, of |-> <<c, 1>>]

Init ==
  /\ phase = [c \in Conn |-> "absent"]
  /\ handled = [c \in Conn |-> 0]
  /\ inTransaction = [c \in Conn |-> FALSE]
  /\ queuedCommands = [c \in Conn |-> <<>>]
  /\ inPubSubMode = [c \in Conn |-> FALSE]
  /\ authenticated = [c \in Conn |-> FALSE]
  /\ answer = [c \in Conn |-> NoReply(c)]
  /\ draft = [c \in Conn |-> {}] /\ passwords = {}
  /\ channels = [ch \in Channel |-> {}] /\ subscriptions = [c \in Conn |-> {}]
  /\ cmdQueue = <<>> /\ txQueue = <<>>
  /\ job = None /\ pos = 1 /\ targets = <<>> /\ publishing = FALSE
  /\ executed = <<>> /\ discarded = {}
  /\ out = [c \in Conn |-> <<>>] /\ seen = [c \in Conn |-> 0]
  /\ open = [c \in Conn |-> FALSE]

ConnStep(c) == StorePasswords(c) \/ SendResponse(c) \/ Leave(c)

Next ==
  \/ \E c \in Conn :
       \/ Accept(c) \/ Disconnect(c) \/ ReadReply(c) \/ ConnStep(c)
       \/ \E r \in Requests[c] : Route(c, r)
  \/ ExecutorStep

Spec == Init /\ [][Next]_vars

\* Goroutines that can run do run, and Readers do read what they are sent.
FairSpec ==
  Spec /\ WF_vars(ExecutorStep)
       /\ \A c \in Conn : WF_vars(ConnStep(c)) /\ WF_vars(ReadReply(c))

-----------------------------------------------------------------------------
(* Properties.                                                             *)

\* Every variable keeps to its type.
TypeOK ==
  /\ phase \in [Conn -> {"absent", "read", "wait", "store", "send", "gone"}]
  /\ handled \in [Conn -> Nat]
  /\ inTransaction \in [Conn -> BOOLEAN] /\ inPubSubMode \in [Conn -> BOOLEAN]
  /\ authenticated \in [Conn -> BOOLEAN] /\ queuedCommands \in [Conn -> Seq(Command)]
  /\ answer \in [Conn -> Written]
  /\ draft \in [Conn -> SUBSET Password] /\ passwords \in SUBSET Password
  /\ channels \in [Channel -> SUBSET Conn] /\ subscriptions \in [Conn -> SUBSET Channel]
  /\ cmdQueue \in Seq(Job) /\ txQueue \in Seq(Job)
  /\ job \in Job \cup {None} /\ pos \in Nat \ {0}
  /\ targets \in Seq(Conn) /\ publishing \in BOOLEAN
  /\ executed \in Seq(Id) /\ discarded \in SUBSET Id
  /\ out \in [Conn -> Seq(Written)] /\ seen \in [Conn -> Nat] /\ open \in [Conn -> BOOLEAN]

\* A connection is never in a transaction and in publish/subscribe mode at once:
\* MULTI is refused in the mode, and SUBSCRIBE is only queued in a transaction.
ModesExclude == \A c \in Conn : ~(inTransaction[c] /\ inPubSubMode[c])

\* The manager's two indexes and the flag of the connection agree.
SubscriptionsAgree ==
  \A c \in Conn :
    /\ inPubSubMode[c] <=> subscriptions[c] # {}
    /\ \A ch \in Channel : c \in channels[ch] <=> ch \in subscriptions[c]

\* The jobs that the executor has or will have, and those of c.
Jobs == ToSet(cmdQueue) \cup ToSet(txQueue) \cup ({job} \ {None})
JobsOf(c) == {j \in Jobs : j.conn = c}

\* A connection that is not authenticated has left no trace: no transaction, no
\* subscription, no password about to be stored, nothing run or to be run.
StrangersDoNothing ==
  \A c \in Conn : ~authenticated[c] =>
    /\ ~inTransaction[c] /\ subscriptions[c] = {} /\ phase[c] \notin {"wait", "store"}
    /\ JobsOf(c) = {} /\ \A i \in DOMAIN executed : executed[i][1] # c

\* What a connection's commands look like: they are its own, and a PUBLISH names
\* a channel.
OwnCommands(c) ==
  {cmd \in Command : cmd.id[1] = c /\ (cmd.op = "publish" => cmd.arg \in Channel)}
OwnJobs == {j \in Job : j.cmds \in Seq(OwnCommands(j.conn))}

\* What the goroutines hold: commands of the connection they came from, no message
\* as an answer, and, while a PUBLISH runs, subscribers of its channel.
Held ==
  /\ \A c \in Conn :
       /\ queuedCommands[c] \in Seq(OwnCommands(c)) /\ answer[c].kind # "message"
       /\ phase[c] = "absent" => ~authenticated[c]
  /\ cmdQueue \in Seq(OwnJobs) /\ txQueue \in Seq(OwnJobs) /\ job \in OwnJobs \cup {None}
  /\ publishing =>
       Running /\ Current.op = "publish" /\ ToSet(targets) \subseteq channels[Current.arg]

Copies(c, run) ==
  {i \in DOMAIN out[c] : out[c][i].kind = "message" /\ out[c][i].of = run}

\* While a PUBLISH runs, it has written its message once to each subscriber of its
\* channel but to those it still has to write to, and to nobody else: the number
\* it answers with is the number of messages it wrote.
CountIsDelivered ==
  publishing =>
    \A c \in Conn :
      Cardinality(Copies(c, ThisRun)) =
        IF c \in channels[Current.arg] \ ToSet(targets) THEN 1 ELSE 0

\* What makes it so: no message is of a run to come, nobody is a target twice.
Delivering ==
  /\ \A c \in Conn : \A i \in DOMAIN out[c] :
       out[c][i].kind = "message" /\ out[c][i].of[2] > Len(executed)
         => publishing /\ out[c][i].of[2] = Len(executed) + 1
  /\ publishing => \A i, j \in DOMAIN targets : targets[i] = targets[j] => i = j
  /\ CountIsDelivered

\* The inductive invariant behind these and MessagesOnlyToSubscribers.
SInv ==
  TypeOK /\ Held /\ ModesExclude /\ SubscriptionsAgree /\ StrangersDoNothing /\ Delivering

\* A message is written to a connection only while it is subscribed: there is
\* none after the UNSUBSCRIBE of its channel.
MessagesOnlyToSubscribers ==
  [][\A c \in Conn :
       out'[c] # out[c] /\ Last(out'[c]).kind = "message"
         => Last(out'[c]).arg \in subscriptions[c]]_vars

\* A command that a DISCARD has dropped never runs afterwards.
DiscardedNeverRun ==
  [][executed' # executed => Last(executed') \notin discarded]_vars

\* A connection has one job at a time, waits for it, and is then in no transaction.
OneJobEach ==
  /\ \A q \in {cmdQueue, txQueue} : \A i, j \in DOMAIN q : q[i].conn = q[j].conn => i = j
  /\ \A i \in DOMAIN cmdQueue, j \in DOMAIN txQueue : cmdQueue[i].conn # txQueue[j].conn
  /\ job # None => \A j \in ToSet(cmdQueue) \cup ToSet(txQueue) : j.conn # job.conn
  /\ \A j \in Jobs : phase[j.conn] = "wait" /\ ~inTransaction[j.conn]

\* Names are never given twice, and what a DISCARD has dropped is neither queued
\* nor about to run.
Taken(id) == id[2] <= handled[id[1]]
Named ==
  /\ \A c \in Conn : \A cmd \in ToSet(queuedCommands[c]) :
       Taken(cmd.id) /\ cmd.id \notin discarded
  /\ \A j \in Jobs : \A cmd \in ToSet(j.cmds) : Taken(cmd.id) /\ cmd.id \notin discarded
  /\ \A id \in discarded \cup ToSet(executed) : Taken(id)

\* What the jobs are: a transaction's is the queue of its connection, of which the
\* executor has run what is before pos; a plain command has not run before.
JobsAreQueues ==
  /\ \A j \in ToSet(cmdQueue) : ~j.tx /\ \A cmd \in ToSet(j.cmds) : cmd.id \notin ToSet(executed)
  /\ \A j \in ToSet(txQueue) : j.tx
  /\ \A j \in Jobs : IF j.tx THEN j.cmds = queuedCommands[j.conn] ELSE Len(j.cmds) = 1
  /\ job # None => pos <= Len(job.cmds) + 1
  /\ job # None /\ ~job.tx /\ pos = 1 => job.cmds[1].id \notin ToSet(executed)
  /\ job # None /\ job.tx =>
       /\ pos - 1 <= Len(executed)
       /\ \A k \in 1 .. pos - 1 : executed[Len(executed) - (pos - 1) + k] = job.cmds[k].id

\* Where a queue that is not empty can be found, when a client sends no MULTI after its
\* first EXEC: in the transaction, in the EXEC, and after it.
OneExec == MaxExec <= 1
InExec(c) == \E j \in JobsOf(c) : j.tx
Answered(c) ==
  Execs(c) > 0 \/ (phase[c] \in {"store", "send"} /\ answer[c].kind = "array")
QueuesEnd ==
  \A c \in Conn :
    /\ inTransaction[c] \/ InExec(c) => ~Answered(c)
    /\ queuedCommands[c] # <<>> => inTransaction[c] \/ InExec(c) \/ Answered(c)

\* The inductive invariant behind DiscardedNeverRun and TransactionsPromise.
XInv == OneJobEach /\ Named /\ JobsAreQueues /\ (OneExec => QueuesEnd)

\* MULTI, EXEC and DISCARD do what Transactions promises.
Ran ==
  IF job # None /\ job.tx THEN SubSeq(executed, 1, Len(executed) - (pos - 1)) ELSE executed
ModeOf(c) == IF inTransaction[c] THEN "multi" ELSE IF InExec(c) THEN "exec" ELSE "none"
Names(cmds) == [i \in DOMAIN cmds |-> cmds[i].id]
BatchOf(c) == IF ModeOf(c) = "none" THEN <<>> ELSE Names(queuedCommands[c])
Mode == [c \in Conn |-> ModeOf(c)]
Batch == [c \in Conn |-> BatchOf(c)]
Batches == INSTANCE Transactions WITH ran <- Ran, mode <- Mode, batch <- Batch
TransactionsPromise == Batches!Spec

\* A request that was taken is answered, when every client reads its answers.
RequestsAnswered ==
  \A c \in Conn : phase[c] \in {"wait", "store", "send"} ~> phase[c] \in {"read", "gone"}

\* docs/architecture.md on connections: EXEC resets the transaction, so that no
\* command runs a second time.
NothingRunsTwice ==
  \A i, j \in DOMAIN executed : executed[i] = executed[j] => i = j

=============================================================================
