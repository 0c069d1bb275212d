------------------------------ MODULE Executor ------------------------------
(***************************************************************************)
(* The executor goroutine of simis, the two channels that feed it, the     *)
(* manager of blocked commands and the goroutines that time blocked        *)
(* commands out (internal/executor, internal/command/queue.go, and the     *)
(* list and string handlers it calls).                                     *)
(*                                                                         *)
(* A member of Cmd is one *connection.Command sent to the executor (or one *)
(* *Transaction); its connection goroutine waits on its Response channel,  *)
(* receives from it once, and never again.  The channel is unbuffered, so  *)
(* a second send to the same command blocks its sender for ever.           *)
(*                                                                         *)
(* A list element is <<c, s, i>>: the i-th value pushed by operation s of  *)
(* request c, so no two pushed values are equal.                           *)
(***************************************************************************)
EXTENDS Naturals, Sequences, FiniteSets, SequencesExt

CONSTANTS
  Key,       \* the keys the requests name
  Cmd,       \* requests sent to the executor: plain commands and transactions
  None,      \* not a request
  IsTx,      \* IsTx[c]: request c is an EXEC, sent on the transaction channel
  Body,      \* Body[c]: the operations of request c (one, unless IsTx[c])
  QueueCap   \* capacity of each channel (1000 in constants.go)

Kind == {"push", "set", "lpop", "blpop"}
Wait == {"none", "forever", "timed"}

(* One operation. A push adds count values to the front or the back of     *)
(* keys[1]; set and lpop name keys[1]; blpop tries its keys in order and   *)
(* then waits. wait = "none" is a negative BLPOP timeout, "forever" one    *)
(* that truncates to 0 ms, "timed" a positive one.                         *)
Op == [kind : Kind, keys : Seq(Key) \ {<<>>}, count : Nat, front : BOOLEAN, wait : Wait]

RPush(k, n)  == [kind |-> "push",  keys |-> <<k>>, count |-> n, front |-> FALSE, wait |-> "none"]
LPush(k, n)  == [kind |-> "push",  keys |-> <<k>>, count |-> n, front |-> TRUE,  wait |-> "none"]
Set(k)       == [kind |-> "set",   keys |-> <<k>>, count |-> 0, front |-> FALSE, wait |-> "none"]
LPop(k)      == [kind |-> "lpop",  keys |-> <<k>>, count |-> 1, front |-> FALSE, wait |-> "none"]
BLPop(ks, w) == [kind |-> "blpop", keys |-> ks,    count |-> 1, front |-> FALSE, wait |-> w]

ASSUME ConstantsAssumption ==
  /\ None \notin Cmd
  /\ IsTx \in [Cmd -> BOOLEAN]
  /\ Body \in [Cmd -> Seq(Op)]
  /\ \A c \in Cmd : ~IsTx[c] => Len(Body[c]) = 1
  /\ QueueCap \in Nat \ {0}

VARIABLES
  list,      \* [Key -> Seq(Elem)]: the elements of the list at a key
  str,       \* the keys that hold a string
  taken,     \* taken[c]: the elements popped by executions of c, oldest first
  cmdQueue,  \* the channel of plain commands
  txQueue,   \* the channel of transactions
  issued,    \* the requests sent so far
  answer,    \* answer[c]: "open" until the one receive on c's Response channel
  log,       \* the write commands handed to the replication manager
  pc,        \* where the executor goroutine is; "down": the process has died
  cur,       \* the request it executes
  step,      \* loop index: into Body[cur], or into the keys of a blocked command
  todo,      \* ModifiedKeys whose waiters are still to be woken, in order
  reply,     \* the answer cur will get
  array,     \* backing memory of the slice blockedCommands being ranged over
  pos, last, \* the range's index i, and lastExecutedCommand
  wreply,    \* the answer array[pos] will get
  woken,     \* the command read from array[pos]
  waiting,   \* blockingCommands: [Key -> Seq(Cmd)]
  timer,     \* timer[c]: where the goroutine of c's timeout is
  tstep,     \* its index into the keys of c
  snap,      \* the slice it read from blockingCommands
  raced      \* history: the commands whose timeout goroutine wrote a slice that the
             \* executor, or another timeout, held or had changed since it was read

dataVars  == <<list, str, taken>>
queueVars == <<cmdQueue, txQueue, issued>>
scanVars  == <<array, pos, last, wreply, woken>>
timerVars == <<timer, tstep, snap>>
vars == <<dataVars, queueVars, answer, log, pc, cur, step, todo, reply, scanVars,
          waiting, timerVars, raced>>

Elem == Cmd \X Nat \X Nat
Up   == pc # "down"

-----------------------------------------------------------------------------
(* Slices.                                                                 *)

Position(s, e) == Min({i \in DOMAIN s : s[i] = e})

\* removeWaitingCommand: the slice header after the first e is cut out of s.
Without(s, e) == IF e \in ToSet(s) THEN RemoveAt(s, Position(s, e)) ELSE s

\* What append(s[:i], s[i+1:]...) does to the memory a that s is a prefix of:
\* the elements behind position i move one place down, the last one stays.
Shifted(a, s, e) ==
  IF e \notin ToSet(s) THEN a
  ELSE [p \in DOMAIN a |->
          IF Position(s, e) <= p /\ p < Len(s) /\ p < Len(a) THEN a[p + 1] ELSE a[p]]

-----------------------------------------------------------------------------
(* The list and string handlers. A key that holds neither a string nor an  *)
(* element is an empty list: LoadOrStoreList creates one, and no reply     *)
(* modelled here tells an empty list from none.                            *)

Ready(k) == k \in str \/ list[k] # <<>>

Keys(c) == Body[c][1].keys          \* WaitingKeys of a plain blocking command

Blocks(ks) == \A i \in DOMAIN ks : ~Ready(ks[i])

\* The key executeBLPop stops at: the first one with a string or an element.
HitKey(ks) == ks[Min({i \in DOMAIN ks : Ready(ks[i])})]

\* Mutant of Pop: the head is read and not removed.
PopPeeks(k, c) ==
  IF list[k] # <<>>
  THEN UNCHANGED list /\ taken' = [taken EXCEPT ![c] = Append(@, Head(list[k]))]
  ELSE UNCHANGED <<list, taken>>

\* LoadOrStoreList and PopFront on behalf of c; a string makes the handler fail.
Pop(k, c) ==
  IF list[k] # <<>>
  THEN /\ list'  = [list EXCEPT ![k] = Tail(@)]
       /\ taken' = [taken EXCEPT ![c] = Append(@, Head(list[k]))]
  ELSE UNCHANGED <<list, taken>>

\* Mutant of PopReply: the ok of PopFront is not looked at.
PopReplyNil(k) == IF k \in str THEN "error" ELSE "nil"

PopReply(k) == IF k \in str THEN "error" ELSE IF list[k] # <<>> THEN "value" ELSE "nil"

\* The values of a push, in the order they end up in: LPUSH reverses its own.
Batch(c, s, op) ==
  [i \in 1..op.count |-> <<c, s, IF op.front THEN op.count + 1 - i ELSE i>>]

Pushed(k, op) ==
  IF op.front THEN Batch(cur, step, op) \o list[k] ELSE list[k] \o Batch(cur, step, op)

-----------------------------------------------------------------------------
(* Connection goroutines: Route and EXEC put a request on a channel of     *)
(* bounded capacity and wait for the answer.                               *)

Issue(c) ==
  /\ Up
  /\ c \notin issued
  /\ issued' = issued \cup {c}
  /\ IF IsTx[c]
     THEN /\ Len(txQueue) < QueueCap
          /\ txQueue' = Append(txQueue, c)
          /\ UNCHANGED cmdQueue
     ELSE /\ Len(cmdQueue) < QueueCap
          /\ cmdQueue' = Append(cmdQueue, c)
          /\ UNCHANGED txQueue
  /\ UNCHANGED <<dataVars, answer, log, pc, cur, step, todo, reply, scanVars, waiting,
                 timerVars, raced>>

-----------------------------------------------------------------------------
(* The executor goroutine.                                                 *)

Begin(c) ==
  /\ pc = "idle"
  /\ cur' = c
  /\ step' = 1
  /\ todo' = <<>>
  /\ reply' = "ok"
  /\ pc' = IF Body[c] = <<>> THEN "unblock" ELSE "body"
  /\ UNCHANGED <<dataVars, issued, answer, log, scanVars, waiting, timerVars, raced>>

\* The two ready cases of the select in Start.
TakeCommand ==
  /\ cmdQueue # <<>>
  /\ cmdQueue' = Tail(cmdQueue)
  /\ Begin(Head(cmdQueue))
  /\ UNCHANGED txQueue

TakeTransaction ==
  /\ txQueue # <<>>
  /\ txQueue' = Tail(txQueue)
  /\ Begin(Head(txQueue))
  /\ UNCHANGED cmdQueue

\* Mutant of NextOperation: ModifiedKeys is left empty.
NextOperationSilent(r, modified) ==
  /\ reply' = IF IsTx[cur] THEN "ok" ELSE r
  /\ UNCHANGED todo
  /\ step' = step + 1
  /\ pc' = IF step < Len(Body[cur]) THEN "body" ELSE "unblock"

\* The loop over the commands of a transaction; one turn for a plain command.
\* A transaction's answer is the array of its replies, errors among them.
NextOperation(r, modified) ==
  /\ reply' = IF IsTx[cur] THEN "ok" ELSE r
  /\ todo' = todo \o modified
  /\ step' = step + 1
  /\ pc' = IF step < Len(Body[cur]) THEN "body" ELSE "unblock"

Running(kind) == pc = "body" /\ Body[cur][step].kind = kind

Push ==
  LET op == Body[cur][step]
      k  == op.keys[1]
  IN /\ Running("push")
     /\ IF k \in str
        THEN UNCHANGED list /\ NextOperation("error", <<>>)
        ELSE /\ list' = [list EXCEPT ![k] = Pushed(k, op)]
             /\ NextOperation("ok", <<k>>)
     /\ UNCHANGED <<str, taken, queueVars, answer, log, cur, scanVars, waiting,
                    timerVars, raced>>

\* SET replaces whatever the key held, a list with its elements too.
SetString ==
  LET k == Body[cur][step].keys[1]
  IN /\ Running("set")
     /\ str' = str \cup {k}
     /\ list' = [list EXCEPT ![k] = <<>>]
     /\ NextOperation("ok", <<k>>)
     /\ UNCHANGED <<taken, queueVars, answer, log, cur, scanVars, waiting, timerVars, raced>>

\* LPOP answers nil for a string, and reports no modified key.
PopLeft ==
  LET k == Body[cur][step].keys[1]
  IN /\ Running("lpop")
     /\ Pop(k, cur)
     /\ NextOperation(IF list[k] # <<>> THEN "value" ELSE "nil", <<>>)
     /\ UNCHANGED <<str, queueVars, answer, log, cur, scanVars, waiting, timerVars, raced>>

\* BLPOP that finds a key to stop at.
BlockingPop ==
  LET op == Body[cur][step]
      k  == HitKey(op.keys)
  IN /\ Running("blpop")
     /\ ~Blocks(op.keys)
     /\ Pop(k, cur)
     /\ NextOperation(PopReply(k), IF k \in str THEN <<>> ELSE <<k>>)
     /\ UNCHANGED <<str, queueVars, answer, log, cur, scanVars, waiting, timerVars, raced>>

\* BLPOP that finds every key empty: a negative timeout is answered nil, a
\* transaction panics, anything else is handed to the blocking manager.
BlockingPopWaits ==
  LET op == Body[cur][step]
  IN /\ Running("blpop")
     /\ Blocks(op.keys)
     /\ IF op.wait = "none"
        THEN NextOperation("nil", <<>>)
        ELSE /\ pc' = IF IsTx[cur] THEN "down" ELSE "register"
             /\ step' = 1
             /\ UNCHANGED <<todo, reply>>
     /\ UNCHANGED <<dataVars, queueVars, answer, log, cur, scanVars, waiting,
                    timerVars, raced>>

-----------------------------------------------------------------------------
(* The manager of blocked commands, run by the executor.                   *)

\* AddWaitingCommand, one key a turn; after the last one the goroutine that
\* times the command out is started, and the executor moves on unanswered.
Register ==
  LET k == Keys(cur)[step]
  IN /\ pc = "register"
     /\ waiting' = [waiting EXCEPT ![k] = Append(@, cur)]
     /\ IF step < Len(Keys(cur))
        THEN /\ step' = step + 1
             /\ UNCHANGED <<pc, cur, timer>>
        ELSE /\ pc' = "idle"
             /\ cur' = None
             /\ timer' = IF Body[cur][1].wait = "timed"
                         THEN [timer EXCEPT ![cur] = "sleep"] ELSE timer
             /\ UNCHANGED step
     /\ UNCHANGED <<dataVars, queueVars, answer, log, todo, reply, scanVars, tstep,
                    snap, raced>>

\* UnblockCommandsWaitingForKey: the next key, and the slice to range over.
StartScan ==
  /\ pc = "unblock"
  /\ todo # <<>>
  /\ array' = waiting[Head(todo)]
  /\ pos' = 1
  /\ last' = 0
  /\ pc' = "scan"
  /\ UNCHANGED <<dataVars, queueVars, answer, log, cur, step, todo, reply, wreply, woken,
                 waiting, timerVars, raced>>

\* A turn of the range: the command found there is executed again, and does
\* not wait again.  The keys it modified are ignored.
Wake ==
  LET c == array[pos]
      k == HitKey(Keys(c))
  IN /\ pc = "scan"
     /\ pos <= Len(array)
     /\ ~Blocks(Keys(c))
     /\ woken' = c
     /\ Pop(k, c)
     /\ wreply' = PopReply(k)
     /\ step' = 1
     /\ pc' = "remove"
     /\ UNCHANGED <<str, queueVars, answer, log, cur, todo, reply, array, pos, last,
                    waiting, timerVars, raced>>

\* Mutant of Deregister: the command leaves only the list it was woken from.
DeregisterHere ==
  LET k == Head(todo)
  IN /\ pc = "remove"
     /\ waiting' = [waiting EXCEPT ![k] = Without(@, woken)]
     /\ array' = Shifted(array, waiting[k], woken)
     /\ pc' = "wake" /\ last' = pos
     /\ UNCHANGED <<dataVars, queueVars, answer, log, cur, step, todo, reply, pos, wreply,
                    woken, timerVars, raced>>

\* Removal of the woken command from the list of each of its keys, one key a
\* turn.  When the list is the one being ranged over, the range sees the shift.
Deregister ==
  LET k == Keys(woken)[step]
  IN /\ pc = "remove"
     /\ waiting' = [waiting EXCEPT ![k] = Without(@, woken)]
     /\ array' = IF k = Head(todo) THEN Shifted(array, waiting[k], woken) ELSE array
     /\ IF step < Len(Keys(woken))
        THEN step' = step + 1 /\ UNCHANGED <<pc, last>>
        ELSE pc' = "wake" /\ last' = pos /\ UNCHANGED step
     /\ UNCHANGED <<dataVars, queueVars, answer, log, cur, todo, reply, pos, wreply,
                    woken, timerVars, raced>>

\* Mutant of AnswerWoken: the range does not advance after an error.
AnswerWokenStays ==
  /\ pc = "wake"
  /\ answer' = [answer EXCEPT ![woken] = wreply]
  /\ pos' = IF wreply = "error" THEN pos ELSE pos + 1
  /\ pc' = "scan"
  /\ UNCHANGED <<dataVars, queueVars, log, cur, step, todo, reply, array, last, wreply,
                 woken, waiting, timerVars, raced>>

\* command.Response <- ...: waits for ever when nobody receives any more.
AnswerWoken ==
  /\ pc = "wake"
  /\ answer[woken] = "open"
  /\ answer' = [answer EXCEPT ![woken] = wreply]
  /\ pos' = pos + 1
  /\ pc' = "scan"
  /\ UNCHANGED <<dataVars, queueVars, log, cur, step, todo, reply, array, last, wreply,
                 woken, waiting, timerVars, raced>>

\* Mutants of EndScan: the remaining waiters start one place late, or one early.
EndScanLate ==
  /\ pc = "scan"
  /\ pos <= Len(array) => Blocks(Keys(array[pos]))
  /\ waiting' = [waiting EXCEPT ![Head(todo)] = SubSeq(array, last + 2, Len(array))]
  /\ todo' = Tail(todo)
  /\ pc' = "unblock"
  /\ UNCHANGED <<dataVars, queueVars, answer, log, cur, step, reply, scanVars, timerVars,
                 raced>>

EndScanEarly ==
  /\ pc = "scan"
  /\ pos <= Len(array) => Blocks(Keys(array[pos]))
  /\ waiting' = [waiting EXCEPT ![Head(todo)] =
                    SubSeq(array, IF last = 0 THEN 1 ELSE last, Len(array))]
  /\ todo' = Tail(todo)
  /\ pc' = "unblock"
  /\ UNCHANGED <<dataVars, queueVars, answer, log, cur, step, reply, scanVars, timerVars,
                 raced>>

\* The range is over, or the command found there would wait again: what is
\* behind the last command executed becomes the list of waiters.
EndScan ==
  /\ pc = "scan"
  /\ pos <= Len(array) => Blocks(Keys(array[pos]))
  /\ waiting' = [waiting EXCEPT ![Head(todo)] = SubSeq(array, last + 1, Len(array))]
  /\ todo' = Tail(todo)
  /\ pc' = "unblock"
  /\ UNCHANGED <<dataVars, queueVars, answer, log, cur, step, reply, scanVars, timerVars,
                 raced>>

\* Mutant of Propagated: LPOP is missing from WriteCommands.
PropagatedPushes(c) == ~IsTx[c] /\ reply # "error" /\ Body[c][1].kind \in {"push", "set"}

\* WriteCommands of constants.go: BLPOP is not one of them.
Propagated(c) == ~IsTx[c] /\ reply # "error" /\ Body[c][1].kind # "blpop"

\* PropagateCommand for a write that succeeded, then the answer to cur.
Answer ==
  /\ pc = "unblock"
  /\ todo = <<>>
  /\ answer[cur] = "open"
  /\ log' = IF Propagated(cur) THEN Append(log, cur) ELSE log
  /\ answer' = [answer EXCEPT ![cur] = reply]
  /\ pc' = "idle"
  /\ cur' = None
  /\ UNCHANGED <<dataVars, queueVars, step, todo, reply, scanVars, waiting, timerVars,
                 raced>>

ExecutorStep ==
  \/ TakeCommand \/ TakeTransaction
  \/ Push \/ SetString \/ PopLeft \/ BlockingPop \/ BlockingPopWaits
  \/ Register \/ StartScan \/ Wake \/ Deregister \/ AnswerWoken \/ EndScan
  \/ Answer

-----------------------------------------------------------------------------
(* The goroutine that times a blocked command out. It shares the map and   *)
(* its slices with the executor and with its like, without a lock.         *)

\* The executor is between its read and its write of the map's slice of key k.
Storing(k) ==
  \/ pc = "register" /\ Keys(cur)[step] = k
  \/ pc = "remove" /\ Keys(woken)[step] = k

\* The executor ranges over the slice of key k, and will store a part of it.
Scanning(k) == pc \in {"scan", "remove", "wake"} /\ Head(todo) = k

TimerFire(c) ==
  /\ Up
  /\ timer[c] = "sleep"
  /\ timer' = [timer EXCEPT ![c] = "read"]
  /\ tstep' = [tstep EXCEPT ![c] = 1]
  /\ UNCHANGED <<dataVars, queueVars, answer, log, pc, cur, step, todo, reply, scanVars,
                 waiting, snap, raced>>

TimerRead(c) ==
  /\ Up
  /\ timer[c] = "read"
  /\ snap' = [snap EXCEPT ![c] = waiting[Keys(c)[tstep[c]]]]
  /\ timer' = [timer EXCEPT ![c] = "write"]
  /\ UNCHANGED <<dataVars, queueVars, answer, log, pc, cur, step, todo, reply, scanVars,
                 waiting, tstep, raced>>

\* Mutant of TimerWrite: the loop over the keys returns instead of ending.
TimerWriteReturns(c) ==
  LET k == Keys(c)[tstep[c]]
  IN /\ Up
     /\ timer[c] = "write"
     /\ waiting' = [waiting EXCEPT ![k] = Without(snap[c], c)]
     /\ timer' = [timer EXCEPT ![c] = IF tstep[c] < Len(Keys(c)) THEN "done" ELSE "send"]
     /\ UNCHANGED <<dataVars, queueVars, answer, log, pc, cur, step, todo, reply, scanVars,
                    tstep, snap, raced>>

\* The slice it read, without c, replaces whatever is there by now; or, when
\* the executor read its own slice before and stores it after, is overwritten.
TimerWrite(c) ==
  LET k == Keys(c)[tstep[c]]
  IN /\ Up
     /\ timer[c] = "write"
     /\ \/ waiting' = [waiting EXCEPT ![k] = Without(snap[c], c)]
        \/ Storing(k) /\ UNCHANGED waiting
     /\ array' = IF Scanning(k) THEN Shifted(array, snap[c], c) ELSE array
     /\ raced' = IF Storing(k) \/ Scanning(k) \/ snap[c] # waiting[k]
                 THEN raced \cup {c} ELSE raced
     /\ IF tstep[c] < Len(Keys(c))
        THEN tstep' = [tstep EXCEPT ![c] = @ + 1] /\ timer' = [timer EXCEPT ![c] = "read"]
        ELSE timer' = [timer EXCEPT ![c] = "send"] /\ UNCHANGED tstep
     /\ snap' = [snap EXCEPT ![c] = <<>>]
     /\ UNCHANGED <<dataVars, queueVars, answer, log, pc, cur, step, todo, reply, pos,
                    last, wreply, woken>>

\* The nil answer is sent whether or not the command was still waiting.
TimerAnswer(c) ==
  /\ Up
  /\ timer[c] = "send"
  /\ answer[c] = "open"
  /\ answer' = [answer EXCEPT ![c] = "nil"]
  /\ timer' = [timer EXCEPT ![c] = "done"]
  /\ UNCHANGED <<dataVars, queueVars, log, pc, cur, step, todo, reply, scanVars, waiting,
                 tstep, snap, raced>>

InMap(c) == timer[c] \in {"read", "write"}

\* The Go runtime ends the process when it notices that the map is written
\* by one goroutine while another one reads or writes it.
ConcurrentMapAbort ==
  /\ Up
  /\ \E c \in Cmd :
       /\ InMap(c)
       /\ \/ pc \in {"register", "scan", "remove"}
          \/ pc = "unblock" /\ todo # <<>>
          \/ \E d \in Cmd \ {c} : InMap(d)
  /\ pc' = "down"
  /\ UNCHANGED <<dataVars, queueVars, answer, log, cur, step, todo, reply, scanVars,
                 waiting, timerVars, raced>>

TimerStep(c) == TimerFire(c) \/ TimerRead(c) \/ TimerWrite(c) \/ TimerAnswer(c)

-----------------------------------------------------------------------------
Init ==
  /\ list = [k \in Key |-> <<>>] /\ str = {} /\ taken = [c \in Cmd |-> <<>>]
  /\ cmdQueue = <<>> /\ txQueue = <<>> /\ issued = {}
  /\ answer = [c \in Cmd |-> "open"] /\ log = <<>>
  /\ pc = "idle" /\ cur = None /\ step = 1 /\ todo = <<>> /\ reply = "ok"
  /\ array = <<>> /\ pos = 1 /\ last = 0 /\ wreply = "ok" /\ woken = None
  /\ waiting = [k \in Key |-> <<>>]
  /\ timer = [c \in Cmd |-> "off"] /\ tstep = [c \in Cmd |-> 1]
  /\ snap = [c \in Cmd |-> <<>>] /\ raced = {}

Next ==
  \/ \E c \in Cmd : Issue(c)
  \/ ExecutorStep
  \/ \E c \in Cmd : TimerStep(c)
  \/ ConcurrentMapAbort

Spec == Init /\ [][Next]_vars

\* The Go scheduler runs every goroutine that can run; nothing makes a client
\* send a request.
FairSpec ==
  Spec /\ WF_vars(ExecutorStep) /\ \A c \in Cmd : WF_vars(TimerStep(c))

-----------------------------------------------------------------------------
(* Properties.                                                             *)

Lists == INSTANCE ListService

\* Every variable keeps to its type.
TypeOK ==
  /\ list \in [Key -> Seq(Elem)]
  /\ str \in SUBSET Key
  /\ taken \in [Cmd -> Seq(Elem)]
  /\ cmdQueue \in Seq(Cmd) /\ txQueue \in Seq(Cmd) /\ issued \in SUBSET Cmd
  /\ answer \in [Cmd -> {"open", "ok", "value", "nil", "error"}]
  /\ log \in Seq(Cmd)
  /\ pc \in {"idle", "body", "register", "unblock", "scan", "remove", "wake", "down"}
  /\ cur \in Cmd \cup {None} /\ step \in Nat /\ todo \in Seq(Key)
  /\ reply \in {"ok", "value", "nil", "error"}
  /\ array \in Seq(Cmd) /\ pos \in Nat /\ last \in Nat
  /\ wreply \in {"ok", "value", "nil", "error"} /\ woken \in Cmd \cup {None}
  /\ waiting \in [Key -> Seq(Cmd)]
  /\ timer \in [Cmd -> {"off", "sleep", "read", "write", "send", "done"}]
  /\ tstep \in [Cmd -> Nat] /\ snap \in [Cmd -> Seq(Cmd)]
  /\ raced \in SUBSET Cmd

\* Between two requests no command waits on a key that holds an element or a
\* string: whatever a request pushes, the waiters it can satisfy are woken
\* before the next one runs (UnblockCommandsWaitingForKey leaves nobody asleep).
NoSleepingWaiter ==
  pc = "idle" /\ raced = {} => \A k \in Key : Ready(k) => waiting[k] = <<>>

\* The commands that can be on the list of waiters of key k.
Plain == {c \in Cmd : ~IsTx[c]}
WaitersOn(k) == {c \in Plain : k \in ToSet(Keys(c))}

\* What the place the executor is at says of its variables; which commands the
\* lists, the range and the timeouts' slices can hold.
Control ==
  /\ \A k \in Key : waiting[k] \in Seq(WaitersOn(k))
  /\ pc \notin {"idle", "down"} => cur \in Cmd
  /\ pc = "idle" => todo = <<>>
  /\ pc = "body" => step \in 1..Len(Body[cur]) /\ (step = 1 => todo = <<>>)
  /\ pc = "register" =>
       /\ cur \in Plain /\ step \in 1..Len(Keys(cur))
       /\ todo = <<>> /\ Blocks(Keys(cur))
  /\ pc \in {"scan", "remove", "wake"} =>
       /\ todo # <<>> /\ array \in Seq(WaitersOn(Head(todo)))
       /\ pos = IF pc = "wake" THEN last ELSE last + 1
  /\ pc \in {"remove", "wake"} => woken \in Plain
  /\ pc = "remove" => step \in 1..Len(Keys(woken))
  /\ \A c \in Cmd :
       /\ timer[c] # "off" => c \in Plain
       /\ timer[c] \in {"read", "write"} => tstep[c] \in 1..Len(Keys(c))
       /\ timer[c] = "write" => snap[c] \in Seq(WaitersOn(Keys(c)[tstep[c]]))

\* At every step, a key that holds something and has waiters is among the keys
\* whose waiters the executor still has to look at.
Covered ==
  raced = {} => \A k \in Key : Ready(k) => waiting[k] = <<>> \/ k \in ToSet(todo)

\* The requests the executor has taken from its channels.
Executed == issued \ (ToSet(cmdQueue) \cup ToSet(txQueue))

\* No request is executed twice, and the elements that exist were pushed by
\* operations that are over: the next one pushes elements that are nowhere yet.
Fresh ==
  /\ IsInjective(cmdQueue) /\ ToSet(cmdQueue) \subseteq {c \in issued : ~IsTx[c]}
  /\ IsInjective(txQueue) /\ ToSet(txQueue) \subseteq {c \in issued : IsTx[c]}
  /\ cur # None => cur \in Executed
  /\ \A e \in Lists!Present : e[1] \in Executed /\ (pc = "body" /\ e[1] = cur => e[2] < step)

\* The commands that can be registered for key k, and the workloads in which no
\* key has more than two of them: with three, or with one that names a key twice,
\* the shift in place makes the range pass a waiter over (see ExecutorNeverBlocks).
BlocksFor(k) == {c \in WaitersOn(k) : Body[c][1].kind = "blpop" /\ Body[c][1].wait # "none"}

TwoWaiters ==
  \A k \in Key :
    /\ \A c \in BlocksFor(k) : IsInjective(Keys(c))
    /\ \A a, b, c \in BlocksFor(k) : a = b \/ b = c \/ a = c

\* The timeout of c has not yet taken c off the list of key k.
NotTimedOut(c, k) ==
  \/ timer[c] \in {"off", "sleep"}
  \/ /\ timer[c] \in {"read", "write"}
     /\ \E i \in tstep[c] .. Len(Keys(c)) : Keys(c)[i] = k

\* Who can be on a list, and where the command that is being registered, or
\* woken, is still or already to be found.
ListsRight ==
  \A k \in Key :
    /\ IsInjective(waiting[k])
    /\ \A c \in ToSet(waiting[k]) :
         /\ c \in BlocksFor(k) \cap Executed
         /\ answer[c] = "open" /\ NotTimedOut(c, k)
         /\ c = cur => pc = "register" /\ \E i \in 1 .. step - 1 : Keys(c)[i] = k
         /\ c = woken /\ pc \in {"remove", "wake"} =>
              pc = "remove" /\ \E i \in step .. Len(Keys(c)) : Keys(c)[i] = k

\* Whoever waits is on all its lists.
NobodyMissing ==
  /\ pc = "idle" => cur = None
  /\ pc = "register" => /\ cur \in BlocksFor(Keys(cur)[step])
                        /\ \A i \in 1 .. step - 1 : cur \in ToSet(waiting[Keys(cur)[i]])
  /\ \A c \in (Plain \cap Executed) \ {cur} :
       /\ answer[c] = "open" /\ timer[c] \in {"off", "sleep"}
       /\ ~(c = woken /\ pc \in {"remove", "wake"})
       => \A k \in ToSet(Keys(c)) : c \in ToSet(waiting[k])

\* The part of the range that is still to come is the list itself.
RangeRight ==
  LET rest(i) == SubSeq(array, i, Len(array))
      behind  == pc = "wake" \/ \E i \in 1 .. step - 1 : Keys(woken)[i] = Head(todo)
  IN /\ pc = "scan" => waiting[Head(todo)] = rest(pos)
     /\ pc \in {"remove", "wake"} =>
          /\ pos \in DOMAIN array
          /\ waiting[Head(todo)] = rest(IF behind THEN pos + 1 ELSE pos)
          /\ ~behind => woken = array[pos]
          /\ woken \in (BlocksFor(Head(todo)) \cap Executed) \ {cur}
          /\ answer[woken] = "open" /\ NotTimedOut(woken, Head(todo))
     /\ pc \in {"scan", "remove", "wake"} => Len(array) <= 2

\* The answer c has got, or is about to get, is an element.
Gets(c) ==
  \/ answer[c] = "value"
  \/ c = cur /\ pc \in {"unblock", "scan", "remove", "wake"} /\ reply = "value"
  \/ c = woken /\ pc \in {"remove", "wake"} /\ wreply = "value"

AnswersRight ==
  /\ \A c \in Cmd : timer[c] # "off" \/ answer[c] # "open" => c \in Executed \ {cur}
  /\ \A c \in Plain : Len(taken[c]) = IF Gets(c) THEN 1 ELSE 0
  /\ \A k \in str : list[k] = <<>>

WaitersRight ==
  TwoWaiters /\ raced = {} /\ Up =>
    ListsRight /\ NobodyMissing /\ RangeRight /\ AnswersRight

\* The inductive invariant: Control and Covered for NoSleepingWaiter, Fresh for
\* ListsPromise, WaitersRight for the properties of single commands below.
Awake == TypeOK /\ Control /\ Covered
IInv  == Awake /\ Fresh /\ WaitersRight

\* A BLPOP that the executor let wait, is not being executed, and has neither
\* been answered nor timed out.
Parked(c) ==
  /\ c \in issued \ ToSet(cmdQueue) /\ ~IsTx[c] /\ c # cur
  /\ answer[c] = "open" /\ timer[c] \in {"off", "sleep"}

\* Between two requests such a command is on the list of every key it waits on:
\* waking one waiter never drops another one from the lists.
NobodyForgotten ==
  pc = "idle" /\ raced = {} =>
    \A c \in Cmd : Parked(c) => \A k \in ToSet(Keys(c)) : c \in ToSet(waiting[k])

\* Between two requests only such commands are on the lists: a command that was
\* answered is never executed again.
NobodyWokenTwice ==
  pc = "idle" /\ raced = {} =>
    \A k \in Key : \A c \in ToSet(waiting[k]) : answer[c] = "open"

\* Between two requests every element popped for a plain command has reached its
\* client, and a command popped one element at most.
TakenIsDelivered ==
  pc = "idle" /\ raced = {} =>
    \A c \in Cmd : ~IsTx[c] => Len(taken[c]) = IF answer[c] = "value" THEN 1 ELSE 0

\* The executor waits for ever to answer a command that was answered before.
Stuck == pc = "wake" /\ answer[woken] # "open"

\* No step of the blocking manager blocks the executor goroutine, unless a
\* timeout interfered with it.
ExecutorDoesNotBlock == raced = {} => ~Stuck

\* docs/architecture.md on blocking commands: "Executor doesn't block".
ExecutorNeverBlocks == ~Stuck

\* The element-level promise of the list commands.
ListsPromise == Lists!Spec
OnePlaceEach == Lists!OnePlaceEach

\* A client that sent a request that does not wait is answered, unless a timeout
\* interfered with the executor.
NotWaiting(c) == IsTx[c] \/ Body[c][1].kind # "blpop" \/ Body[c][1].wait = "none"
RequestsAnswered ==
  \A c \in {x \in Cmd : NotWaiting(x)} :
    c \in issued ~> answer[c] # "open" \/ raced # {} \/ ~Up

\* A command that waits with a timeout is answered, whatever becomes of the
\* executor, unless the process dies.
TimedOutAnswered ==
  \A c \in {x \in Cmd : ~NotWaiting(x) /\ Body[x][1].wait = "timed"} :
    timer[c] = "sleep" ~> answer[c] # "open" \/ ~Up

=============================================================================
