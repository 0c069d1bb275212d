# Verification of simis

simis is a Redis-like server in Go. This directory holds TLA+ models of its
concurrent core, TLC runs that check them on small instances, and TLAPS proofs of
the central invariants for every instance. Paths below are relative to
`src/internal/` unless they start with `docs/`. There are no tests in the
repository; its claims are in `docs/architecture.md`, in comments and in a few
package READMEs.

## 1. Inventory

### 1.1 Components

| Component | State | Operations | Modelled by |
|---|---|---|---|
| Router and sessions (`server/router.go`, `server/session.go`, `connection/connection.go`) | per connection: `inTransaction`, `queuedCommands`, `inPubSubMode`, `authenticated`, socket | accept, route, queue, wait for the executor, write the reply, end | `Session` |
| Executor (`executor/executor.go`, `executor/transaction.go`, `command/queue.go`) | two channels of 1000, the command or transaction being run | select, execute, wake waiters, propagate, answer | `Executor`; as far as sessions depend on it also `Session` |
| Blocking manager (`executor/blocking.go`) | map from key to a slice of waiting commands; one goroutine per timeout | register, range and wake, remove, time out | `Executor` |
| List commands (`handler/{l,r}push.go`, `lpop.go`, `blpop.go`, `datastructure/deque.go`) | the lists | push, pop, blocking pop | `Executor`, abstractly `ListService` |
| MULTI/EXEC/DISCARD (`handler/session/`) | the connection's flag and queue | start, queue, send, drop | `Session`, abstractly `Transactions` |
| Publish/subscribe (`pubsub/manager.go`, `handler/publish.go`) | two indexes and an RWMutex | subscribe, unsubscribe, publish | `Session` |
| ACL (`acl/user.go`, `handler/session/acl.go`, `auth.go`) | users in a `sync.Map`, list of passwords of each | AUTH, SETUSER | `Session` (passwords only) |
| Replication (`replication/`, `handler/session/{psync,replconf,wait}.go`, `server/slave.go`) | offset, replicas with acknowledged offsets | handshake, propagate, GETACK/ACK, WAIT | `Replication` |
| Key space (`store/kvstore.go`, `datastructure/lru.go`) | `sync.Map` of objects with times to live, tracker of recent use | store, get, delete, LoadOrStore*, INCR, evict, load a dump | `KeyStore` over `LRUTracker`, abstractly `KeySpace` |
| Streams and groups (`datastructure/stream.go`, `streamid.go`, `handler/x*.go`) | entries, groups with their last ID, pending entries, consumers with their counters | XADD, XREAD, XREADGROUP, XACK, XCLAIM, XGROUP | `ConsumerGroups` over `Streams` |
| Sorted sets (`datastructure/skiplist.go`, `sortedset.go`, `handler/z*.go`) | skip list with spans beside a map of scores | ZADD, ZREM, ZRANK, ZRANGE, ZSCORE, ZCARD, GEOADD, GEOSEARCH | `SortedSet` over `SkipList`, abstractly `ScoreMap` |
| Persistence (`rdb/parser.go`, `handler/bgsave.go`, `cmd/server/main.go`) | the dump file; a goroutine for each BGSAVE | BGSAVE, load at start | `Persistence` |
| Protocol parsing (`command/parser.go`, `utils/resp.go`, the loop of `server/session.go`) | what is left over of a read, the parser's buffered reader | read, parse a buffer of requests, keep the rest | `Framing` |
| Geo arithmetic, listpack, INFO, logging, client | | | not modelled, see section 8 |

### 1.2 How they interact

Every connection has a goroutine that reads requests and calls `Route`. `Route`
answers some requests itself (session handlers: MULTI, EXEC, SUBSCRIBE, AUTH, ...)
and sends the others over a buffered channel to the only executor goroutine, then
waits on an unbuffered channel made for this one command. The executor alone touches
the key space; after each request it wakes the clients that block on keys the
request has changed, hands writes to the replication manager and answers. PUBLISH
is the odd one: a command of the executor that writes straight to sockets of other
connections, under a mutex that session handlers take too. Timeouts of blocked
commands are goroutines that share the blocking manager's map with the executor.

A slave is a second process of the same program. One goroutine of it performs the
handshake with the master and then reads the master's writes like a session; on the
master's side its connection is an ordinary session whose commands are PING, REPLCONF
and PSYNC. The master's executor writes each write command to every slave whose
handshake is done; a WAIT does the same with GETACK from its client's session, at the
same time.

### 1.3 What is hard

- waiters: a woken command leaves several lists while one of them is being ranged
  over by index, and the removal shifts the memory under the range;
- timeouts: they remove and answer a command without a lock, while the executor may
  be waking it;
- one command, several channels: a plain command and an EXEC travel separately;
- connection modes (not authenticated, in MULTI, in publish/subscribe mode) and
  their order of tests;
- PUBLISH against SUBSCRIBE, UNSUBSCRIBE, a slow or departed subscriber;
- a panic or a blocked send inside the executor stops every client;
- replication: a slave joins while writes go on; two goroutines write to its socket;
  WAIT compares numbers that its own GETACKs move; replies, acknowledgements and
  handshake messages share one direction of a connection; slaves die;
- sorted sets: ranks are sums of spans that insertions and deletions keep up level by
  level, above the node and above the top too; a pair is kept in two structures that
  change one after the other;
- BGSAVE reads the store while the executor writes to it and writes over the only copy;
  the process may end at any point of that;
- a read from a socket ends anywhere in a request;
- consumer groups: what is pending is kept in a map, in counters of consumers and, as
  far as the next read goes, in the group's last ID, and five commands change them
  apart; reads that wait are executed a second time with rewritten arguments.

The file `PROJECT.json` lists the hazards at their lines, with the properties that
cover each.

### 1.4 What makes each component correct

- Executor and blocking manager: no lost wake-up, nobody dropped from a list,
  nobody answered twice, each element to exactly one client or still in its list,
  the executor never stuck, every request answered.
- Sessions: a transaction runs whole, in order, without another command in between;
  a dropped one never; no effect without authentication.
- Publish/subscribe: indexes agree; a PUBLISH reaches exactly the subscribers it
  counts, each once; no message after an unsubscription; everyone is answered.
- Replication: a slave misses no write after its handshake and takes them in order;
  its offset never passes the master's; acknowledgements are true and grow; WAIT
  counts only replicas that have the writes answered before it, and ends.
- Key space: what has expired is never answered; eviction ends and takes the key the
  policy names; tracker and map hold the same keys, in the order of use.
- Streams: no entry is lost to a group; none comes back after its acknowledgement;
  pending entries and consumers' counters agree; ranges are inclusive; a waiting read
  misses no entry.
- Sorted sets: the map of scores and the list hold the same pairs, spans are
  distances, and every answer is that of a plain map from members to scores.
- Persistence: what a completed save covered is there after a restart.
- Protocol parsing: the requests executed are those sent, however the bytes arrive.

## 2. Modules and the code

### 2.1 `Executor`

A member of `Cmd` is one request: a plain command or a transaction (`IsTx`), and
`Body` gives its operations. Only operations that push, pop, overwrite or wait for
list keys are told apart (`push`, `set`, `lpop`, `blpop`).

| Specification | Code |
|---|---|
| `cmdQueue`, `txQueue`, `Issue` | `queue.go`: the two channels; a send that finds its channel full is not enabled |
| `TakeCommand`, `TakeTransaction` | the two cases of `select` in `Start`; either when both are ready |
| `pc = "body"`: `Push`, `SetString`, `PopLeft`, `BlockingPop`, `BlockingPopWaits` | the handlers; one step per operation, a transaction's loop is `NextOperation` |
| `BlockingPopWaits` of a transaction: `pc' = "down"` | the panic in `transaction.go:35` |
| `pc = "register"`: `Register` | `AddWaitingCommand`, one key a step |
| `pc = "unblock"/"scan"/"remove"/"wake"` | `UnblockCommandsWaitingForKey`: outer loop, range, removal from each key's slice, send of the answer |
| `array` and `Shifted` | the memory under the slice being ranged over: `append(s[:i], s[i+1:]...)` moves its elements one place down |
| `Answer` | propagation to replicas (not for transactions) and the send to the client |
| `timer`, `TimerFire/Read/Write/Answer` | the timeout goroutine: sleep, read a slice from the map, store the shortened slice, next key, send nil |
| `ConcurrentMapAbort` | the Go runtime's fatal error when it notices concurrent use of a map |
| `answer[c]` | a send on the unbuffered `Response` channel is a step that needs `answer[c] = "open"`: the receiver receives once |

The timeout goroutines race with the executor without a lock, so their effects are
nondeterministic: a stored slice may overwrite the other side's or be overwritten,
the shift may move elements under the range, and the runtime may abort. `raced` is a
history variable: the timeouts that interfered so. The safety invariants say what
holds while it is empty, which is always the case without a timeout, and also with
timeouts that happen not to interleave.

A key that holds an empty list and a missing one are the same to every operation
modelled, so `list[k] = <<>>` stands for both. SET makes the key a string (`str`);
nothing in this model deletes one again.

`ListService` is the abstract list store: each element is pushed once, sits in a list
until it is taken by one request, taken from the head, or overwritten.
`Executor` implements it (`ListsPromise`).

### 2.2 `Session`

A request is named by its connection and its number on it. `Requests[c]` is what the
client of `c` may send, in any order.

| Specification | Code |
|---|---|
| `phase`: `read`, `wait`, `store`, `send` | where the connection's goroutine is: reading, waiting for the executor, between read and write of the password list, about to write |
| `Refuse`, `QueueCommand`, `Admits` | the three tests at the head of `Route`, in their order |
| `Multi`, `Exec`, `Discard` | the session handlers and `StartTransaction`, `EndTransaction`, `DiscardTransaction`; EXEC keeps `queuedCommands` |
| `DataCommand`, `TakeCommand`, `TakeTransaction`, `ExecuteCommand`, `Finish` | queue, execution and answer of other commands |
| `Subscribe`, `Unsubscribe` (need `Lock`) | the manager's methods under the mutex; the reply comes in a later step |
| `PublishStart`, `PublishTo`, `PublishEnd` | `Publish`: read lock, one write per subscriber in any order, count; a message is named after the run of its PUBLISH, since a second EXEC may run the same request again |
| `SetUser`, `StorePasswords` | read and write of the shared password list without a lock |
| `out`, `seen`, `Room`, `Disconnect` | the socket: a write waits while `SocketCap` replies are unread, and fails at once when the client is gone |

A request that finds the manager's mutex taken is modelled as not yet taken from its
socket: nothing distinguishes the two. `Leave` changes nothing but the phase, as
`Handle` does: subscriptions of a client that has gone stay.

`Transactions` is what MULTI/EXEC promises: a batch is gathered, and run whole in one
step or dropped. `Session` implements it (`TransactionsPromise`) with a refinement
mapping that shows a running batch only when it is complete, for connections whose
first batch it is (`OneExec`, see `session_replay`).

### 2.3 `Replication`

A member of `Replica` is one slave process with its one connection (simis does not
reconnect). A message is a record of its kind and a number: of a write, its place in
the order of the executor; of an ACK, the offset in it.

| Specification | Code |
|---|---|
| `Write`, `Begin`, `Send`, `End` | `isWriteCommand` in `executor.go` and `PropagateCommand`: choose the replicas whose handshake is done, write to one after the other, add the size to the offset. A WAIT (`WaitAsk`) does the same with GETACK; both may be between `Begin` and `End` at once, since both hold the lock for reading |
| `Lock`, `Replconf` | `AddReplica` takes that lock for writing |
| `SessionRead`, `Unparsed`, `leftover` | the master's session: a Read returns any number of messages, `ParseMultipleRequests` stops at the first that is no array, drops its first line and keeps the rest for the next Read |
| `Ping`, `Psync`, `PsyncFile`, `PsyncMark`, `Ack` | the handlers of the slave's commands, each written reply and each write to shared state a step |
| `Connect`, `Handshake`, `FullResync`, `LoadSnapshot` | `connectToMaster`, `sendReplconfCommands`, `sendPsync`; a Read that returns two replies, or a part of the snapshot, ends the attempt (`phase = "failed"`) while the master keeps the slave among its replicas |
| `ApplyWrite`, `GetAck` | `HandleRequests` of the slave for its master: route, then add the size. `suppress` starts as FALSE (`connectToMaster`), so writes are answered with a reply until the first GETACK |
| `WaitCommand`, `WaitCheck`, `WaitAsk`, `WaitCount`, `Deadline` | `WaitForReplicas` and `sendGetAckToReplicas` |
| `ConcurrentMapAbort` | the runtime's fatal error: WAIT reads the map of replicas without the lock that REPLCONF takes |
| `Crash` | the death of a slave; what it has sent may still arrive |

`base`, `applied`, `goal` and `counted` are history variables: how many writes were
begun when a slave's handshake was done, how many it has executed, how many were
answered when a WAIT came, and whom it counted.

Not in the model: the contents of the snapshot (a dump from an earlier time, or none),
a slave's own clients and their commands, and a full socket towards a slave. WAIT's
count of replicas is one step. `MayAsk` bounds the GETACKs of a WAIT: beyond
`MaxAsks` it sends another one only when nothing else could move the ACK it waits
for.

### 2.4 `KeyStore`

`LRUTracker` has the operations of `lru.go` on a record: `head`, `tail`, the `prev`
and `next` of every node (a node carries its key and is named by it), the map of the
nodes and `size`. `KeyStore` has the map of objects on top of it, driven by the
executor goroutine, so that one command runs at a time.

| Specification | Code |
|---|---|
| `Put`, `Delete`, `GetValue` | the map and the tracker changed together: `Store`, `Delete`, `GetValue`, which deletes a key whose time is over |
| `Read`, `Keys`, `ConfigSet` | commands that do not allocate: GET, TYPE and the other reads of one key, KEYS, CONFIG SET |
| `Take`, `EvictOne`, `RejectOOM`, `Run` | a command that allocates: SET makes its time to live a point in time, `evictIfNeeded` turns its loop, one turn a step, then the command runs |
| `Victims` | what `evictOne` may choose: the tail, a node, the first volatile key of a walk from the tail (`FirstFromLRU`), any volatile key, a volatile key that expires soonest |
| `Set`, `Incr` | `executeSet`, `IncrementString`: INCR keeps the time to live, and takes an expired object for none |
| `Open` | `LoadOrStoreList`, `LoadOrStoreStream`, `LoadOrStoreSortedSet`, which do not look at the time to live, with what LPUSH, RPUSH, BLPOP, XADD and ZADD make of the result |
| `Panic` | ZADD, GEOADD and XGROUP CREATE MKSTREAM use the nil they get for a key of another kind; nothing recovers, and a new process starts |
| `LoadEntry`, `Start` | `loadRDBFile` before the executor is started |
| `Tick`, `HeapChanges` | the clock; the heap in use, which the runtime makes larger and smaller at any time |

`used` is a history variable, the order of last use as a relation on keys; `Least`,
`Most` and `Follows` read off it what tail, head and the links ought to be
(`InOrder`). `serving` is FALSE while the dump is loaded.

`KeySpace` is what clients may rely on: one value for a key, reads and writes one
after the other, an error changes nothing, and keys vanish between commands only.
`KeyStore` implements it (`KeysPromise`) with a mapping that hides expired objects
that are still stored: `GetValue`, INCR and KEYS must never let one through, and
LPUSH, which does, may only answer that the kind is wrong. XADD that refuses its
entry leaves an empty stream at a key that had none: `KeySpace` allows that
(`Open`), because the code has it.

Not in the model: the contents of structures, the counter of evictions, negative times
to live (SET takes them; such a key is expired at once), and a key whose name is the
empty string, which `volatile-*` never evicts.

### 2.5 `ConsumerGroups`

`Streams` has the IDs of entries (`Before` is `Compare`, `After` is `Seq++`, which
wraps around at `MaxUint`, the largest unsigned integer), `NextID` and `Accepts`, which
decide what XADD may add, and `Scan`, which is `RangeScan`: two lower bounds in the
radix tree, as positions. A stream is the sequence of its IDs; a client cannot
delete an entry in simis, so positions stay.

`ConsumerGroups` has one stream, its groups and the reads that wait for its key. One
command with the wake-ups it causes is one action, because the executor goroutine does
nothing else in between; how the wake-ups are carried out is `Executor`'s subject.

| Specification | Code |
|---|---|
| `stream` | `Entries` and `Index`, or no such key |
| `last`, `num`, `owner`, `since` | `LastDeliveredID`, `PendingEntriesNum` of each consumer, the consumer and the `DeliveredTime` of each pending entry |
| `XAdd` | `executeXAdd`: the stream is made, the ID chosen, `AppendEntry`, the key reported |
| `XGroupCreate`, `XGroupDestroy`, `XGroupSetID`, `XGroupDelConsumer` | the handlers in `xgroup.go` with `CreateGroup` ... `DeleteConsumer`; entries of a consumer that is removed stay pending with `Nobody` |
| `XReadGroup`, `ReadGroupNewEntries`, `AddPending` | XREADGROUP with `>`: the entries after the last ID, the first `n` of them, become pending, whoever had them before, and the last ID moves on |
| `XReadGroupBlock`, `XRead`, `Park` | reads that find nothing and wait; XREAD then waits from the last entry, whatever ID it named |
| `XAck`, `XClaim` | sets of pending entries; IDs that are not pending are passed over |
| `Wake`, `Blocks`, `Answer` | the second execution of waiting reads, in order, up to the first that waits on |
| `Timeout` | a timeout that does not race (see `Executor` for those that do) |
| `Evict`, `Panic` | the key goes with all its groups; XADD with an odd number of fields indexes past them (`stream.go:103`), XRANGE with reversed ends makes a slice of negative size, and nothing recovers |

`acked`, `passed` and `rewound` are history variables: what a group has acknowledged,
which IDs CREATE and SETID have put behind it, and whether a read has started, or may
start, before its last ID, which happens after SETID to an earlier ID and when the
number in the last ID is `MaxUint`. `AckIsFinal` and the exact half of `CountsAgree`
hold until then; afterwards an entry may be delivered a second time while it is pending,
and is counted twice or under two consumers (`stream.go:415` only ever adds).

What the model shows and no document rules out:

- A waiting XREADGROUP always ends in an error: its arguments are rewritten with the
  word `CONSUMER`, which its parser does not take (`xreadgroup.go:182`). The entries
  that woke it stay undelivered, so nothing is lost.
- XREAD with BLOCK and an ID that lies beyond the last entry is answered with the next
  entry, also when that one is below the ID it named.
- `RangeScan` with an end between two entries returns the entry after it as well, and
  with an end past the last entry it is an error (`stream.go:158`). `RangeIsInclusive`
  is therefore about ends that are entries or the maximum, which is all that the groups
  use.
- In `ReadersMissNothing` a waiting read that stands behind one that waits for a later
  ID is excepted: the loop of wake-ups stops at the first that blocks again. An evicted
  stream that is made anew starts with lower IDs, so that this happens.
- Eviction wakes no read.

Not in the model: fields of entries, `DeliveryCount`, `LastSeenTime`, reads of several
streams at once, and the replies of XPENDING and XRANGE, which change nothing.

### 2.6 `SortedSet`

`SkipList` has the nodes of `skiplist.go` by their values: `forward` and `skips` per
level and node, the height of each node, `maxLevel`, `length`, `levelCount`. The five
loops that search it (`InsertAtLevel`, `Delete`, `GetRank`, `SearchByRank`,
`GetLowerBound`) are one search that is told what it looks for, and goes one link
(`MoveRight`) or one level (`MoveDown`) a step; `Link` and `Unlink` are what an
insertion and a deletion do at its end. `SortedSet` has the map of scores and the
commands.

| Specification | Code |
|---|---|
| `Issue` | the executor takes a command; the next one waits until it has answered |
| `AddPair`, `Insert`, `Delete` | the loop of `SortedSet.Add`: a member that is there is taken out of the list with its old score, then put in with the new one |
| `RemoveName`, `Delete` | the loop of `SortedSet.Remove` |
| `Link(lvl)` | the end of `InsertAtLevel`; `lvl` is any level, where the code draws one |
| `RankOf`, `RankFound` | `GetRank`: the spans on the way to the member, less one |
| `RangeOf`, `RangeFound`, `Collect` | `GetRange`: indexes from the end, `SearchByRank`, then along level 0 |
| `Between`, `BetweenFound`, `Collect` | GEOSEARCH: `GetRangeByValue` for each of its ranges, the members within the radius, none twice |
| `Card`, `ScoreOf` | ZCARD, ZSCORE |

`ScoreMap` is what a client may rely on: a map from members to scores, in which a rank
is the number of members before one and a range the members of consecutive ranks.
`SortedSet` implements it (`SetPromise`), with the scores before the command until it
has answered.

A score may be NaN (`ZADD k nan m`, which `ParseFloat` takes). It compares equal to
itself whatever the member, so that the list takes two members for one; the map does
not. The command that gives such a score is the last one of a behaviour (`nan`), and
the properties are about the time before it: what follows depends on where searches
happen to stop. `Unlink` still has what `Delete` does when the value is not there: it
asks only whether the search stopped before some node (`skiplist.go:208`; the comment
above it says "if the node to delete was found only"), and then lowers spans and
`length` for a node it has not found.

Also in the code, kept in the model, and against no document: `GetRange` makes an end
before the first element the first element, so that `ZRANGE k 0 -9` answers one
member. Not in the model: empty and missing keys (`KeyStore` has those).

### 2.7 `Persistence`

A dump is the sequence of its opcodes with their operands: sections that are passed
over, expiries, pairs, values of other kinds, the end. A dump that is cut within one is
as good as cut before it, since the parser fails at both.

| Specification | Code |
|---|---|
| `Start`, `LoadRDBIntoStore`, `ParseRDB` | `main`: `loadRDBFile` before the executor starts; all pairs of a dump that is right to its end, or none |
| `Put`, `Delete` | any command that changes a key, while BGSAVE is at work |
| `BGSave`, `Collect` | the goroutine of BGSAVE: the range over the `sync.Map`, a key a step, in any order; a key made after its turn is missed |
| `IsRedisObject`, `Collected` | the assertion at `parser.go:395` as the method sets on both sides have it, then the tests for expiry and strings |
| `Truncate`, `WriteAll`, `WriteShort` | `os.WriteFile`: the old dump is cut to nothing, then written from the start, by several goroutines perhaps; on a full disk, or when the process ends, a part |
| `Crash` | the end of the process anywhere |

`cover` and `saved` are history variables: the strings without a time to live that were
there when a save began and that nobody has changed since.

`IsRedisObject` is false of every object: the interface wants `Get() interface{}` and
`GetTTL() *time.Time`, and `*ds.RedisObject` has `Get() RValue` and no `GetTTL`. So
every dump is empty (`SavesAreEmpty`), and a BGSAVE replaces a dump with keys, from
another server for example, by one without. The rest of `GenerateRDB` is in the model
all the same: with an object type that has those methods TLC finds `SavedIsRestored`
to hold (two keys, one string, two saves at once, crashes; 1.4 million states), so
that this one assertion is what stands between the code and what it promises.

`docs/architecture.md` describes a temporary file and a rename; the code writes over the
old dump, so that between `Truncate` and `WriteAll` there is none. `SavedIsRestored`
takes that for given: it is about saves that no other save has followed.

### 2.8 `Framing`

The bytes of a connection are units: the prefix of a line with its number, a line end,
a byte of an argument. `Read` gives any part of what has arrived.

| Specification | Code |
|---|---|
| `Read` | the loop of `HandleInitialData`: leftover and new bytes together go to `HandleRequests` |
| `NextRequest`, `Element`, `BulkData` | `ParseMultipleRequests` and `ParseRESPArrayRecursive`, an element a step |
| `TakeLine`, `LineLost` | `ReadString`: up to the line end; without one it takes all there is |
| `held`, `Filled` | what the `bufio.Reader` has in its buffer, which `reader.Read` does not go beyond |
| `GiveUp` | an error in an array: the words parsed are dropped, the units not yet taken are left over |
| `RouteNext` | the loop of `HandleRequests` |

Two things go wrong, and one property shows both. A request that has not arrived whole
loses what the parser has taken of it, so that what is left over begins in its middle,
is no array, and is dropped a line at a time up to the next `*`. And `reader.Read` may
return fewer bytes than the argument has, which the code does not look at: the rest of
the argument is zero bytes, and the request is executed with it. Small requests
that arrive whole are not affected: with reads that end where requests end, and a
buffer larger than the data, TLC finds the property to hold.

## 3. Runs

`PROJECT.json` has the list; the bounds are in the configuration files.

| Run | Question | Result |
|---|---|---|
| `exec_wake` | Two blocked BLPOPs over two keys in opposite orders, one of them with a timeout that races the executor, one that polls, pushes, a transaction that pushes and pops on both keys, SET: all safety properties until the timeout interferes, refinement of `ListService`, every request answered unless a timeout has interfered, a timed-out client always | holds |
| `session_tx` | Two clients with MULTI, EXEC, DISCARD, plain commands, a password set at any time: refinement of `Transactions` | holds |
| `session_pubsub` | Two subscribers, one of which may leave, and two publishers with sockets that hold one reply | holds |
| `repl_wait` | Two slaves that join at any time, one of which may die, two writes and a WAIT: the inductive invariant, order and completeness of the writes, offsets, acknowledgements, whom WAIT counts | holds |
| `repl_live` | A WAIT without a timeout and one with a timeout for a replica too many, at the same time: both are answered | holds |
| `keys` | Three keys, all six policies and a word that is none, a heap above and below the limit, expiry, a dump with an expired entry, restart: the invariant, which key goes, refinement of `KeySpace`, the end of the eviction loop | holds |
| `groups` | A stream of two entries, one group with two consumers, claims, removals, SETID in both directions, IDs at the maximum, eviction, two reads that wait: nothing lost, acknowledgements final, counters, ranges, waiting reads | holds |
| `zset` | Three members, two scores and NaN, three levels, commands that name two members: list, spans and map right within and between commands, refinement of `ScoreMap` | holds |
| `exec_triple` | "Executor doesn't block": three waiters on one key and a push of three elements | violated |
| `session_replay` | EXEC resets the transaction | violated: a second EXEC runs the first one's commands again |
| `dump_lost` | "Asynchronously save the dataset to disk": what a completed BGSAVE covered is there after a restart | violated: the dump is empty |
| `frame_split` | HandleRequests "returns any leftover data that couldn't be processed": what is executed and what is left over are together what was sent | violated by a request in two reads |

The "violated" runs each show one property that the repository states (a line of its
documentation or a comment, quoted in `PROJECT.json`) and that the code does not have.

`CommandsEnd` has an exception, `NothingToEvict`, that the code needs: with a
`volatile-*` policy and no key with a time to live, or a policy word that the program
does not know (`--maxmemory-policy` takes any), `evictOne` removes nothing and returns no
error, and `evictIfNeeded` turns for ever in the executor goroutine unless the heap
shrinks by itself. `docs/lru-eviction-flow.md` has the loop exit "when under limit or no
evictable key found".

### 3.1 What the violations mean for the passing runs

`exec_wake` keeps at most two commands parked on one key. That is
the limit of what the code does right: with three, the shift of the slice under the
range skips the second, which is then on no list, and visits the third twice
(`exec_triple`).
A BLPOP that names one key twice breaks it in the same way. The hypothesis of the
theorems on single commands is therefore `TwoWaiters`, about the requests alone: no key
has more than two commands that can block on it, and those name each key once. The
requests of `exec_wake` are such. `NoSleepingWaiter`, `ListsPromise` and `OnePlaceEach`
are not restricted in this way: they are proved for any requests (the lost waiter is no
longer on a list, so it does not sleep on one; a command that is visited twice takes
two elements, but each of them once).

In `session_tx` and `session_pubsub` a connection starts no MULTI after its first
EXEC (`MaxExec = 1`), because a second one runs the first one's commands again
(`session_replay`), which breaks the refinement: what runs then is not what was sent since
the MULTI. `OneExec` is that bound as a hypothesis of the one theorem that needs it,
`TransactionsKeepTheirPromise`. Every other property of `Session` is independent of it,
and the theorems are proved without it.

`WaitIsSound` is about slaves whose handshake was done before the
first write. For one that joins later nothing like it holds: it is told
to start at offset 0 and gets the dump that lies on disk, so its offset is behind the
master's by the size of the writes it lacks; but every GETACK that a WAIT repeats
moves it on, until it passes the target. Even for early slaves the property needs
`FewWaits`: the offset of the master is read by one WAIT while the GETACKs of others have
been sent and not been added, so that a slave may have passed the target by GETACKs
alone. All of those but one together must be shorter than a write, `GetAckSize *
(Cardinality(Waiter) - 2) < WriteSize`. That holds with two WAITs whatever the sizes
are; with three, a write of 1 unit and a GETACK of 2, TLC finds a WAIT that counts a
slave which lacks an answered write, and with a write of 3 it finds none. A GETACK has
37 bytes and the shortest SET 27, so that three WAITs at a time are too many for short
writes.

## 4. Bounds

| Bound | Value | Why it is enough |
|---|---|---|
| `Cmd`, `Body` | 4 to 6 requests | two waiters with crossed key orders, and each kind of operation that can wake, take or overwrite, all interleaved by the channels |
| `Key` | 1 or 2 | the second key makes removal from another list and the order of wake-ups of one transaction matter |
| `QueueCap` | 2, in `exec_triple` 4 | less than the number of requests in `exec_wake`, so that senders wait |
| `Conn` | 2 or 3 | a publisher, a subscriber, one that comes and goes; two transactions |
| `MaxRequests` | at most 5 each | MULTI, two commands, EXEC and one more |
| `SocketCap` | 1, 2 or 9 | 1: every second reply waits for the reader; 9: never, where sockets are not the question |
| `Replica` | 1 or 2 | one that stays and one that joins, falls behind or dies independently |
| `Waiter`, `Num` | 1 or 2 WAITs | one alone with two slaves; two whose GETACKs overlap (see 3.1 for three) |
| `MaxWrites`, `MaxAsks` | 1 or 2 | a write before, during and after the handshake and the WAIT; a GETACK behind the writes |
| `WriteSize`, `GetAckSize` | 1 and 2 | GETACK (37 bytes) is longer than the shortest write (27), so that one GETACK outweighs one write; the proofs hold for all sizes |
| `Key` of `KeyStore`, `Sent` | 3 keys, 10 commands | the tracker's list has a head, a tail and a node between; a key of each kind, with and without a time to live, expired or not |
| `MinInt .. MaxInt` | 0 .. 1 | INCR of 1 is the overflow, INCR of no value the start |
| `MaxTime` | 1 | a time to live of 0 is over after one tick, one of 1 is not |
| `MaxUint` of `Streams` | 2 | numbers 0, 1 and the largest, at which `After` wraps; milliseconds before, at and after the clock's |
| `MaxEntries`, `Counts` | 2 entries, COUNT 1 or none | COUNT 1 leaves an entry behind, which is then delivered to another consumer |
| `MaxPending` | 2 per consumer | both entries with one consumer, or a second delivery of one |
| `MaxParked`, `Reader` | 2 | one read in front of another; of three the executor skips one (3.1), which the model of a step's wake-ups leaves to `Executor` |
| `Starts`, `MinIdles` | `1-0`, 1 | an ID that is before, at or after the last; a claim that comes too early and one that does not, with a clock of two values |
| `Member`, `Score`, `Cap` of `SortedSet` | 3 members, 2 scores, levels 0 to 2 | equal and different scores, a node with two neighbours; a level in use, one that becomes empty or is new, and one above the top |
| `MaxPairs`, `Ranks`, `Searches` | 2, six indexes, three searches | a member named twice in one command; indexes inside, at and beyond both ends; ranges that overlap, are empty or reversed |
| `Dump`, `Saver`, `MaxStarts` | 4 dumps, 2 saves, 2 starts | no dump, a right one with an expiry, one with a value that is no string, one cut short; a save while another writes; a restart after a save |
| `BufferSize`, `Request`, `MaxSent` | 12 units, 2 requests | less than two requests, so that the buffer ends within an argument; a null string |
| `MaxExec` | 1, in `session_replay` 2 | see 3.1 |

## 5. Fairness

`FairSpec` of `Executor` asks for weak fairness of the executor goroutine and of each
timeout goroutine: Go's scheduler is preemptive and runs every goroutine that can
run, and a `time.Timer` fires. Clients are under no obligation: `Issue` is not fair.
`select` between two ready channels may favour one for ever as far as the
specification goes; with finitely many requests this makes no difference.

`FairSpec` of `Session` asks for weak fairness of the executor, of each connection
goroutine once it has taken a request, and of clients in `Readers` reading what they
were sent. Taking a request is not fair, and neither is a disconnection.
Without readers PUBLISH waits at a full socket, and the executor with it: `PublishTo`
needs `Room`.

`FairSpec` of `Replication` asks for weak fairness of whoever propagates, of the
master's session with each slave, of each slave that is connected, and of each WAIT
with its clock. `Connect`, `Write`, a WAIT's arrival, `Crash` and the runtime's abort
are not fair. TCP delivers, which is in the fairness of `SessionStep` and
`SlaveStep`.

`FairSpec` of `KeyStore` asks for weak fairness of the executor goroutine only
(`Execute`): neither the clock nor the heap is fair.

## 6. Proofs

`ExecutorProofs`, `SessionProofs`, `ReplicationProofs`, `KeyStoreProofs`,
`ConsumerGroupsProofs`, `SkipListProofs`, `SortedSetProofs` and `PersistenceProofs` are
checked by TLAPS for every value of the constants that satisfies the assumption of the
module. For the first two that is `ConstantsAssumption`, which is what the code ensures
of a request (a plain request is one operation, a pub/sub command names a channel, ...)
plus `IsFiniteSet(Conn)`, needed because `PublishStart` orders a set of connections; and
`NoJobAssumption`, that `None` is not a job.
For `Replication` the assumptions are that sizes are positive, that slaves and WAITs
are finitely many, and that the executor is not one of the waiters. For `KeyStore`,
that the keys are finitely many, 1 is an integer, and `None` is no key, string, object
or command and nothing that a client can see. For `ConsumerGroups`, that the largest
unsigned integer is positive, the clock does not pass it, `None` and `Nobody` are no
IDs, streams or consumers, and `None` is no answer to a read. For `SkipList` and
`SortedSet`, that members are naturals (their order as strings), scores integers, the
empty string a member, and head, end and NaN none of these. `Persistence` has no
assumption.

### 6.1 Executor

`NoSleepingWaiter` is about the moment between two requests. In the middle of one it
is false: a push has made a key ready and its waiters are still asleep. What holds at
every step is `Covered`: a key that has something and waiters is in `todo`, the keys
whose waiters are still to be looked at. That is inductive only together with
`Control`: at `pc = "idle"` nothing is in `todo`; a command is registered only while
all its keys are empty (`pc = "register"` implies `Blocks(Keys(cur))`), so that the
registration does not break `Covered`; the range over the waiters of `Head(todo)`
holds only commands that wait on that key, so that the one it stops at, which blocks
again, shows the key to be empty (`EndScan`). Timeouts are covered by `raced`: a
store that does not interfere only removes waiters. `Awake == TypeOK /\ Control /\
Covered` is proved inductive with one lemma per action.

`Fresh` adds that a request is in a channel at most once and was sent by its client, so
that no request is executed twice and the elements of the next push are nowhere yet.
With it every step is a step of `ListService` or changes none of its variables
(`StepRefines`), which is the refinement `ListsPromise`; and an element that is on one
place stays on one (`Separate`, `OnePlaceEach`).

The properties of single commands need to know, while a waiter is taken off the lists
one key at a time, which lists it is still on and what the range will meet:
`ListsRight` (who can be on a list, none twice, and none that was answered),
`NobodyMissing` (who waits is on all its lists), `RangeRight` (what is left of the range
is the list itself, in spite of the shift under it: with two waiters the one that is
moved is the one to be visited next, or there is none) and `AnswersRight` (a command has
taken an element if and only if its answer is one, or will be). `WaitersRight` is these
four while `TwoWaiters` holds, no timeout has interfered and the process is up.
`IInv == Awake /\ Fresh /\ WaitersRight` is `Inductive`; `NobodyForgotten`,
`NobodyWokenTwice`, `TakenIsDelivered` and `ExecutorDoesNotBlock` follow under
`TwoWaiters`. Without it they are false, as `exec_triple` shows for the last one.

### 6.2 Session

`SInv == TypeOK /\ Held /\ ModesExclude /\ SubscriptionsAgree /\ StrangersDoNothing /\
Delivering`. `StrangersDoNothing` speaks of what is at the executor, so the executor must
run only what connections gave it: `Held` says that each job carries commands of its own
connection. `MessagesOnlyToSubscribers`, an action property, needs that the rest of
`targets` is still subscribed, which `Held` has because the mutex keeps Subscribe and
Unsubscribe away while `publishing`. `SubscriptionsAgree` needs the two indexes to
change together. None depends on how many connections, channels or requests there
are.

`CountIsDelivered` says that in the middle of a PUBLISH each subscriber has its message
once, but for those still to be written to, and nobody else has it. A write to a
connection must find no copy there, so no target may be in the order twice, and at the
beginning of a PUBLISH no socket may hold a message of that run: `Delivering` says that
messages on sockets are of runs before, or of the one that goes on.

`XInv` is about transactions and is inductive beside `SInv`. `OneJobEach`: a connection
has one job at a time, in a queue or running, and waits for it outside of a transaction;
that is why EXEC and a plain command of one connection cannot overtake each other.
`Named`: a name was taken by its connection, and one that was dropped is in no queue and
in no job, which gives `DiscardedNeverRun`; a job of an EXEC shares the queue with the
connection, which cannot reach DISCARD while the job is there. `JobsAreQueues`: the job of
an EXEC is the queue of its connection, the executor has run what is before `pos` as the
last of `executed`, and a plain command has not run before. `QueuesEnd` is the part that
needs `OneExec`: the queue that an EXEC leaves behind is behind an answered EXEC, and such
a connection is in no transaction again.

For `TransactionsPromise` the batch of c is its queue in a transaction and during the
EXEC, and empty outside. Each action is a step of `Transactions` or shows nothing: the
commands of a batch show only at `Finish`, where `JobsAreQueues` gives that
what became visible is the batch, in order and without another command in between
(`FinishShown`); a plain command is `Run`, and is new by `JobsAreQueues` (`ExecutedShown`);
a MULTI must find an empty queue, which is `QueuesEnd` (`MultiShown`).

### 6.3 Replication

`NoGap` says that the write at the head of a slave's input is the next one after those
it has executed. That follows from `Writes`: the numbers of the writes on their way to
a slave are exactly those between what it has executed and what was sent to it
(`SentTo`, one less than `written` while the executor has this slave still in `todo`),
in increasing order. Sending appends the next number, because `Senders` says what the
executor propagates and to whom it is still to go; reading takes the least
(`WriteDropped`). The handshake matters twice: before it is done no write is on its
way, and between its end on the master's side and on the slave's side the slave reads
replies and the snapshot, never a write in their place. The latter is `Handshakes`:
which replies stand in front, given where the master's `executePsync` and the slave
are. `PsyncMark` may come before or after the slave has read the snapshot.

`AcksAreTrue` follows from `Acks`: every ACK that is on its way, read or left over is of
an offset the slave has reached, and there is none before the stream, because
`FullResync` sets the offset back to 0.

`Delivery == TypeOK /\ Senders /\ Handshakes /\ Acks /\ Writes` is inductive, one
lemma per action, from lemmas on what a step keeps of each conjunct for one replica.
Three layers stand on it, each proved with those below.

`AcksRise` is for `AcksGrow`. What the master has not processed of what a slave sent is
one line: `inbox`, `leftover` and `up` behind each other (`Line`). A read with any
cut leaves that line as it is, but for a reply that the parser drops
(`SessionReadRises`), so that the acknowledgements in it stay in the order in which they
were sent, the one that counts before them. Each is at least a GETACK below the
offset of the slave, because `GetAck` sends its offset before it adds the GETACK.

`Offsets` is for `SlaveBehind`. `Position(r, i)` is the offset that slave `r` will have
when it has processed what is ahead of the `i`-th message on its way; behind the last
message it is at most the master's offset and what of the pending propagations has
been sent to `r` (`PendingTo`). `Send` adds the same to both sides, `End` moves an amount
from the pending ones to the offset, everything the slave does leaves the position of a
message where it was or, when a Read fails, a snapshot is loaded or the slave dies,
lowers it (`Steady`). Bytes are counted with `Cardinality`, of writes and GETACKs apart,
since a fold over a sequence would need an induction.

`Waits` is for `WaitIsSound`. WAIT compares offsets, the property is about writes, so the
invariant relates the two: a write that a WAIT is about, on its way to a slave, has a
position less than a GETACK above the offset which that WAIT asks for (`MarksOf`); for a
dead slave, which has nothing on its way, it is the slave's own offset. A slave that
lacks the write has acknowledged less than its own offset by a GETACK (`AcksRise`), so
the WAIT does not count it (`CountedHas`). The bound must hold when the executor sends a
write before it is in the offset: by `Offsets` the slave is ahead of the master's offset
by the GETACKs of other WAITs only, and `FewWaits` says that these are less than a write
and a GETACK (`ShortPending`). A WAIT that has not come yet (`"idle"`) takes part with
the offset that it would ask for. `RInv == Delivery /\ AcksRise /\ Asking /\ Gone /\
Offsets /\ (FewWaits => Waits)`.

### 6.4 KeyStore

`KInv == TypeOK /\ TrackerAgrees /\ CommandsServed` is inductive as it stands, once the
order of the list is stated without counting along it: `InOrder` says of every key whether it is the
head, the tail, and which key each of its links names, in terms of the relation `used`,
which is a strict total order of the keys stored. `Unlink` and `Push` show that
`removeFromList` and `addToHead` keep that, for any list of any set of keys: a
neighbour of the key that goes becomes a neighbour of its other neighbour, and nobody
else notices. `Access`, `Remove` and the operations of the store follow, with the
cardinality of the set of keys for `size`.

`PolicyIsFollowed`: `OnlyEvictionRemoves` excludes every other action, and the tail is the
key least recently used by `InOrder`. For `volatile-lru`, `WayLeavesNoneOut` says that the
walk from the tail leaves no key out: what was used before a key on it lies behind, so that
the first volatile key on it is the one not used for longest of them (`FirstIsLeast`). It
is an induction along the walk, done by the least place where it would fail.

`StoreKeepsPromise` is the refinement of `KeySpace`. To look for a key, to use it and to
delete an expired one leave what is seen as it is (`SeenAfterLook`); time and eviction
only take keys away (`TickShown`, `EvictOneShown`); `IncrShown` and `OpenShown` have the two
cases of an expired object, that INCR takes for none and LPUSH finds. `CommandsServed` is
needed because a refused or a run command answers only while the server serves.

### 6.5 Consumer groups

`NothingSkipped` speaks of entries that are in the stream. It is not inductive: a new
entry must not be at or before the last ID of a group without being handled, and the
last ID need not be that of an entry (CREATE and SETID take any). `Covered` says it of
all IDs up to the last one: each is handled, or lies before an entry and is not an entry
itself. XADD takes only IDs after the last entry, so it cannot fill such a place
(`GoodAppend`); an ID beyond all entries that CREATE or SETID puts behind the group is in
`passed`. A read takes the entries from the one after the last ID, in order, and leaves
out none in between (`NewEntries`, from `ScanIsInclusive` and the order of positions and
IDs), and then the last ID is the largest of them: what lies between the old and the new
last ID is read, or lies before an entry that is (`GoodRead`).

`AckIsFinal` needs `Behind`: what is pending or acknowledged is not after the last ID, so
that the next read, which begins after it unless the number wraps, hands out neither.
For the same reason what it hands out is not pending, and `CountsAgree` stays exact. With
a second delivery the counter still grows by as many as the list of the consumer at most
does, which is the half that always holds. An entry that belongs to a consumer belongs
to one that exists (`Shape`), or a consumer that is made anew would start with entries
and a counter of 0.

`Good` states all of this of one group's values; `GoodAppend`, `GoodSetID`, `GoodDelete`,
`GoodRead`, `GoodAck` and `GoodClaim` show, without any state, what the methods of
`Stream` keep of it. `GInv == TypeOK /\ Shape /\ Covered /\ CountsAgree /\ AckIsFinal /\
Behind /\ OncePerReader` is proved from these, one lemma per command.

`ReadersMissNothing` is a property of steps: only XADD makes a stream longer, and it then
goes through the waiting reads (`NewEntryWakes`). A read whose ID is before the new entry
finds it, since the ID after its own is not beyond the entry even if the number wraps
(`AfterIsNotFar`), so that the loop does not stop at it (`NewEntryAnswers`). The answers
are kept by client: that a read gets its own answer, and is not among those that wait on,
needs `OncePerReader`, that a client waits in one read at a time. It survives the
timeouts and the wake-ups, which leave a part of the list in its order (`WaitOn`). The
proof does not use the bound on the number of waiting reads; the model has it because of
three the executor skips one (3.1).

### 6.6 Sorted sets

The spans need more than themselves. An insertion gives the new node and the node before
it, at each level, spans computed from the ranks that the search has written down; they
are distances only if the search has left every level at the last node before the value
(`LeftRight`), and the span of a level that is not touched grows by one only if that
level's link passes the value (`LinksInOrder`). The deletion must find the same node at
every level where it occurs, lower `maxLevel` by as many levels as become empty, and
these must be the highest ones, since the levels nest (`LevelsNest`). The head's spans
above the top are distances too, or the next insertion at a new level starts from a wrong
one.

`ListRight == ListType /\ LinksInOrder /\ SpansRight /\ CountersRight` is kept by `Link`
and `Unlink` at the end of a search that is right (`LinkKeepsList`, `UnlinkKeepsList`),
and `WalkRight` by each step of a search, for every kind of it (`MoveRightKeeps`,
`MoveDownKeeps`). The arguments about distances are about the position of a node in a
set of values (`PosIn`, the number of values not after it): one that is put in or
taken out moves those after it by one (`PosInsert`, `PosRemove`), and the next node
is one further than the nodes passed (`PosNext`). Three theorems of `SkipListProofs` say what
the searches find: `RankIsPosition`, `NodeOfRankIsFound`, `BoundIsLowest`.

`ZInv` adds the command: `MapAndListAgree` says that list and map hold the same pairs
but for the one that ZADD is putting in, and `SearchFitsCommand` that a search looks
for what the command named, so that the pair taken out is the one the map has.
`RankAnswerIsRank` then says, for any set, that ZRANK answers the number of pairs
before the one asked for. All of it is about the time before a score is NaN.

### 6.7 Persistence

`SavesAreEmpty`: no goroutine of BGSAVE ever collects an entry, and the file is the one
that lay there at first until a save opens it, and a sequence of sections and ends from
then on. It follows from the two sets of methods (`NothingIsCollected`) and holds for
any store, any dumps and any number of saves that overlap, where the run `dump_lost`
shows one.

### 6.8 What is only model-checked

Liveness (`RequestsAnswered`, `TimedOutAnswered`, `WaitsEnd`, `CommandsEnd`), which is
out of the prover's reach, and the refinement `SetPromise`, which needs sequences of
members in an order given by a recursion over ranges, also out of its reach. What a
dump is parsed to is a fold over its items: no induction over it can be done, so that
`SavesAreEmpty` ends at the file.

## 7. Plan

Done, in this order; what each leaves open:

1. `Executor`, `ListService`, `ExecutorProofs`.
2. `Session`, `Transactions`, `SessionProofs`.
3. `Replication`, `ReplicationProofs`. Left: an abstract specification of what a slave is
   of its master (a prefix of the writes after its join), to which the invariant already
   amounts.
4. `LRUTracker`, `KeySpace`, `KeyStore`, `KeyStoreProofs`. Left: two goroutines inside
   the tracker at once (a slave loads its snapshot beside its executor).
5. `Streams`, `ConsumerGroups`, `ConsumerGroupsProofs`. Left: waiting reads that the
   executor skips when its list shrinks under it, which `Executor` has for BLPOP alone.
6. `SkipList`, `ScoreMap`, `SortedSet` with their proofs. Left: what follows a NaN.
7. `Persistence`, `PersistenceProofs`. Left: the snapshot that a slave loads beside its
   executor, which is this parser on a file that the master finds on its disk.
8. `Framing`. Left: a theorem that requests which arrive whole are executed as sent.

## 8. Not modelled

- Argument parsing and arity, reply formatting, logging, INFO, CONFIG GET, the client:
  no state that another component depends on.
- AUTH and SETUSER for users other than `default`: `SETUSER` cannot create a user.
- The arithmetic of geo commands: floating point. What it decides is in `SortedSet` as
  any ranges and any scores within the radius. Reading it one finds that the nine cells
  of GEOSEARCH wrap around in the coordinate made of the latitude and are cut off in
  the one made of the longitude (`geo/geohash.go:195-208`; the comments beside it say it
  the other way round), and that the size of a cell is chosen by its width alone (line
  151), so that members due north or south may be missed. Both are read off the code, not
  checked. GEOSEARCH of a missing key answers null.
- Listpack: a byte layout inside a stream node, opaque to the rest.
- Transactions that contain a command that blocks end the process
  (`transaction.go:35`); a comment beside the panic assumes that there are none.
- LPOP with a count, LLEN, LRANGE: sequential, on one deque. LPOP with a negative count
  cuts a slice before its start (`deque.go:55`), and the process ends.
- A slave's own clients. The replica's copy of the data: `Executor` shows that the
  writes of a transaction are never propagated (`Answer` asks `Propagated`,
  `NextOperation` does not; `docs/architecture.md:383` has "Propagate writes to
  replicas"), and neither is a BLPOP, so that a replica differs after the first of them.
- The byte layout of a dump and the failure of AUX and other sections to parse; arrays
  within arrays in a request.
- Two orders that `Session` reaches and nothing in the repository rules out: a message
  before the confirmation of its SUBSCRIBE, and a password lost when two ACL SETUSERs
  overlap. Nor is there a word about a client that has gone while its BLPOP waits: its
  goroutine takes an element and fails to write it.
