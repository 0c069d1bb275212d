------------------------------ MODULE KeyStore ------------------------------
(***************************************************************************)
(* The key space of simis: the map of keys with their values and times to  *)
(* live, eviction under each maxmemory-policy, and the tracker of recent   *)
(* use (internal/store/kvstore.go, internal/datastructure/lru.go), driven  *)
(* by the commands that the executor goroutine runs one at a time.  What a *)
(* list, a stream or a sorted set holds is left out: only its kind counts. *)
(***************************************************************************)
EXTENDS LRUTracker, FiniteSets

CONSTANTS
  Word,            \* strings that do not read as integers
  MinInt, MaxInt,  \* the range of Go's int
  MaxTime,         \* the clock stops here (bound)
  StartPolicies,   \* what --maxmemory-policy may say; any word is taken
  SetPolicies,     \* the policies that CONFIG SET sets
  Dump,            \* the entries that a dump may hold
  Sent             \* the commands that clients send and that may allocate

Structures == {"list", "stream", "sortedset"}
Kinds == {"string"} \cup Structures
Policies == {"noeviction", "allkeys-lru", "volatile-lru", "allkeys-random",
             "volatile-random", "volatile-ttl"}
Memory == {"unlimited", "within", "over"}
Strings == Word \cup MinInt .. MaxInt

Entries  == [key : Key, is : Strings, ttl : Nat \cup {None}]
Commands == [op : {"set"}, key : Key, is : Strings, ttl : Nat \cup {None}]
       \cup [op : {"incr"}, key : Key] \cup [op : {"open"}, key : Key, kind : Structures]
Object   == [kind : {"string"}, is : Strings, ttl : Nat \cup {None}]
       \cup [kind : Structures, is : {None}, ttl : {None}]

\* What is seen of an object: a string, or an empty structure.
Value(o) == [kind |-> o.kind, is |-> o.is]
Text(s)  == [kind |-> "string", is |-> s]
New(s)   == [kind |-> s, is |-> None]
Texts    == {Text(s) : s \in Strings}
News     == {New(s) : s \in Structures}

ASSUME ConstantsAssumption ==
  /\ IsFiniteSet(Key)
  /\ MinInt \in Int /\ MaxInt \in Int /\ 1 \in MinInt .. MaxInt
  /\ Word \cap Int = {} /\ None \notin Word \cup Int \cup Object \cup Commands \cup Texts \cup News
  /\ MaxTime \in Nat
  /\ SetPolicies \subseteq Policies
  /\ Dump \subseteq Entries /\ Sent \subseteq Commands

VARIABLES
  serving,     \* the dump is loaded and the executor runs
  syncMap,     \* syncMap[k]: the object stored at k, or None
  lruTracker,  \* the tracker of recent use
  used,        \* history: <<a, b>> when a was used before b, of the keys that are there
  now,         \* time.Now()
  memory,      \* "unlimited" when maxmemory is 0; else whether the heap in use is "over" it
  policy,      \* maxmemory-policy
  command,     \* the write command in evictIfNeeded (its time to live a point in time), or None
  answer       \* the last answer

storeVars == <<syncMap, lruTracker, used>>
envVars   == <<now, memory, policy>>
vars == <<serving, storeVars, envVars, command, answer>>

Stored == {k \in Key : syncMap[k] # None}
Volatile == {k \in Stored : syncMap[k].ttl # None}
Expired(o) == o.ttl # None /\ o.ttl < now
Live(k) == k \in Stored /\ ~Expired(syncMap[k])

-----------------------------------------------------------------------------
(* Operations on the map and the tracker together.                         *)

Put(k, o) ==   \* syncMap.Store and Access
  /\ syncMap' = [syncMap EXCEPT ![k] = o]
  /\ lruTracker' = Access(lruTracker, k)
  /\ used' = Use(used, Stored, k)

Touch(k) == Put(k, syncMap[k])

Delete(k) ==
  /\ lruTracker' = Remove(lruTracker, k)
  /\ syncMap' = [syncMap EXCEPT ![k] = None]
  /\ used' = Forget(used, k)

\* GetValue: a key whose time is over is deleted by whoever looks for it.
GetValue(k) ==
  IF syncMap[k] = None THEN UNCHANGED storeVars
  ELSE IF Expired(syncMap[k]) THEN Delete(k)
  ELSE Touch(k)

Result(k, kind) == IF Live(k) /\ syncMap[k].kind = kind THEN Value(syncMap[k]) ELSE None

-----------------------------------------------------------------------------
(* Commands that do not allocate run at once.                              *)

Idle == serving /\ command = None

\* GET, LLEN, XLEN, ZSCORE, ...: the value when it is of their kind.
Read(k, kind) ==
  /\ Idle
  /\ GetValue(k)
  /\ answer' = [value |-> Result(k, kind)]
  /\ UNCHANGED <<serving, envVars, command>>

Keys ==
  /\ Idle
  /\ answer' = [keys |-> {k \in Key : Live(k)}]
  /\ UNCHANGED <<serving, storeVars, envVars, command>>

ConfigSet ==
  /\ Idle
  /\ \/ policy' \in SetPolicies /\ UNCHANGED memory
     \/ memory' \in Memory /\ UNCHANGED policy
  /\ answer' = None
  /\ UNCHANGED <<serving, storeVars, now, command>>

-----------------------------------------------------------------------------
(* Commands that allocate call evictIfNeeded first.                        *)

\* SetExpiry makes a time to live a point in time, before the memory is looked at.
Due(c) == IF c.op = "set" /\ c.ttl # None THEN [c EXCEPT !.ttl = now + @] ELSE c

Take(c) ==
  /\ Idle
  /\ command' = Due(c) /\ answer' = None
  /\ UNCHANGED <<serving, storeVars, envVars>>

\* The condition of evictIfNeeded's loop, and its break.
MustEvict == memory = "over" /\ lruTracker.size # 0

Soonest(k) ==
  k \in Volatile /\ \A j \in Volatile : syncMap[k].ttl <= syncMap[j].ttl

\* The keys evictOne may choose from.
Victims ==
  CASE policy = "allkeys-lru"     -> {lruTracker.tail} \ {None}
    [] policy = "allkeys-random"  -> lruTracker.nodes
    [] policy = "volatile-lru"    -> FirstFromLRU(lruTracker, Volatile)
    [] policy = "volatile-random" -> Volatile
    [] policy = "volatile-ttl"    -> {k \in Key : Soonest(k)}
    [] OTHER -> {}

\* One turn of the loop.  With no victim it changes nothing, and goes on.
EvictOne ==
  /\ command # None
  /\ MustEvict
  /\ policy # "noeviction"
  /\ IF Victims = {} THEN UNCHANGED storeVars ELSE \E k \in Victims : Delete(k)
  /\ UNCHANGED <<serving, envVars, command, answer>>

Reply(a) == answer' = a /\ command' = None /\ UNCHANGED <<serving, envVars>>

RejectOOM ==
  /\ command # None
  /\ MustEvict
  /\ policy = "noeviction"
  /\ Reply([error |-> "oom"])
  /\ UNCHANGED storeVars

Set(k, s, due) ==
  /\ Put(k, [kind |-> "string", is |-> s, ttl |-> due])
  /\ Reply([done |-> k])

\* Go's int + 1.
Plus1(n) == IF n = MaxInt THEN MinInt ELSE n + 1

\* Mutant: INCR counts on from a value whose time is over.
IncrStale(k) ==
  LET o == syncMap[k] IN
  IF o = None
  THEN Put(k, [kind |-> "string", is |-> 1, ttl |-> None]) /\ Reply([value |-> Text(1)])
  ELSE IF o.kind = "string" /\ o.is \notin Word
  THEN Put(k, [o EXCEPT !.is = Plus1(@)]) /\ Reply([value |-> Text(Plus1(o.is))])
  ELSE UNCHANGED storeVars /\ Reply([error |-> "type"])

\* IncrementString: an object that is not there or expired counts as 0 without a time to live.
Incr(k) ==
  LET o == syncMap[k] IN
  IF ~Live(k)
  THEN Put(k, [kind |-> "string", is |-> 1, ttl |-> None]) /\ Reply([value |-> Text(1)])
  ELSE IF o.kind = "string" /\ o.is \notin Word
  THEN Put(k, [o EXCEPT !.is = Plus1(@)]) /\ Reply([value |-> Text(Plus1(o.is))])
  ELSE UNCHANGED storeVars /\ Reply([error |-> "type"])

\* LoadOrStoreList, ...Stream, ...SortedSet: they do not look at the time to live.
\* LPUSH and RPUSH then append, ZADD adds; XADD may refuse its entry, and the stream stays.
Open(k, kind) ==
  LET o == syncMap[k]
      Found == \/ Reply([value |-> New(kind)])
               \/ kind = "stream" /\ Reply([error |-> "entry"])
  IN
  IF o = None
  THEN Put(k, [kind |-> kind, is |-> None, ttl |-> None]) /\ Found
  ELSE /\ Touch(k)
       /\ IF o.kind = kind THEN Found ELSE kind # "sortedset" /\ Reply([error |-> "type"])

Run ==
  /\ command # None
  /\ ~MustEvict
  /\ \/ command.op = "set"  /\ Set(command.key, command.is, command.ttl)
     \/ command.op = "incr" /\ Incr(command.key)
     \/ command.op = "open" /\ Open(command.key, command.kind)

-----------------------------------------------------------------------------
(* The process.                                                            *)

\* ZADD, GEOADD and XGROUP CREATE MKSTREAM use the nil that LoadOrStore returns for a key
\* of another kind: the process ends, and another one starts.
Panic ==
  /\ command # None
  /\ ~MustEvict
  /\ command.op = "open" /\ command.kind \in {"sortedset", "stream"}
  /\ syncMap[command.key] # None /\ syncMap[command.key].kind # command.kind
  /\ serving' = FALSE
  /\ syncMap' = [k \in Key |-> None]
  /\ lruTracker' = NewLRUTracker
  /\ used' = {}
  /\ policy' \in StartPolicies /\ memory' \in Memory
  /\ command' = None /\ answer' = None
  /\ UNCHANGED now

\* StoreRDBEntry for the entries of the dump, whatever their time to live, and no eviction.
LoadEntry(e) ==
  /\ ~serving
  /\ Put(e.key, [kind |-> "string", is |-> e.is, ttl |-> e.ttl])
  /\ UNCHANGED <<serving, envVars, command, answer>>

Start ==
  /\ ~serving
  /\ serving' = TRUE
  /\ UNCHANGED <<storeVars, envVars, command, answer>>

Tick ==
  /\ now < MaxTime
  /\ now' = now + 1
  /\ UNCHANGED <<serving, storeVars, memory, policy, command, answer>>

\* The heap grows and is collected whenever the runtime wants.
HeapChanges ==
  /\ memory # "unlimited"
  /\ memory' \in {"within", "over"} \ {memory}
  /\ UNCHANGED <<serving, storeVars, now, policy, command, answer>>

Init ==
  /\ serving = FALSE
  /\ syncMap = [k \in Key |-> None]
  /\ lruTracker = NewLRUTracker
  /\ used = {}
  /\ now = 0
  /\ memory \in Memory /\ policy \in StartPolicies
  /\ command = None /\ answer = None

Execute == EvictOne \/ RejectOOM \/ Run \/ Panic

Next ==
  \/ Keys \/ ConfigSet \/ Execute \/ Start \/ Tick \/ HeapChanges
  \/ \E c \in Sent : Take(c)
  \/ \E k \in Key, kind \in Kinds : Read(k, kind)
  \/ \E e \in Dump : LoadEntry(e)

Spec == Init /\ [][Next]_vars

\* The executor goroutine runs what it has taken.
FairSpec == Spec /\ WF_vars(Execute)

-----------------------------------------------------------------------------
(* Properties.                                                             *)

TypeOK ==
  /\ serving \in BOOLEAN
  /\ syncMap \in [Key -> Object \cup {None}]
  /\ lruTracker \in Tracker
  /\ used \in SUBSET (Key \X Key)
  /\ now \in 0 .. MaxTime /\ memory \in Memory
  /\ policy \in StartPolicies \cup SetPolicies
  /\ command \in Commands \cup {None}

\* The tracker holds exactly the keys of the map, each once, from the last used to the least
\* used, whatever was stored, read, expired and evicted: eviction finds every key it may take
\* and none that is gone, and the loop that asks Len() ends when nothing is left.
TrackerAgrees ==
  /\ lruTracker.nodes = Stored
  /\ lruTracker.size = Cardinality(Stored)
  /\ InOrder(lruTracker, used, Stored)

\* A command waits for memory only while the server serves.
CommandsServed == command # None => serving

KInv == TypeOK /\ TrackerAgrees /\ CommandsServed

\* Before the command: a key leaves the store for want of memory only with a limit that is
\* exceeded, and it is the key that the policy names.
EvictionFollowsPolicy ==
  [][\A k \in Stored : k \notin Stored' /\ command # None /\ serving' =>
       /\ memory = "over"
       /\ \/ policy = "allkeys-lru"  /\ Least(used, Stored, k)
          \/ policy = "allkeys-random"
          \/ policy = "volatile-lru" /\ Least({e \in used : {e[1], e[2]} \subseteq Volatile}, Volatile, k)
          \/ policy = "volatile-random" /\ k \in Volatile
          \/ policy = "volatile-ttl" /\ Soonest(k)]_vars

\* A map with times to live, lazily enforced, and with eviction, keeps the key space's promise:
\* what has expired is never answered, though it may still be stored.
Succ(v) ==
  IF v = None THEN Text(1)
  ELSE IF v.kind = "string" /\ v.is \notin Word THEN Text(Plus1(v.is)) ELSE None

Seen == [k \in Key |-> IF Live(k) THEN Value(syncMap[k]) ELSE None]

KS == INSTANCE KeySpace WITH
        value <- Seen, String <- Texts, Other <- News, Error <- {"oom", "type"}

KeysPromise == KS!Spec

\* A command that was taken is answered, except that the loop turns for ever where the policy
\* has nothing to take and the heap stays as it is.
NothingToEvict == MustEvict /\ Victims = {} /\ policy \notin {"noeviction", "allkeys-lru", "allkeys-random"}
CommandsEnd == command # None ~> (command = None \/ NothingToEvict)
=============================================================================
