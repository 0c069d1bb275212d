---------------------------- MODULE Persistence -----------------------------
(* BGSAVE and the load at the start: a goroutine collects the store key by   *)
(* key while the executor writes to it (internal/handler/bgsave.go,          *)
(* GenerateRDB of internal/rdb/parser.go), writes the dump over the old one, *)
(* and the next process loads what it finds (loadRDBFile of                  *)
(* cmd/server/main.go) before it serves anybody.  A dump is a sequence of    *)
(* its opcodes with their operands; no file and an empty one are <<>>.       *)
EXTENDS Integers, Sequences, SequencesExt

CONSTANTS
  Key, String,
  List,        \* an object that is no string
  None,        \* no time to live
  Dump,        \* the dumps that can lie there at the first start
  Saver,       \* the goroutines of BGSAVE
  MaxTime, MaxStarts    \* bounds: the clock, the starts of the process

VARIABLES
  up,          \* a process runs, and its store is loaded
  store,       \* store.syncMap: keys to objects
  now,
  file,        \* dir/dbfilename
  saver,       \* what each goroutine of BGSAVE does
  starts,
  cover,       \* history: the strings a save found and nobody has changed since
  saved        \* history: those of the last save, once it is completed

vars == <<up, store, now, file, saver, starts, cover, saved>>

Object == [value : String \cup {List}, ttl : {None} \cup (0..MaxTime)]
Nothing == [k \in {} |-> None]

Idle == [pc |-> "idle", seen |-> {}, at |-> 0, entries |-> <<>>]

-----------------------------------------------------------------------------
(* The dump.                                                               *)

Section == [op |-> "section"]     \* an opcode that is read and passed over
End     == [op |-> "end"]
Foreign == [op |-> "foreign"]     \* the type of a value that is no string
Expire(t)  == [op |-> "expire", at |-> t]
Pair(k, v) == [op |-> "pair", key |-> k, value |-> v]

\* One round of the loop of ParseRDB.  An expiry is for the pair after it.
Parsed(s, item) ==
  IF s.pc # "reading" THEN s
  ELSE CASE item.op = "section" -> s
         [] item.op = "expire"  -> [s EXCEPT !.ttl = item.at]
         [] item.op = "pair"    ->
              [s EXCEPT !.ttl = None,
                        !.entries = Append(@, [key |-> item.key, value |-> item.value, ttl |-> s.ttl])]
         [] item.op = "end"     -> [s EXCEPT !.pc = "done"]
         [] OTHER               -> [s EXCEPT !.pc = "failed"]

\* The end of the data before the opcode of the end is an error too.
ParseRDB(items) ==
  FoldLeft(Parsed, [pc |-> "reading", ttl |-> None, entries |-> <<>>], items)

StoreRDBEntry(s, e) ==
  [k \in DOMAIN s \cup {e.key} |->
     IF k = e.key THEN [value |-> e.value, ttl |-> e.ttl] ELSE s[k]]

\* All entries of a dump that is right, or none.
LoadRDBIntoStore(items, s) ==
  LET p == ParseRDB(items)
  IN IF p.pc = "done" THEN FoldLeft(StoreRDBEntry, s, p.entries) ELSE s

\* GenerateRDB asks each object for the methods of an interface of its own.
\* *ds.RedisObject has a Get that returns an RValue, and no GetTTL.
Wanted     == {<<"Get", "interface{}">>, <<"GetTTL", "*time.Time">>}
MethodsOf(o) == {<<"Get", "RValue">>, <<"SetExpiry", "">>}
IsRedisObject(o) == Wanted \subseteq MethodsOf(o)

\* What the function given to store.Range adds for a key.
Collected(k, o, t) ==
  IF IsRedisObject(o) /\ (o.ttl = None \/ o.ttl >= t) /\ o.value \in String
  THEN <<[key |-> k, value |-> o.value, ttl |-> o.ttl]>> ELSE <<>>

Written(e, t) ==
  (IF e.ttl # None /\ e.ttl > t THEN <<Expire(e.ttl)>> ELSE <<>>) \o <<Pair(e.key, e.value)>>

\* SELECTDB, the hint of the sizes when there are entries, the pairs, the end.
Generated(entries, t) ==
  <<Section>> \o (IF entries = <<>> THEN <<>> ELSE <<Section>>)
  \o FlattenSeq([i \in DOMAIN entries |-> Written(entries[i], t)]) \o <<End>>

\* What a write from the start of the file leaves of it.
Over(new, old) == new \o SubSeq(old, Len(new) + 1, Len(old))

-----------------------------------------------------------------------------

Init ==
  /\ up = FALSE /\ store = Nothing /\ now = 0 /\ file \in Dump
  /\ saver = [s \in Saver |-> Idle] /\ starts = 0
  /\ cover = [s \in Saver |-> Nothing] /\ saved = Nothing

\* main: loadRDBFile, then the executor and the server.
Start ==
  /\ ~up /\ starts < MaxStarts
  /\ up' = TRUE /\ starts' = starts + 1
  /\ store' = IF file = <<>> THEN Nothing ELSE LoadRDBIntoStore(file, Nothing)
  /\ UNCHANGED <<now, file, saver, cover, saved>>

\* The process ends at any point; what it wrote to the file stays.
Crash ==
  /\ up /\ up' = FALSE /\ store' = Nothing
  /\ saver' = [s \in Saver |-> Idle] /\ cover' = [s \in Saver |-> Nothing]
  /\ UNCHANGED <<now, file, starts, saved>>

Tick ==
  /\ now < MaxTime /\ now' = now + 1
  /\ UNCHANGED <<up, store, file, saver, starts, cover, saved>>

Less(f, k) == [x \in DOMAIN f \ {k} |-> f[x]]

\* A command of the executor changes one key.
Change(k) ==
  /\ up
  /\ cover' = [s \in Saver |-> Less(cover[s], k)] /\ saved' = Less(saved, k)
  /\ UNCHANGED <<up, now, file, saver, starts>>

Put(k, o)  == Change(k) /\ store' = [x \in DOMAIN store \cup {k} |-> IF x = k THEN o ELSE store[x]]
Delete(k)  == k \in DOMAIN store /\ Change(k) /\ store' = Less(store, k)

\* BGSAVE answers at once and leaves the work to a goroutine.
BGSave(s) ==
  /\ up /\ saver[s].pc = "idle"
  /\ saver' = [saver EXCEPT ![s] = [Idle EXCEPT !.pc = "collect", !.at = now]]
  /\ cover' = [cover EXCEPT ![s] = [k \in {x \in DOMAIN store :
                 store[x].value \in String /\ store[x].ttl = None} |-> store[k]]]
  /\ UNCHANGED <<up, store, now, file, starts, saved>>

\* The range visits every key once, in any order; a key that comes after its
\* turn is not found.
Collect(s, k) ==
  /\ saver[s].pc = "collect" /\ k \notin saver[s].seen
  /\ saver' = [saver EXCEPT
       ![s].seen = @ \cup {k},
       ![s].entries = IF k \in DOMAIN store THEN @ \o Collected(k, store[k], saver[s].at) ELSE @]
  /\ UNCHANGED <<up, store, now, file, starts, cover, saved>>

\* os.WriteFile opens the old dump and cuts it to nothing, and then writes.
Truncate(s) ==
  /\ saver[s].pc = "collect" /\ saver[s].seen = Key
  /\ saver' = [saver EXCEPT ![s].pc = "write"] /\ file' = <<>> /\ saved' = Nothing
  /\ UNCHANGED <<up, store, now, starts, cover>>

WriteAll(s) ==
  /\ saver[s].pc = "write"
  /\ file' = Over(Generated(saver[s].entries, saver[s].at), file)
  /\ saver' = [saver EXCEPT ![s] = Idle]
  /\ saved' = cover[s] /\ cover' = [cover EXCEPT ![s] = Nothing]
  /\ UNCHANGED <<up, store, now, starts>>

\* The disk is full, or the process ends in the write: a part is written, and
\* the error only logged.
WriteShort(s) ==
  /\ saver[s].pc = "write"
  /\ LET data == Generated(saver[s].entries, saver[s].at)
     IN \E n \in 0..(Len(data) - 1) : file' = Over(SubSeq(data, 1, n), file)
  /\ saver' = [saver EXCEPT ![s] = Idle] /\ cover' = [cover EXCEPT ![s] = Nothing]
  /\ saved' = Nothing
  /\ UNCHANGED <<up, store, now, starts>>

Next ==
  \/ Start \/ Crash \/ Tick
  \/ \E k \in Key : Delete(k) \/ \E o \in Object : Put(k, o)
  \/ \E s \in Saver : BGSave(s) \/ Truncate(s) \/ WriteAll(s) \/ WriteShort(s)
  \/ \E s \in Saver, k \in Key : Collect(s, k)

Spec == Init /\ [][Next]_vars

-----------------------------------------------------------------------------
(* Properties.                                                             *)

\* README.md:117: BGSAVE is to "Asynchronously save the dataset to disk": a
\* string that a completed save covered, and nobody has changed since, is there
\* after a restart, as long as no other save has opened the file since.
SavedIsRestored ==
  up => \A k \in DOMAIN saved : k \in DOMAIN store /\ store[k] = saved[k]
=============================================================================
