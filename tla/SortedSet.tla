------------------------------ MODULE SortedSet ------------------------------
(* A sorted set (internal/datastructure/sortedset.go): the map of scores and *)
(* the skip list that orders them, and the commands on it, ZADD, ZREM, ZRANK,*)
(* ZRANGE, ZSCORE, ZCARD, and GEOSEARCH on the scores that GEOADD gives      *)
(* (through SortedSet.Add, as ZADD).  The executor runs a command to its end *)
(* before the next one.                                                      *)
EXTENDS SkipList, Sequences

CONSTANTS
  MaxPairs,    \* bound: the pairs or members one command names
  Ranks,       \* the indexes that ZRANGE is asked for
  Searches     \* what GEOSEARCH is asked for: its ranges of scores, in their
               \* order, and the scores that are within the radius

\* The empty string as a member: the smallest one.
EmptyKey == 0

ASSUME SortedSetAssumption ==
  /\ MaxPairs \in Nat /\ Ranks \subseteq Int /\ EmptyKey \in Member
  /\ Searches \subseteq [ranges : Seq([low : Int, high : Int]), near : SUBSET Int]

VARIABLES
  score,       \* the map from a member to its score
  pc,          \* what the executor does
  todo,        \* what is left of the command's arguments
  count, out,  \* what it has counted and collected
  want,        \* how many elements ZRANGE collects
  reply,       \* the answer of the last command
  req, old,    \* history: the command, the scores before it
  nan          \* history: a score that is not a number was once given

setVars == <<score, pc, todo, count, out, want, reply, req, old, nan>>
vars == <<listVars, walkVars, setVars>>

Pair == Value
Pairs == UNION {[1..n -> Pair] : n \in 1..MaxPairs}
Names == UNION {[1..n -> Member] : n \in 1..MaxPairs}

Request ==
  [kind : {"add"}, pairs : Pairs] \cup [kind : {"remove"}, names : Names]
  \cup [kind : {"rank", "score"}, name : Member] \cup [kind : {"card"}]
  \cup [kind : {"range"}, start : Ranks, end : Ranks]
  \cup [kind : {"search"}, find : Searches]

NoRequest == [kind |-> "none"]

Held(m) == [key |-> m, value |-> score[m]]
Holdings == {Held(m) : m \in DOMAIN score}
With(m, s) == [x \in DOMAIN score \cup {m} |-> IF x = m THEN s ELSE score[x]]
Without(m) == [x \in DOMAIN score \ {m} |-> score[x]]

\* How a reply is represented: the numbers or members in it.
NilReply == <<>>
Number(n) == <<n>>

-----------------------------------------------------------------------------

Init ==
  /\ ListInit /\ WalkInit
  /\ score = <<>> /\ pc = "idle" /\ todo = <<>> /\ count = 0 /\ out = <<>> /\ want = 0
  /\ reply = NilReply /\ req = NoRequest /\ old = <<>> /\ nan = FALSE

\* The executor takes a command.  The one that gives a score that is not a
\* number is the last: a bound.
Issue(r) ==
  /\ pc = "idle" /\ ~nan
  /\ pc' = "run" /\ req' = r /\ old' = score
  /\ todo' = CASE r.kind = "add" -> r.pairs [] r.kind = "remove" -> r.names
               [] r.kind = "search" -> r.find.ranges [] OTHER -> <<>>
  /\ nan' = (nan \/ (r.kind = "add" /\ \E i \in DOMAIN r.pairs : r.pairs[i].value = NaN))
  /\ reply' = NilReply
  /\ UNCHANGED <<listVars, walkVars, score, count, out, want>>

\* The command ends with its answer.
Answer(a) ==
  /\ reply' = a /\ pc' = "idle"
  /\ todo' = <<>> /\ count' = 0 /\ out' = <<>> /\ want' = 0
  /\ req' = NoRequest /\ old' = <<>> /\ UNCHANGED nan

AnswerAtOnce(a) == Answer(a) /\ UNCHANGED <<listVars, walkVars, score>>

\* The search a command needs before anything else.
Seek(kind, val, nth) ==
  /\ UNCHANGED listVars
  /\ Search(kind, val, nth) /\ pc' = "search"
  /\ UNCHANGED <<score, todo, out, reply, req, old, nan>>

Running(kind) == pc = "run" /\ req.kind = kind

-----------------------------------------------------------------------------
(* ZADD and ZREM.                                                           *)

\* Mutant: the pair that the member had stays in the list.
AddPairAgain ==
  /\ Running("add") /\ todo # <<>>
  /\ Seek("insert", Head(todo), 0)
  /\ count' = IF Head(todo).key \in DOMAIN score THEN count ELSE count + 1
  /\ UNCHANGED want

\* SortedSet.Add, the next pair: a member that is there already is taken out
\* of the list with its old score first.
AddPair ==
  /\ Running("add") /\ todo # <<>>
  /\ IF Head(todo).key \in DOMAIN score
     THEN Seek("delete", Held(Head(todo).key), 0) /\ UNCHANGED count
     ELSE Seek("insert", Head(todo), 0) /\ count' = count + 1
  /\ UNCHANGED want

\* SortedSet.Remove, the next member.
RemoveName ==
  /\ Running("remove") /\ todo # <<>>
  /\ IF Head(todo) \in DOMAIN score
     THEN Seek("delete", Held(Head(todo)), 0)
     ELSE /\ todo' = Tail(todo)
          /\ UNCHANGED <<listVars, walkVars, score, pc, out, reply, req, old, nan>>
  /\ UNCHANGED <<count, want>>

\* Both answer how many members they added or removed.
AnswerCount ==
  /\ pc = "run" /\ req.kind \in {"add", "remove"} /\ todo = <<>>
  /\ AnswerAtOnce(Number(count))

\* SkipList.Add comes to its end, or finds a value that compares equal and
\* does nothing; the map of scores is set in both cases.
Insert ==
  /\ pc = "search" /\ call.kind = "insert"
  /\ \/ Found /\ UNCHANGED listVars
     \/ Missed /\ \E lvl \in Level : Link(lvl)
  /\ Return
  /\ score' = With(call.val.key, call.val.value)
  /\ todo' = Tail(todo) /\ pc' = "run"
  /\ UNCHANGED <<count, out, want, reply, req, old, nan>>

\* SkipList.Delete comes to its end; in ZADD the insertion follows.
Delete ==
  /\ pc = "search" /\ call.kind = "delete" /\ Missed
  /\ Unlink
  /\ IF req.kind = "add"
     THEN /\ Search("insert", Head(todo), 0)
          /\ UNCHANGED <<score, todo, count, pc>>
     ELSE /\ Return
          /\ score' = Without(call.val.key)
          /\ todo' = Tail(todo) /\ count' = count + 1 /\ pc' = "run"
  /\ UNCHANGED <<out, want, reply, req, old, nan>>

-----------------------------------------------------------------------------
(* The commands that only read.                                             *)

Card == Running("card") /\ AnswerAtOnce(Number(length))

ScoreOf ==
  /\ Running("score")
  /\ AnswerAtOnce(IF req.name \in DOMAIN score THEN Number(score[req.name]) ELSE NilReply)

\* GetRank: a member without a score is answered at once.
RankOf ==
  /\ Running("rank")
  /\ IF req.name \in DOMAIN score
     THEN Seek("rank", Held(req.name), 0) /\ UNCHANGED <<count, want>>
     ELSE AnswerAtOnce(NilReply)

RankFound ==
  /\ pc = "search" /\ call.kind = "rank"
  /\ \/ Found /\ Answer(IF skipped >= 1 THEN Number(skipped - 1) ELSE NilReply)
     \/ Missed /\ Answer(NilReply)
  /\ Return /\ UNCHANGED <<listVars, score>>

\* GetRange: indexes from the end are counted back, at most to the first
\* element, and the end is cut off at the last one.
FromEnd(i) == IF i >= 0 THEN i ELSE IF i + length > 0 THEN i + length ELSE 0
First == FromEnd(req.start)
Last  == FromEnd(IF req.end >= length THEN length - 1 ELSE req.end)

RangeOf ==
  /\ Running("range")
  /\ IF req.start >= length \/ First > Last \/ First + 1 > length
     THEN AnswerAtOnce(<<>>)
     ELSE /\ Seek("nth", Nil, First + 1)
          /\ want' = Last - First + 1
          /\ UNCHANGED count

RangeFound ==
  /\ pc = "search" /\ call.kind = "nth"
  /\ UNCHANGED <<listVars, score>>
  /\ \/ /\ Found /\ pc' = "collect"
        /\ UNCHANGED <<walkVars, todo, count, out, want, reply, req, old, nan>>
     \/ Missed /\ Answer(<<>>) /\ Return

\* GetRangeByValue, for the next range of a search.
Between ==
  /\ Running("search") /\ todo # <<>>
  /\ IF Head(todo).low > Head(todo).high
     THEN /\ todo' = Tail(todo)
          /\ UNCHANGED <<listVars, walkVars, score, pc, out, reply, req, old, nan>>
     ELSE Seek("bound", [key |-> EmptyKey, value |-> Head(todo).low], 0)
  /\ UNCHANGED <<count, want>>

BetweenFound ==
  /\ pc = "search" /\ call.kind = "bound" /\ Missed
  /\ pc' = "collect" /\ curr' = forward[0][curr]
  /\ UNCHANGED <<listVars, score, call, lv, skipped, hier, rank, todo, count, out, want,
                 reply, req, old, nan>>

\* Both walk along level 0 from there.
Wanted ==
  /\ curr # Nil
  /\ IF req.kind = "range" THEN count < want ELSE curr.value # NaN /\ curr.value <= Head(todo).high

\* Mutant: a member that two ranges hold is answered twice.
TakesTwice == req.kind = "range" \/ curr.value \in req.find.near

\* A search takes a member once, and only from within the radius.
Takes ==
  req.kind = "range" \/ (curr.value \in req.find.near /\ \A i \in DOMAIN out : out[i] # curr.key)

Collect ==
  /\ pc = "collect" /\ Wanted
  /\ out' = IF Takes THEN Append(out, curr.key) ELSE out
  /\ count' = count + 1
  /\ curr' = forward[0][curr]
  /\ UNCHANGED <<listVars, score, call, lv, skipped, hier, rank, pc, todo, want, reply,
                 req, old, nan>>

\* ZRANGE's result has the length it was made with; a search goes on with its
\* next range.
Collected ==
  /\ pc = "collect" /\ ~Wanted
  /\ IF req.kind = "range"
     THEN Answer(out \o [i \in 1..(want - count) |-> EmptyKey])
     ELSE /\ todo' = Tail(todo) /\ pc' = "run" /\ count' = 0
          /\ UNCHANGED <<out, want, reply, req, old, nan>>
  /\ Return /\ UNCHANGED <<listVars, score>>

AnswerSearch == Running("search") /\ todo = <<>> /\ AnswerAtOnce(out)

-----------------------------------------------------------------------------

Step ==
  /\ pc = "search" /\ (MoveRight \/ MoveDown)
  /\ UNCHANGED setVars

Next ==
  \/ \E r \in Request : Issue(r)
  \/ AddPair \/ RemoveName \/ AnswerCount \/ Insert \/ Delete
  \/ Card \/ ScoreOf \/ RankOf \/ RankFound \/ RangeOf \/ RangeFound
  \/ Between \/ BetweenFound \/ Collect \/ Collected \/ AnswerSearch
  \/ Step

Spec == Init /\ [][Next]_vars

-----------------------------------------------------------------------------
(* Properties.  They are about the time before a score is not a number: NaN *)
(* compares equal to itself under another name.                             *)

\* The variables keep to their types.
TypeOK ==
  /\ pc \in {"idle", "run", "search", "collect"} /\ nan \in BOOLEAN
  /\ ~nan => /\ ListType
             /\ DOMAIN score \subseteq Member /\ \A m \in DOMAIN score : score[m] \in Score
             /\ req \in Request \cup {NoRequest}
             /\ req.kind = "add" => todo \in Seq([key : Member, value : Score])
             /\ req.kind = "remove" => todo \in Seq(Member)
             /\ req.kind = "search" => todo \in Seq([low : Int, high : Int])
             /\ count \in Nat /\ want \in Int

\* Every span is the distance its link stands for, whatever was inserted and
\* deleted: ZRANK adds them up, ZRANGE goes by them.
SpansAreDistances == ~nan => SpansRight

\* Outside of a ZADD's insertion the list holds the pairs of the map of scores;
\* within it, all but the one that is put in.
MapAndListAgree ==
  ~nan => Nodes = IF pc = "search" /\ call.kind = "insert"
                  THEN {v \in Holdings : v.key # call.val.key} ELSE Holdings

\* A command searches for what it has to.
SearchFitsCommand ==
  /\ ~nan /\ pc = "search" =>
       CASE call.kind = "insert" -> req.kind = "add" /\ todo # <<>> /\ call.val = Head(todo)
         [] call.kind = "delete" -> /\ req.kind \in {"add", "remove"} /\ todo # <<>>
                                    /\ call.val.key \in DOMAIN score
                                    /\ call.val = Held(call.val.key)
                                    /\ req.kind = "add" => call.val.key = Head(todo).key
         [] call.kind = "rank" -> /\ req.kind = "rank" /\ call.val \in Nodes
                                  /\ call.val = Held(req.name)
         [] call.kind = "nth" -> req.kind = "range"
         [] call.kind = "bound" -> req.kind = "search" /\ todo # <<>>
         [] OTHER -> FALSE
  /\ ~nan /\ pc = "collect" => req.kind = "range" \/ (req.kind = "search" /\ todo # <<>>)

\* The invariant that the others follow from: the list and the search in it are
\* right.
ZInv ==
  /\ TypeOK /\ MapAndListAgree /\ SearchFitsCommand
  /\ ~nan => ListRight /\ (pc = "search" => WalkRight)

\* What the commands promise to a client.
Promise == INSTANCE ScoreMap WITH
  score <- (IF pc = "idle" THEN score ELSE old),
  busy <- (pc # "idle")
SetPromise == Promise!Spec
=============================================================================
