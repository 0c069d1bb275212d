--------------------------- MODULE SortedSetProofs ---------------------------
(***************************************************************************)
(* Proofs about SortedSet, on the facts of SkipListProofs: through any     *)
(* sequence of commands the map of scores and the skip list hold the same  *)
(* pairs, and the spans stay the distances they stand for, for any members,*)
(* scores, number of levels and levels drawn.                              *)
(***************************************************************************)
EXTENDS SortedSet, SkipListProofs

-----------------------------------------------------------------------------
(* The invariant, for the time before a score is not a number.             *)

Types ==
  /\ DOMAIN score \subseteq Member /\ \A m \in DOMAIN score : score[m] \in Score
  /\ req \in Request \cup {NoRequest}
  /\ req.kind = "add" => todo \in Seq([key : Member, value : Score])
  /\ req.kind = "remove" => todo \in Seq(Member)
  /\ req.kind = "search" => todo \in Seq([low : Int, high : Int])
  /\ count \in Nat /\ want \in Int

Agree ==
  Nodes = IF pc = "search" /\ call.kind = "insert"
          THEN {v \in Holdings : v.key # call.val.key} ELSE Holdings

Fits ==
  /\ pc = "search" =>
       /\ call.kind \in Kinds
       /\ call.kind = "insert" => req.kind = "add" /\ todo # <<>> /\ call.val = Head(todo)
       /\ call.kind = "delete" => /\ req.kind \in {"add", "remove"} /\ todo # <<>>
                                  /\ call.val.key \in DOMAIN score
                                  /\ call.val = Held(call.val.key)
                                  /\ req.kind = "add" => call.val.key = Head(todo).key
       /\ call.kind = "rank" => /\ req.kind = "rank" /\ call.val \in Nodes
                                /\ call.val = Held(req.name)
       /\ call.kind = "nth" => req.kind = "range"
       /\ call.kind = "bound" => req.kind = "search" /\ todo # <<>>
  /\ pc = "collect" => req.kind = "range" \/ (req.kind = "search" /\ todo # <<>>)

Core == ListRight /\ Types /\ Agree /\ Fits /\ (pc = "search" => WalkRight)

Modes == pc \in {"idle", "run", "search", "collect"} /\ nan \in BOOLEAN

LEMMA FitsIs == ~nan => (SearchFitsCommand <=> Fits)
BY DEF SearchFitsCommand, Fits, Kinds

LEMMA ZInvIs == ZInv <=> Modes /\ (~nan => Core)
BY FitsIs DEF ZInv, TypeOK, Types, MapAndListAgree, Agree, Core, Modes, ListRight, SearchFitsCommand
-----------------------------------------------------------------------------
(* Facts about the map of scores.                                          *)

LEMMA Scores ==
  /\ Score \subseteq Int /\ EmptyKey \in Member /\ Ranks \subseteq Int
  /\ NaN \notin Score
<1>1. Score \subseteq Int /\ NaN \notin Int
  BY SkipListAssumption
<1> QED
  BY <1>1, SortedSetAssumption

LEMMA ScoredIsPlain ==
  ASSUME NEW x \in [key : Member, value : Score]
  PROVE  x \in Plain /\ x \in Value
<1>1. Score \subseteq Int
  BY Scores
<1> QED
  BY <1>1 DEF Plain, Value

LEMMA HeldIs ==
  ASSUME Types, NEW k \in DOMAIN score
  PROVE  /\ Held(k) \in [key : Member, value : Score]
         /\ Held(k) \in Plain /\ Held(k) \in Value /\ Held(k) \in Holdings /\ Held(k).key = k
<1>1. Held(k) \in [key : Member, value : Score]
  BY DEF Types, Held
<1> QED
  BY <1>1, ScoredIsPlain DEF Held, Holdings

\* A pair is put in place of what its member had.
LEMMA HoldingsWith ==
  ASSUME NEW x \in [key : Member, value : Score], score' = With(x.key, x.value)
  PROVE  Holdings' = {v \in Holdings : v.key # x.key} \cup {x}
<1>1. DOMAIN score' = DOMAIN score \cup {x.key}
  BY DEF With
<1>2. \A m \in DOMAIN score' : score'[m] = IF m = x.key THEN x.value ELSE score[m]
  BY DEF With
<1>3. x = [key |-> x.key, value |-> x.value]
  OBVIOUS
<1>4. ASSUME NEW v \in Holdings' PROVE v \in {w \in Holdings : w.key # x.key} \cup {x}
  <2>1. PICK m \in DOMAIN score' : v = [key |-> m, value |-> score'[m]]
    BY DEF Holdings, Held
  <2>2. CASE m = x.key
    BY <2>1, <2>2, <1>2, <1>3
  <2>3. CASE m # x.key
    <3>1. m \in DOMAIN score /\ v = Held(m) /\ v.key # x.key
      BY <2>1, <2>3, <1>1, <1>2 DEF Held
    <3> QED
      BY <3>1 DEF Holdings
  <2> QED
    BY <2>2, <2>3
<1>5. ASSUME NEW v \in Holdings, v.key # x.key PROVE v \in Holdings'
  <2>1. PICK m \in DOMAIN score : v = Held(m)
    BY DEF Holdings
  <2>2. m # x.key /\ m \in DOMAIN score' /\ score'[m] = score[m]
    BY <2>1, <1>1, <1>2, <1>5 DEF Held
  <2> QED
    BY <2>1, <2>2 DEF Holdings, Held
<1>6. x \in Holdings'
  BY <1>1, <1>2, <1>3 DEF Holdings, Held
<1> QED
  BY <1>4, <1>5, <1>6

LEMMA HoldingsWithout ==
  ASSUME NEW k, score' = Without(k)
  PROVE  Holdings' = {v \in Holdings : v.key # k}
<1>1. DOMAIN score' = DOMAIN score \ {k}
  BY DEF Without
<1>2. \A m \in DOMAIN score' : score'[m] = score[m]
  BY DEF Without
<1>3. ASSUME NEW v \in Holdings' PROVE v \in Holdings /\ v.key # k
  <2>1. PICK m \in DOMAIN score' : v = [key |-> m, value |-> score'[m]]
    BY DEF Holdings, Held
  <2> QED
    BY <2>1, <1>1, <1>2 DEF Holdings, Held
<1>4. ASSUME NEW v \in Holdings, v.key # k PROVE v \in Holdings'
  <2>1. PICK m \in DOMAIN score : v = Held(m)
    BY DEF Holdings
  <2> QED
    BY <2>1, <1>1, <1>2, <1>4 DEF Holdings, Held
<1> QED
  BY <1>3, <1>4

\* A member has one pair.
LEMMA OneEach ==
  ASSUME NEW k \in DOMAIN score
  PROVE  Holdings \ {Held(k)} = {v \in Holdings : v.key # k}
BY DEF Holdings, Held

-----------------------------------------------------------------------------
(* The steps.                                                              *)

\* The list and the scores are left alone, no search goes on.
LEMMA Quiet ==
  ASSUME Core, pc # "search" \/ call.kind # "insert", UNCHANGED listVars, score' = score,
         pc' # "search", Types',
         pc' = "collect" => req'.kind = "range" \/ (req'.kind = "search" /\ todo' # <<>>)
  PROVE  Core'
<1>1. ListRight' /\ Nodes' = Nodes
  BY SameList DEF Core
<1>2. Nodes' = Holdings'
  BY <1>1 DEF Core, Agree, Holdings, Held
<1> QED
  BY <1>1, <1>2 DEF Core, Agree, Fits

\* A command begins to search.
LEMMA Seeks ==
  ASSUME Core, pc = "run", NEW kind \in Kinds, NEW val, NEW nth,
         UNCHANGED listVars, score' = score, Search(kind, val, nth), pc' = "search", Types',
         req' = req, todo' = todo,
         kind = "nth" => nth \in 1..length /\ req.kind = "range",
         kind # "nth" => val \in Plain,
         kind = "insert" => /\ req.kind = "add" /\ todo # <<>> /\ val = Head(todo)
                            /\ val.key \notin DOMAIN score,
         kind = "delete" => /\ req.kind \in {"add", "remove"} /\ todo # <<>>
                            /\ val.key \in DOMAIN score /\ val = Held(val.key)
                            /\ req.kind = "add" => val.key = Head(todo).key,
         kind = "rank" => req.kind = "rank" /\ val \in Nodes /\ val = Held(req.name),
         kind = "bound" => req.kind = "search" /\ todo # <<>>
  PROVE  Core'
<1>1. ListRight' /\ Nodes' = Nodes /\ length' = length
  BY SameList DEF Core, listVars
<1>2. call'.kind = kind /\ call'.val = val
  BY DEF Search
<1>3. WalkRight'
  BY <1>1, SearchBegins
<1>4. Holdings' = Holdings /\ Nodes = Holdings
  BY DEF Core, Agree, Holdings, Held
<1>5. Agree'
  <2>1. CASE kind = "insert"
    <3>1. \A v \in Holdings : v.key # val.key
      BY <2>1 DEF Holdings, Held
    <3> QED
      BY <3>1, <2>1, <1>1, <1>2, <1>4 DEF Agree
  <2>2. CASE kind # "insert"
    BY <2>2, <1>1, <1>2, <1>4 DEF Agree
  <2> QED
    BY <2>1, <2>2
<1>6. Fits'
  <2>1. \A k : Held(k)' = Held(k)
    BY DEF Held
  <2> QED
    BY <2>1, <1>1, <1>2 DEF Fits
<1> QED
  BY <1>1, <1>3, <1>5, <1>6 DEF Core

LEMMA SeekSeeks ==
  ASSUME NEW kind, NEW val, NEW nth, Seek(kind, val, nth)
  PROVE  /\ UNCHANGED listVars /\ score' = score /\ Search(kind, val, nth) /\ pc' = "search"
         /\ req' = req /\ todo' = todo /\ nan' = nan
BY DEF Seek

LEMMA Heads ==
  ASSUME NEW S, NEW q \in Seq(S), q # <<>>
  PROVE  Head(q) \in S /\ Tail(q) \in Seq(S)
OBVIOUS

LEMMA AddPairStep ==
  ASSUME Core, AddPair PROVE Core'
<1> DEFINE x == Head(todo)
<1>1. pc = "run" /\ req.kind = "add" /\ todo # <<>> /\ want' = want
  BY DEF AddPair, Running
<1>2. x \in [key : Member, value : Score]
  <2>1. todo \in Seq([key : Member, value : Score])
    BY <1>1 DEF Core, Types
  <2> QED
    BY <2>1, <1>1, Heads
<1>x. x = Head(todo)
  OBVIOUS
<1>3. x \in Plain
  BY <1>2, ScoredIsPlain
<1> HIDE DEF x
<1>4. CASE x.key \in DOMAIN score
  <2>1. Seek("delete", Held(x.key), 0) /\ count' = count
    BY <1>4, <1>x DEF AddPair
  <2>2. /\ UNCHANGED listVars /\ score' = score /\ Search("delete", Held(x.key), 0)
        /\ pc' = "search" /\ req' = req /\ todo' = todo
    BY <2>1, SeekSeeks
  <2>3. Types'
    BY <2>1, <2>2, <1>1 DEF Core, Types
  <2>4. Held(x.key) \in Plain /\ Held(x.key).key = x.key
    BY <1>4, HeldIs DEF Core
  <2> QED
    BY <2>2, <2>3, <2>4, <1>1, <1>4, <1>x, Seeks DEF Kinds
<1>5. CASE x.key \notin DOMAIN score
  <2>1. Seek("insert", x, 0) /\ count' = count + 1
    BY <1>5, <1>x DEF AddPair
  <2>2. /\ UNCHANGED listVars /\ score' = score /\ Search("insert", x, 0)
        /\ pc' = "search" /\ req' = req /\ todo' = todo
    BY <2>1, SeekSeeks
  <2>3. count' \in Nat
    BY <2>1 DEF Core, Types
  <2>4. Types'
    BY <2>2, <2>3, <1>1 DEF Core, Types
  <2> QED
    BY <2>2, <2>4, <1>1, <1>3, <1>5, <1>x, Seeks DEF Kinds
<1> QED
  BY <1>4, <1>5

LEMMA TailsFit ==
  ASSUME Types, todo # <<>>, req.kind \in {"add", "remove", "search"}
  PROVE  /\ req.kind = "add" => Tail(todo) \in Seq([key : Member, value : Score])
         /\ req.kind = "remove" => Tail(todo) \in Seq(Member)
         /\ req.kind = "search" => Tail(todo) \in Seq([low : Int, high : Int])
<1>1. ASSUME req.kind = "add" PROVE Tail(todo) \in Seq([key : Member, value : Score])
  BY <1>1 DEF Types
<1>2. ASSUME req.kind = "remove" PROVE Tail(todo) \in Seq(Member)
  BY <1>2 DEF Types
<1>3. ASSUME req.kind = "search" PROVE Tail(todo) \in Seq([low : Int, high : Int])
  BY <1>3 DEF Types
<1> QED
  BY <1>1, <1>2, <1>3

LEMMA RemoveNameStep ==
  ASSUME Core, RemoveName PROVE Core'
<1> DEFINE k == Head(todo)
<1>1. /\ pc = "run" /\ req.kind = "remove" /\ todo # <<>>
      /\ count' = count /\ want' = want
  BY DEF RemoveName, Running
<1>k. k = Head(todo)
  OBVIOUS
<1> HIDE DEF k
<1>2. CASE k \in DOMAIN score
  <2>1. Seek("delete", Held(k), 0)
    BY <1>2, <1>k DEF RemoveName
  <2>2. /\ UNCHANGED listVars /\ score' = score /\ Search("delete", Held(k), 0)
        /\ pc' = "search" /\ req' = req /\ todo' = todo
    BY <2>1, SeekSeeks
  <2>3. Types'
    BY <2>2, <1>1 DEF Core, Types
  <2>4. Held(k) \in Plain /\ Held(k).key = k
    BY <1>2, HeldIs DEF Core
  <2> QED
    BY <2>2, <2>3, <2>4, <1>1, <1>2, Seeks DEF Kinds
<1>3. CASE k \notin DOMAIN score
  <2>1. todo' = Tail(todo) /\ UNCHANGED listVars /\ score' = score /\ pc' = pc /\ req' = req
    BY <1>3, <1>k DEF RemoveName
  <2>2. Types'
    BY <2>1, <1>1, TailsFit DEF Core, Types
  <2> QED
    BY <2>1, <2>2, <1>1, Quiet
<1> QED
  BY <1>2, <1>3

\* The requests a client can make.
LEMMA Requests ==
  ASSUME NEW r \in Request
  PROVE  /\ r.kind = "add" => r.pairs \in Pairs
         /\ r.kind = "remove" => r.names \in Names
         /\ r.kind = "rank" => r.name \in Member
         /\ r.kind = "range" => r.start \in Ranks /\ r.end \in Ranks
         /\ r.kind = "search" => r.find \in Searches
BY DEF Request

LEMMA PairsOfNumbers ==
  ASSUME NEW q \in Pairs, \A i \in DOMAIN q : q[i].value # NaN
  PROVE  q \in Seq([key : Member, value : Score])
<1>1. PICK n \in 1..MaxPairs : q \in [1..n -> Pair]
  BY DEF Pairs
<1>2. n \in Nat
  BY <1>1, SortedSetAssumption
<1>3. \A i \in 1..n : q[i] \in [key : Member, value : Score]
  BY <1>1 DEF Pair, Value
<1> DEFINE S == [key : Member, value : Score]
<1>4. \A i \in 1..n : q[i] \in S
  BY <1>3
<1> HIDE DEF S
<1>5. q \in [1..n -> S]
  BY <1>1, <1>4
<1>6. q \in Seq(S)
  BY <1>2, <1>5
<1> QED
  BY <1>6 DEF S

LEMMA NamesAreSequences ==
  ASSUME NEW q \in Names
  PROVE  q \in Seq(Member)
<1>1. PICK n \in 1..MaxPairs : q \in [1..n -> Member]
  BY DEF Names
<1>2. n \in Nat
  BY <1>1, SortedSetAssumption
<1> QED
  BY <1>1, <1>2

LEMMA IssueStep ==
  ASSUME Core, NEW r \in Request, Issue(r), ~nan' PROVE Core'
<1>1. /\ pc = "idle" /\ pc' = "run" /\ req' = r /\ score' = score
      /\ count' = count /\ want' = want /\ UNCHANGED listVars
  BY DEF Issue
<1>2. /\ r.kind = "add" => todo' = r.pairs
      /\ r.kind = "remove" => todo' = r.names
      /\ r.kind = "search" => todo' = r.find.ranges
  BY DEF Issue
<1>3. r.kind = "add" => todo' \in Seq([key : Member, value : Score])
  <2> SUFFICES ASSUME r.kind = "add" PROVE todo' \in Seq([key : Member, value : Score])
    OBVIOUS
  <2>1. \A i \in DOMAIN r.pairs : r.pairs[i].value # NaN
    BY DEF Issue
  <2> QED
    BY <2>1, <1>2, Requests, PairsOfNumbers
<1>4. r.kind = "remove" => todo' \in Seq(Member)
  BY <1>2, Requests, NamesAreSequences
<1>5. r.kind = "search" => todo' \in Seq([low : Int, high : Int])
  <2> SUFFICES ASSUME r.kind = "search" PROVE todo' \in Seq([low : Int, high : Int])
    OBVIOUS
  <2>1. r.find \in [ranges : Seq([low : Int, high : Int]), near : SUBSET Int]
    BY Requests, SortedSetAssumption
  <2> QED
    BY <2>1, <1>2
<1>6. Types'
  BY <1>1, <1>3, <1>4, <1>5 DEF Core, Types
<1> QED
  BY <1>1, <1>6, Quiet

\* A command ends; the list and the scores stay.
LEMMA AnswerStep ==
  ASSUME Core, pc # "search" \/ call.kind # "insert", NEW a, Answer(a),
         UNCHANGED listVars, score' = score
  PROVE  Core'
<1>1. /\ pc' = "idle" /\ todo' = <<>> /\ count' = 0 /\ want' = 0 /\ req' = NoRequest
  BY DEF Answer
<1>2. req'.kind = "none"
  BY <1>1 DEF NoRequest
<1>3. Types'
  BY <1>1, <1>2 DEF Core, Types
<1> QED
  BY <1>1, <1>3, Quiet

LEMMA AnswerAtOnceStep ==
  ASSUME Core, pc = "run", NEW a, AnswerAtOnce(a) PROVE Core'
<1>1. Answer(a) /\ UNCHANGED listVars /\ score' = score
  BY DEF AnswerAtOnce
<1> QED
  BY <1>1, AnswerStep

LEMMA AnsweringSteps ==
  ASSUME Core, AnswerCount \/ Card \/ ScoreOf \/ AnswerSearch PROVE Core'
BY AnswerAtOnceStep DEF AnswerCount, Card, ScoreOf, AnswerSearch, Running

LEMMA InsertStep ==
  ASSUME Core, Insert PROVE Core'
<1> DEFINE x == Head(todo)
<1>1. /\ pc = "search" /\ call.kind = "insert" /\ pc' = "run"
      /\ score' = With(call.val.key, call.val.value) /\ todo' = Tail(todo)
      /\ count' = count /\ want' = want /\ req' = req
  BY DEF Insert
<1>2. req.kind = "add" /\ todo # <<>> /\ call.val = x
  BY <1>1 DEF Core, Fits
<1>3. x \in [key : Member, value : Score]
  <2>1. todo \in Seq([key : Member, value : Score])
    BY <1>2 DEF Core, Types
  <2> QED
    BY <2>1, <1>2, Heads
<1> HIDE DEF x
<1>4. Nodes = {v \in Holdings : v.key # x.key}
  BY <1>1, <1>2 DEF Core, Agree
<1>5. x \notin Nodes
  BY <1>4
<1>6. ~Found
  BY <1>1, <1>2, <1>5, InsertionFinds DEF Core
<1>7. Missed /\ \E lvl \in Level : Link(lvl)
  BY <1>6 DEF Insert
<1>8. x \in Plain /\ x \in Value
  BY <1>3, ScoredIsPlain
<1>9. Placed(x)
  BY <1>1, <1>2, <1>7, <1>8, InsertionIsPlaced DEF Core
<1>10. ListRight' /\ Nodes' = Nodes \cup {x}
  BY <1>7, <1>9, LinkKeepsList DEF Core
<1>11. Holdings' = {v \in Holdings : v.key # x.key} \cup {x}
  BY <1>1, <1>2, <1>3, HoldingsWith
<1>12. Types'
  <2>1. /\ DOMAIN score' = DOMAIN score \cup {x.key}
        /\ \A m \in DOMAIN score' : score'[m] = IF m = x.key THEN x.value ELSE score[m]
    BY <1>1, <1>2 DEF With
  <2>2. DOMAIN score' \subseteq Member /\ \A m \in DOMAIN score' : score'[m] \in Score
    BY <2>1, <1>3 DEF Core, Types
  <2>3. todo' \in Seq([key : Member, value : Score])
    BY <1>1, <1>2, TailsFit DEF Core
  <2> QED
    BY <2>2, <2>3, <1>1, <1>2 DEF Core, Types
<1>13. Agree'
  BY <1>1, <1>4, <1>10, <1>11 DEF Agree
<1> QED
  BY <1>1, <1>10, <1>12, <1>13 DEF Core, Fits

LEMMA DeleteStep ==
  ASSUME Core, Delete PROVE Core'
<1> DEFINE v == call.val
<1>1. pc = "search" /\ call.kind = "delete" /\ Missed /\ Unlink /\ want' = want /\ req' = req
  BY DEF Delete
<1>2. /\ req.kind \in {"add", "remove"} /\ todo # <<>>
      /\ v.key \in DOMAIN score /\ v = Held(v.key)
      /\ req.kind = "add" => v.key = Head(todo).key
  BY <1>1 DEF Core, Fits
<1>3. Nodes = Holdings
  BY <1>1 DEF Core, Agree
<1>4. v \in Nodes
  BY <1>2, <1>3, HeldIs DEF Core
<1>5. Reached(v)
  BY <1>1, <1>4, DeletionReaches DEF Core
<1>v. v = call.val
  OBVIOUS
<1> HIDE DEF v
<1>6. ListRight' /\ Nodes' = Nodes \ {v}
  BY <1>1, <1>5, UnlinkKeepsList DEF Core
<1>7. Nodes' = {w \in Holdings : w.key # v.key}
  BY <1>2, <1>3, <1>6, OneEach
<1>8. CASE req.kind = "add"
  <2> DEFINE x == Head(todo)
  <2>1. Search("insert", x, 0) /\ score' = score /\ todo' = todo /\ count' = count /\ pc' = pc
    BY <1>8 DEF Delete
  <2>2. x \in [key : Member, value : Score]
    <3>1. todo \in Seq([key : Member, value : Score])
      BY <1>8 DEF Core, Types
    <3> QED
      BY <3>1, <1>2, Heads
  <2>x. x = Head(todo)
    OBVIOUS
  <2> HIDE DEF x
  <2>3. x \in Plain
    BY <2>2, ScoredIsPlain
  <2>4. WalkRight'
    BY <2>1, <2>3, <1>6, SearchBegins DEF Kinds
  <2>5. call'.kind = "insert" /\ call'.val = x
    BY <2>1 DEF Search
  <2>6. Holdings' = Holdings
    BY <2>1 DEF Holdings, Held
  <2>7. Agree'
    BY <2>1, <2>5, <2>6, <2>x, <1>1, <1>2, <1>7, <1>8 DEF Agree
  <2>8. Fits'
    BY <2>1, <2>5, <2>x, <1>1, <1>2, <1>8 DEF Fits, Kinds
  <2>9. Types'
    BY <2>1, <1>1 DEF Core, Types
  <2> QED
    BY <2>4, <2>7, <2>8, <2>9, <1>6 DEF Core
<1>9. CASE req.kind = "remove"
  <2>1. score' = Without(v.key) /\ todo' = Tail(todo) /\ count' = count + 1 /\ pc' = "run"
    BY <1>9, <1>v DEF Delete
  <2>2. Holdings' = {w \in Holdings : w.key # v.key}
    BY <2>1, HoldingsWithout
  <2>3. Types'
    <3>1. /\ DOMAIN score' = DOMAIN score \ {v.key}
          /\ \A m \in DOMAIN score' : score'[m] = score[m]
      BY <2>1 DEF Without
    <3>2. DOMAIN score' \subseteq Member /\ \A m \in DOMAIN score' : score'[m] \in Score
      BY <3>1 DEF Core, Types
    <3>3. todo' \in Seq(Member)
      BY <2>1, <1>2, <1>9, TailsFit DEF Core
    <3>4. count' \in Nat
      BY <2>1 DEF Core, Types
    <3> QED
      BY <3>2, <3>3, <3>4, <1>1, <1>9 DEF Core, Types
  <2>4. Agree'
    BY <2>1, <2>2, <1>7 DEF Agree
  <2> QED
    BY <2>1, <2>3, <2>4, <1>6 DEF Core, Fits
<1> QED
  BY <1>2, <1>8, <1>9

LEMMA RankOfStep ==
  ASSUME Core, RankOf PROVE Core'
<1>1. pc = "run" /\ req.kind = "rank"
  BY DEF RankOf, Running
<1>2. CASE req.name \in DOMAIN score
  <2> DEFINE v == Held(req.name)
  <2>1. v \in Plain /\ v \in Holdings /\ v = Held(req.name)
    BY <1>2, HeldIs DEF Core
  <2>2. Nodes = Holdings
    BY <1>1 DEF Core, Agree
  <2>3. Seek("rank", v, 0) /\ count' = count /\ want' = want
    BY <1>2 DEF RankOf
  <2> HIDE DEF v
  <2>4. /\ UNCHANGED listVars /\ score' = score /\ Search("rank", v, 0)
        /\ pc' = "search" /\ req' = req /\ todo' = todo
    BY <2>3, SeekSeeks
  <2>5. Types'
    BY <2>3, <2>4, <1>1 DEF Core, Types
  <2> QED
    BY <2>1, <2>2, <2>4, <2>5, <1>1, Seeks DEF Kinds
<1>3. CASE req.name \notin DOMAIN score
  BY <1>1, <1>3, AnswerAtOnceStep DEF RankOf
<1> QED
  BY <1>2, <1>3

LEMMA RankFoundStep ==
  ASSUME Core, RankFound PROVE Core'
<1>1. /\ call.kind # "insert" /\ UNCHANGED listVars /\ score' = score
      /\ \E a : Answer(a)
  BY DEF RankFound
<1> QED
  BY <1>1, AnswerStep

LEMMA RangeOfStep ==
  ASSUME Core, RangeOf PROVE Core'
<1>1. pc = "run" /\ req.kind = "range"
  BY DEF RangeOf, Running
<1>2. req.start \in Int /\ req.end \in Int
  <2>1. req \in Request
    BY <1>1 DEF Core, Types, NoRequest
  <2> QED
    BY <2>1, <1>1, Requests, Scores
<1>3. length \in Int
  BY DEF Core, ListRight, ListType
<1>4. First \in Nat /\ Last \in Int
  BY <1>2, <1>3 DEF First, Last, FromEnd
<1>5. CASE req.start >= length \/ First > Last \/ First + 1 > length
  BY <1>1, <1>5, AnswerAtOnceStep DEF RangeOf
<1>6. CASE ~(req.start >= length \/ First > Last \/ First + 1 > length)
  <2> DEFINE i == First + 1  w == Last - First + 1
  <2>1. i \in 1..length /\ w \in Int
    BY <1>3, <1>4, <1>6
  <2>2. Seek("nth", Nil, i) /\ want' = w /\ count' = count
    BY <1>6 DEF RangeOf
  <2> HIDE DEF i, w
  <2>3. /\ UNCHANGED listVars /\ score' = score /\ Search("nth", Nil, i)
        /\ pc' = "search" /\ req' = req /\ todo' = todo
    BY <2>2, SeekSeeks
  <2>4. Types'
    BY <2>1, <2>2, <2>3, <1>1 DEF Core, Types
  <2> QED
    BY <2>1, <2>3, <2>4, <1>1, Seeks DEF Kinds
<1> QED
  BY <1>5, <1>6

LEMMA RangeFoundStep ==
  ASSUME Core, RangeFound PROVE Core'
<1>1. /\ pc = "search" /\ call.kind = "nth" /\ UNCHANGED listVars /\ score' = score
  BY DEF RangeFound
<1>2. req.kind = "range"
  BY <1>1 DEF Core, Fits
<1>3. CASE Found /\ pc' = "collect" /\ UNCHANGED <<todo, count, out, want, reply, req, old, nan>>
  <2>1. Types'
    BY <1>1, <1>3 DEF Core, Types
  <2> QED
    BY <2>1, <1>1, <1>2, <1>3, Quiet
<1>4. CASE Answer(<<>>)
  BY <1>1, <1>4, AnswerStep
<1> QED
  BY <1>3, <1>4 DEF RangeFound

\* The first range of a search that is left.
LEMMA FirstRange ==
  ASSUME Types, req.kind = "search", todo # <<>>
  PROVE  Head(todo).low \in Int /\ Head(todo).high \in Int
<1>1. todo \in Seq([low : Int, high : Int])
  BY DEF Types
<1>2. Head(todo) \in [low : Int, high : Int]
  BY <1>1, Heads
<1> QED
  BY <1>2

LEMMA BetweenStep ==
  ASSUME Core, Between PROVE Core'
<1>1. pc = "run" /\ req.kind = "search" /\ todo # <<>> /\ count' = count /\ want' = want
  BY DEF Between, Running
<1>2. CASE Head(todo).low > Head(todo).high
  <2>1. todo' = Tail(todo) /\ UNCHANGED listVars /\ score' = score /\ pc' = pc /\ req' = req
    BY <1>2 DEF Between
  <2>2. Types'
    BY <2>1, <1>1, TailsFit DEF Core, Types
  <2> QED
    BY <2>1, <2>2, <1>1, Quiet
<1>3. CASE ~(Head(todo).low > Head(todo).high)
  <2> DEFINE v == [key |-> EmptyKey, value |-> Head(todo).low]
  <2>1. v \in Plain
    BY <1>1, FirstRange, Scores DEF Core, Plain
  <2>2. Seek("bound", v, 0)
    BY <1>3 DEF Between
  <2> HIDE DEF v
  <2>3. /\ UNCHANGED listVars /\ score' = score /\ Search("bound", v, 0)
        /\ pc' = "search" /\ req' = req /\ todo' = todo
    BY <2>2, SeekSeeks
  <2>4. Types'
    BY <2>3, <1>1 DEF Core, Types
  <2> QED
    BY <2>1, <2>3, <2>4, <1>1, Seeks DEF Kinds
<1> QED
  BY <1>2, <1>3

LEMMA BetweenFoundStep ==
  ASSUME Core, BetweenFound PROVE Core'
<1>1. /\ pc = "search" /\ call.kind = "bound" /\ pc' = "collect" /\ UNCHANGED listVars
      /\ score' = score /\ UNCHANGED <<todo, count, want, req>>
  BY DEF BetweenFound
<1>2. req.kind = "search" /\ todo # <<>>
  BY <1>1 DEF Core, Fits
<1>3. Types'
  BY <1>1 DEF Core, Types
<1> QED
  BY <1>1, <1>2, <1>3, Quiet

LEMMA CollectStep ==
  ASSUME Core, Collect PROVE Core'
<1>1. /\ pc = "collect" /\ pc' = pc /\ UNCHANGED listVars /\ score' = score
      /\ UNCHANGED <<todo, want, req>> /\ count' = count + 1
  BY DEF Collect
<1>2. req.kind = "range" \/ (req.kind = "search" /\ todo # <<>>)
  BY <1>1 DEF Core, Fits
<1>3. count' \in Nat
  BY <1>1 DEF Core, Types
<1>4. Types'
  BY <1>1, <1>3 DEF Core, Types
<1> QED
  BY <1>1, <1>2, <1>4, Quiet

LEMMA CollectedStep ==
  ASSUME Core, Collected PROVE Core'
<1>1. pc = "collect" /\ UNCHANGED listVars /\ score' = score
  BY DEF Collected
<1>2. CASE req.kind = "range"
  <2>1. \E a : Answer(a)
    BY <1>2 DEF Collected
  <2> QED
    BY <2>1, <1>1, AnswerStep
<1>3. CASE req.kind # "range"
  <2>1. /\ todo' = Tail(todo) /\ pc' = "run" /\ count' = 0 /\ want' = want /\ req' = req
    BY <1>3 DEF Collected
  <2>2. req.kind = "search" /\ todo # <<>>
    BY <1>1, <1>3 DEF Core, Fits
  <2>3. Types'
    BY <2>1, <2>2, <1>1, TailsFit DEF Core, Types
  <2> QED
    BY <2>1, <2>3, <1>1, Quiet
<1> QED
  BY <1>2, <1>3

LEMMA StepStep ==
  ASSUME Core, Step PROVE Core'
<1>1. /\ pc = "search" /\ pc' = pc /\ score' = score /\ req' = req /\ todo' = todo
      /\ count' = count /\ want' = want
  BY DEF Step, setVars
<1>2. UNCHANGED listVars /\ call' = call
  BY DEF Step, MoveRight, MoveDown
<1>3. call.kind \in Kinds
  BY <1>1 DEF Core, Fits
<1>4. ListRight' /\ WalkRight'
  BY <1>1, <1>3, MoveRightKeeps, MoveDownKeeps DEF Step, Core
<1>5. Nodes' = Nodes
  BY <1>2, SameList
<1>6. Types' /\ Agree' /\ Fits'
  <2>1. Holdings' = Holdings /\ \A k : Held(k)' = Held(k)
    BY <1>1 DEF Holdings, Held
  <2>2. Types'
    BY <1>1 DEF Core, Types
  <2>3. Agree'
    BY <2>1, <1>1, <1>2, <1>5 DEF Core, Agree
  <2>4. Fits'
    BY <2>1, <1>1, <1>2, <1>5 DEF Core, Fits
  <2> QED
    BY <2>2, <2>3, <2>4
<1> QED
  BY <1>4, <1>6 DEF Core

\* Nothing happens.
LEMMA StutterStep ==
  ASSUME Core, UNCHANGED vars PROVE Core'
<1>1. UNCHANGED listVars /\ UNCHANGED walkVars /\ UNCHANGED setVars
  BY DEF vars
<1>2. /\ pc' = pc /\ score' = score /\ req' = req /\ todo' = todo
      /\ count' = count /\ want' = want
  BY <1>1 DEF setVars
<1>3. /\ call' = call /\ lv' = lv /\ curr' = curr /\ skipped' = skipped
      /\ hier' = hier /\ rank' = rank
  BY <1>1 DEF walkVars
<1>4. /\ forward' = forward /\ height' = height /\ maxLevel' = maxLevel /\ length' = length
  BY <1>1 DEF listVars
<1>5. ListRight' /\ Nodes' = Nodes /\ (\A l : At(l)' = At(l)) /\ \A p : Pos(p)' = Pos(p)
  BY <1>1, SameList DEF Core
<1>6. WalkRight => WalkRight'
  BY <1>3, <1>4, <1>5 DEF WalkRight, LeftRight
<1>7. Holdings' = Holdings /\ \A k : Held(k)' = Held(k)
  BY <1>2 DEF Holdings, Held
<1>8. Types'
  BY <1>2 DEF Core, Types
<1>9. Agree'
  BY <1>2, <1>3, <1>5, <1>7 DEF Core, Agree
<1>10. Fits'
  BY <1>2, <1>3, <1>5, <1>7 DEF Core, Fits
<1> QED
  BY <1>2, <1>5, <1>6, <1>8, <1>9, <1>10 DEF Core

-----------------------------------------------------------------------------
(* The invariant.                                                          *)

\* The empty set is right.
LEMMA EmptyIsRight == Init => Core
<1> SUFFICES ASSUME Init PROVE Core
  OBVIOUS
<1>0. /\ Cap \in Nat /\ HeadNode # Nil /\ HeadNode \notin Value /\ Nil \notin Value
  BY Places
<1>1. /\ forward = [l \in Level |-> [n \in Place |-> Nil]]
      /\ skips = [l \in Level |-> [n \in Place |-> IF n = HeadNode THEN 1 ELSE 0]]
      /\ height = [v \in Value |-> 0]
      /\ maxLevel = 0 /\ length = 0 /\ levelCount = [l \in Level |-> 0]
  BY DEF Init, ListInit
<1>2. Nodes = {} /\ \A l \in Level : At(l) = {}
  <2>1. \A v \in Value : height[v] = 0
    BY <1>1
  <2>2. \A l \in Level : l >= 0 /\ l \in Int
    BY <1>0 DEF Level
  <2>3. ASSUME NEW l \in Level, NEW v \in Value PROVE ~(height[v] > l)
    BY <2>1, <2>2
  <2>4. ASSUME NEW v \in Value PROVE ~(height[v] > 0)
    BY <2>1
  <2>5. Nodes = {}
    BY <2>4 DEF Nodes
  <2>6. \A l \in Level : At(l) = {}
    BY <2>3 DEF At
  <2> QED
    BY <2>5, <2>6
<1>3. Cardinality({}) = 0 /\ IsFiniteSet({})
  BY FS_EmptySet
<1>4. ListType
  <2>1. HeadNode \in Place /\ 0..(Cap + 1) \subseteq Int /\ 0 \in 0..(Cap + 1) /\ 0 \in -1..Cap
    BY <1>0 DEF Place
  <2>2. forward \in [Level -> [Place -> Value \cup {Nil}]]
    BY <1>1
  <2>3. skips \in [Level -> [Place -> Int]]
    BY <1>1
  <2>4. height \in [Value -> 0..(Cap + 1)] /\ levelCount \in [Level -> Int]
    BY <1>1, <2>1
  <2> QED
    BY <2>1, <2>2, <2>3, <2>4, <1>1, <1>2, <1>3 DEF ListType
<1>5. \A l \in Level : forward[l][HeadNode] = Nil /\ skips[l][HeadNode] = 1
  BY <1>1 DEF Place
<1>6. LinksInOrder
  BY <1>2, <1>5 DEF LinksInOrder, InOrder
<1>7. SpansRight
  <2>1. Pos(HeadNode) = 0 /\ Pos(Nil) = 1
    BY <1>0, <1>2, <1>3 DEF Pos, PosIn
  <2> QED
    BY <2>1, <1>2, <1>5 DEF SpansRight, SpanIsDistance
<1>8. CountersRight
  BY <1>1, <1>2, <1>3 DEF CountersRight
<1>9. score = <<>> /\ pc = "idle" /\ todo = <<>> /\ count = 0 /\ want = 0 /\ req = NoRequest
  BY DEF Init
<1>10. Holdings = {}
  BY <1>9 DEF Holdings
<1>11. Types
  BY <1>9 DEF Types, NoRequest
<1>12. Agree /\ Fits
  BY <1>2, <1>9, <1>10 DEF Agree, Fits
<1> QED
  BY <1>4, <1>6, <1>7, <1>8, <1>9, <1>11, <1>12 DEF Core, ListRight

LEMMA InitIsRight == Init => ZInv
<1>1. Init => Modes
  BY DEF Init, Modes
<1> QED
  BY <1>1, EmptyIsRight, ZInvIs

\* A score that is not a number is remembered.
LEMMA NanStays ==
  ASSUME Modes, [Next]_vars
  PROVE  Modes' /\ (~nan' => ~nan)
<1>1. ASSUME NEW r \in Request, Issue(r)
      PROVE  pc' = "run" /\ nan' \in BOOLEAN /\ (nan => nan')
  BY <1>1 DEF Issue, Modes
<1>2. ASSUME NEW a, Answer(a) PROVE pc' = "idle" /\ nan' = nan
  BY <1>2 DEF Answer
<1>3. ASSUME NEW a, AnswerAtOnce(a) PROVE pc' = "idle" /\ nan' = nan
  BY <1>3, <1>2 DEF AnswerAtOnce
<1>4. ASSUME NEW kind, NEW val, NEW nth, Seek(kind, val, nth) PROVE pc' = "search" /\ nan' = nan
  BY <1>4 DEF Seek
<1>5. ASSUME AddPair \/ RemoveName \/ RankOf \/ RangeOf \/ Between
      PROVE  pc' \in {"run", "search", "idle"} /\ nan' = nan
  BY <1>3, <1>4, <1>5 DEF AddPair, RemoveName, RankOf, RangeOf, Between, Running
<1>6. ASSUME AnswerCount \/ Card \/ ScoreOf \/ AnswerSearch PROVE pc' = "idle" /\ nan' = nan
  BY <1>3, <1>6 DEF AnswerCount, Card, ScoreOf, AnswerSearch
<1>7. ASSUME Insert \/ Delete PROVE pc' \in {"run", "search"} /\ nan' = nan
  BY <1>7 DEF Insert, Delete
<1>8. ASSUME RankFound \/ RangeFound \/ BetweenFound \/ Collect \/ Collected
      PROVE  pc' \in {"run", "idle", "collect"} /\ nan' = nan
  BY <1>2, <1>8 DEF RankFound, RangeFound, BetweenFound, Collect, Collected
<1>9. ASSUME Step \/ UNCHANGED vars PROVE pc' = pc /\ nan' = nan
  BY <1>9 DEF Step, vars, setVars
<1>10. pc' \in {"idle", "run", "search", "collect"} /\ nan' \in BOOLEAN /\ (nan => nan')
  BY <1>1, <1>5, <1>6, <1>7, <1>8, <1>9 DEF Next, Modes
<1> QED
  BY <1>10 DEF Modes

LEMMA NextIsRight == ZInv /\ [Next]_vars => ZInv'
<1> SUFFICES ASSUME ZInv, [Next]_vars PROVE ZInv'
  OBVIOUS
<1>1. Modes /\ (~nan => Core)
  BY ZInvIs
<1>2. Modes' /\ (~nan' => ~nan)
  BY <1>1, NanStays
<1>3. ASSUME ~nan' PROVE Core'
  <2>1. Core
    BY <1>1, <1>2, <1>3
  <2>2. ASSUME NEW r \in Request, Issue(r) PROVE Core'
    BY <2>1, <2>2, <1>3, IssueStep
  <2>3. CASE AddPair \/ RemoveName \/ Insert \/ Delete
    BY <2>1, <2>3, AddPairStep, RemoveNameStep, InsertStep, DeleteStep
  <2>4. CASE AnswerCount \/ Card \/ ScoreOf \/ AnswerSearch
    BY <2>1, <2>4, AnsweringSteps
  <2>5. CASE RankOf \/ RankFound \/ RangeOf \/ RangeFound
    BY <2>1, <2>5, RankOfStep, RankFoundStep, RangeOfStep, RangeFoundStep
  <2>6. CASE Between \/ BetweenFound \/ Collect \/ Collected
    BY <2>1, <2>6, BetweenStep, BetweenFoundStep, CollectStep, CollectedStep
  <2>7. CASE Step
    BY <2>1, <2>7, StepStep
  <2>8. CASE UNCHANGED vars
    BY <2>1, <2>8, StutterStep
  <2> QED
    BY <2>2, <2>3, <2>4, <2>5, <2>6, <2>7, <2>8 DEF Next
<1>4. (ZInv <=> Modes /\ (~nan => Core))'
  BY ZInvIs, PTL
<1> QED
  BY <1>2, <1>3, <1>4

\* Until a score is not a number, the sorted set is right in every state: its
\* variables keep their types, the list its order, spans and counters, the map
\* and the list agree, and the search of a command is where it should be.
THEOREM SortedSetRight == Spec => []ZInv
<1> QED
  BY InitIsRight, NextIsRight, PTL DEF Spec

\* The spans that ZRANK adds up and ZRANGE goes by (skiplist.go:151-221) are
\* the distances of their links, at every level.
THEOREM SpansStayDistances == Spec => []SpansAreDistances
<1>1. ZInv => SpansAreDistances
  BY DEF ZInv, ListRight, SpansAreDistances
<1> QED
  BY <1>1, SortedSetRight, PTL

\* The map of scores and the skip list (sortedset.go:42-58, 140-153) hold the
\* same pairs.
THEOREM MapAndListStayAgreed == Spec => []MapAndListAgree
<1>1. ZInv => MapAndListAgree
  BY DEF ZInv
<1> QED
  BY <1>1, SortedSetRight, PTL

\* ZRANK's answer (sortedset.go:60-71, skiplist.go:278-293) is the number of
\* pairs before the member's.
THEOREM RankAnswerIsRank ==
  Spec => [][~nan /\ RankFound
               => reply' = Number(Cardinality({v \in Nodes : Before(v, Held(req.name))}))]_vars
<1>1. ASSUME ZInv, ~nan, RankFound
      PROVE  reply' = Number(Cardinality({v \in Nodes : Before(v, Held(req.name))}))
  <2> DEFINE k == call.val
             less == {v \in Nodes : Before(v, k)}
             upTo == {v \in Nodes : ~Before(k, v)}
  <2>1. Core
    BY <1>1, ZInvIs
  <2>2. pc = "search" /\ call.kind = "rank"
    BY <1>1 DEF RankFound
  <2>3. k \in Nodes /\ k = Held(req.name)
    BY <2>1, <2>2 DEF Core, Fits
  <2>4. Nodes \subseteq Plain /\ IsFiniteSet(Nodes)
    BY <2>1 DEF Core, ListRight, ListType
  <2>5. ~Missed /\ (Found => skipped = Cardinality(upTo))
    BY <2>1, <2>2, RankIsPosition DEF Core
  <2>6. upTo = less \cup {k} /\ k \notin less
    <3>1. ~Before(k, k)
      BY <2>3, <2>4, BeforeOrder
    <3>2. ASSUME NEW v \in Nodes PROVE ~Before(k, v) <=> (Before(v, k) \/ v = k)
      BY <2>3, <2>4, <3>1, BeforeOrder
    <3> QED
      BY <2>3, <3>1, <3>2
  <2>7. IsFiniteSet(less)
    BY <2>4, FS_Subset
  <2>8. Cardinality(upTo) = Cardinality(less) + 1 /\ Cardinality(less) \in Nat
    BY <2>6, <2>7, FS_AddElement, FS_CardinalityType
  <2>9. reply' = IF skipped >= 1 THEN Number(skipped - 1) ELSE NilReply
    BY <1>1, <2>5 DEF RankFound, Answer
  <2> HIDE DEF less, upTo
  <2>10. Found
    BY <1>1, <2>5 DEF RankFound
  <2>11. skipped >= 1 /\ skipped - 1 = Cardinality(less)
    BY <2>5, <2>8, <2>10
  <2>12. reply' = Number(Cardinality(less))
    BY <2>9, <2>11
  <2> QED
    BY <2>3, <2>12 DEF less
<1>2. ZInv /\ [Next]_vars
        => [~nan /\ RankFound
              => reply' = Number(Cardinality({v \in Nodes : Before(v, Held(req.name))}))]_vars
  BY <1>1
<1> QED
  BY <1>2, SortedSetRight, PTL DEF Spec
=============================================================================
