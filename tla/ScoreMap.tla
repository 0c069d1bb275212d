------------------------------- MODULE ScoreMap -------------------------------
(* What a sorted set promises to its clients: it is a map from members to    *)
(* scores; a rank is the number of members before one, in the order of the   *)
(* scores and among equal scores of the names; a range holds the members of  *)
(* consecutive ranks.  Nothing is promised once a score is not a number.     *)
EXTENDS Integers, FiniteSets, Sequences, SequencesExt

CONSTANTS Member, Score, Request

VARIABLES score, req, reply,
  busy,    \* a command has been asked and not answered
  nan      \* a score that is not a number has been given

vars == <<score, req, reply, busy, nan>>

Below(s, x, y) == s[x] < s[y] \/ (s[x] = s[y] /\ x < y)
Rank(s, m) == Cardinality({x \in DOMAIN s : Below(s, x, m)})
InOrder(s, M) ==
  LET place(m) == Cardinality({x \in M : Below(s, x, m)}) + 1
  IN [i \in 1..Cardinality(M) |-> CHOOSE m \in M : place(m) = i]

\* A later pair of a ZADD wins over an earlier one.
Named(pairs) == {pairs[i].key : i \in DOMAIN pairs}
Given(pairs, m) ==
  pairs[CHOOSE i \in DOMAIN pairs :
          /\ pairs[i].key = m
          /\ \A j \in DOMAIN pairs : pairs[j].key = m => j <= i].value

\* An index that counts from the end; one before the first element is the first.
Index(s, i) ==
  IF i >= 0 THEN i ELSE IF i + Cardinality(DOMAIN s) >= 0 THEN i + Cardinality(DOMAIN s) ELSE 0

\* The members whose scores are near, in the order of the first range each is in.
Hits(s, f) ==
  LET in(i)   == {m \in DOMAIN s : s[m] \in f.near /\ s[m] \in f.ranges[i].low..f.ranges[i].high}
      new(i)  == in(i) \ UNION {in(j) : j \in 1..(i - 1)}
  IN FoldLeft(\o, <<>>, [i \in DOMAIN f.ranges |-> InOrder(s, new(i))])

NewScore(s, r) ==
  CASE r.kind = "add" -> [m \in DOMAIN s \cup Named(r.pairs) |->
                            IF m \in Named(r.pairs) THEN Given(r.pairs, m) ELSE s[m]]
    [] r.kind = "remove" -> [m \in DOMAIN s \ {r.names[i] : i \in DOMAIN r.names} |-> s[m]]
    [] OTHER -> s

Reply(s, r) ==
  CASE r.kind = "add" -> <<Cardinality(Named(r.pairs) \ DOMAIN s)>>
    [] r.kind = "remove" -> <<Cardinality({r.names[i] : i \in DOMAIN r.names} \cap DOMAIN s)>>
    [] r.kind = "card" -> <<Cardinality(DOMAIN s)>>
    [] r.kind = "score" -> IF r.name \in DOMAIN s THEN <<s[r.name]>> ELSE <<>>
    [] r.kind = "rank" -> IF r.name \in DOMAIN s THEN <<Rank(s, r.name)>> ELSE <<>>
    [] r.kind = "range" -> InOrder(s, {m \in DOMAIN s :
                             Rank(s, m) \in Index(s, r.start)..Index(s, r.end)})
    [] r.kind = "search" -> Hits(s, r.find)

Init == score = <<>> /\ reply = <<>> /\ busy = FALSE /\ req = [kind |-> "none"]

Ask(r) == ~busy /\ busy' /\ req' = r /\ reply' = <<>> /\ UNCHANGED score

Answer ==
  /\ busy /\ ~busy'
  /\ score' = NewScore(score, req) /\ reply' = Reply(score, req)
  /\ req' = [kind |-> "none"]

Next == nan' \/ (~nan /\ ((\E r \in Request : Ask(r)) \/ Answer))

Spec == Init /\ [][Next]_vars
=============================================================================
