---------------------------- MODULE ListService ----------------------------
(***************************************************************************)
(* What the list commands of simis promise about elements, whatever the    *)
(* executor does inside: new elements join a list at one end, an element   *)
(* leaves a list only from its head and for one request, or with the whole *)
(* list when SET replaces it, and nothing ever comes back.                 *)
(***************************************************************************)
EXTENDS Naturals, Sequences, SequencesExt

CONSTANTS Key, Cmd

VARIABLES
  list,   \* list[k]: the elements of the list at k, head first
  taken   \* taken[c]: the elements request c took, oldest first

vars == <<list, taken>>

\* Every place an element can be: <<"in", k, i>> and <<"out", c, i>>.
Places ==
  UNION ({{<<"in", k, i>> : i \in DOMAIN list[k]} : k \in Key}
          \cup {{<<"out", c, i>> : i \in DOMAIN taken[c]} : c \in Cmd})

At(p) == IF p[1] = "in" THEN list[p[2]][p[3]] ELSE taken[p[2]][p[3]]

Present == {At(p) : p \in Places}

Joins(batch) ==
  /\ ToSet(batch) \cap Present = {}
  /\ \A i, j \in DOMAIN batch : batch[i] = batch[j] => i = j

\* Elements that are nowhere yet join the list at k, at its back or its front.
Insert(k) ==
  LET old == Len(list[k])
      new == Len(list'[k])
  IN /\ new >= old
     /\ \/ /\ SubSeq(list'[k], 1, old) = list[k]
           /\ Joins(SubSeq(list'[k], old + 1, new))
        \/ /\ SubSeq(list'[k], new - old + 1, new) = list[k]
           /\ Joins(SubSeq(list'[k], 1, new - old))
     /\ \A j \in Key \ {k} : list'[j] = list[j]
     /\ UNCHANGED taken

Take(k, c) ==
  /\ list[k] # <<>>
  /\ list' = [list EXCEPT ![k] = Tail(@)]
  /\ taken' = [taken EXCEPT ![c] = Append(@, Head(list[k]))]

Replace(k) ==
  /\ list' = [list EXCEPT ![k] = <<>>]
  /\ UNCHANGED taken

Init ==
  /\ list = [k \in Key |-> <<>>]
  /\ taken = [c \in Cmd |-> <<>>]

Next == \E k \in Key : Insert(k) \/ Replace(k) \/ \E c \in Cmd : Take(k, c)

Spec == Init /\ [][Next]_vars

\* An element is in one place at most: no element is delivered twice, and none
\* is both delivered and still in a list.
OnePlaceEach == \A p, q \in Places : At(p) = At(q) => p = q

=============================================================================
