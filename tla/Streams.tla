------------------------------ MODULE Streams -------------------------------
(***************************************************************************)
(* The IDs of stream entries and the scan of a range of them               *)
(* (internal/datastructure/streamid.go, stream.go).  A stream is the       *)
(* sequence of the IDs of its entries; what an entry holds is left out.    *)
(* MaxUint stands for the largest unsigned integer of 64 bits.             *)
(***************************************************************************)
EXTENDS Naturals, Sequences

CONSTANTS MaxUint, None

ID == (0 .. MaxUint) \X (0 .. MaxUint)     \* milliseconds and a number

ASSUME MaxAssumption ==
  /\ MaxUint \in Nat \ {0}
  /\ None \notin Nat \cup ID /\ None \notin Seq(ID)

Zero == <<0, 0>>
Top  == <<MaxUint, MaxUint>>

\* Compare.
Before(a, b) == a[1] < b[1] \/ (a[1] = b[1] /\ a[2] < b[2])
AtMost(a, b) == a = b \/ Before(a, b)

\* Seq++ and Seq + 1 on an unsigned number.
After(a) == <<a[1], IF a[2] = MaxUint THEN 0 ELSE a[2] + 1>>

Last(s)       == IF s = <<>> THEN None ELSE s[Len(s)]
LastOrZero(s) == IF s = <<>> THEN Zero ELSE s[Len(s)]

-----------------------------------------------------------------------------
(* The ID of a new entry.                                                  *)

\* "*", "ms-*" and "ms-seq".
Requests == [kind : {"clock"}] \cup [kind : {"ms"}, ms : 0 .. MaxUint] \cup [kind : {"exact"}, id : ID]

\* GenerateNextID, None for an error.
NextID(top, r, now) ==
  CASE r.kind = "exact" -> IF r.id = Zero \/ (top # None /\ AtMost(r.id, top)) THEN None ELSE r.id
    [] r.kind = "clock" -> IF top = None \/ top[1] < now THEN <<now, 0>> ELSE After(top)
    [] r.kind = "ms" /\ top = None -> <<r.ms, IF r.ms = 0 THEN 1 ELSE 0>>
    [] r.kind = "ms" /\ top # None -> IF r.ms < top[1] THEN None
                                      ELSE IF r.ms = top[1] THEN After(top)
                                      ELSE <<r.ms, 0>>

\* AppendEntry takes only what is greater than the last ID.
Accepts(s, id) == id # None /\ (s = <<>> \/ Before(s[Len(s)], id))

-----------------------------------------------------------------------------
(* RangeScan.                                                              *)

\* The first entry at or after a is at i or before it.
Reached(s, a, i) == \E j \in 1 .. i : AtMost(a, s[j])

\* Mutant: the entry found for the end is left out.
ScanShort(s, a, b) ==
  {i \in DOMAIN s : Reached(s, a, i) /\ \A j \in DOMAIN s : AtMost(b, s[j]) => i < j}

\* The entries from the first one not below a to the first one not below b, which for an ID
\* between two entries is beyond it; the maximum stands for the last entry.
Scan(s, a, b) ==
  {i \in DOMAIN s : Reached(s, a, i) /\ \A j \in DOMAIN s : AtMost(b, s[j]) => i <= j}

\* The first n of an interval of positions, all of them for n = 0.
FirstOf(I, n) == {i \in I : n = 0 \/ ~ \E j \in I : j + n <= i}

IdsAt(s, I) == {s[i] : i \in I}

Increasing(s) == \A i, j \in DOMAIN s : i < j => Before(s[i], s[j])
=============================================================================
