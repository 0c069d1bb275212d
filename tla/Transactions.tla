---------------------------- MODULE Transactions ----------------------------
(***************************************************************************)
(* What MULTI, EXEC and DISCARD promise: the commands a client sends after *)
(* MULTI are kept in a batch, EXEC runs that batch and nothing else in one *)
(* step, in the order it was sent, DISCARD drops it, and any other command *)
(* runs on its own.  A command is <<client, number of its request>>.       *)
(***************************************************************************)
EXTENDS Naturals, Sequences, SequencesExt

CONSTANT Conn

VARIABLES
  ran,    \* the commands run so far, oldest first
  batch,  \* batch[c]: the commands c has sent since its MULTI
  mode    \* mode[c]: "none"; "multi" after MULTI; "exec" from EXEC until the batch has run

vars == <<ran, batch, mode>>

New(c, id) == id[1] = c /\ id \notin ToSet(ran) /\ id \notin ToSet(batch[c])

Enter(c, from, to) == mode[c] = from /\ mode' = [mode EXCEPT ![c] = to]

Run(c) ==
  /\ mode[c] = "none"
  /\ ran' # <<>> /\ ran' = Append(ran, Last(ran'))
  /\ New(c, Last(ran'))
  /\ UNCHANGED <<batch, mode>>

Multi(c) == Enter(c, "none", "multi") /\ UNCHANGED <<ran, batch>>

Queue(c) ==
  /\ mode[c] = "multi"
  /\ batch'[c] # <<>> /\ batch' = [batch EXCEPT ![c] = Append(@, Last(batch'[c]))]
  /\ New(c, Last(batch'[c]))
  /\ UNCHANGED <<ran, mode>>

Discard(c) ==
  /\ Enter(c, "multi", "none")
  /\ batch' = [batch EXCEPT ![c] = <<>>]
  /\ UNCHANGED ran

Submit(c) == Enter(c, "multi", "exec") /\ UNCHANGED <<ran, batch>>

Commit(c) ==
  /\ Enter(c, "exec", "none")
  /\ ran' = ran \o batch[c]
  /\ batch' = [batch EXCEPT ![c] = <<>>]

Init ==
  /\ ran = <<>>
  /\ batch = [c \in Conn |-> <<>>]
  /\ mode = [c \in Conn |-> "none"]

Next == \E c \in Conn : Run(c) \/ Multi(c) \/ Queue(c) \/ Discard(c) \/ Submit(c) \/ Commit(c)

Spec == Init /\ [][Next]_vars

=============================================================================
