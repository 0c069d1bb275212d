----------------------------- MODULE MCSession -----------------------------
(* Clients for Session: what each may send and how much of it.             *)
EXTENDS Session

CONSTANTS a, b, d, x, y, p

R(op, arg) == [op |-> op, arg |-> arg]
Plain(op)  == R(op, None)

Two   == {a, b}
Three == {a, b, d}

\* a uses transactions, b too, and may set a password before a has come.
TxRequests == a :> {Plain("multi"), Plain("data"), Plain("exec"), Plain("discard"), R("auth", p)}
           @@ b :> {Plain("data"), Plain("multi"), Plain("exec"), R("setuser", p)}
TxMax == a :> 5 @@ b :> 3
ReplayMax == a :> 5 @@ b :> 0

\* a and b subscribe and unsubscribe, d publishes.
PubSubRequests ==
     a :> {R("subscribe", x), R("unsubscribe", x), R("subscribe", y), Plain("multi")}
  @@ b :> {R("subscribe", x), R("publish", x)}
  @@ d :> {R("publish", x), Plain("multi"), Plain("exec")}
PubSubMax == a :> 3 @@ b :> 1 @@ d :> 1
=============================================================================
