------------------------------- MODULE Framing -------------------------------
(* How the bytes of a connection become requests: the loop that reads and    *)
(* handles them (internal/server/session.go), ParseMultipleRequests          *)
(* (internal/command/parser.go) and the parser of arrays under it            *)
(* (internal/utils/resp.go).  A line is its prefix with its number and a     *)
(* line end, an argument is its bytes and a line end; the two bytes of a line*)
(* end count as one.  Requests hold no arrays within arrays.                 *)
EXTENDS Integers, Sequences, SequencesExt

CONSTANTS
  Zero,         \* the byte that pads an argument
  Null,         \* the null bulk string as an argument
  Request,      \* bound: the requests that the client sends
  BufferSize,   \* DefaultBufferSize, and the size of a bufio.Reader
  MaxSent       \* bound: the requests sent

VARIABLES
  sent,      \* the requests of the client
  stream,    \* all they are as units on the wire
  got,       \* how many of these units were read from the connection
  pos,       \* how many of these the parser has taken; the rest is left over
  held,      \* how many are in its bufio.Reader
  pc,
  need, args, size,    \* the array it reads: elements to come, words, length of the next
  commands,  \* parsed and not yet routed
  executed   \* routed

vars == <<sent, stream, got, pos, held, pc, need, args, size, commands, executed>>

Star(n)   == [kind |-> "star", n |-> n]
Dollar(n) == [kind |-> "dollar", n |-> n]
Text(b)   == [kind |-> "text", n |-> b]
LineEnd   == [kind |-> "end", n |-> 0]

Bulk(a) ==
  IF a = Null THEN <<Dollar(-1), LineEnd>>
  ELSE <<Dollar(Len(a)), LineEnd>> \o [i \in DOMAIN a |-> Text(a[i])] \o <<LineEnd>>

Encoded(r) == <<Star(Len(r)), LineEnd>> \o FlattenSeq([i \in DOMAIN r |-> Bulk(r[i])])

\* FlattenRESPArray: null strings are left out.
Words(r) == SelectSeq(r, LAMBDA a : a # Null)

-----------------------------------------------------------------------------

Init ==
  /\ sent = <<>> /\ stream = <<>> /\ got = 0 /\ pos = 0 /\ held = 0
  /\ pc = "read" /\ need = 0 /\ args = <<>> /\ size = 0
  /\ commands = <<>> /\ executed = <<>>

Send(r) ==
  /\ Len(sent) < MaxSent
  /\ sent' = Append(sent, r) /\ stream' = stream \o Encoded(r)
  /\ UNCHANGED <<got, pos, held, pc, need, args, size, commands, executed>>

\* conn.Read gives any part of what has arrived; the leftover comes before it.
Read(n) ==
  /\ pc = "read" /\ got + n <= Len(stream)
  /\ got' = got + n /\ held' = 0 /\ pc' = "next"
  /\ UNCHANGED <<sent, stream, pos, need, args, size, commands, executed>>

\* Units in the bufio.Reader once it has filled its buffer at a position.
Filled(p) == IF got - p < BufferSize THEN got - p ELSE BufferSize
Held == IF held = 0 THEN Filled(pos) ELSE held

\* ReadString: up to the next line end, or all there is.
Ends == {i \in (pos + 1)..got : stream[i] = LineEnd}
Next1 == CHOOSE i \in Ends : \A j \in Ends : i <= j
TakeLine ==
  /\ pos' = Next1
  /\ held' = IF Next1 <= pos + Held THEN pos + Held - Next1 ELSE pos + Filled(pos) - Next1

IsLine(kind) == stream[pos + 1].kind = kind /\ Next1 = pos + 2

\* An error ends the parsing.  What was parsed of the array is gone, what was
\* not taken is left over.
GiveUp == pc' = "route" /\ UNCHANGED <<need, args, size, commands>>

LineLost == pos < got /\ Ends = {} /\ pos' = got /\ held' = 0 /\ GiveUp

\* The loop of ParseMultipleRequests, and the prefix of an array.
NextRequest ==
  /\ pc = "next"
  /\ \/ pos = got /\ pc' = "route" /\ UNCHANGED <<pos, held, need, args, size, commands>>
     \/ LineLost
     \/ pos < got /\ Ends # {} /\ ~IsLine("star") /\ TakeLine /\ GiveUp
     \/ /\ pos < got /\ Ends # {} /\ IsLine("star") /\ TakeLine
        /\ need' = stream[pos + 1].n /\ args' = <<>> /\ pc' = "element"
        /\ UNCHANGED <<size, commands>>
  /\ UNCHANGED <<sent, stream, got, executed>>

\* The next element of the array; an empty array is no request.
Element ==
  /\ pc = "element"
  /\ \/ /\ need <= 0
        /\ commands' = IF args = <<>> THEN commands ELSE Append(commands, args)
        /\ pc' = "next" /\ UNCHANGED <<pos, held, need, args, size>>
     \/ /\ need > 0 /\ (pos < got => stream[pos + 1].kind # "dollar")
        /\ GiveUp /\ UNCHANGED <<pos, held>>
     \/ need > 0 /\ pos < got /\ stream[pos + 1].kind = "dollar" /\ LineLost
     \/ /\ need > 0 /\ pos < got /\ Ends # {} /\ IsLine("dollar") /\ TakeLine
        /\ IF stream[pos + 1].n = -1
           THEN need' = need - 1 /\ UNCHANGED <<size, pc>>
           ELSE size' = stream[pos + 1].n /\ pc' = "bulk" /\ UNCHANGED need
        /\ UNCHANGED <<args, commands>>
  /\ UNCHANGED <<sent, stream, got, executed>>

\* reader.Read: as much of the argument and its line end as the reader holds,
\* at least one unit.  What is missing stays zero.
BulkData ==
  /\ pc = "bulk"
  /\ \/ pos = got /\ GiveUp /\ UNCHANGED <<pos, held>>
     \/ LET direct == held = 0 /\ size + 1 >= BufferSize
            there  == IF direct THEN got - pos ELSE Held
            k      == IF size + 1 <= there THEN size + 1 ELSE there
        IN /\ pos < got
           /\ args' = Append(args, [i \in 1..size |-> IF i <= k THEN stream[pos + i].n ELSE Zero])
           /\ pos' = pos + k /\ held' = (IF direct THEN 0 ELSE Held - k)
           /\ need' = need - 1 /\ pc' = "element"
           /\ UNCHANGED <<size, commands>>
  /\ UNCHANGED <<sent, stream, got, executed>>

\* HandleRequests routes the parsed requests one by one.
RouteNext ==
  /\ pc = "route"
  /\ IF commands = <<>>
     THEN pc' = "read" /\ UNCHANGED <<commands, executed>>
     ELSE /\ executed' = Append(executed, Head(commands)) /\ commands' = Tail(commands)
          /\ UNCHANGED pc
  /\ UNCHANGED <<sent, stream, got, pos, held, need, args, size>>

Next ==
  \/ \E r \in Request : Send(r)
  \/ \E n \in 1..BufferSize : Read(n)
  \/ NextRequest \/ Element \/ BulkData \/ RouteNext

Spec == Init /\ [][Next]_vars

-----------------------------------------------------------------------------
(* Properties.                                                             *)

\* Where on the wire the first j requests end.
EndOf(j) == Len(FlattenSeq([i \in 1..j |-> Encoded(sent[i])]))

\* session.go:64: HandleRequests "returns any leftover data that couldn't be
\* processed": the requests executed are the first ones sent, as they were sent,
\* and what is left over begins with the next one.
LeftoverIsUnprocessed ==
  pc = "read" => \E j \in 0..Len(sent) :
                   /\ pos = EndOf(j)
                   /\ executed = [i \in 1..j |-> Words(sent[i])]
=============================================================================
