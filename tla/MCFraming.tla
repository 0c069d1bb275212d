------------------------------ MODULE MCFraming ------------------------------
(* Instance of Framing for TLC.                                            *)
EXTENDS Framing

\* A request of two words and one with a null string in it.
Requests == {<<<<1>>, <<1, 2>>>>, <<<<1>>, Null>>}
=============================================================================
