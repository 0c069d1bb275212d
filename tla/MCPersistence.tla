--------------------------- MODULE MCPersistence ----------------------------
(* Instance of Persistence for TLC.                                        *)
EXTENDS Persistence

\* No file, a dump from elsewhere with an expiry, one with a list in it and one
\* that was cut.
Dumps ==
  {<<>>, <<Section, Expire(1), Pair("k1", "a"), Pair("k2", "b"), End>>,
   <<Section, Pair("k1", "a"), Foreign, End>>, <<Section, Pair("k1", "a")>>}
=============================================================================
