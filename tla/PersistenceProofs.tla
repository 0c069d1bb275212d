-------------------------- MODULE PersistenceProofs --------------------------
(* The dumps that this program writes have nothing in them.                *)
EXTENDS Persistence, TLAPS

Items == {Section, End}

\* No goroutine of BGSAVE collects anything, and the file is the one that lay
\* there at first until a save opens it, and only sections and ends from then on.
NothingIsSaved ==
  /\ \A s \in Saver : saver[s].entries = <<>>
  /\ file \in Dump \/ file \in Seq(Items)

SInv ==
  /\ NothingIsSaved
  /\ saver \in [Saver -> [pc : {"idle", "collect", "write"}, seen : SUBSET Key, at : Int,
                          entries : {<<>>}]]
  /\ now \in Int
  /\ \A s \in Saver : saver[s].pc = "write" => file \in Seq(Items)

\* No object has the methods of the interface that GenerateRDB asks for.
LEMMA NothingIsCollected == ASSUME NEW k, NEW o, NEW t PROVE Collected(k, o, t) = <<>>
<1>1. <<"Get", "interface{}">> # <<"Get", "RValue">>
  OBVIOUS
<1>2. <<"Get", "interface{}">> # <<"SetExpiry", "">>
  OBVIOUS
<1>3. ~IsRedisObject(o)
  BY <1>1, <1>2 DEF IsRedisObject, Wanted, MethodsOf
<1> QED
  BY <1>3 DEF Collected

LEMMA Joined == ASSUME NEW S, NEW a \in Seq(S), NEW b \in Seq(S) PROVE a \o b \in Seq(S)
  OBVIOUS

\* A dump without entries is a section and the end.
LEMMA EmptyDump == ASSUME NEW t PROVE Generated(<<>>, t) \in Seq(Items)
<1> DEFINE written == [i \in DOMAIN <<>> |-> Written(<<>>[i], t)]
<1>1. written = <<>>
  OBVIOUS
<1>2. FlattenSeq(<<>>) = <<>>
  BY DEF FlattenSeq
<1>3. <<Section>> \in Seq(Items) /\ <<End>> \in Seq(Items) /\ <<>> \in Seq(Items)
  BY DEF Items
<1>4. Generated(<<>>, t) = <<Section>> \o <<>> \o <<>> \o <<End>>
  BY <1>1, <1>2 DEF Generated
<1>5. <<>> \o <<End>> = <<End>> /\ <<Section>> \o <<>> = <<Section>>
  BY <1>3
<1>6. Generated(<<>>, t) = <<Section>> \o <<End>>
  BY <1>4, <1>5
<1> QED
  BY <1>3, <1>6, Joined

\* Writing over a file of sections and ends leaves one.
LEMMA OverStays ==
  ASSUME NEW new \in Seq(Items), NEW old \in Seq(Items) PROVE Over(new, old) \in Seq(Items)
BY DEF Over

LEMMA SaveInit == Init => SInv
BY DEF Init, SInv, NothingIsSaved, Idle

LEMMA SaveNext == SInv /\ [Next]_vars => SInv'
<1> SUFFICES ASSUME SInv, [Next]_vars PROVE SInv'
  OBVIOUS
<1> DEFINE States == [pc : {"idle", "collect", "write"}, seen : SUBSET Key, at : Int, entries : {<<>>}]
<1>0. /\ saver \in [Saver -> States] /\ now \in Int
      /\ \A s \in Saver : saver[s].pc = "write" => file \in Seq(Items)
      /\ file \in Dump \/ file \in Seq(Items)
  BY DEF SInv, NothingIsSaved
<1>1. Idle \in States
  BY DEF Idle
<1>2. ASSUME Start PROVE SInv'
  BY <1>0, <1>2 DEF Start, SInv, NothingIsSaved
<1>3. CASE Crash
  BY <1>0, <1>1, <1>3 DEF Crash, Idle, SInv, NothingIsSaved
<1>4. CASE Tick
  BY <1>0, <1>4 DEF Tick, SInv, NothingIsSaved
<1>5. ASSUME NEW k \in Key, Change(k) PROVE UNCHANGED <<saver, now, file>>
  BY <1>5 DEF Change
<1>6. CASE \E k \in Key : Delete(k) \/ \E o \in Object : Put(k, o)
  BY <1>0, <1>5, <1>6 DEF Delete, Put, SInv, NothingIsSaved
<1>7. ASSUME NEW s \in Saver, BGSave(s) PROVE SInv'
  <2>1. [Idle EXCEPT !.pc = "collect", !.at = now] \in States
    BY <1>0 DEF Idle
  <2>2. saver' = [saver EXCEPT ![s] = [Idle EXCEPT !.pc = "collect", !.at = now]]
        /\ UNCHANGED <<now, file>>
    BY <1>7 DEF BGSave
  <2>3. ([Idle EXCEPT !.pc = "collect", !.at = now]).pc = "collect"
    BY DEF Idle
  <2> QED
    BY <1>0, <2>1, <2>2, <2>3 DEF SInv, NothingIsSaved
<1>8. ASSUME NEW s \in Saver, NEW k \in Key, Collect(s, k) PROVE SInv'
  <2>1. /\ saver' = [saver EXCEPT ![s] = [saver[s] EXCEPT !.seen = @ \cup {k}, !.entries = <<>>]]
        /\ UNCHANGED <<now, file>>
    <3>1. saver[s] \in States /\ saver[s].entries = <<>>
      BY <1>0
    <3>2. Collected(k, store[k], saver[s].at) = <<>>
      BY NothingIsCollected
    <3>3. (IF k \in DOMAIN store THEN saver[s].entries \o Collected(k, store[k], saver[s].at)
           ELSE saver[s].entries) = <<>>
      BY <3>1, <3>2
    <3> HIDE DEF States
    <3> QED
      BY <1>8, <3>3 DEF Collect
  <2>2. [saver[s] EXCEPT !.seen = @ \cup {k}, !.entries = <<>>] \in States
    BY <1>0
  <2>3. saver' \in [Saver -> States]
    BY <1>0, <2>1, <2>2
  <2>4. \A t \in Saver : saver'[t].pc = saver[t].pc
    BY <1>0, <2>1
  <2> QED
    BY <1>0, <2>1, <2>3, <2>4 DEF SInv, NothingIsSaved
<1>9. ASSUME NEW s \in Saver, Truncate(s) PROVE SInv'
  BY <1>0, <1>9 DEF Truncate, SInv, NothingIsSaved
<1>10. ASSUME NEW s \in Saver, saver[s].pc = "write"
       PROVE  file \in Seq(Items) /\ Generated(saver[s].entries, saver[s].at) \in Seq(Items)
  BY <1>0, <1>10, EmptyDump
<1>11. ASSUME NEW s \in Saver, WriteAll(s) PROVE SInv'
  <2>1. file' \in Seq(Items)
    BY <1>10, <1>11, OverStays DEF WriteAll
  <2> QED
    BY <1>0, <1>1, <1>11, <2>1 DEF WriteAll, SInv, NothingIsSaved
<1>12. ASSUME NEW s \in Saver, WriteShort(s) PROVE SInv'
  <2> DEFINE data == Generated(saver[s].entries, saver[s].at)
  <2>1. data \in Seq(Items) /\ file \in Seq(Items)
    BY <1>10, <1>12 DEF WriteShort
  <2> HIDE DEF data
  <2>2. PICK n \in 0..(Len(data) - 1) : file' = Over(SubSeq(data, 1, n), file)
    BY <1>12 DEF WriteShort, data
  <2>3. SubSeq(data, 1, n) \in Seq(Items)
    BY <2>1
  <2>4. file' \in Seq(Items)
    BY <2>1, <2>2, <2>3, OverStays
  <2> QED
    BY <1>0, <1>1, <1>12, <2>4 DEF WriteShort, SInv, NothingIsSaved
<1>13. CASE UNCHANGED vars
  BY <1>0, <1>13 DEF vars, SInv, NothingIsSaved
<1> QED
  BY <1>2, <1>3, <1>4, <1>6, <1>7, <1>8, <1>9, <1>11, <1>12, <1>13 DEF Next

\* Whatever the store holds, BGSAVE collects nothing and writes a dump without a
\* pair: for any keys, strings, first dump and number of saves at a time.
THEOREM SavesAreEmpty == Spec => []NothingIsSaved
<1>1. SInv => NothingIsSaved
  BY DEF SInv
<1> QED
  BY SaveInit, SaveNext, <1>1, PTL DEF Spec
=============================================================================
