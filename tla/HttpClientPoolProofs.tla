------------------------ MODULE HttpClientPoolProofs ------------------------
(***************************************************************************)
(* The safety of HttpClientPool for every set of hostnames, finite or not, *)
(* any way to spread them over shards, every limit and any finite number   *)
(* of threads.                                                             *)
(*                                                                         *)
(* All of it rests on one fact: a call that found the map full waits for a *)
(* lock that it holds itself, so that nothing is ever removed.             *)
(***************************************************************************)
EXTENDS HttpClientPool, FiniteSetTheorems, TLAPS

\* The hostnames with a client, and the calls that were told there is room.
Present == {n \in Names : clients[n] # None}
Inserting == {c \in Calls : pc[c] = "insert"}

\* What a call has follows from where it is.  A client that it was given, or will
\* read back, is that of the map.
Shape ==
    \A c \in Calls :
        /\ name[c] # None <=> pc[c] # "idle"
        /\ victim[c] # None <=> pc[c] = "remove"
        /\ pc[c] \in {"read", "using"} => clients[name[c]] # None
        /\ pc[c] = "using" => got[c] = clients[name[c]]

\* Each thread that was told that there is room can add one client, and one of
\* them saw the map below its limit.
Bounded ==
    /\ IsFiniteSet(Present)
    /\ Cardinality(Present) + Cardinality(Inserting) < MaxClients + Cardinality(Calls)

HttpInv == TypeOK /\ Shape /\ Bounded

-----------------------------------------------------------------------------
\* Calls are counted.
LEMMA CallsAreCounted ==
    /\ MaxClients \in Nat /\ MaxClients > 0
    /\ Cardinality(Calls) \in Nat
    /\ \A S \in SUBSET Calls :
          /\ IsFiniteSet(S)
          /\ Cardinality(S) \in Nat
          /\ Cardinality(S) <= Cardinality(Calls)
<1>1. MaxClients \in Nat \ {0} /\ IsFiniteSet(Calls)
  BY HttpClientPoolAssumption
<1>2. \A S \in SUBSET Calls : IsFiniteSet(S) /\ Cardinality(S) <= Cardinality(Calls)
  BY <1>1, FS_Subset
<1> QED BY <1>1, <1>2, FS_CardinalityType

\* The map is empty and nobody asked.
LEMMA HttpStarts == Init => HttpInv
<1> SUFFICES ASSUME Init PROVE HttpInv
  OBVIOUS
<1>1. TypeOK /\ Shape
  BY HttpClientPoolAssumption DEF Init, TypeOK, Shape
<1>2. Present = {} /\ Inserting = {}
  BY DEF Init, Present, Inserting
<1>3. Bounded
  BY <1>2, CallsAreCounted, FS_EmptySet DEF Bounded
<1> QED BY <1>1, <1>3 DEF HttpInv

\* The iterator a call keeps stands on the shard it wants to write to: whoever
\* found the map full never writes.
LEMMA RemovalIsStuck ==
    ASSUME HttpInv, NEW c \in Calls, Write(c)
    PROVE  pc[c] = "insert"
<1> SUFFICES ASSUME pc[c] = "remove" PROVE FALSE
  BY DEF Write
<1>1. ReadLocked(Shard[victim[c]])
  BY DEF ReadLocked
<1> QED BY <1>1 DEF Write

\* A call moves on, not to insert, and the map stays as it is.
LEMMA MovesKeep ==
    ASSUME TypeOK, Bounded, UNCHANGED clients,
           NEW c \in Calls, NEW to, to # "insert", pc' = [pc EXCEPT ![c] = to]
    PROVE  Bounded'
<1>1. Present' = Present /\ Inserting' \subseteq Inserting /\ Inserting \subseteq Calls
  BY DEF TypeOK, Present, Inserting
<1>2. Cardinality(Inserting') <= Cardinality(Inserting)
  BY <1>1, CallsAreCounted, FS_Subset
<1>3. Cardinality(Present) \in Nat
  BY FS_CardinalityType DEF Bounded
<1> QED BY <1>1, <1>2, <1>3, CallsAreCounted DEF Bounded

\* An insert adds at most one client, and takes one from those that may insert.
LEMMA InsertKeeps ==
    ASSUME HttpInv, NEW c \in Calls, Write(c)
    PROVE  HttpInv'
<1> USE DEF HttpInv
<1>1. /\ pc[c] = "insert" /\ pc' = [pc EXCEPT ![c] = "read"]
      /\ clients' = Stored(c) /\ victim' = [victim EXCEPT ![c] = None]
      /\ UNCHANGED <<name, got>>
  BY RemovalIsStuck DEF Write
<1>2. name[c] \in Names /\ name[c] # None /\ c # None /\ victim[c] = None
  BY <1>1, HttpClientPoolAssumption DEF TypeOK, Shape
<1>3. TypeOK'
  BY <1>1, <1>2 DEF TypeOK, Stored
<1>4. /\ clients'[name[c]] # None
      /\ \A n \in Names : clients[n] # None => clients'[n] = clients[n]
  BY <1>1, <1>2 DEF TypeOK, Stored
<1>5. Shape'
  <2> SUFFICES ASSUME NEW d \in Calls
               PROVE  /\ name'[d] # None <=> pc'[d] # "idle"
                      /\ victim'[d] # None <=> pc'[d] = "remove"
                      /\ pc'[d] \in {"read", "using"} => clients'[name'[d]] # None
                      /\ pc'[d] = "using" => got'[d] = clients'[name'[d]]
    BY DEF Shape
  <2>1. name[d] \in Names \cup {None}
    BY DEF TypeOK
  <2>2. CASE d = c
    BY <1>1, <1>2, <1>4, <2>2 DEF TypeOK
  <2>3. CASE d # c
    <3>1. pc'[d] = pc[d] /\ victim'[d] = victim[d]
      BY <1>1, <2>3 DEF TypeOK
    <3> QED BY <1>1, <1>4, <2>1, <3>1 DEF Shape
  <2> QED BY <2>2, <2>3
<1>6. Present' = Present \cup {name[c]}
  BY <1>1, <1>2 DEF Present, Stored, TypeOK
<1>7. Inserting' = Inserting \ {c} /\ c \in Inserting /\ Inserting \subseteq Calls
  BY <1>1 DEF Inserting, TypeOK
<1>8. /\ IsFiniteSet(Present') /\ Cardinality(Present) \in Nat
      /\ Cardinality(Present') \in Nat /\ Cardinality(Present') <= Cardinality(Present) + 1
  BY <1>6, FS_AddElement, FS_CardinalityType DEF Bounded
<1>9. Cardinality(Inserting') = Cardinality(Inserting) - 1
  BY <1>7, CallsAreCounted, FS_RemoveElement
<1>10. Bounded'
  BY <1>7, <1>8, <1>9, CallsAreCounted DEF Bounded
<1> QED BY <1>3, <1>5, <1>10

\* A call that sees the map below its limit may insert, and so may all others.
LEMMA RoomKeeps ==
    ASSUME HttpInv, NEW c \in Calls, HasRoom(c)
    PROVE  Bounded'
<1>1. Present' = Present /\ Inserting' \subseteq Calls
  BY DEF HasRoom, Present, Inserting
<1>2. Cardinality(Present) < MaxClients
  BY DEF HasRoom, Size, Present
<1>3. Cardinality(Present) \in Nat
  BY FS_CardinalityType DEF HttpInv, Bounded
<1> QED BY <1>1, <1>2, <1>3, CallsAreCounted DEF HttpInv, Bounded

\* Every step keeps the invariant.
LEMMA HttpInvKept == HttpInv /\ [Next]_vars => HttpInv'
<1> SUFFICES ASSUME HttpInv, [Next]_vars PROVE HttpInv'
  OBVIOUS
<1> USE HttpClientPoolAssumption DEF HttpInv, Goto
<1>1. ASSUME NEW c \in Calls, NEW n \in Names, Ask(c, n) PROVE HttpInv'
  <2>1. Bounded'
    BY <1>1, MovesKeep DEF Ask
  <2> QED BY <1>1, <2>1 DEF Ask, TypeOK, Shape
<1>2. ASSUME NEW c \in Calls, LookupHit(c) PROVE HttpInv'
  <2>1. Bounded'
    BY <1>2, MovesKeep DEF LookupHit
  <2> QED BY <1>2, <2>1 DEF LookupHit, TypeOK, Shape
<1>3. ASSUME NEW c \in Calls, LookupMiss(c) PROVE HttpInv'
  <2>1. Bounded'
    BY <1>3, MovesKeep DEF LookupMiss
  <2> QED BY <1>3, <2>1 DEF LookupMiss, TypeOK, Shape
<1>4. ASSUME NEW c \in Calls, HasRoom(c) PROVE HttpInv'
  BY <1>4, RoomKeeps DEF HasRoom, TypeOK, Shape
<1>5. ASSUME NEW c \in Calls, PickVictim(c) PROVE HttpInv'
  <2>1. Bounded'
    BY <1>5, MovesKeep DEF PickVictim
  <2> QED BY <1>5, <2>1 DEF PickVictim, TypeOK, Shape
<1>6. ASSUME NEW c \in Calls, Write(c) PROVE HttpInv'
  BY <1>6, InsertKeeps
<1>7. ASSUME NEW c \in Calls, ReadBack(c) PROVE HttpInv'
  <2>1. Bounded'
    BY <1>7, MovesKeep DEF ReadBack
  <2> QED BY <1>7, <2>1 DEF ReadBack, TypeOK, Shape
<1>8. ASSUME NEW c \in Calls, Done(c) PROVE HttpInv'
  <2>1. Bounded'
    BY <1>8, MovesKeep DEF Done
  <2> QED BY <1>8, <2>1 DEF Done, TypeOK, Shape
<1>9. CASE UNCHANGED vars
  BY <1>9 DEF vars, TypeOK, Shape, Bounded, Present, Inserting
<1> QED BY <1>1, <1>2, <1>3, <1>4, <1>5, <1>6, <1>7, <1>8, <1>9 DEF Next, GetClient

-----------------------------------------------------------------------------
\* The invariant of the DoH client pool.
THEOREM HttpInvariant == Spec => []HttpInv
BY HttpStarts, HttpInvKept, PTL DEF Spec

\* Every variable has its type.
THEOREM HttpTypes == Spec => []TypeOK
BY HttpInvariant, PTL DEF HttpInv

\* Concurrent misses exceed the limit by less than there are threads: the check
\* of len() and the insert of get_client are not one step.
THEOREM HttpSizeWithinRace == Spec => []SizeWithinRace
<1>1. HttpInv => SizeWithinRace
  <2> SUFFICES ASSUME HttpInv PROVE SizeWithinRace
    OBVIOUS
  <2>1. Size = Cardinality(Present) /\ Cardinality(Present) \in Nat
    BY FS_CardinalityType DEF HttpInv, Bounded, Size, Present
  <2>2. Cardinality(Inserting) \in Nat
    BY CallsAreCounted DEF Inserting
  <2> QED BY <2>1, <2>2, CallsAreCounted DEF HttpInv, Bounded, SizeWithinRace
<1> QED BY <1>1, HttpInvariant, PTL

\* Calls that use a client for the same hostname use the same one, however their
\* misses interleaved.
THEOREM HttpOneClientPerName == Spec => []OneClientPerName
<1>1. HttpInv => OneClientPerName
  BY DEF HttpInv, Shape, OneClientPerName
<1> QED BY <1>1, HttpInvariant, PTL

\* What stands against the comment in get_client, for every instance: a call that
\* is to evict an entry never gets past it, also when it is alone ...
THEOREM HttpEvictionNeverEnds ==
    Spec => [][\A c \in Calls : pc[c] = "remove" => pc'[c] = "remove"]_vars
<1> DEFINE Stuck == \A c \in Calls : pc[c] = "remove" => pc'[c] = "remove"
<1>1. ASSUME HttpInv, [Next]_vars PROVE [Stuck]_vars
  <2> SUFFICES ASSUME NEW c \in Calls, pc[c] = "remove", Next PROVE pc'[c] = "remove"
    BY <1>1
  <2>1. PICK d \in Calls : (\E n \in Names : Ask(d, n)) \/ GetClient(d) \/ Done(d)
    BY DEF Next
  <2>2. CASE Write(d)
    <3>1. pc[d] = "insert"
      BY <1>1, <2>2, RemovalIsStuck
    <3> QED BY <1>1, <2>2, <3>1 DEF Write, HttpInv, TypeOK
  <2>3. CASE ~Write(d)
    BY <1>1, <2>1, <2>3 DEF HttpInv, TypeOK, Goto, Ask, GetClient, LookupHit, LookupMiss,
       HasRoom, PickVictim, ReadBack, Done
  <2> QED BY <2>2, <2>3
<1> QED BY <1>1, HttpInvariant, PTL DEF Spec

\* ... and so no client ever leaves the map, whatever the limit.
THEOREM HttpClientsStay ==
    Spec => [][\A n \in Names : clients[n] # None => clients'[n] = clients[n]]_vars
<1> DEFINE Stays == \A n \in Names : clients[n] # None => clients'[n] = clients[n]
<1>1. ASSUME HttpInv, [Next]_vars PROVE [Stays]_vars
  <2> SUFFICES ASSUME Next PROVE Stays
    BY <1>1
  <2>1. PICK c \in Calls : (\E n \in Names : Ask(c, n)) \/ GetClient(c) \/ Done(c)
    BY DEF Next
  <2>2. CASE Write(c)
    BY <1>1, <2>2, RemovalIsStuck DEF Write, Stored, HttpInv, TypeOK
  <2>3. CASE ~Write(c)
    BY <2>1, <2>3 DEF Ask, GetClient, LookupHit, LookupMiss, HasRoom, PickVictim, ReadBack, Done
  <2> QED BY <2>2, <2>3
<1> QED BY <1>1, HttpInvariant, PTL DEF Spec
=============================================================================
