--------------------------- MODULE QuicPoolProofs ---------------------------
(***************************************************************************)
(* The safety of QuicPool for every set of requests, authorities and       *)
(* leases and every capacity, in both variants.                            *)
(***************************************************************************)
EXTENDS QuicPool, FiniteSetTheorems, TLAPS

Reserving == {"recheck", "connect", "publish", "surplus"}
Borrowing == {"surplus", "using", "invalidate", "failed"}

\* What a request holds follows from where it is.
Shape ==
    \A r \in Requests :
        /\ target[r] # None <=> pc[r] # "idle"
        /\ own[r] # None <=> pc[r] \in Reserving
        /\ lease[r] # None <=> pc[r] \in Borrowing
        /\ hand[r] # None <=> pc[r] = "evicted"

\* A slot that was reserved and not published, and an entry that was evicted
\* and not dropped, has one holder: nobody else can reach it.
Owned ==
    \A r \in Requests :
        /\ own[r] # None =>
              /\ authority[own[r]] = target[r]
              /\ \A q \in Requests :
                    /\ own[r] \notin {lease[q], hand[q]}
                    /\ own[r] = own[q] => q = r
        /\ hand[r] # None =>
              \A q \in Requests :
                    /\ hand[r] # lease[q]
                    /\ hand[r] = hand[q] => q = r
        /\ pc[r] = "publish" => status[own[r]] # "none"

\* A lease that is borrowed is that of a session, to the authority its borrower
\* asked for.
Lent ==
    \A r \in Requests : lease[r] # None =>
        /\ status[lease[r]] # "none"
        /\ authority[lease[r]] = target[r]

\* The slots in use are finitely many, and the other permits are available.
Accounted ==
    /\ IsFiniteSet(Live)
    /\ free + Cardinality(Live) = MaxEntries

\* The inductive invariant.
PoolInv ==
    /\ TypeOK
    /\ Shape
    /\ Owned
    /\ Lent
    /\ CacheIsConsistent
    /\ Accounted

-----------------------------------------------------------------------------
\* Accounting

\* TypeOK without the number of available permits, which follows from Accounted.
Typed ==
    /\ pc \in [Requests -> PCs]
    /\ target \in [Requests -> Keys \cup {None}]
    /\ own \in [Requests -> Leases \cup {None}]
    /\ lease \in [Requests -> Leases \cup {None}]
    /\ hand \in [Requests -> Leases \cup {None}]
    /\ entries \in [Keys -> Leases \cup {None}]
    /\ older \subseteq Keys \X Keys
    /\ authority \in [Leases -> Keys \cup {None}]
    /\ status \in [Leases -> {"none", "open", "closed", "dead"}]

\* When the slots in gone leave the slots in use and their permits come back,
\* the sum does not change.
LEMMA PermitsReturn ==
    ASSUME NEW live, NEW live2, NEW gone, NEW f \in Nat, NEW f2, NEW total,
           IsFiniteSet(live), gone \subseteq live, live2 = live \ gone,
           f2 = f + Cardinality(gone), f + Cardinality(live) = total
    PROVE  IsFiniteSet(live2) /\ f2 \in Nat /\ f2 + Cardinality(live2) = total
<1>1. IsFiniteSet(gone) /\ Cardinality(gone) \in Nat /\ Cardinality(live) \in Nat
    BY FS_Subset, FS_CardinalityType
<1>2. live \cap gone = gone
    OBVIOUS
<1>3. /\ IsFiniteSet(live2)
      /\ Cardinality(live2) = Cardinality(live) - Cardinality(gone)
    BY <1>2, FS_Difference
<1>4. QED
    BY <1>1, <1>3

\* When a permit is taken for a slot that was not in use, neither.
LEMMA PermitTaken ==
    ASSUME NEW live, NEW live2, NEW x, NEW f \in Nat, NEW f2, NEW total,
           IsFiniteSet(live), x \notin live, live2 = live \cup {x},
           f > 0, f2 = f - 1, f + Cardinality(live) = total
    PROVE  IsFiniteSet(live2) /\ f2 \in Nat /\ f2 + Cardinality(live2) = total
<1>1. IsFiniteSet(live2) /\ Cardinality(live2) = Cardinality(live) + 1
    BY FS_AddElement
<1>2. Cardinality(live) \in Nat
    BY FS_CardinalityType
<1>3. QED
    BY <1>1, <1>2

-----------------------------------------------------------------------------
\* What each operation does to the slots in use

\* Most operations leave them alone: they move a request on, or add a
\* reference to a slot that has one already.
LEMMA LiveKept ==
    ASSUME PoolInv
    PROVE  /\ \A r \in Requests, k \in Keys : Start(r, k) => Live' = Live
           /\ \A r \in Requests :
                 \/ LookupHit(r)
                 \/ AcquireFull(r)
                 \/ Overloaded(r)
                 \/ RecheckHit(r)
                 \/ RecheckMiss(r)
                 \/ ConnectOk(r)
                 \/ PublishHit(r)
                 \/ UseFails(r)
                 => Live' = Live
           /\ \A x \in Leases : Network(x) => Live' = Live
<1> USE QuicPoolAssumption
        DEF PoolInv, TypeOK, PCs, Shape, Reserving, Borrowing, Owned,
            Lent, CacheIsConsistent, Goto
<1>1. ASSUME NEW r \in Requests, NEW k \in Keys, Start(r, k)
      PROVE  Live' = Live
    BY <1>1 DEF Start, Live, Cached, Borrowers
<1>2. ASSUME NEW r \in Requests, LookupHit(r)
      PROVE  Live' = Live
    BY <1>2 DEF LookupHit, Hit, Live, Cached, Borrowers
<1>3. ASSUME NEW r \in Requests, AcquireFull(r)
      PROVE  Live' = Live
    BY <1>3 DEF AcquireFull, Live, Cached, Borrowers
<1>4. ASSUME NEW r \in Requests, Overloaded(r)
      PROVE  Live' = Live
    BY <1>4 DEF Overloaded, Live, Cached, Borrowers
<1>5. ASSUME NEW r \in Requests, RecheckHit(r)
      PROVE  Live' = Live
    BY <1>5 DEF RecheckHit, Hit, Live, Cached, Borrowers
<1>6. ASSUME NEW r \in Requests, RecheckMiss(r)
      PROVE  Live' = Live
    BY <1>6 DEF RecheckMiss, Live, Cached, Borrowers
<1>7. ASSUME NEW r \in Requests, ConnectOk(r)
      PROVE  Live' = Live
    BY <1>7 DEF ConnectOk, Live, Cached, Borrowers
<1>8. ASSUME NEW r \in Requests, PublishHit(r)
      PROVE  Live' = Live
    BY <1>8 DEF PublishHit, Hit, Live, Cached, Borrowers
<1>9. ASSUME NEW r \in Requests, UseFails(r)
      PROVE  Live' = Live
    BY <1>9 DEF UseFails, Live, Cached, Borrowers
<1>10. ASSUME NEW x \in Leases, ConnectionCloses(x)
      PROVE  Live' = Live
    BY <1>10 DEF ConnectionCloses, Live, Cached, Borrowers
<1>11. ASSUME NEW x \in Leases, DriverEnds(x)
      PROVE  Live' = Live
    BY <1>11 DEF DriverEnds, Live, Cached, Borrowers
<1>12. QED
    BY <1>1, <1>2, <1>3, <1>4, <1>5, <1>6, <1>7, <1>8, <1>9, <1>10, <1>11 DEF
       Network

\* A permit is taken for a slot that was not in use.
LEMMA LiveGrows ==
    ASSUME PoolInv, NEW r \in Requests,
           Acquire(r) \/ Reacquire(r)
    PROVE  \E x \in Leases \ Live : Live' = Live \cup {x}
<1> USE QuicPoolAssumption
        DEF PoolInv, TypeOK, PCs, Shape, Reserving, Borrowing, Owned,
            Lent, CacheIsConsistent, Goto
<1>1. CASE Acquire(r)
    BY <1>1 DEF Acquire, TakePermit, Live, Cached, Borrowers
<1>2. CASE Reacquire(r)
    BY <1>2 DEF Reacquire, TakePermit, Live, Cached, Borrowers
<1>3. QED
    BY <1>1, <1>2

\* The leases in gone, and no others, leave the slots in use.
Leave(gone) == gone \subseteq Live /\ Live' = Live \ gone

\* The other operations give back exactly what they pass to Drop: the places
\* where the code lets go of an Arc do not miss the last reference, and do not
\* take one that is not the last for it.
LEMMA LiveShrinks ==
    ASSUME PoolInv, NEW r \in Requests
    PROVE  /\ LookupMiss(r) => Leave(OnlyCached({target[r]}))
           /\ EvictIdle(r) => Leave(OnlyCached(Dead))
           /\ EvictNothing(r) => Leave(OnlyCached(Dead))
           /\ DropEvicted(r) => Leave(LastHeldBy(r, hand[r]))
           /\ Abandon(r) => Leave(LastHeldBy(r, own[r]))
           /\ PublishInsert(r) => Leave(OnlyCached({target[r]}))
           /\ DropSurplus(r) => Leave(LastHeldBy(r, own[r]))
           /\ Invalidate(r) => Leave(OnlyCached({target[r]}))
           /\ Finish(r) => Leave(LastHeldBy(r, lease[r]))
<1> USE QuicPoolAssumption
        DEF PoolInv, TypeOK, PCs, Shape, Reserving, Borrowing, Owned,
            Lent, CacheIsConsistent, Goto, Leave
<1>1. LookupMiss(r) => Leave(OnlyCached({target[r]}))
    BY DEF LookupMiss, Hit, RemoveEntries, Drop, OnlyCached, IsIdle, Live,
       Cached, Borrowers
<1>2. EvictIdle(r) => Leave(OnlyCached(Dead))
    BY DEF EvictIdle, Hit, RemoveEntries, Drop, OnlyCached, IsIdle, Dead,
       Evictable, Live, Cached, Borrowers
<1>3. EvictNothing(r) => Leave(OnlyCached(Dead))
    BY DEF EvictNothing, Hit, RemoveEntries, Drop, OnlyCached, IsIdle, Dead,
       Evictable, Live, Cached, Borrowers
<1>4. DropEvicted(r) => Leave(LastHeldBy(r, hand[r]))
    BY DEF DropEvicted, Drop, LastHeldBy, Live, Cached, Borrowers
<1>5. Abandon(r) => Leave(LastHeldBy(r, own[r]))
    BY DEF Abandon, Drop, LastHeldBy, Live, Cached, Borrowers
<1>6. PublishInsert(r) => Leave(OnlyCached({target[r]}))
    BY DEF PublishInsert, Hit, Touch, Drop, OnlyCached, IsIdle, Live, Cached,
       Borrowers
<1>7. DropSurplus(r) => Leave(LastHeldBy(r, own[r]))
    BY DEF DropSurplus, Drop, LastHeldBy, Live, Cached, Borrowers
<1>8. Invalidate(r) => Leave(OnlyCached({target[r]}))
    BY DEF Invalidate, RemoveEntries, Drop, OnlyCached, IsIdle, Live, Cached,
       Borrowers
<1>9. Finish(r) => Leave(LastHeldBy(r, lease[r]))
    BY DEF Finish, Drop, LastHeldBy, Live, Cached, Borrowers
<1>10. QED
    BY <1>1, <1>2, <1>3, <1>4, <1>5, <1>6, <1>7, <1>8, <1>9

-----------------------------------------------------------------------------
\* The invariant holds initially and every step preserves it

LEMMA PoolInit == Init => PoolInv
<1> SUFFICES ASSUME Init PROVE PoolInv
    OBVIOUS
<1>1. TypeOK
    BY QuicPoolAssumption DEF Init, TypeOK, PCs
<1>2. Live = {}
    BY QuicPoolAssumption DEF Init, Live, Cached, Borrowers
<1>3. Accounted
    BY <1>2, FS_EmptySet, QuicPoolAssumption DEF Init, Accounted
<1>4. Shape /\ Owned /\ Lent /\ CacheIsConsistent
    BY DEF Init, Shape, Owned, Lent, CacheIsConsistent, Reserving, Borrowing
<1>5. QED
    BY <1>1, <1>3, <1>4 DEF PoolInv

LEMMA PoolStep == PoolInv /\ [Next]_vars => PoolInv'
<1> SUFFICES ASSUME PoolInv, [Next]_vars PROVE PoolInv'
    OBVIOUS
<1> USE QuicPoolAssumption
        DEF PoolInv, TypeOK, Typed, PCs, Shape, Reserving, Borrowing, Owned,
            Lent, CacheIsConsistent, Goto
<1>1. ASSUME NEW r \in Requests, NEW k \in Keys, Start(r, k)
      PROVE  PoolInv'
    <2>1. Typed' /\ Shape'
        BY <1>1 DEF Start
    <2>2. Owned' /\ Lent' /\ CacheIsConsistent'
        BY <1>1 DEF Start
    <2>3. Live' = Live
        BY <1>1, LiveKept
    <2>4. Accounted' /\ free' \in Nat
        BY <1>1, <2>3 DEF Start, Accounted
    <2>5. QED
        BY <2>1, <2>2, <2>4
<1>2. ASSUME NEW r \in Requests, LookupHit(r)
      PROVE  PoolInv'
    <2>1. Typed' /\ Shape'
        BY <1>2 DEF LookupHit, Hit, Touch
    <2>2. Owned' /\ Lent' /\ CacheIsConsistent'
        BY <1>2 DEF LookupHit, Hit, Touch
    <2>3. Live' = Live
        BY <1>2, LiveKept
    <2>4. Accounted' /\ free' \in Nat
        BY <1>2, <2>3 DEF LookupHit, Accounted
    <2>5. QED
        BY <2>1, <2>2, <2>4
<1>3. ASSUME NEW r \in Requests, LookupMiss(r)
      PROVE  PoolInv'
    <2> DEFINE gone == OnlyCached({target[r]})
    <2>1. Typed' /\ Shape'
        BY <1>3 DEF LookupMiss, Hit, RemoveEntries, Drop
    <2>2. Owned'
        BY <1>3 DEF LookupMiss, Hit, RemoveEntries, Drop, OnlyCached, IsIdle,
           Live, Cached, Borrowers
    <2>3. Lent'
        BY <1>3 DEF LookupMiss, Hit, RemoveEntries, Drop, OnlyCached, IsIdle,
           Live, Cached, Borrowers
    <2>4. CacheIsConsistent'
        BY <1>3 DEF LookupMiss, Hit, RemoveEntries, Drop, OnlyCached, IsIdle,
           Live, Cached, Borrowers
    <2>5. Leave(gone)
        BY <1>3, LiveShrinks
    <2>6. free' = free + Cardinality(gone)
        BY <1>3 DEF LookupMiss, Drop
    <2> HIDE DEF gone
    <2>7. Accounted' /\ free' \in Nat
        BY <2>5, <2>6, PermitsReturn DEF Leave, Accounted
    <2>8. QED
        BY <2>1, <2>2, <2>3, <2>4, <2>7
<1>4. ASSUME NEW r \in Requests, Acquire(r)
      PROVE  PoolInv'
    <2>1. Typed' /\ Shape'
        BY <1>4 DEF Acquire, TakePermit
    <2>2. Owned'
        BY <1>4 DEF Acquire, TakePermit, Live, Cached, Borrowers
    <2>3. Lent'
        BY <1>4 DEF Acquire, TakePermit, Live, Cached, Borrowers
    <2>4. CacheIsConsistent'
        BY <1>4 DEF Acquire, TakePermit, Live, Cached, Borrowers
    <2>5. PICK x \in Leases \ Live : Live' = Live \cup {x}
        BY <1>4, LiveGrows
    <2>6. Accounted' /\ free' \in Nat
        BY <1>4, <2>5, PermitTaken DEF Acquire, TakePermit, Accounted
    <2>7. QED
        BY <2>1, <2>2, <2>3, <2>4, <2>6
<1>5. ASSUME NEW r \in Requests, AcquireFull(r)
      PROVE  PoolInv'
    <2>1. Typed' /\ Shape'
        BY <1>5 DEF AcquireFull
    <2>2. Owned' /\ Lent' /\ CacheIsConsistent'
        BY <1>5 DEF AcquireFull
    <2>3. Live' = Live
        BY <1>5, LiveKept
    <2>4. Accounted' /\ free' \in Nat
        BY <1>5, <2>3 DEF AcquireFull, Accounted
    <2>5. QED
        BY <2>1, <2>2, <2>4
<1>6. ASSUME NEW r \in Requests, EvictIdle(r)
      PROVE  PoolInv'
    <2> DEFINE gone == OnlyCached(Dead)
    <2>1. Typed' /\ Shape'
        BY <1>6 DEF EvictIdle, Hit, RemoveEntries, Drop, Evictable
    <2>2. Owned'
        BY <1>6 DEF EvictIdle, Hit, RemoveEntries, Drop, OnlyCached, IsIdle,
           Dead, Evictable, Live, Cached, Borrowers
    <2>3. Lent'
        BY <1>6 DEF EvictIdle, Hit, RemoveEntries, Drop, OnlyCached, IsIdle,
           Dead, Evictable, Live, Cached, Borrowers
    <2>4. CacheIsConsistent'
        BY <1>6 DEF EvictIdle, Hit, RemoveEntries, Drop, OnlyCached, IsIdle,
           Dead, Evictable, Live, Cached, Borrowers
    <2>5. Leave(gone)
        BY <1>6, LiveShrinks
    <2>6. free' = free + Cardinality(gone)
        BY <1>6 DEF EvictIdle, Drop
    <2> HIDE DEF gone
    <2>7. Accounted' /\ free' \in Nat
        BY <2>5, <2>6, PermitsReturn DEF Leave, Accounted
    <2>8. QED
        BY <2>1, <2>2, <2>3, <2>4, <2>7
<1>7. ASSUME NEW r \in Requests, EvictNothing(r)
      PROVE  PoolInv'
    <2> DEFINE gone == OnlyCached(Dead)
    <2>1. Typed' /\ Shape'
        BY <1>7 DEF EvictNothing, Hit, RemoveEntries, Drop
    <2>2. Owned'
        BY <1>7 DEF EvictNothing, Hit, RemoveEntries, Drop, OnlyCached,
           IsIdle, Dead, Evictable, Live, Cached, Borrowers
    <2>3. Lent'
        BY <1>7 DEF EvictNothing, Hit, RemoveEntries, Drop, OnlyCached,
           IsIdle, Dead, Evictable, Live, Cached, Borrowers
    <2>4. CacheIsConsistent'
        BY <1>7 DEF EvictNothing, Hit, RemoveEntries, Drop, OnlyCached,
           IsIdle, Dead, Evictable, Live, Cached, Borrowers
    <2>5. Leave(gone)
        BY <1>7, LiveShrinks
    <2>6. free' = free + Cardinality(gone)
        BY <1>7 DEF EvictNothing, Drop
    <2> HIDE DEF gone
    <2>7. Accounted' /\ free' \in Nat
        BY <2>5, <2>6, PermitsReturn DEF Leave, Accounted
    <2>8. QED
        BY <2>1, <2>2, <2>3, <2>4, <2>7
<1>8. ASSUME NEW r \in Requests, DropEvicted(r)
      PROVE  PoolInv'
    <2> DEFINE gone == LastHeldBy(r, hand[r])
    <2>1. Typed' /\ Shape'
        BY <1>8 DEF DropEvicted, Drop
    <2>2. Owned'
        BY <1>8 DEF DropEvicted, Drop, LastHeldBy, Live, Cached, Borrowers
    <2>3. Lent'
        BY <1>8 DEF DropEvicted, Drop, LastHeldBy, Live, Cached, Borrowers
    <2>4. CacheIsConsistent'
        BY <1>8 DEF DropEvicted, Drop, LastHeldBy, Live, Cached, Borrowers
    <2>5. Leave(gone)
        BY <1>8, LiveShrinks
    <2>6. free' = free + Cardinality(gone)
        BY <1>8 DEF DropEvicted, Drop
    <2> HIDE DEF gone
    <2>7. Accounted' /\ free' \in Nat
        BY <2>5, <2>6, PermitsReturn DEF Leave, Accounted
    <2>8. QED
        BY <2>1, <2>2, <2>3, <2>4, <2>7
<1>9. ASSUME NEW r \in Requests, Reacquire(r)
      PROVE  PoolInv'
    <2>1. Typed' /\ Shape'
        BY <1>9 DEF Reacquire, TakePermit
    <2>2. Owned'
        BY <1>9 DEF Reacquire, TakePermit, Live, Cached, Borrowers
    <2>3. Lent'
        BY <1>9 DEF Reacquire, TakePermit, Live, Cached, Borrowers
    <2>4. CacheIsConsistent'
        BY <1>9 DEF Reacquire, TakePermit, Live, Cached, Borrowers
    <2>5. PICK x \in Leases \ Live : Live' = Live \cup {x}
        BY <1>9, LiveGrows
    <2>6. Accounted' /\ free' \in Nat
        BY <1>9, <2>5, PermitTaken DEF Reacquire, TakePermit, Accounted
    <2>7. QED
        BY <2>1, <2>2, <2>3, <2>4, <2>6
<1>10. ASSUME NEW r \in Requests, Overloaded(r)
      PROVE  PoolInv'
    <2>1. Typed' /\ Shape'
        BY <1>10 DEF Overloaded
    <2>2. Owned' /\ Lent' /\ CacheIsConsistent'
        BY <1>10 DEF Overloaded
    <2>3. Live' = Live
        BY <1>10, LiveKept
    <2>4. Accounted' /\ free' \in Nat
        BY <1>10, <2>3 DEF Overloaded, Accounted
    <2>5. QED
        BY <2>1, <2>2, <2>4
<1>11. ASSUME NEW r \in Requests, RecheckHit(r)
      PROVE  PoolInv'
    <2>1. Typed' /\ Shape'
        BY <1>11 DEF RecheckHit, Hit, Touch
    <2>2. Owned' /\ Lent' /\ CacheIsConsistent'
        BY <1>11 DEF RecheckHit, Hit, Touch
    <2>3. Live' = Live
        BY <1>11, LiveKept
    <2>4. Accounted' /\ free' \in Nat
        BY <1>11, <2>3 DEF RecheckHit, Accounted
    <2>5. QED
        BY <2>1, <2>2, <2>4
<1>12. ASSUME NEW r \in Requests, RecheckMiss(r)
      PROVE  PoolInv'
    <2>1. Typed' /\ Shape'
        BY <1>12 DEF RecheckMiss
    <2>2. Owned' /\ Lent' /\ CacheIsConsistent'
        BY <1>12 DEF RecheckMiss
    <2>3. Live' = Live
        BY <1>12, LiveKept
    <2>4. Accounted' /\ free' \in Nat
        BY <1>12, <2>3 DEF RecheckMiss, Accounted
    <2>5. QED
        BY <2>1, <2>2, <2>4
<1>13. ASSUME NEW r \in Requests, ConnectOk(r)
      PROVE  PoolInv'
    <2>1. Typed' /\ Shape'
        BY <1>13 DEF ConnectOk
    <2>2. Owned' /\ Lent' /\ CacheIsConsistent'
        BY <1>13 DEF ConnectOk
    <2>3. Live' = Live
        BY <1>13, LiveKept
    <2>4. Accounted' /\ free' \in Nat
        BY <1>13, <2>3 DEF ConnectOk, Accounted
    <2>5. QED
        BY <2>1, <2>2, <2>4
<1>14. ASSUME NEW r \in Requests, Abandon(r)
      PROVE  PoolInv'
    <2> DEFINE gone == LastHeldBy(r, own[r])
    <2>1. Typed' /\ Shape'
        BY <1>14 DEF Abandon, Drop
    <2>2. Owned'
        BY <1>14 DEF Abandon, Drop, LastHeldBy, Live, Cached, Borrowers
    <2>3. Lent'
        BY <1>14 DEF Abandon, Drop, LastHeldBy, Live, Cached, Borrowers
    <2>4. CacheIsConsistent'
        BY <1>14 DEF Abandon, Drop, LastHeldBy, Live, Cached, Borrowers
    <2>5. Leave(gone)
        BY <1>14, LiveShrinks
    <2>6. free' = free + Cardinality(gone)
        BY <1>14 DEF Abandon, Drop
    <2> HIDE DEF gone
    <2>7. Accounted' /\ free' \in Nat
        BY <2>5, <2>6, PermitsReturn DEF Leave, Accounted
    <2>8. QED
        BY <2>1, <2>2, <2>3, <2>4, <2>7
<1>15. ASSUME NEW r \in Requests, PublishHit(r)
      PROVE  PoolInv'
    <2>1. Typed' /\ Shape'
        BY <1>15 DEF PublishHit, Hit, Touch
    <2>2. Owned' /\ Lent' /\ CacheIsConsistent'
        BY <1>15 DEF PublishHit, Hit, Touch
    <2>3. Live' = Live
        BY <1>15, LiveKept
    <2>4. Accounted' /\ free' \in Nat
        BY <1>15, <2>3 DEF PublishHit, Accounted
    <2>5. QED
        BY <2>1, <2>2, <2>4
<1>16. ASSUME NEW r \in Requests, PublishInsert(r)
      PROVE  PoolInv'
    <2> DEFINE gone == OnlyCached({target[r]})
    <2>1. Typed' /\ Shape'
        BY <1>16 DEF PublishInsert, Hit, Touch, Drop
    <2>2. Owned'
        BY <1>16 DEF PublishInsert, Hit, Touch, Drop, OnlyCached, IsIdle,
           Live, Cached, Borrowers
    <2>3. Lent'
        BY <1>16 DEF PublishInsert, Hit, Touch, Drop, OnlyCached, IsIdle,
           Live, Cached, Borrowers
    <2>4. CacheIsConsistent'
        BY <1>16 DEF PublishInsert, Hit, Touch, Drop, OnlyCached, IsIdle,
           Live, Cached, Borrowers
    <2>5. Leave(gone)
        BY <1>16, LiveShrinks
    <2>6. free' = free + Cardinality(gone)
        BY <1>16 DEF PublishInsert, Drop
    <2> HIDE DEF gone
    <2>7. Accounted' /\ free' \in Nat
        BY <2>5, <2>6, PermitsReturn DEF Leave, Accounted
    <2>8. QED
        BY <2>1, <2>2, <2>3, <2>4, <2>7
<1>17. ASSUME NEW r \in Requests, DropSurplus(r)
      PROVE  PoolInv'
    <2> DEFINE gone == LastHeldBy(r, own[r])
    <2>1. Typed' /\ Shape'
        BY <1>17 DEF DropSurplus, Drop
    <2>2. Owned'
        BY <1>17 DEF DropSurplus, Drop, LastHeldBy, Live, Cached, Borrowers
    <2>3. Lent'
        BY <1>17 DEF DropSurplus, Drop, LastHeldBy, Live, Cached, Borrowers
    <2>4. CacheIsConsistent'
        BY <1>17 DEF DropSurplus, Drop, LastHeldBy, Live, Cached, Borrowers
    <2>5. Leave(gone)
        BY <1>17, LiveShrinks
    <2>6. free' = free + Cardinality(gone)
        BY <1>17 DEF DropSurplus, Drop
    <2> HIDE DEF gone
    <2>7. Accounted' /\ free' \in Nat
        BY <2>5, <2>6, PermitsReturn DEF Leave, Accounted
    <2>8. QED
        BY <2>1, <2>2, <2>3, <2>4, <2>7
<1>18. ASSUME NEW r \in Requests, UseFails(r)
      PROVE  PoolInv'
    <2>1. Typed' /\ Shape'
        BY <1>18 DEF UseFails
    <2>2. Owned' /\ Lent' /\ CacheIsConsistent'
        BY <1>18 DEF UseFails
    <2>3. Live' = Live
        BY <1>18, LiveKept
    <2>4. Accounted' /\ free' \in Nat
        BY <1>18, <2>3 DEF UseFails, Accounted
    <2>5. QED
        BY <2>1, <2>2, <2>4
<1>19. ASSUME NEW r \in Requests, Invalidate(r)
      PROVE  PoolInv'
    <2> DEFINE gone == OnlyCached({target[r]})
    <2>1. Typed' /\ Shape'
        BY <1>19 DEF Invalidate, RemoveEntries, Drop
    <2>2. Owned'
        BY <1>19 DEF Invalidate, RemoveEntries, Drop, OnlyCached, IsIdle,
           Live, Cached, Borrowers
    <2>3. Lent'
        BY <1>19 DEF Invalidate, RemoveEntries, Drop, OnlyCached, IsIdle,
           Live, Cached, Borrowers
    <2>4. CacheIsConsistent'
        BY <1>19 DEF Invalidate, RemoveEntries, Drop, OnlyCached, IsIdle,
           Live, Cached, Borrowers
    <2>5. Leave(gone)
        BY <1>19, LiveShrinks
    <2>6. free' = free + Cardinality(gone)
        BY <1>19 DEF Invalidate, Drop
    <2> HIDE DEF gone
    <2>7. Accounted' /\ free' \in Nat
        BY <2>5, <2>6, PermitsReturn DEF Leave, Accounted
    <2>8. QED
        BY <2>1, <2>2, <2>3, <2>4, <2>7
<1>20. ASSUME NEW r \in Requests, Finish(r)
      PROVE  PoolInv'
    <2> DEFINE gone == LastHeldBy(r, lease[r])
    <2>1. Typed' /\ Shape'
        BY <1>20 DEF Finish, Drop
    <2>2. Owned'
        BY <1>20 DEF Finish, Drop, LastHeldBy, Live, Cached, Borrowers
    <2>3. Lent'
        BY <1>20 DEF Finish, Drop, LastHeldBy, Live, Cached, Borrowers
    <2>4. CacheIsConsistent'
        BY <1>20 DEF Finish, Drop, LastHeldBy, Live, Cached, Borrowers
    <2>5. Leave(gone)
        BY <1>20, LiveShrinks
    <2>6. free' = free + Cardinality(gone)
        BY <1>20 DEF Finish, Drop
    <2> HIDE DEF gone
    <2>7. Accounted' /\ free' \in Nat
        BY <2>5, <2>6, PermitsReturn DEF Leave, Accounted
    <2>8. QED
        BY <2>1, <2>2, <2>3, <2>4, <2>7
<1>21. ASSUME NEW x \in Leases, ConnectionCloses(x)
      PROVE  PoolInv'
    <2>1. Live' = Live
        BY <1>21, LiveKept DEF Network
    <2>2. QED
        BY <1>21, <2>1 DEF ConnectionCloses, Accounted
<1>22. ASSUME NEW x \in Leases, DriverEnds(x)
      PROVE  PoolInv'
    <2>1. Live' = Live
        BY <1>22, LiveKept DEF Network
    <2>2. QED
        BY <1>22, <2>1 DEF DriverEnds, Accounted
<1>23. CASE UNCHANGED vars
    BY <1>23 DEF vars, Accounted, Live, Cached, Borrowers
<1>24. QED
    BY <1>1, <1>2, <1>3, <1>4, <1>5, <1>6, <1>7, <1>8, <1>9, <1>10, <1>11,
       <1>12, <1>13, <1>14, <1>15, <1>16, <1>17, <1>18, <1>19, <1>20, <1>21,
       <1>22, <1>23 DEF Next, Get, Use, Network

-----------------------------------------------------------------------------
\* Theorems

\* The inductive invariant holds throughout.
THEOREM PoolInvariant == Spec => []PoolInv
<1>1. QED
    BY PoolInit, PoolStep, PTL DEF Spec

\* Every variable keeps its type.
THEOREM PoolTypeOK == Spec => []TypeOK
<1>1. PoolInv => TypeOK
    BY DEF PoolInv
<1>2. QED
    BY PoolInvariant, <1>1, PTL

\* No interleaving of gets, evictions, invalidations, failures and cancelled
\* futures leaks or mints a permit, whatever max_entries is.
THEOREM PoolPermitsConserved == Spec => []PermitsConserved
<1>1. PoolInv => PermitsConserved
    BY FS_CardinalityType, QuicPoolAssumption
       DEF PoolInv, TypeOK, Accounted, PermitsConserved
<1>2. QED
    BY PoolInvariant, <1>1, PTL

\* The cache maps an authority to a session to it, and never to a slot whose
\* request is still connecting or dropping it.
THEOREM PoolCacheIsConsistent == Spec => []CacheIsConsistent
<1>1. PoolInv => CacheIsConsistent
    BY DEF PoolInv
<1>2. QED
    BY PoolInvariant, <1>1, PTL

\* Evicting and connecting requests included, a live session leaves the cache only
\* when nobody uses it, or because a request
\* invalidates its authority; no other session takes its place.
THEOREM PoolLiveSessionNotDisplaced == Spec => LiveSessionNotDisplaced
<1> DEFINE Leaves(k) ==
               /\ entries'[k] = None
               /\ \/ Borrowers(entries[k]) = {}
                  \/ \E r \in Requests : pc[r] = "invalidate" /\ target[r] = k
           Stays == \A k \in Keys : Hit(k) /\ entries'[k] # entries[k] => Leaves(k)
<1>1. ASSUME TypeOK, [Next]_vars
      PROVE  [Stays]_vars
    <2>1. ASSUME NEW r \in Requests,
                 \/ LookupHit(r) \/ Acquire(r) \/ AcquireFull(r) \/ DropEvicted(r)
                 \/ Reacquire(r) \/ Overloaded(r) \/ RecheckHit(r) \/ RecheckMiss(r)
                 \/ ConnectOk(r) \/ Abandon(r) \/ PublishHit(r) \/ DropSurplus(r)
                 \/ UseFails(r) \/ Finish(r)
          PROVE  UNCHANGED entries
        BY <2>1 DEF LookupHit, Acquire, AcquireFull, DropEvicted, Reacquire, Overloaded,
            RecheckHit, RecheckMiss, ConnectOk, Abandon, PublishHit, DropSurplus,
            UseFails, Finish, TakePermit
    <2>2. ASSUME NEW r \in Requests, LookupMiss(r) \/ EvictNothing(r) \/ PublishInsert(r)
          PROVE  \A k \in Keys : Hit(k) => entries'[k] = entries[k]
        BY <1>1, <2>2 DEF TypeOK, LookupMiss, EvictNothing, PublishInsert, RemoveEntries, Dead
    <2>3. ASSUME NEW r \in Requests, EvictIdle(r)
          PROVE  Stays
        BY <1>1, <2>3 DEF TypeOK, EvictIdle, RemoveEntries, Dead, Evictable, IsIdle
    <2>4. ASSUME NEW r \in Requests, Invalidate(r)
          PROVE  Stays
        BY <1>1, <2>4 DEF TypeOK, Invalidate, RemoveEntries, Goto
    <2>5. ASSUME NEW x \in Leases, Network(x)
          PROVE  UNCHANGED entries
        BY <2>5 DEF Network, ConnectionCloses, DriverEnds
    <2>6. ASSUME NEW r \in Requests, NEW k \in Keys, Start(r, k)
          PROVE  UNCHANGED entries
        BY <2>6 DEF Start
    <2> HIDE DEF Leaves
    <2>7. QED
        BY <1>1, <2>1, <2>2, <2>3, <2>4, <2>5, <2>6 DEF Next, Get, Use
<1>2. QED
    BY <1>1, PoolTypeOK, PTL DEF Spec, LiveSessionNotDisplaced

-----------------------------------------------------------------------------
\* Refinement

\* The contract counts slots as the pool does.
LEMMA ContractCounts == Contract!Cardinality(Live) = Cardinality(Live)
BY Zenon DEF Contract!Cardinality, Cardinality

\* A step of the pool is a step of the contract, or leaves what it speaks of
\* unchanged.
LEMMA ContractStep == PoolInv /\ [Next]_vars => [Contract!Next]_Contract!vars
<1> SUFFICES ASSUME PoolInv, [Next]_vars PROVE [Contract!Next]_Contract!vars
    OBVIOUS
<1> USE QuicPoolAssumption
        DEF PoolInv, TypeOK, PCs, Shape, Reserving, Borrowing, Goto, Contract!Next,
            Contract!vars, Contract!Unborrowed
\* The slots a step gives back are not borrowed by anybody.
<1>1. /\ \A K \in SUBSET Keys, r \in Requests : lease[r] \notin OnlyCached(K)
      /\ \A r \in Requests, q \in Requests, x \in Leases :
            lease[q] \in LastHeldBy(r, x) => q = r
    BY DEF OnlyCached, LastHeldBy, IsIdle, Borrowers
<1>2. ASSUME NEW r \in Requests, NEW k \in Keys, Start(r, k)
      PROVE  UNCHANGED <<Live, lease>>
    BY <1>2, LiveKept DEF Start
<1>3. ASSUME NEW x \in Leases, Network(x)
      PROVE  UNCHANGED <<Live, lease>>
    BY <1>3, LiveKept DEF Network, ConnectionCloses, DriverEnds
<1>4. ASSUME NEW r \in Requests,
             AcquireFull(r) \/ Overloaded(r) \/ RecheckMiss(r) \/ ConnectOk(r) \/ UseFails(r)
      PROVE  UNCHANGED <<Live, lease>>
    BY <1>4, LiveKept DEF AcquireFull, Overloaded, RecheckMiss, ConnectOk, UseFails
<1>5. ASSUME NEW r \in Requests, Acquire(r) \/ Reacquire(r)
      PROVE  \E x \in Leases : Contract!Reserve(x)
    <2>1. PICK x \in Leases \ Live : Live' = Live \cup {x}
        BY <1>5, LiveGrows
    <2>2. Cardinality(Live) < MaxEntries
        BY <1>5, FS_CardinalityType DEF Acquire, Reacquire, TakePermit, Accounted
    <2>3. lease' = lease
        BY <1>5 DEF Acquire, Reacquire, TakePermit
    <2>4. Contract!Reserve(x)
        BY <2>1, <2>2, <2>3, ContractCounts DEF Contract!Reserve
    <2>5. QED
        BY <2>1, <2>4
<1>6. ASSUME NEW r \in Requests, LookupHit(r) \/ RecheckHit(r) \/ PublishHit(r)
      PROVE  \E x \in Leases, gone \in SUBSET Live : Contract!Borrow(r, x, gone)
    <2>1. entries[target[r]] \in Live /\ entries[target[r]] \in Leases /\ lease[r] = None
        BY <1>6 DEF LookupHit, RecheckHit, PublishHit, Hit, Live, Cached
    <2>2. Contract!Borrow(r, entries[target[r]], {})
        BY <1>6, <2>1, LiveKept
           DEF LookupHit, RecheckHit, PublishHit, Contract!Borrow
    <2>3. QED
        BY <2>1, <2>2
<1>7. ASSUME NEW r \in Requests, PublishInsert(r)
      PROVE  \E x \in Leases, gone \in SUBSET Live : Contract!Borrow(r, x, gone)
    <2> DEFINE gone == OnlyCached({target[r]})
    <2>1. own[r] \in Live \ gone /\ own[r] \in Leases /\ lease[r] = None
        <3>1. own[r] \in Leases /\ lease[r] = None
            BY <1>7 DEF PublishInsert
        <3>2. r \in Borrowers(own[r])
            BY DEF Borrowers
        <3>3. QED
            BY <3>1, <3>2 DEF Live, OnlyCached, IsIdle
    <2>2. Leave(gone) /\ lease' = [lease EXCEPT ![r] = own[r]]
        BY <1>7, LiveShrinks DEF PublishInsert
    <2>3. \A q \in Requests : lease[q] \notin gone
        BY <1>1, <1>7 DEF PublishInsert
    <2> HIDE DEF gone
    <2>4. Contract!Borrow(r, own[r], gone)
        BY <2>1, <2>2, <2>3 DEF Leave, Contract!Borrow
    <2>5. QED
        BY <2>1, <2>2, <2>4 DEF Leave
<1>8. ASSUME NEW r \in Requests, Finish(r)
      PROVE  \E gone \in SUBSET Live : Contract!Return(r, gone)
    <2> DEFINE gone == LastHeldBy(r, lease[r])
    <2>1. gone \subseteq {lease[r]} /\ lease[r] \in Leases
        BY <1>8 DEF Finish, LastHeldBy
    <2>2. Leave(gone) /\ lease' = [lease EXCEPT ![r] = None]
        BY <1>8, LiveShrinks DEF Finish
    <2>3. \A q \in Requests : lease[q] \in gone => q = r
        BY <1>1, <2>1
    <2> HIDE DEF gone
    <2>4. Contract!Return(r, gone)
        BY <2>1, <2>2, <2>3 DEF Leave, Contract!Return
    <2>5. QED
        BY <2>2, <2>4 DEF Leave
<1>9. ASSUME NEW r \in Requests,
             LookupMiss(r) \/ EvictIdle(r) \/ EvictNothing(r) \/ Invalidate(r)
      PROVE  \E gone \in SUBSET Live : Contract!Reclaim(gone)
    <2>1. {target[r]} \in SUBSET Keys /\ Dead \in SUBSET Keys /\ lease' = lease
        BY <1>9 DEF LookupMiss, EvictIdle, EvictNothing, Invalidate, Dead
    <2>2. PICK K \in SUBSET Keys : Leave(OnlyCached(K))
        BY <1>9, <2>1, LiveShrinks
    <2>3. \A q \in Requests : lease[q] \notin OnlyCached(K)
        BY <1>1
    <2>4. QED
        BY <2>1, <2>2, <2>3 DEF Leave, Contract!Reclaim
<1>10. ASSUME NEW r \in Requests, DropEvicted(r) \/ Abandon(r) \/ DropSurplus(r)
       PROVE  \E gone \in SUBSET Live : Contract!Reclaim(gone)
    <2>1. PICK x \in {own[r], hand[r]} : Leave(LastHeldBy(r, x))
        BY <1>10, LiveShrinks
    <2>2. \A q \in Requests : lease[q] \notin LastHeldBy(r, x)
        BY DEF LastHeldBy, Owned
    <2>3. lease' = lease
        BY <1>10 DEF DropEvicted, Abandon, DropSurplus
    <2>4. QED
        BY <2>1, <2>2, <2>3 DEF Leave, Contract!Reclaim
<1>11. CASE UNCHANGED vars
    BY <1>11 DEF vars, Live, Cached, Borrowers
<1>12. QED
    BY <1>2, <1>3, <1>4, <1>5, <1>6, <1>7, <1>8, <1>9, <1>10, <1>11 DEF Next, Get, Use

\* The pool, in both variants, implements the contract of a bounded resource.
THEOREM PoolKeepsContract == Spec => KeepsContract
<1>1. Init => Contract!Init
    BY QuicPoolAssumption DEF Init, Contract!Init, Live, Cached, Borrowers
<1>2. QED
    BY <1>1, PoolInvariant, ContractStep, PTL DEF Spec, KeepsContract, Contract!Spec

-----------------------------------------------------------------------------
\* What the contract is worth

\* CapacityHolds with the types it needs: what counts is a finite set.
ContractInv ==
    /\ lease \in [Requests -> Leases \cup {None}]
    /\ IsFiniteSet(Live)
    /\ Cardinality(Live) <= MaxEntries
    /\ \A r \in Requests : lease[r] # None => lease[r] \in Live

\* Slots that are given back leave at most as many.
LEMMA FewerCount ==
    ASSUME NEW S, NEW T, IsFiniteSet(S), T \subseteq S, Cardinality(S) <= MaxEntries
    PROVE  IsFiniteSet(T) /\ Cardinality(T) <= MaxEntries
<1>1. IsFiniteSet(T) /\ Cardinality(T) <= Cardinality(S)
    BY FS_Subset
<1>2. QED
    BY <1>1, FS_CardinalityType, QuicPoolAssumption

\* Every step of the contract keeps it: a slot is taken below the capacity, and
\* given back by its last borrower.
LEMMA ContractInvKept == ContractInv /\ [Contract!Next]_Contract!vars => ContractInv'
<1> SUFFICES ASSUME ContractInv, [Contract!Next]_Contract!vars PROVE ContractInv'
    OBVIOUS
<1> USE QuicPoolAssumption DEF ContractInv, Contract!Unborrowed
<1>1. ASSUME NEW x \in Leases, Contract!Reserve(x)
      PROVE  ContractInv'
    <2>1. Live' = Live \cup {x} /\ x \notin Live /\ lease' = lease
        BY <1>1 DEF Contract!Reserve
    <2>2. Cardinality(Live) < MaxEntries
        BY <1>1, ContractCounts DEF Contract!Reserve
    <2>3. IsFiniteSet(Live') /\ Cardinality(Live') = Cardinality(Live) + 1
        BY <2>1, FS_AddElement
    <2>4. Cardinality(Live') <= MaxEntries
        BY <2>2, <2>3, FS_CardinalityType
    <2>5. QED
        BY <2>1, <2>3, <2>4
<1>2. ASSUME NEW r \in Requests, NEW x \in Leases, NEW gone \in SUBSET Live,
             Contract!Borrow(r, x, gone)
      PROVE  ContractInv'
    <2>1. Live' = Live \ gone /\ x \in Live' /\ lease' = [lease EXCEPT ![r] = x]
        BY <1>2 DEF Contract!Borrow
    <2>2. \A q \in Requests : lease[q] \notin gone
        BY <1>2 DEF Contract!Borrow
    <2>3. IsFiniteSet(Live') /\ Cardinality(Live') <= MaxEntries
        BY <2>1, FewerCount
    <2>4. QED
        BY <2>1, <2>2, <2>3
<1>3. ASSUME NEW r \in Requests, NEW gone \in SUBSET Live, Contract!Return(r, gone)
      PROVE  ContractInv'
    <2>1. Live' = Live \ gone /\ lease' = [lease EXCEPT ![r] = None]
        BY <1>3 DEF Contract!Return
    <2>2. \A q \in Requests \ {r} : lease[q] \notin gone
        BY <1>3 DEF Contract!Return
    <2>3. IsFiniteSet(Live') /\ Cardinality(Live') <= MaxEntries
        BY <2>1, FewerCount
    <2>4. QED
        BY <2>1, <2>2, <2>3
<1>4. ASSUME NEW gone \in SUBSET Live, Contract!Reclaim(gone)
      PROVE  ContractInv'
    <2>1. Live' = Live \ gone /\ lease' = lease /\ \A q \in Requests : lease[q] \notin gone
        BY <1>4 DEF Contract!Reclaim
    <2>2. IsFiniteSet(Live') /\ Cardinality(Live') <= MaxEntries
        BY <2>1, FewerCount
    <2>3. QED
        BY <2>1, <2>2
<1>5. CASE UNCHANGED Contract!vars
    BY <1>5 DEF Contract!vars
<1>6. QED
    BY <1>1, <1>2, <1>3, <1>4, <1>5 DEF Contract!Next

\* Whatever keeps the contract of a bounded resource stays within its capacity, and
\* lends nothing that does not count.
THEOREM ContractIsWorthIt == Contract!Spec => []Contract!CapacityHolds
<1>1. Contract!Init => ContractInv
    <2>1. Contract!Init => Live = {} /\ lease = [r \in Requests |-> None]
        BY DEF Contract!Init
    <2>2. QED
        BY <2>1, QuicPoolAssumption, FS_EmptySet DEF ContractInv
<1>2. ContractInv => Contract!CapacityHolds
    BY ContractCounts DEF ContractInv, Contract!CapacityHolds
<1>3. QED
    BY <1>1, <1>2, ContractInvKept, PTL DEF Contract!Spec

\* So do both pools, by the refinement alone.
THEOREM PoolCapacityHolds == Spec => []Contract!CapacityHolds
BY PoolKeepsContract, ContractIsWorthIt, PTL DEF KeepsContract
=============================================================================
