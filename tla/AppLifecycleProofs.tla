------------------------- MODULE AppLifecycleProofs -------------------------
(***************************************************************************)
(* Proofs about AppLifecycle, for any number of listeners and connections. *)
(*                                                                         *)
(* Every step of the application is one of TaskGroup or leaves the groups  *)
(* alone, so that what TaskGroupProofs establishes of a group holds here.  *)
(* On top of it, ListenerInv says what a report says of the listener that  *)
(* sent it, CloserInv what the two closers of a group know of each other,  *)
(* and OrderInv what start and shutdown know at each point.                *)
(***************************************************************************)
EXTENDS AppLifecycle, TaskGroupProofs

\* A listener that reported that it is bound never fails, and over TCP it serves
\* until all is cancelled.
ListenerInv(l) ==
    /\ listener[l] = "none" <=> app \in {"new", "refused"}
    /\ listener[l] \in {"none", "binding"} => readiness[l] = "pending"
    /\ readiness[l] = "ok" => listener[l] \in {"serving", "closing", "exited"}
    /\ readiness[l] = "ok" /\ ~cancelled /\ l \notin QuicListeners => listener[l] = "serving"

\* A closed group has one who waits, or waited, for its end; a listener that is
\* gone no longer does, and gave up only because it was aborted.
ClosersInv(l) ==
    /\ listener[l] \notin {"closing", "exited"} => closer[l]["listener"] = "out"
    /\ listener[l] = "exited" => closer[l]["listener"] \notin {"closing", "waiting"}
    /\ closer[l]["listener"] = "cancelled" => overdue
    /\ closer[l]["app"] # "cancelled"
    /\ closed[l] => Owns("app", l) \/ Owns("listener", l)
    /\ app \in {"joining", "stopped"} => closer[l]["app"] \in {"joined", "returned"}

AllBound == \A l \in Groups : readiness[l] = "ok"

OrderInv ==
    /\ cancelled <=> app \in {"closing", "joining", "stopped"}
    /\ ready => app \in {"running", "stopping"} /\ AllBound
    /\ app = "new" => pos = 1
    /\ app = "starting" => \A i \in 1..(pos - 1) : readiness[Listeners[i]] = "ok"
    /\ app \in {"announcing", "running"} => AllBound
    /\ app = "joining" => \A i \in 1..(pos - 1) : listener[Listeners[i]] = "exited"
    /\ app = "stopped" => \A l \in Groups : listener[l] = "exited"

AppTypeOK ==
    /\ app \in {"new", "refused", "starting", "announcing", "running", "stopping",
                "unready", "closing", "joining", "stopped"}
    /\ pos \in 1..(Len(Listeners) + 1)
    /\ {ready, failed, cancelled, overdue} \subseteq BOOLEAN
    /\ listener \in [Groups ->
            {"none", "binding", "erring", "failed", "serving", "closing", "exited"}]
    /\ readiness \in [Groups -> {"pending", "ok", "error", "dropped"}]

AppInv ==
    /\ Inv
    /\ AppTypeOK
    /\ \A l \in Groups : ListenerInv(l) /\ ClosersInv(l)
    /\ OrderInv

-----------------------------------------------------------------------------
\* What is assumed of the listeners: their positions are those of a sequence.
LEMMA Positions ==
    /\ Len(Listeners) \in Nat
    /\ \A i \in 1..Len(Listeners) : Listeners[i] \in Groups
    /\ \A l \in Groups : \E i \in 1..Len(Listeners) : Listeners[i] = l
    /\ "app" \in Closers /\ "listener" \in Closers
<1>1. Listeners \in Seq(Groups) /\ Ordered = Groups /\ Closers = {"app", "listener"}
  BY AppAssumption
<1>2. Len(Listeners) \in Nat /\ DOMAIN Listeners = 1..Len(Listeners)
      /\ \A i \in 1..Len(Listeners) : Listeners[i] \in Groups
  BY <1>1
<1>3. \A l \in Groups : \E i \in DOMAIN Listeners : Listeners[i] = l
  BY <1>1 DEF Ordered
<1> QED BY <1>1, <1>2, <1>3

\* The application as start left it, before anything was spawned.
LEMMA AppStarts == Init => AppInv
<1> SUFFICES ASSUME Init PROVE AppInv
  OBVIOUS
<1>1. Inv
  BY GroupsStart DEF Init
<1>2. AppTypeOK
  <2>1. 1 \in 1..(Len(Listeners) + 1)
    BY Positions
  <2> QED BY <2>1 DEF Init, AppTypeOK
<1>3. ASSUME NEW l \in Groups PROVE ListenerInv(l) /\ ClosersInv(l)
  BY Positions DEF Init, GroupInit, ListenerInv, ClosersInv
<1>4. OrderInv
  BY DEF Init, OrderInv
<1> QED BY <1>1, <1>2, <1>3, <1>4 DEF AppInv

-----------------------------------------------------------------------------
\* Every step is one of the groups or leaves them alone.
LEMMA StepsAreGroupSteps == [Next]_vars => [GroupNext]_groupVars
<1> SUFFICES ASSUME [Next]_vars PROVE [GroupNext]_groupVars
  OBVIOUS
<1>1. CASE UNCHANGED vars
  BY <1>1 DEF vars, groupVars
<1>2. CASE AppStep
  <2>1. CASE \E l \in Groups : AppCloses(l) \/ AbortHandle(l) \/ Sends(l, "app")
    <3>1. PICK l \in Groups : AppCloses(l) \/ AbortHandle(l) \/ Sends(l, "app")
      BY <2>1
    <3>2. \/ Close(l, "app") \/ SendShutdown(l, "app") \/ CancelCloser(l, "listener")
          \/ UNCHANGED groupVars
      BY <3>1 DEF AppCloses, AbortHandle, Sends
    <3> QED BY <3>2, Positions DEF GroupNext
  <2>2. CASE ~ \E l \in Groups : AppCloses(l) \/ AbortHandle(l) \/ Sends(l, "app")
    BY <1>2, <2>2 DEF AppStep, StartRefused, Start, ListenerIsBound, ListenerIsNotBound,
       CheckFailed, Announce, Withdraw, Cancel, GroupsClosed, JoinHandle, AllStopped
  <2> QED BY <2>1, <2>2
<1>3. CASE ShutdownSignal \/ ShutdownDeadlinePasses
  BY <1>3 DEF ShutdownSignal, ShutdownDeadlinePasses
<1>4. ASSUME NEW l \in Groups, Bind(l) PROVE [GroupNext]_groupVars
  BY <1>4 DEF Bind, BindOk, BindFails, RecordFailure, IgnoreFailure, RevokeReadiness
<1>5. ASSUME NEW l \in Groups, Serve(l) PROVE [GroupNext]_groupVars
  <2>1. \/ UNCHANGED groupVars \/ Close(l, "listener")
        \/ \E t \in Tasks : SpawnQueued(l, t) \/ SpawnRejected(l, t)
    BY <1>5 DEF Serve, StopServing, EndpointIsGone, ListenerCloses, ListenerExits, Spawns
  <2> QED BY <2>1, Positions DEF GroupNext
<1>6. ASSUME NEW l \in Groups, Supervises(l) \/ GroupDeadlinePasses(l)
      PROVE  [GroupNext]_groupVars
  BY <1>6 DEF Supervises, GroupDeadlinePasses, GroupNext
<1>7. ASSUME NEW l \in Groups, Sends(l, "listener") PROVE [GroupNext]_groupVars
  BY <1>7, Positions DEF Sends, GroupNext
<1>8. ASSUME NEW l \in Groups, NEW t \in Tasks, ChildGone(l, t)
      PROVE  [GroupNext]_groupVars
  BY <1>8 DEF ChildGone, GroupNext
<1> QED BY <1>1, <1>2, <1>3, <1>4, <1>5, <1>6, <1>7, <1>8 DEF Next

\* The types of the application's own variables.
LEMMA AppTypesKept == AppTypeOK /\ [Next]_vars => AppTypeOK'
<1> SUFFICES ASSUME AppTypeOK, [Next]_vars PROVE AppTypeOK'
  OBVIOUS
<1>0. Len(Listeners) \in Nat /\ pos \in Nat
  BY Positions DEF AppTypeOK
<1> USE DEF AppTypeOK, SetListener
<1>1. CASE UNCHANGED appVars
  BY <1>1 DEF appVars
<1>2. CASE StartRefused \/ Start \/ ListenerIsNotBound \/ CheckFailed \/ Announce
  BY <1>2 DEF StartRefused, Start, ListenerIsNotBound, CheckFailed, Announce
<1>3. CASE ListenerIsBound \/ JoinHandle \/ GroupsClosed \/ AllStopped
  BY <1>0, <1>3 DEF ListenerIsBound, JoinHandle, GroupsClosed, AllStopped
<1>4. CASE Withdraw \/ Cancel \/ ShutdownSignal \/ ShutdownDeadlinePasses
  BY <1>4 DEF Withdraw, Cancel, ShutdownSignal, ShutdownDeadlinePasses
<1>5. ASSUME NEW l \in Groups, AbortHandle(l) PROVE AppTypeOK'
  BY <1>0, <1>5 DEF AbortHandle
<1>6. ASSUME NEW l \in Groups, Bind(l) PROVE AppTypeOK'
  <2>1. CASE BindOk(l) \/ BindFails(l)
    BY <2>1 DEF BindOk, BindFails
  <2>2. CASE RecordFailure(l) \/ IgnoreFailure(l) \/ RevokeReadiness(l)
    BY <2>2 DEF RecordFailure, IgnoreFailure, RevokeReadiness
  <2> QED BY <1>6, <2>1, <2>2 DEF Bind
<1>7. ASSUME NEW l \in Groups, StopServing(l) \/ EndpointIsGone(l) \/ ListenerExits(l)
      PROVE  AppTypeOK'
  BY <1>7 DEF StopServing, EndpointIsGone, ListenerExits
<1>8. CASE \E l \in Groups : \/ AppCloses(l) \/ ListenerCloses(l) \/ Supervises(l)
                             \/ GroupDeadlinePasses(l)
                             \/ Sends(l, "app") \/ Sends(l, "listener")
                             \/ \E t \in Tasks : ChildGone(l, t) \/ Spawns(l, t)
  <2>1. UNCHANGED appVars
    BY <1>8 DEF AppCloses, ListenerCloses, Supervises, GroupDeadlinePasses, Sends,
       ChildGone, Spawns
  <2> QED BY <2>1, <1>1
<1>9. UNCHANGED vars => UNCHANGED appVars
  BY DEF vars, appVars
<1> QED BY <1>1, <1>2, <1>3, <1>4, <1>5, <1>6, <1>7, <1>8, <1>9 DEF Next, AppStep, Serve

-----------------------------------------------------------------------------
\* The parts of the invariant that are about the application.
Parts == (\A l \in Groups : ListenerInv(l) /\ ClosersInv(l)) /\ OrderInv

\* What the rest of a group does to its closers: it wakes them.
Settled ==
    \A l \in Groups :
        /\ closed'[l] = closed[l]
        /\ \A c \in Closers :
              \/ closer'[l][c] = closer[l][c]
              \/ closer[l][c] = "waiting" /\ closer'[l][c] = "joined"

\* A supervisor, a deadline, a child and a spawn close nothing.
LEMMA OthersSettle ==
    ASSUME Inv, NEW l \in Groups,
           \/ Supervises(l) \/ GroupDeadlinePasses(l)
           \/ \E t \in Tasks : ChildGone(l, t) \/ Spawns(l, t)
    PROVE  Settled /\ UNCHANGED appVars
<1>1. closer \in [Groups -> [Closers ->
                   {"out", "closing", "waiting", "joined", "returned", "cancelled"}]]
  BY DEF Inv, GroupTypeOK
<1>2. CASE Supervises(l)
  <2>1. CASE Complete(l)
    <3>1. closer' = [closer EXCEPT ![l] = [c \in Closers |->
                     IF closer[l][c] = "waiting" THEN "joined" ELSE closer[l][c]]]
          /\ closed' = closed
      BY <2>1 DEF Complete
    <3>2. \A k \in Groups, c \in Closers :
             closer'[k][c] = IF k = l /\ closer[k][c] = "waiting" THEN "joined"
                             ELSE closer[k][c]
      BY <3>1, <1>1
    <3> QED BY <3>1, <3>2, <1>2 DEF Settled, Supervises
  <2>2. CASE ~Complete(l)
    BY <1>2, <2>2 DEF Settled, Supervises, Supervise, ReceiveSpawn, ReceiveShutdown,
       AbortAll, EndUnclosed
  <2> QED BY <2>1, <2>2
<1>3. CASE GroupDeadlinePasses(l)
  BY <1>3 DEF Settled, GroupDeadlinePasses, DeadlinePasses
<1>4. CASE \E t \in Tasks : ChildGone(l, t) \/ Spawns(l, t)
  BY <1>4 DEF Settled, ChildGone, ChildEnds, ChildStops, Spawns, SpawnQueued, SpawnRejected
<1> QED BY <1>2, <1>3, <1>4

\* That disturbs nothing the application knows.
LEMMA SettledKeeps ==
    ASSUME Parts, Settled, UNCHANGED appVars
    PROVE  Parts'
<1>1. ASSUME NEW l \in Groups PROVE ListenerInv(l)'
  BY DEF Parts, appVars, ListenerInv
<1>2. ASSUME NEW l \in Groups PROVE ClosersInv(l)'
  BY Positions DEF Parts, Settled, appVars, ClosersInv, Owns
<1>3. OrderInv'
  BY DEF Parts, appVars, OrderInv, AllBound
<1> QED BY <1>1, <1>2, <1>3 DEF Parts

\* A close: the closer returns if another one closed the group, and owns it now
\* otherwise.
LEMMA ClosingKeeps ==
    ASSUME AppInv, NEW l \in Groups, AppCloses(l) \/ ListenerCloses(l)
    PROVE  Parts'
<1>1. UNCHANGED appVars
  BY DEF AppCloses, ListenerCloses
<1>2. PICK c \in {"app", "listener"} :
         /\ Close(l, c)
         /\ c = "app" => app = "closing"
         /\ c = "listener" => listener[l] = "closing"
  BY DEF AppCloses, ListenerCloses
<1>3. PICK to \in {"returned", "joined", "closing"} :
         /\ closer[l][c] = "out"
         /\ closer' = [closer EXCEPT ![l][c] = to]
         /\ to = "returned" => closed[l] /\ closed' = closed
         /\ to # "returned" => closed' = [closed EXCEPT ![l] = TRUE]
  BY <1>2 DEF Close, CloseAgain, CloseUnused, CloseFirst, SetCloser
<1>4. closer \in [Groups -> [Closers ->
                   {"out", "closing", "waiting", "joined", "returned", "cancelled"}]]
      /\ closed \in [Groups -> BOOLEAN]
  BY DEF AppInv, Inv, GroupTypeOK
<1>5. \A k \in Groups, d \in Closers :
         closer'[k][d] = IF k = l /\ d = c THEN to ELSE closer[k][d]
  BY <1>3, <1>4
<1>6. \A k \in Groups : closed'[k] = IF k = l THEN TRUE ELSE closed[k]
  BY <1>3, <1>4
<1>7. ASSUME NEW k \in Groups PROVE ClosersInv(k)'
  <2>1. ClosersInv(k)
    BY DEF AppInv
  <2>2. CASE k # l
    <3>1. closed'[k] = closed[k] /\ closer'[k]["app"] = closer[k]["app"]
          /\ closer'[k]["listener"] = closer[k]["listener"]
      BY <1>5, <1>6, <2>2, Positions
    <3> QED BY <1>1, <2>1, <3>1 DEF ClosersInv, Owns, appVars
  <2>3. CASE k = l /\ c = "app"
    BY <1>1, <1>2, <1>3, <1>5, <1>6, <2>1, <2>3, Positions DEF ClosersInv, Owns, appVars
  <2>4. CASE k = l /\ c = "listener"
    BY <1>1, <1>2, <1>3, <1>5, <1>6, <2>1, <2>4, Positions DEF ClosersInv, Owns, appVars
  <2> QED BY <2>2, <2>3, <2>4
<1>8. ASSUME NEW k \in Groups PROVE ListenerInv(k)'
  BY <1>1 DEF AppInv, appVars, ListenerInv
<1>9. OrderInv'
  BY <1>1 DEF AppInv, appVars, OrderInv, AllBound
<1> QED BY <1>7, <1>8, <1>9 DEF Parts

\* A send: the closer waits.
LEMMA SendingKeeps ==
    ASSUME AppInv, NEW l \in Groups, NEW c \in {"app", "listener"}, Sends(l, c)
    PROVE  Parts'
<1>1. UNCHANGED appVars /\ closed' = closed
      /\ closer[l][c] = "closing" /\ closer' = [closer EXCEPT ![l][c] = "waiting"]
  BY DEF Sends, SendShutdown, SetCloser
<1>2. closer \in [Groups -> [Closers ->
                   {"out", "closing", "waiting", "joined", "returned", "cancelled"}]]
  BY DEF AppInv, Inv, GroupTypeOK
<1>3. \A k \in Groups, d \in Closers :
         closer'[k][d] = IF k = l /\ d = c THEN "waiting" ELSE closer[k][d]
  BY <1>1, <1>2
<1>4. ASSUME NEW k \in Groups PROVE ClosersInv(k)'
  <2>1. ClosersInv(k)
    BY DEF AppInv
  <2> QED BY <1>1, <1>3, <2>1, Positions DEF ClosersInv, Owns, appVars
<1>5. ASSUME NEW k \in Groups PROVE ListenerInv(k)'
  BY <1>1 DEF AppInv, appVars, ListenerInv
<1>6. OrderInv'
  BY <1>1 DEF AppInv, appVars, OrderInv, AllBound
<1> QED BY <1>4, <1>5, <1>6 DEF Parts

-----------------------------------------------------------------------------
\* What start does: it lets go of the groups.
LEMMA StartingKeeps ==
    ASSUME AppInv,
           \/ StartRefused \/ Start \/ ListenerIsBound \/ ListenerIsNotBound
           \/ CheckFailed \/ Announce
    PROVE  Parts'
<1>0. /\ AppTypeOK /\ OrderInv /\ \A l \in Groups : ListenerInv(l) /\ ClosersInv(l)
      /\ UNCHANGED groupVars /\ cancelled' = cancelled /\ overdue' = overdue
      /\ readiness' = readiness
  BY DEF AppInv, StartRefused, Start, ListenerIsBound, ListenerIsNotBound, CheckFailed,
     Announce
<1>1. ASSUME NEW l \in Groups PROVE ClosersInv(l)'
  <2>1. CASE Start
    <3>1. listener[l] = "none" /\ listener'[l] = "binding" /\ app' = "starting"
      BY <1>0, <2>1 DEF Start, ListenerInv
    <3> QED BY <1>0, <3>1 DEF ClosersInv, Owns, groupVars
  <2>2. CASE ~Start
    <3>1. listener' = listener /\ app' \notin {"joining", "stopped"}
      BY <2>2 DEF StartRefused, ListenerIsBound, ListenerIsNotBound, CheckFailed, Announce
    <3> QED BY <1>0, <3>1 DEF ClosersInv, Owns, groupVars
  <2> QED BY <2>1, <2>2
<1>2. ASSUME NEW l \in Groups PROVE ListenerInv(l)'
  <2>1. CASE Start
    <3>1. listener[l] = "none" /\ listener'[l] = "binding" /\ app' = "starting"
      BY <1>0, <2>1 DEF Start, ListenerInv
    <3> QED BY <1>0, <3>1 DEF ListenerInv
  <2>2. CASE ~Start
    <3>1. listener' = listener
          /\ (app \in {"new", "refused"} <=> app' \in {"new", "refused"})
      BY <2>2 DEF StartRefused, ListenerIsBound, ListenerIsNotBound, CheckFailed, Announce
    <3> QED BY <1>0, <3>1 DEF ListenerInv
  <2> QED BY <2>1, <2>2
<1>3. OrderInv'
  <2>1. CASE StartRefused \/ ListenerIsNotBound
    BY <1>0, <2>1 DEF StartRefused, ListenerIsNotBound, OrderInv, AllBound
  <2>2. CASE Start
    <3>1. pos' = 1
      BY <1>0, <2>2 DEF Start, OrderInv
    <3> QED BY <1>0, <2>2, <3>1 DEF Start, OrderInv, AllBound
  <2>3. CASE ListenerIsBound
    <3>1. app = "starting" /\ app' = "starting" /\ pos' = pos + 1 /\ ready' = ready
          /\ readiness[Listeners[pos]] = "ok"
      BY <2>3 DEF ListenerIsBound, Current
    <3>2. \A i \in 1..(pos' - 1) : i \in 1..(pos - 1) \/ i = pos
      BY <1>0, <3>1, Positions DEF AppTypeOK
    <3> QED BY <1>0, <3>1, <3>2 DEF OrderInv, AllBound
  <2>4. CASE CheckFailed
    <3>1. AllBound
      <4>1. \A i \in 1..Len(Listeners) : i \in 1..(pos - 1)
        BY <1>0, <2>4, Positions DEF CheckFailed, AppTypeOK
      <4> QED BY <1>0, <2>4, <4>1, Positions DEF CheckFailed, OrderInv, AllBound
    <3>2. AllBound'
      BY <1>0, <3>1 DEF AllBound
    <3> QED BY <1>0, <2>4, <3>2 DEF CheckFailed, OrderInv
  <2>5. CASE Announce
    BY <1>0, <2>5 DEF Announce, OrderInv, AllBound
  <2> QED BY <2>1, <2>2, <2>3, <2>4, <2>5
<1> QED BY <1>1, <1>2, <1>3 DEF Parts

\* What shutdown does, but for the closes and the aborts.
LEMMA StoppingKeeps ==
    ASSUME AppInv,
           \/ ShutdownSignal \/ Withdraw \/ Cancel \/ ShutdownDeadlinePasses
           \/ GroupsClosed \/ JoinHandle \/ AllStopped
    PROVE  Parts'
<1>0. /\ AppTypeOK /\ OrderInv /\ \A l \in Groups : ListenerInv(l) /\ ClosersInv(l)
      /\ UNCHANGED groupVars /\ listener' = listener /\ readiness' = readiness
  BY DEF AppInv, ShutdownSignal, Withdraw, Cancel, ShutdownDeadlinePasses, GroupsClosed,
     JoinHandle, AllStopped
<1>1. /\ overdue => overdue'
      /\ cancelled => cancelled'
      /\ app \notin {"new", "refused"} /\ app' \notin {"new", "refused"}
  BY <1>0 DEF ShutdownSignal, Withdraw, Cancel, ShutdownDeadlinePasses, GroupsClosed,
     JoinHandle, AllStopped
<1>2. ASSUME NEW l \in Groups PROVE ClosersInv(l)'
  <2>1. app' \in {"joining", "stopped"} => closer[l]["app"] \in {"joined", "returned"}
    BY <1>0 DEF ShutdownSignal, Withdraw, Cancel, ShutdownDeadlinePasses, GroupsClosed,
       JoinHandle, AllStopped, ClosersInv
  <2> QED BY <1>0, <1>1, <2>1 DEF ClosersInv, Owns, groupVars
<1>3. ASSUME NEW l \in Groups PROVE ListenerInv(l)'
  BY <1>0, <1>1 DEF ListenerInv
<1>4. OrderInv'
  <2>1. CASE ShutdownSignal \/ Withdraw \/ Cancel \/ ShutdownDeadlinePasses
    BY <1>0, <2>1 DEF ShutdownSignal, Withdraw, Cancel, ShutdownDeadlinePasses, OrderInv,
       AllBound
  <2>2. CASE GroupsClosed
    BY <1>0, <2>2 DEF GroupsClosed, OrderInv, AllBound
  <2>3. CASE JoinHandle
    <3>1. app = "joining" /\ app' = "joining" /\ pos' = pos + 1 /\ ready' = ready
          /\ cancelled' = cancelled /\ listener[Listeners[pos]] = "exited"
      BY <2>3 DEF JoinHandle, Current
    <3>2. \A i \in 1..(pos' - 1) : i \in 1..(pos - 1) \/ i = pos
      BY <1>0, <3>1, Positions DEF AppTypeOK
    <3> QED BY <1>0, <3>1, <3>2 DEF OrderInv, AllBound
  <2>4. CASE AllStopped
    <3>1. \A i \in 1..Len(Listeners) : i \in 1..(pos - 1)
      BY <1>0, <2>4, Positions DEF AllStopped, AppTypeOK
    <3>2. \A l \in Groups : listener[l] = "exited"
      BY <1>0, <2>4, <3>1, Positions DEF AllStopped, OrderInv
    <3> QED BY <1>0, <2>4, <3>2 DEF AllStopped, OrderInv, AllBound
  <2> QED BY <2>1, <2>2, <2>3, <2>4
<1> QED BY <1>2, <1>3, <1>4 DEF Parts

\* A task that is aborted no longer waits for its group.
LEMMA AbortKeeps ==
    ASSUME AppInv, NEW l \in Groups, AbortHandle(l)
    PROVE  Parts'
<1>0. /\ AppTypeOK /\ OrderInv /\ \A k \in Groups : ListenerInv(k) /\ ClosersInv(k)
      /\ closer \in [Groups -> [Closers ->
                   {"out", "closing", "waiting", "joined", "returned", "cancelled"}]]
  BY DEF AppInv, Inv, GroupTypeOK
<1>1. /\ app = "joining" /\ overdue /\ l = Listeners[pos] /\ pos' = pos + 1
      /\ listener[l] \in {"binding", "serving", "closing"}
      /\ listener' = [listener EXCEPT ![l] = "exited"]
      /\ UNCHANGED <<app, ready, cancelled, overdue, readiness, closed>>
  BY DEF AbortHandle, Current, CancelCloser, groupVars
<1>2. \A k \in Groups : listener'[k] = IF k = l THEN "exited" ELSE listener[k]
  BY <1>0, <1>1 DEF AppTypeOK
<1>3. \/ closer' = closer /\ closer[l]["listener"] \notin {"closing", "waiting"}
      \/ /\ closer[l]["listener"] = "waiting"
         /\ closer' = [closer EXCEPT ![l]["listener"] = "cancelled"]
  BY DEF AbortHandle, CancelCloser, SetCloser, groupVars
<1>4. \A k \in Groups :
         /\ closer'[k]["app"] = closer[k]["app"]
         /\ closer'[k]["listener"] = closer[k]["listener"]
            \/ /\ k = l /\ closer[l]["listener"] = "waiting"
               /\ closer'[l]["listener"] = "cancelled"
  BY <1>0, <1>3, Positions
<1>5. closer'[l]["listener"] \notin {"closing", "waiting"}
  BY <1>0, <1>3, Positions
<1>6. ASSUME NEW k \in Groups PROVE ClosersInv(k)'
  <2>1. ClosersInv(k)
    BY <1>0
  <2>2. CASE k # l
    BY <1>1, <1>2, <1>4, <2>1, <2>2 DEF ClosersInv, Owns
  <2>3. CASE k = l
    BY <1>1, <1>2, <1>4, <1>5, <2>1, <2>3 DEF ClosersInv, Owns
  <2> QED BY <2>2, <2>3
<1>7. ASSUME NEW k \in Groups PROVE ListenerInv(k)'
  BY <1>0, <1>1, <1>2 DEF ListenerInv, OrderInv
<1>8. OrderInv'
  <2>1. \A i \in 1..(pos' - 1) : Listeners[i] \in Groups /\ (i \in 1..(pos - 1) \/ i = pos)
    BY <1>0, <1>1, Positions DEF AppTypeOK, AbortHandle
  <2> QED BY <1>0, <1>1, <1>2, <2>1 DEF OrderInv, AllBound
<1> QED BY <1>6, <1>7, <1>8 DEF Parts

\* What a listener does, but for spawning and closing.
LEMMA ListenerKeeps ==
    ASSUME AppInv, NEW l \in Groups,
           Bind(l) \/ StopServing(l) \/ EndpointIsGone(l) \/ ListenerExits(l)
    PROVE  Parts'
<1>0. /\ AppTypeOK /\ OrderInv /\ \A k \in Groups : ListenerInv(k) /\ ClosersInv(k)
      /\ UNCHANGED groupVars /\ UNCHANGED <<app, pos, cancelled, overdue>>
      /\ ready' => ready
  BY DEF AppInv, Bind, BindOk, BindFails, RecordFailure, IgnoreFailure, RevokeReadiness,
     StopServing, EndpointIsGone, ListenerExits
<1>1. PICK to \in {"serving", "erring", "failed", "closing", "exited"},
           report \in {"pending", "ok", "error", "dropped"} :
         /\ listener' = [listener EXCEPT ![l] = to]
         /\ readiness' = [readiness EXCEPT ![l] = report]
         /\ listener[l] \notin {"none", "exited"}
         /\ report # readiness[l] => listener[l] = "binding"
         /\ report = "ok" => to \in {"serving", "closing", "exited"}
         /\ report = "ok" /\ ~cancelled /\ l \notin QuicListeners => to = "serving"
         /\ to = "exited" => closer[l]["listener"] \notin {"closing", "waiting"}
         /\ to \notin {"closing", "exited"} => listener[l] # "closing"
  <2>0. readiness[l] \in {"pending", "ok", "error", "dropped"}
        /\ readiness = [readiness EXCEPT ![l] = readiness[l]]
    BY <1>0 DEF AppTypeOK
  <2>1. CASE BindOk(l)
    BY <1>0, <2>1 DEF BindOk, SetListener
  <2>2. CASE BindFails(l)
    BY <1>0, <2>2 DEF BindFails, SetListener
  <2>3. CASE RecordFailure(l) \/ IgnoreFailure(l) \/ RevokeReadiness(l)
    BY <1>0, <2>0, <2>3 DEF RecordFailure, IgnoreFailure, RevokeReadiness, SetListener,
       ListenerInv, ClosersInv
  <2>4. CASE StopServing(l) \/ EndpointIsGone(l)
    BY <1>0, <2>0, <2>4 DEF StopServing, EndpointIsGone, SetListener
  <2>5. CASE ListenerExits(l)
    BY <1>0, <2>0, <2>5 DEF ListenerExits, SetListener, ListenerInv
  <2> QED BY <2>1, <2>2, <2>3, <2>4, <2>5 DEF Bind
<1>2. \A k \in Groups : /\ listener'[k] = IF k = l THEN to ELSE listener[k]
                        /\ readiness'[k] = IF k = l THEN report ELSE readiness[k]
  BY <1>0, <1>1 DEF AppTypeOK
<1>3. ASSUME NEW k \in Groups PROVE ClosersInv(k)'
  BY <1>0, <1>1, <1>2 DEF ClosersInv, Owns, groupVars
<1>4. ASSUME NEW k \in Groups PROVE ListenerInv(k)'
  BY <1>0, <1>1, <1>2 DEF ListenerInv
<1>5. \A k \in Groups : /\ readiness[k] = "ok" => readiness'[k] = "ok"
                        /\ listener[k] = "exited" => listener'[k] = "exited"
  BY <1>0, <1>1, <1>2 DEF ListenerInv
<1>6. \A i \in 1..(pos - 1) : Listeners[i] \in Groups
  BY <1>0, Positions DEF AppTypeOK
<1>7. AllBound => AllBound'
  BY <1>5 DEF AllBound
<1>8. OrderInv'
  BY <1>0, <1>5, <1>6, <1>7 DEF OrderInv
<1> QED BY <1>3, <1>4, <1>8 DEF Parts

-----------------------------------------------------------------------------
\* Every step keeps the invariant: what is left of a group's steps settles.
LEMMA AppInvKept == AppInv /\ [Next]_vars => AppInv'
<1> SUFFICES ASSUME AppInv, [Next]_vars PROVE AppInv'
  OBVIOUS
<1>1. Inv'
  BY StepsAreGroupSteps, InvKept DEF AppInv
<1>2. AppTypeOK'
  BY AppTypesKept DEF AppInv
<1>3. Parts'
  <2>1. CASE AppStep \/ ShutdownSignal \/ ShutdownDeadlinePasses
    <3>1. CASE \E l \in Groups : AppCloses(l) \/ AbortHandle(l) \/ Sends(l, "app")
      BY <3>1, ClosingKeeps, AbortKeeps, SendingKeeps
    <3> QED BY <2>1, <3>1, StartingKeeps, StoppingKeeps DEF AppStep
  <2>2. ASSUME NEW l \in Groups, Bind(l) \/ Serve(l) PROVE Parts'
    <3>1. CASE ListenerCloses(l)
      BY <3>1, ClosingKeeps
    <3>2. CASE \E t \in Tasks : Spawns(l, t)
      <4>1. Settled /\ UNCHANGED appVars
        BY <3>2, OthersSettle DEF AppInv
      <4>2. Parts
        BY DEF AppInv, Parts
      <4> QED BY <4>1, <4>2, SettledKeeps
    <3> QED BY <2>2, <3>1, <3>2, ListenerKeeps DEF Serve
  <2>3. ASSUME NEW l \in Groups, Sends(l, "listener") PROVE Parts'
    BY <2>3, SendingKeeps
  <2>4. ASSUME NEW l \in Groups,
               \/ Supervises(l) \/ GroupDeadlinePasses(l)
               \/ \E t \in Tasks : ChildGone(l, t)
        PROVE  Parts'
    <3>1. Settled /\ UNCHANGED appVars
      BY <2>4, OthersSettle DEF AppInv
    <3>2. Parts
      BY DEF AppInv, Parts
    <3> QED BY <3>1, <3>2, SettledKeeps
  <2>5. CASE UNCHANGED vars
    <3>1. Settled /\ UNCHANGED appVars
      BY <2>5 DEF vars, appVars, Settled
    <3>2. Parts
      BY DEF AppInv, Parts
    <3> QED BY <3>1, <3>2, SettledKeeps
  <2> QED BY <2>1, <2>2, <2>3, <2>4, <2>5 DEF Next
<1> QED BY <1>1, <1>2, <1>3 DEF AppInv, Parts

\* The invariant of the application.
THEOREM AppInvariant == Spec => []AppInv
BY AppStarts, AppInvKept, PTL DEF Spec

\* Every variable has its type, for any number of listeners and connections.
THEOREM AppTypes == Spec => []TypeOK
<1>1. AppInv => TypeOK
  BY DEF AppInv, Inv, AppTypeOK, TypeOK
<1> QED BY <1>1, AppInvariant, PTL

\* /ready succeeds only while every listener over TCP serves.
THEOREM AppReadyMeansServing == Spec => []ReadyMeansServing
<1>1. AppInv => ReadyMeansServing
  BY DEF AppInv, ListenerInv, OrderInv, AllBound, ReadyMeansServing
<1> QED BY <1>1, AppInvariant, PTL

\* No listener is cancelled while /ready succeeds, and it does not again.
THEOREM AppCancelledMeansUnready == Spec => []CancelledMeansUnready
<1>1. AppInv => CancelledMeansUnready
  BY DEF AppInv, OrderInv, CancelledMeansUnready
<1> QED BY <1>1, AppInvariant, PTL

\* After shutdown every listener is gone, every group closed, and a child that
\* runs is one of a group whose listener closed it first and was aborted.
THEOREM AppStoppedAccountsForChildren == Spec => []StoppedAccountsForChildren
<1>1. AppInv => StoppedAccountsForChildren
  <2> SUFFICES ASSUME AppInv, app = "stopped", NEW l \in Groups
               PROVE  /\ listener[l] = "exited"
                      /\ closed[l]
                      /\ Children(l) # {} => overdue /\ closer[l]["listener"] = "cancelled"
    BY DEF StoppedAccountsForChildren
  <2>1. listener[l] = "exited" /\ ClosersInv(l) /\ CloserInv(l) /\ ChildInv(l)
    BY DEF AppInv, OrderInv, Inv, GroupInv
  <2>2. closer[l]["app"] \in {"joined", "returned"}
    BY <2>1 DEF ClosersInv
  <2>3. closed[l]
    BY <2>1, <2>2, Positions DEF CloserInv
  <2>4. closer[l]["app"] = "joined" \/ closer[l]["listener"] \in {"joined", "cancelled"}
    BY <2>1, <2>2, <2>3 DEF ClosersInv, Owns
  <2>5. (\E c \in Closers : closer[l][c] = "joined") => Children(l) = {}
    BY <2>1 DEF ChildInv, Children
  <2> QED BY <2>1, <2>3, <2>4, <2>5, Positions DEF ClosersInv
<1> QED BY <1>1, AppInvariant, PTL
-----------------------------------------------------------------------------
\* The groups of the application behave as TaskGroup says.
THEOREM AppImplementsTaskGroup == Spec => GroupSpec
<1>1. Init => GroupInit
  BY DEF Init
<1> QED BY <1>1, StepsAreGroupSteps, PTL DEF Spec, GroupSpec

\* So all that is promised of a group is promised of each listener's: what spawn
\* accepted is run before the group ends, a close that waited to the end left no
\* child behind, of App and the listener only the first to close waits, and no child
\* is told to stop before the deadline.
THEOREM AppGroupsKeepTheirPromises ==
    Spec => /\ []NothingBehindShutdown
            /\ []JoinedMeansNoChildren
            /\ [](\A g \in Groups : OneWaits(g))
            /\ ChildrenGetTheirGrace
BY AppImplementsTaskGroup, GroupNothingBehindShutdown, GroupJoinedMeansNoChildren,
   GroupOneCloserWaits, GroupChildrenGetTheirGrace, PTL

\* A listener that fails, or that ends, never withdraws readiness once /ready
\* succeeds: the store of `ready` in the wrapper of spawn_server finds it false, and
\* only shutdown makes it so.
THEOREM AppReadyUntilShutdown ==
    Spec => [][ready => ready' \/ app = "stopping"]_vars
<1> DEFINE Stays == ready => ready' \/ app = "stopping"
<1>1. AppInv /\ [Next]_vars => [Stays]_vars
  <2> SUFFICES ASSUME AppInv, Next, ready, app # "stopping" PROVE ready'
    OBVIOUS
  <2>0. app = "running" /\ \A l \in Groups : readiness[l] = "ok"
    BY DEF AppInv, OrderInv, AllBound
  <2>1. \A l \in Groups : listener[l] \in {"serving", "closing", "exited"}
    BY <2>0 DEF AppInv, ListenerInv
  <2>2. CASE AppStep
    <3>1. CASE \E l \in Groups : AppCloses(l) \/ AbortHandle(l) \/ Sends(l, "app")
      BY <3>1 DEF AppCloses, AbortHandle, Sends, appVars
    <3> QED BY <2>0, <2>2, <3>1 DEF AppStep, StartRefused, Start, ListenerIsBound,
            ListenerIsNotBound, CheckFailed, Announce, Withdraw, Cancel, GroupsClosed,
            JoinHandle, AllStopped
  <2>3. CASE ShutdownSignal \/ ShutdownDeadlinePasses
    BY <2>3 DEF ShutdownSignal, ShutdownDeadlinePasses
  <2>4. ASSUME NEW l \in Groups, Bind(l) PROVE ready'
    BY <2>1, <2>4 DEF Bind, BindOk, BindFails, RecordFailure, IgnoreFailure,
       RevokeReadiness, SetListener
  <2>5. ASSUME NEW l \in Groups, Serve(l) PROVE ready'
    BY <2>5 DEF Serve, StopServing, EndpointIsGone, ListenerCloses, ListenerExits, Spawns,
       appVars
  <2>6. ASSUME NEW l \in Groups,
               \/ Supervises(l) \/ GroupDeadlinePasses(l) \/ Sends(l, "listener")
               \/ \E t \in Tasks : ChildGone(l, t)
        PROVE  ready'
    BY <2>6 DEF Supervises, GroupDeadlinePasses, Sends, ChildGone, appVars
  <2> QED BY <2>2, <2>3, <2>4, <2>5, <2>6 DEF Next
<1> QED BY <1>1, AppInvariant, PTL DEF Spec
=============================================================================
