-------------------------- MODULE TaskGroupProofs ---------------------------
(***************************************************************************)
(* Proofs about TaskGroup, for any number of groups, tasks and closers.    *)
(*                                                                         *)
(* That a waiting closer leaves nothing behind rests on the channel being  *)
(* empty once Shutdown was received, and that on two facts about the lock: *)
(* whoever closed the group is the only one to send Shutdown, and nothing  *)
(* is sent to a closed group but that.  Both are part of the invariant.    *)
(***************************************************************************)
EXTENDS TaskGroup, SequenceTheorems, TLAPS

\* The channel: as in NothingBehindShutdown, one group at a time.
ChannelInv(g) ==
    /\ \A i \in 1..Len(queue[g]) : queue[g][i] = Shutdown =>
          i = Len(queue[g]) /\ closed[g]
    /\ supervisor[g] # "running" => queue[g] = <<>>
    /\ supervisor[g] \in {"draining", "gone"} => closed[g] \/ abandoned[g]
    /\ \A t \in Tasks : task[g][t] = "queued" =>
          \E i \in 1..Len(queue[g]) : queue[g][i] = t

\* The closers: nobody is one before the group is closed, and the one that has
\* still to send Shutdown is alone.
CloserInv(g) ==
    \A c \in Closers :
        /\ closer[g][c] # "out" => closed[g]
        /\ closer[g][c] = "closing" =>
              /\ supervisor[g] = "running"
              /\ ~abandoned[g]
              /\ \A i \in 1..Len(queue[g]) : queue[g][i] # Shutdown
              /\ \A d \in Closers \ {c} : closer[g][d] # "closing"
        /\ closer[g][c] = "joined" => supervisor[g] \in {"absent", "gone"}

\* The children: none before the supervisor, none after a closer was woken.
ChildInv(g) ==
    /\ supervisor[g] = "absent" =>
          \A t \in Tasks : task[g][t] \in {"new", "rejected"}
    /\ (\E c \in Closers : closer[g][c] = "joined") =>
          \A t \in Tasks : task[g][t] \notin Alive \cup {"queued"}

GroupInv(g) == ChannelInv(g) /\ CloserInv(g) /\ ChildInv(g)

Inv == GroupTypeOK /\ \A g \in Groups : GroupInv(g)

-----------------------------------------------------------------------------
\* The channel as a sequence: where the elements are after a send, and after a
\* receive.
LEMMA Sent ==
    ASSUME NEW S, NEW q \in Seq(S), NEW e \in S
    PROVE  /\ Append(q, e) \in Seq(S)
           /\ \A i \in 1..Len(q) : i \in 1..Len(Append(q, e)) /\ Append(q, e)[i] = q[i]
           /\ Len(Append(q, e)) \in 1..Len(Append(q, e))
           /\ Append(q, e)[Len(Append(q, e))] = e
           /\ \A i \in 1..Len(Append(q, e)) : i \in 1..Len(q) \/ i = Len(Append(q, e))
  OBVIOUS

LEMMA Received ==
    ASSUME NEW S, NEW q \in Seq(S), q # <<>>
    PROVE  /\ Head(q) \in S /\ Head(q) = q[1] /\ 1 \in 1..Len(q)
           /\ Tail(q) \in Seq(S)
           /\ Len(q) = 1 => Tail(q) = <<>>
           /\ \A i \in 1..Len(Tail(q)) : i + 1 \in 1..Len(q) /\ Tail(q)[i] = q[i + 1]
           /\ \A i \in 1..Len(Tail(q)) : i + 1 = Len(q) => i = Len(Tail(q))
           /\ \A i \in 1..Len(q) : i # 1 =>
                 i - 1 \in 1..Len(Tail(q)) /\ Tail(q)[i - 1] = q[i]
<1>1. Len(q) \in Nat /\ Len(q) # 0
  OBVIOUS
<1>2. Head(q) \in S /\ Head(q) = q[1] /\ Tail(q) \in Seq(S)
  OBVIOUS
<1>3. Len(Tail(q)) = Len(q) - 1
  OBVIOUS
<1>4. \A i \in 1..(Len(q) - 1) : Tail(q)[i] = q[i + 1]
  OBVIOUS
<1>5. Len(q) = 1 => Tail(q) = <<>>
  <2>1. Tail(q) # <<>> => Len(Tail(q)) \in Nat \ {0}
    BY <1>2, EmptySeq
  <2> QED BY <2>1, <1>3
<1>6. ASSUME NEW i \in 1..Len(q), i # 1
      PROVE  i - 1 \in 1..Len(Tail(q)) /\ Tail(q)[i - 1] = q[i]
  <2>1. i - 1 \in 1..(Len(q) - 1) /\ (i - 1) + 1 = i
    BY <1>1, <1>6
  <2> QED BY <2>1, <1>3, <1>4
<1>7. \A i \in 1..Len(Tail(q)) : i + 1 \in 1..Len(q) /\ Tail(q)[i] = q[i + 1]
  BY <1>1, <1>3, <1>4
<1>8. ASSUME NEW i \in 1..Len(Tail(q)), i + 1 = Len(q)
      PROVE  i = Len(Tail(q))
  <2>1. i \in Int
    BY <1>1, <1>3
  <2>2. Len(q) - 1 = i
    BY <1>1, <1>8, <2>1
  <2> QED BY <2>2, <1>3
<1>9. 1 \in 1..Len(q)
  BY <1>1
<1> QED BY <1>2, <1>5, <1>6, <1>7, <1>8, <1>9

-----------------------------------------------------------------------------
\* The initial state satisfies the invariant.
LEMMA GroupsStart == GroupInit => Inv
  BY TaskGroupAssumption DEF GroupInit, Inv, GroupTypeOK, GroupInv, ChannelInv,
     CloserInv, ChildInv, Alive

\* Every variable keeps its type.
LEMMA TypesKept == GroupTypeOK /\ [GroupNext]_groupVars => GroupTypeOK'
<1> SUFFICES ASSUME GroupTypeOK, [GroupNext]_groupVars
             PROVE  GroupTypeOK'
  OBVIOUS
<1> USE TaskGroupAssumption DEF GroupTypeOK, SetTask, SetCloser, StopChildren
<1>1. ASSUME NEW g \in Groups, Supervise(g) PROVE GroupTypeOK'
  <2>1. CASE ReceiveSpawn(g)
    <3>1. Head(queue[g]) \in Tasks /\ Tail(queue[g]) \in Seq(Tasks \cup {Shutdown})
      BY <2>1 DEF ReceiveSpawn
    <3> QED BY <2>1, <3>1 DEF ReceiveSpawn
  <2>2. CASE ReceiveShutdown(g)
    <3>1. Tail(queue[g]) \in Seq(Tasks \cup {Shutdown})
      BY <2>2 DEF ReceiveShutdown
    <3> QED BY <2>2, <3>1 DEF ReceiveShutdown
  <2>3. CASE AbortAll(g)
    BY <2>3 DEF AbortAll
  <2>4. CASE Complete(g)
    BY <2>4 DEF Complete
  <2>5. CASE EndUnclosed(g)
    BY <2>5 DEF EndUnclosed
  <2> QED BY <1>1, <2>1, <2>2, <2>3, <2>4, <2>5 DEF Supervise
<1>2. ASSUME NEW g \in Groups, DeadlinePasses(g) \/ Abandon(g) PROVE GroupTypeOK'
  BY <1>2 DEF DeadlinePasses, Abandon
<1>3. ASSUME NEW g \in Groups, NEW t \in Tasks,
             SpawnRejected(g, t) \/ SpawnQueued(g, t) \/ ChildEnds(g, t) \/ ChildStops(g, t)
      PROVE  GroupTypeOK'
  <2>1. CASE SpawnRejected(g, t)
    BY <2>1 DEF SpawnRejected
  <2>2. CASE SpawnQueued(g, t)
    <3>1. Append(queue[g], t) \in Seq(Tasks \cup {Shutdown})
      OBVIOUS
    <3>2. queue' \in [Groups -> Seq(Tasks \cup {Shutdown})]
      BY <2>2, <3>1 DEF SpawnQueued
    <3>3. supervisor' \in [Groups -> {"absent", "running", "draining", "gone"}]
      BY <2>2 DEF SpawnQueued
    <3> QED BY <2>2, <3>2, <3>3 DEF SpawnQueued
  <2>3. CASE ChildEnds(g, t)
    BY <2>3 DEF ChildEnds
  <2>4. CASE ChildStops(g, t)
    BY <2>4 DEF ChildStops
  <2> QED BY <1>3, <2>1, <2>2, <2>3, <2>4
<1>4. ASSUME NEW g \in Groups, NEW c \in Closers,
             Close(g, c) \/ SendShutdown(g, c) \/ CancelCloser(g, c)
      PROVE  GroupTypeOK'
  <2>1. CASE CloseAgain(g, c)
    BY <2>1 DEF CloseAgain
  <2>2. CASE CloseUnused(g, c)
    BY <2>2 DEF CloseUnused
  <2>5. CASE CloseFirst(g, c)
    BY <2>5 DEF CloseFirst
  <2>3. CASE SendShutdown(g, c)
    <3>1. Append(queue[g], Shutdown) \in Seq(Tasks \cup {Shutdown})
      OBVIOUS
    <3>2. queue' \in [Groups -> Seq(Tasks \cup {Shutdown})]
      BY <2>3, <3>1 DEF SendShutdown
    <3> QED BY <2>3, <3>2 DEF SendShutdown
  <2>4. CASE CancelCloser(g, c)
    BY <2>4 DEF CancelCloser
  <2> QED BY <1>4, <2>1, <2>2, <2>3, <2>4, <2>5 DEF Close
<1>5. CASE UNCHANGED groupVars
  BY <1>5 DEF groupVars
<1> HIDE DEF GroupTypeOK
<1> QED BY ONLY [GroupNext]_groupVars, <1>1, <1>2, <1>3, <1>4, <1>5 DEF GroupNext

-----------------------------------------------------------------------------
\* A step of one group leaves the others alone.
StepOf(g) ==
    \/ Supervise(g)
    \/ DeadlinePasses(g)
    \/ Abandon(g)
    \/ \E t \in Tasks : SpawnRejected(g, t) \/ SpawnQueued(g, t)
                          \/ ChildEnds(g, t) \/ ChildStops(g, t)
    \/ \E c \in Closers : Close(g, c) \/ SendShutdown(g, c) \/ CancelCloser(g, c)

Same(h) ==
    /\ closed'[h] = closed[h]
    /\ supervisor'[h] = supervisor[h]
    /\ queue'[h] = queue[h]
    /\ task'[h] = task[h]
    /\ closer'[h] = closer[h]
    /\ abandoned'[h] = abandoned[h]

LEMMA OthersSame ==
    ASSUME GroupTypeOK, NEW g \in Groups, NEW h \in Groups \ {g}, StepOf(g)
    PROVE  Same(h)
<1> USE DEF GroupTypeOK, Same, SetTask, SetCloser
<1>1. CASE Supervise(g)
  BY <1>1 DEF Supervise, ReceiveSpawn, ReceiveShutdown, AbortAll, Complete, EndUnclosed,
              StopChildren
<1>2. CASE DeadlinePasses(g) \/ Abandon(g)
  BY <1>2 DEF DeadlinePasses, Abandon
<1>3. ASSUME NEW t \in Tasks,
             SpawnRejected(g, t) \/ SpawnQueued(g, t) \/ ChildEnds(g, t) \/ ChildStops(g, t)
      PROVE  Same(h)
  BY <1>3 DEF SpawnRejected, SpawnQueued, ChildEnds, ChildStops
<1>4. ASSUME NEW c \in Closers,
             Close(g, c) \/ SendShutdown(g, c) \/ CancelCloser(g, c)
      PROVE  Same(h)
  BY <1>4 DEF Close, CloseAgain, CloseUnused, CloseFirst, SendShutdown, CancelCloser
<1> QED BY <1>1, <1>2, <1>3, <1>4 DEF StepOf

LEMMA SameKeeps ==
    ASSUME NEW h \in Groups, GroupInv(h), Same(h)
    PROVE  GroupInv(h)'
  BY DEF GroupInv, ChannelInv, CloserInv, ChildInv, Same

-----------------------------------------------------------------------------
\* The group that takes the step.

LEMMA SpawnKeeps ==
    ASSUME GroupTypeOK, NEW g \in Groups, NEW t \in Tasks, GroupInv(g),
           SpawnRejected(g, t) \/ SpawnQueued(g, t)
    PROVE  GroupInv(g)'
<1> USE TaskGroupAssumption DEF GroupTypeOK, SetTask, Alive
<1>1. CASE SpawnRejected(g, t)
  <2>1. /\ task'[g] = [task[g] EXCEPT ![t] = "rejected"]
        /\ task[g][t] = "new"
        /\ closed' = closed /\ supervisor' = supervisor /\ queue' = queue
        /\ closer' = closer /\ abandoned' = abandoned
    BY <1>1 DEF SpawnRejected
  <2>2. ChannelInv(g)'
    BY <2>1 DEF GroupInv, ChannelInv
  <2>3. CloserInv(g)'
    BY <2>1 DEF GroupInv, CloserInv
  <2>4. ChildInv(g)'
    BY <2>1 DEF GroupInv, ChildInv
  <2> QED BY <2>2, <2>3, <2>4 DEF GroupInv
<1>2. CASE SpawnQueued(g, t)
  <2>1. /\ task'[g] = [task[g] EXCEPT ![t] = "queued"]
        /\ queue'[g] = Append(queue[g], t)
        /\ supervisor'[g] = IF supervisor[g] = "absent" THEN "running" ELSE supervisor[g]
        /\ ~closed[g] /\ ~abandoned[g]
        /\ closed' = closed /\ closer' = closer /\ abandoned' = abandoned
    BY <1>2 DEF SpawnQueued
  <2>2. \A c \in Closers : closer[g][c] = "out"
    BY <2>1 DEF GroupInv, CloserInv
  <2>3. supervisor'[g] = "running"
    <3>1. supervisor[g] \in {"absent", "running", "draining", "gone"}
      OBVIOUS
    <3> QED BY <3>1, <2>1 DEF GroupInv, ChannelInv
  <2>4. ChannelInv(g)'
    <3>1. /\ \A i \in 1..Len(queue[g]) :
                i \in 1..Len(queue'[g]) /\ queue'[g][i] = queue[g][i]
          /\ Len(queue'[g]) \in 1..Len(queue'[g])
          /\ queue'[g][Len(queue'[g])] = t
          /\ \A i \in 1..Len(queue'[g]) : i \in 1..Len(queue[g]) \/ i = Len(queue'[g])
      <4>1. queue[g] \in Seq(Tasks \cup {Shutdown}) /\ t \in Tasks \cup {Shutdown}
        OBVIOUS
      <4> QED BY <2>1, <4>1, Sent
    <3>2. \A i \in 1..Len(queue'[g]) : queue'[g][i] # Shutdown
      BY <3>1, <2>1 DEF GroupInv, ChannelInv
    <3>3. ASSUME NEW s \in Tasks, task'[g][s] = "queued"
          PROVE  \E i \in 1..Len(queue'[g]) : queue'[g][i] = s
      <4>1. CASE s = t
        BY <4>1, <3>1
      <4>2. CASE s # t
        <5>1. task[g][s] = "queued"
          BY <4>2, <3>3, <2>1
        <5>2. PICK i \in 1..Len(queue[g]) : queue[g][i] = s
          BY <5>1 DEF GroupInv, ChannelInv
        <5> QED BY <5>2, <3>1
      <4> QED BY <4>1, <4>2
    <3> QED BY <2>3, <3>2, <3>3 DEF ChannelInv
  <2>5. CloserInv(g)' /\ ChildInv(g)'
    BY <2>1, <2>2, <2>3 DEF CloserInv, ChildInv
  <2> QED BY <2>4, <2>5 DEF GroupInv
<1> QED BY <1>1, <1>2

\* A closer takes a step.
LEMMA CloseKeeps ==
    ASSUME GroupTypeOK, NEW g \in Groups, NEW c \in Closers, GroupInv(g),
           Close(g, c) \/ SendShutdown(g, c) \/ CancelCloser(g, c)
    PROVE  GroupInv(g)'
<1> USE TaskGroupAssumption DEF GroupTypeOK, SetCloser
<1>1. CASE CloseAgain(g, c) \/ CancelCloser(g, c)
  <2>1. /\ \A d \in Closers : closer'[g][d] \in {closer[g][d], "returned", "cancelled"}
        /\ closed[g]
        /\ closed' = closed /\ supervisor' = supervisor /\ queue' = queue
        /\ task' = task /\ abandoned' = abandoned
    BY <1>1 DEF CloseAgain, CancelCloser, GroupInv, CloserInv
  <2>2. ChannelInv(g)'
    BY <2>1 DEF GroupInv, ChannelInv
  <2>3. ASSUME NEW d \in Closers, closer'[g][d] = "closing"
        PROVE  /\ closer[g][d] = "closing"
               /\ \A e \in Closers : closer'[g][e] = "closing" => closer[g][e] = "closing"
    BY <2>1, <2>3
  <2>4. \A d \in Closers : closer'[g][d] = "joined" => closer[g][d] = "joined"
    BY <2>1
  <2>5. CloserInv(g)'
    BY <2>1, <2>3, <2>4 DEF GroupInv, CloserInv
  <2>6. ChildInv(g)'
    BY <2>1, <2>4 DEF GroupInv, ChildInv
  <2> QED BY <2>2, <2>5, <2>6 DEF GroupInv
<1>2. CASE CloseUnused(g, c)
  <2>1. /\ closer'[g] = [closer[g] EXCEPT ![c] = "joined"]
        /\ closed'[g] = TRUE /\ ~closed[g] /\ supervisor[g] = "absent"
        /\ supervisor' = supervisor /\ queue' = queue
        /\ task' = task /\ abandoned' = abandoned
    BY <1>2 DEF CloseUnused
  <2>2. ChannelInv(g)'
    BY <2>1 DEF GroupInv, ChannelInv
  <2>3. CloserInv(g)'
    BY <2>1 DEF GroupInv, CloserInv
  <2>4. ChildInv(g)'
    BY <2>1 DEF GroupInv, ChildInv, Alive
  <2> QED BY <2>2, <2>3, <2>4 DEF GroupInv
<1>3. CASE CloseFirst(g, c)
  <2>1. /\ closer'[g] = [closer[g] EXCEPT ![c] = "closing"]
        /\ closed'[g] = TRUE /\ ~closed[g] /\ ~abandoned[g] /\ supervisor[g] # "absent"
        /\ supervisor' = supervisor /\ queue' = queue
        /\ task' = task /\ abandoned' = abandoned
    BY <1>3 DEF CloseFirst
  <2>2. supervisor[g] = "running"
    <3>1. supervisor[g] \in {"absent", "running", "draining", "gone"}
      OBVIOUS
    <3> QED BY <3>1, <2>1 DEF GroupInv, ChannelInv
  <2>3. \A d \in Closers : closer[g][d] = "out"
    BY <2>1 DEF GroupInv, CloserInv
  <2>4. ChannelInv(g)'
    BY <2>1 DEF GroupInv, ChannelInv
  <2>5. CloserInv(g)'
    BY <2>1, <2>2, <2>3 DEF GroupInv, CloserInv, ChannelInv
  <2>6. ChildInv(g)'
    BY <2>1, <2>3 DEF GroupInv, ChildInv
  <2> QED BY <2>4, <2>5, <2>6 DEF GroupInv
<1>4. CASE SendShutdown(g, c)
  <2>1. /\ closer'[g] = [closer[g] EXCEPT ![c] = "waiting"]
        /\ closer[g][c] = "closing"
        /\ queue'[g] = Append(queue[g], Shutdown)
        /\ closed' = closed /\ supervisor' = supervisor
        /\ task' = task /\ abandoned' = abandoned
    BY <1>4 DEF SendShutdown
  <2>2. /\ closed[g]
        /\ supervisor[g] = "running"
        /\ \A i \in 1..Len(queue[g]) : queue[g][i] # Shutdown
        /\ \A d \in Closers \ {c} : closer[g][d] # "closing"
    BY <2>1 DEF GroupInv, CloserInv
  <2>3. /\ \A i \in 1..Len(queue[g]) :
              i \in 1..Len(queue'[g]) /\ queue'[g][i] = queue[g][i]
        /\ \A i \in 1..Len(queue'[g]) : i \in 1..Len(queue[g]) \/ i = Len(queue'[g])
    <3>1. queue[g] \in Seq(Tasks \cup {Shutdown}) /\ Shutdown \in Tasks \cup {Shutdown}
      OBVIOUS
    <3> QED BY <2>1, <3>1, Sent
  <2>4. ChannelInv(g)'
    <3>1. \A i \in 1..Len(queue'[g]) : queue'[g][i] = Shutdown => i = Len(queue'[g])
      BY <2>2, <2>3
    <3>2. ASSUME NEW s \in Tasks, task'[g][s] = "queued"
          PROVE  \E i \in 1..Len(queue'[g]) : queue'[g][i] = s
      <4>1. PICK i \in 1..Len(queue[g]) : queue[g][i] = s
        BY <3>2, <2>1 DEF GroupInv, ChannelInv
      <4> QED BY <4>1, <2>3
    <3> QED BY <2>1, <2>2, <3>1, <3>2 DEF ChannelInv
  <2>5. CloserInv(g)'
    BY <2>1, <2>2 DEF GroupInv, CloserInv
  <2>6. ChildInv(g)'
    BY <2>1 DEF GroupInv, ChildInv
  <2> QED BY <2>4, <2>5, <2>6 DEF GroupInv
<1> QED BY <1>1, <1>2, <1>3, <1>4 DEF Close

\* The supervisor receives a future.
LEMMA ReceiveSpawnKeeps ==
    ASSUME GroupTypeOK, NEW g \in Groups, GroupInv(g), ReceiveSpawn(g)
    PROVE  GroupInv(g)'
<1> USE TaskGroupAssumption DEF GroupTypeOK
<1> DEFINE t == Head(queue[g])
<1>1. /\ supervisor[g] = "running"
      /\ queue[g] \in Seq(Tasks \cup {Shutdown}) /\ queue[g] # <<>>
      /\ t # Shutdown /\ task[g][t] = "queued"
      /\ task'[g] = [task[g] EXCEPT ![t] = "running"]
      /\ queue'[g] = Tail(queue[g])
      /\ closed' = closed /\ supervisor' = supervisor
      /\ closer' = closer /\ abandoned' = abandoned
  BY DEF ReceiveSpawn, SetTask
<1>2. /\ t \in Tasks /\ t = queue[g][1]
      /\ \A i \in 1..Len(queue'[g]) :
            i + 1 \in 1..Len(queue[g]) /\ queue'[g][i] = queue[g][i + 1]
      /\ \A i \in 1..Len(queue'[g]) : i + 1 = Len(queue[g]) => i = Len(queue'[g])
      /\ \A i \in 1..Len(queue[g]) : i # 1 =>
            i - 1 \in 1..Len(queue'[g]) /\ queue'[g][i - 1] = queue[g][i]
  <2> HIDE DEF t
  <2>1. /\ Head(queue[g]) \in Tasks \cup {Shutdown} /\ Head(queue[g]) = queue[g][1]
    BY <1>1, Received
  <2> QED BY <1>1, <2>1, Received DEF t
<1> HIDE DEF t
<1>3. ChannelInv(g)'
  <2>1. \A i \in 1..Len(queue'[g]) : queue'[g][i] = Shutdown =>
           i = Len(queue'[g]) /\ closed'[g]
    BY <1>1, <1>2 DEF GroupInv, ChannelInv
  <2>2. ASSUME NEW s \in Tasks, task'[g][s] = "queued"
        PROVE  \E i \in 1..Len(queue'[g]) : queue'[g][i] = s
    <3>1. s # t /\ task[g][s] = "queued"
      BY <2>2, <1>1, <1>2
    <3>2. PICK i \in 1..Len(queue[g]) : queue[g][i] = s
      BY <3>1 DEF GroupInv, ChannelInv
    <3>3. i - 1 \in 1..Len(queue'[g]) /\ queue'[g][i - 1] = s
      BY <3>1, <3>2, <1>2
    <3> QED BY <3>3
  <2> QED BY <1>1, <2>1, <2>2 DEF ChannelInv
<1>4. CloserInv(g)'
  <2>1. (\A i \in 1..Len(queue[g]) : queue[g][i] # Shutdown) =>
            \A i \in 1..Len(queue'[g]) : queue'[g][i] # Shutdown
    BY <1>2
  <2> QED BY <1>1, <2>1 DEF GroupInv, CloserInv
<1>5. \A c \in Closers : closer[g][c] # "joined"
  BY <1>1 DEF GroupInv, CloserInv
<1>6. ChildInv(g)'
  BY <1>1, <1>5 DEF ChildInv
<1> QED BY <1>3, <1>4, <1>6 DEF GroupInv

\* It receives Shutdown, which is the last element of the channel.
LEMMA ReceiveShutdownKeeps ==
    ASSUME GroupTypeOK, NEW g \in Groups, GroupInv(g), ReceiveShutdown(g)
    PROVE  GroupInv(g)'
<1> USE TaskGroupAssumption DEF GroupTypeOK
<1>1. /\ supervisor[g] = "running" /\ supervisor'[g] = "draining"
      /\ queue[g] \in Seq(Tasks \cup {Shutdown}) /\ queue[g] # <<>>
      /\ Head(queue[g]) = Shutdown
      /\ queue'[g] = Tail(queue[g])
      /\ closed' = closed /\ task' = task
      /\ closer' = closer /\ abandoned' = abandoned
  BY DEF ReceiveShutdown
<1>2. Head(queue[g]) = queue[g][1] /\ 1 \in 1..Len(queue[g])
  BY <1>1, Received
<1>3. Len(queue[g]) = 1 /\ closed[g]
  BY <1>1, <1>2 DEF GroupInv, ChannelInv
<1>4. queue'[g] = <<>>
  BY <1>1, <1>3, Received
<1>5. \A t \in Tasks : task[g][t] # "queued"
  <2> SUFFICES ASSUME NEW t \in Tasks, task[g][t] = "queued" PROVE FALSE
    OBVIOUS
  <2>1. PICK i \in 1..Len(queue[g]) : queue[g][i] = t
    BY DEF GroupInv, ChannelInv
  <2>2. i = 1
    BY <1>3, <2>1
  <2> QED BY <1>1, <1>2, <2>1, <2>2
<1>6. \A c \in Closers : closer[g][c] \notin {"closing", "joined"}
  BY <1>1, <1>2 DEF GroupInv, CloserInv
<1>7. ChannelInv(g)'
  BY <1>1, <1>3, <1>4, <1>5 DEF ChannelInv
<1>8. CloserInv(g)'
  BY <1>1, <1>6 DEF GroupInv, CloserInv
<1>9. ChildInv(g)'
  BY <1>1, <1>6 DEF ChildInv
<1> QED BY <1>7, <1>8, <1>9 DEF GroupInv

\* Children end or are told to stop; the supervisor may go with them when the
\* group was dropped.
LEMMA ChildrenMove ==
    ASSUME GroupTypeOK, NEW g \in Groups, GroupInv(g),
           closed'[g] = closed[g], queue'[g] = queue[g],
           closer'[g] = closer[g], abandoned'[g] = abandoned[g],
           \/ supervisor'[g] = supervisor[g]
           \/ abandoned[g] /\ queue[g] = <<>> /\ supervisor'[g] = "gone",
           \A t \in Tasks : \/ task'[g][t] = task[g][t]
                            \/ /\ task[g][t] \in Alive
                               /\ task'[g][t] \in {"aborting", "done", "aborted"}
    PROVE  GroupInv(g)'
<1>1. ChannelInv(g)'
  <2>1. \A t \in Tasks : task'[g][t] = "queued" => task[g][t] = "queued"
    OBVIOUS
  <2> QED BY <2>1 DEF GroupInv, ChannelInv
<1>2. CloserInv(g)'
  BY DEF GroupInv, CloserInv
<1>3. ChildInv(g)'
  <2>1. ASSUME supervisor'[g] = "absent", NEW t \in Tasks
        PROVE  task'[g][t] \in {"new", "rejected"}
    <3>1. task[g][t] \in {"new", "rejected"}
      BY <2>1 DEF GroupInv, ChildInv
    <3> QED BY <3>1 DEF Alive
  <2>2. ASSUME NEW c \in Closers, closer'[g][c] = "joined", NEW t \in Tasks
        PROVE  task'[g][t] \notin Alive \cup {"queued"}
    <3>1. task[g][t] \notin Alive \cup {"queued"}
      BY <2>2 DEF GroupInv, ChildInv
    <3> QED BY <3>1
  <2> QED BY <2>1, <2>2 DEF ChildInv
<1> QED BY <1>1, <1>2, <1>3 DEF GroupInv

\* The supervisor wakes the closer: the channel and the JoinSet are empty.
LEMMA CompleteKeeps ==
    ASSUME GroupTypeOK, NEW g \in Groups, GroupInv(g), Complete(g)
    PROVE  GroupInv(g)'
<1> USE DEF GroupTypeOK
<1>1. /\ supervisor[g] = "draining" /\ supervisor'[g] = "gone"
      /\ \A t \in Tasks : task[g][t] \notin Alive
      /\ \A c \in Closers : closer'[g][c] =
            IF closer[g][c] = "waiting" THEN "joined" ELSE closer[g][c]
      /\ closed' = closed /\ queue' = queue /\ task' = task /\ abandoned' = abandoned
  BY DEF Complete, Children
<1>2. queue[g] = <<>> /\ \A t \in Tasks : task[g][t] # "queued"
  <2>1. queue[g] = <<>> /\ Len(queue[g]) = 0
    BY <1>1 DEF GroupInv, ChannelInv
  <2> QED BY <2>1 DEF GroupInv, ChannelInv
<1>3. \A c \in Closers : closer[g][c] # "closing"
  BY <1>1 DEF GroupInv, CloserInv
<1>4. ChannelInv(g)'
  BY <1>1 DEF GroupInv, ChannelInv
<1>5. CloserInv(g)'
  BY <1>1, <1>3 DEF GroupInv, CloserInv
<1>6. ChildInv(g)'
  BY <1>1, <1>2 DEF ChildInv
<1> QED BY <1>4, <1>5, <1>6 DEF GroupInv

\* Every step of the group.
LEMMA StepKeeps ==
    ASSUME GroupTypeOK, NEW g \in Groups, GroupInv(g), StepOf(g)
    PROVE  GroupInv(g)'
<1>1. CASE ReceiveSpawn(g)
  BY <1>1, ReceiveSpawnKeeps
<1>2. CASE ReceiveShutdown(g)
  BY <1>2, ReceiveShutdownKeeps
<1>3. CASE AbortAll(g)
  BY <1>3, ChildrenMove DEF AbortAll, StopChildren, Alive, GroupTypeOK
<1>4. CASE Complete(g)
  BY <1>4, CompleteKeeps
<1>5. CASE EndUnclosed(g)
  BY <1>5, ChildrenMove DEF EndUnclosed, StopChildren, Alive, GroupTypeOK
<1>6. CASE DeadlinePasses(g)
  <2>1. Same(g)
    BY <1>6 DEF DeadlinePasses, Same
  <2> QED BY <2>1, SameKeeps
<1>7. CASE Abandon(g)
  <2>1. /\ \A c \in Closers : closer[g][c] # "closing"
        /\ abandoned'[g] = TRUE
        /\ UNCHANGED <<closed, supervisor, queue, task, closer>>
    BY <1>7 DEF Abandon, GroupTypeOK
  <2> QED BY <2>1 DEF GroupInv, ChannelInv, CloserInv, ChildInv
<1>8. ASSUME NEW t \in Tasks, SpawnRejected(g, t) \/ SpawnQueued(g, t)
      PROVE  GroupInv(g)'
  BY <1>8, SpawnKeeps
<1>9. ASSUME NEW t \in Tasks, ChildEnds(g, t) \/ ChildStops(g, t)
      PROVE  GroupInv(g)'
  BY <1>9, ChildrenMove DEF ChildEnds, ChildStops, SetTask, Alive, GroupTypeOK
<1>10. ASSUME NEW c \in Closers,
              Close(g, c) \/ SendShutdown(g, c) \/ CancelCloser(g, c)
       PROVE  GroupInv(g)'
  BY <1>10, CloseKeeps
<1> QED BY <1>1, <1>2, <1>3, <1>4, <1>5, <1>6, <1>7, <1>8, <1>9, <1>10
        DEF StepOf, Supervise

LEMMA InvKept == Inv /\ [GroupNext]_groupVars => Inv'
<1> SUFFICES ASSUME Inv, [GroupNext]_groupVars PROVE Inv'
  OBVIOUS
<1>1. GroupTypeOK /\ GroupTypeOK'
  BY TypesKept DEF Inv
<1>2. ASSUME NEW g \in Groups, StepOf(g), NEW h \in Groups
      PROVE  GroupInv(h)'
  <2>1. GroupInv(g) /\ GroupInv(h)
    BY DEF Inv
  <2>2. CASE h = g
    BY <1>1, <1>2, <2>1, <2>2, StepKeeps
  <2>3. CASE h # g
    BY <1>1, <1>2, <2>1, <2>3, OthersSame, SameKeeps
  <2> QED BY <2>2, <2>3
<1>3. ASSUME UNCHANGED groupVars, NEW h \in Groups
      PROVE  GroupInv(h)'
  <2>1. Same(h)
    BY <1>3 DEF groupVars, Same
  <2> QED BY <2>1, SameKeeps DEF Inv
<1>4. GroupNext => \E g \in Groups : StepOf(g)
  BY DEF GroupNext, StepOf
<1> QED BY <1>1, <1>2, <1>3, <1>4 DEF Inv

-----------------------------------------------------------------------------
\* The invariant holds of every reachable state.
THEOREM GroupInvariant == GroupSpec => []Inv
  BY GroupsStart, InvKept, PTL DEF GroupSpec

\* Every variable has its type.
THEOREM GroupTypes == GroupSpec => []GroupTypeOK
<1>1. Inv => GroupTypeOK
  BY DEF Inv
<1> QED BY <1>1, GroupInvariant, PTL

\* spawn and close_and_wait_until, ordered by the state lock alone, never let a
\* future be accepted and then lost behind Shutdown.
THEOREM GroupNothingBehindShutdown == GroupSpec => []NothingBehindShutdown
<1>1. ASSUME Inv, NEW g \in Groups
      PROVE  /\ \A i \in 1..Len(queue[g]) : queue[g][i] = Shutdown => i = Len(queue[g])
             /\ supervisor[g] \in {"draining", "gone"} => queue[g] = <<>>
             /\ \A t \in Tasks :
                   task[g][t] = "queued" => \E i \in 1..Len(queue[g]) : queue[g][i] = t
  <2>1. ChannelInv(g)
    BY <1>1 DEF Inv, GroupInv
  <2> QED BY <2>1 DEF ChannelInv
<1>2. Inv => NothingBehindShutdown
  BY <1>1 DEF NothingBehindShutdown
<1> QED BY <1>2, GroupInvariant, PTL

\* A close_and_wait_until that waited to the end leaves no child behind.
THEOREM GroupJoinedMeansNoChildren == GroupSpec => []JoinedMeansNoChildren
<1>1. Inv => JoinedMeansNoChildren
  BY DEF Inv, GroupInv, CloserInv, ChildInv, JoinedMeansNoChildren
<1> QED BY <1>1, GroupInvariant, PTL

\* A child is told to stop only when its grace is over.
THEOREM GroupChildrenGetTheirGrace == GroupSpec => ChildrenGetTheirGrace
<1> DEFINE Grace == \A g \in Groups, t \in Tasks :
        task[g][t] = "running" /\ task'[g][t] = "aborting" => expired[g] \/ abandoned[g]
<1>1. GroupTypeOK /\ [GroupNext]_groupVars => [Grace]_groupVars
  <2> SUFFICES ASSUME GroupTypeOK, GroupNext,
                      NEW h \in Groups, NEW s \in Tasks,
                      task[h][s] = "running", task'[h][s] = "aborting"
               PROVE  expired[h] \/ abandoned[h]
    OBVIOUS
  <2>1. PICK g \in Groups : StepOf(g)
    BY DEF GroupNext, StepOf
  <2>2. h = g
    BY <2>1, OthersSame DEF Same
  <2>3. CASE Supervise(g)
    <3>1. ~ReceiveSpawn(g)
      <4> SUFFICES ASSUME ReceiveSpawn(g) PROVE FALSE
        OBVIOUS
      <4> DEFINE t == Head(queue[g])
      <4>1. task' = [task EXCEPT ![g][t] = "running"]
        BY DEF ReceiveSpawn, SetTask
      <4>2. task \in [Groups -> [Tasks -> {"new", "queued", "running", "done",
                                           "aborting", "aborted", "rejected"}]]
        BY DEF GroupTypeOK
      <4> HIDE DEF t
      <4>3. task'[g][s] \in {task[g][s], "running"}
        BY <4>1, <4>2
      <4> QED BY <2>2, <4>3
    <3>2. ~ReceiveShutdown(g) /\ ~Complete(g)
      BY DEF ReceiveShutdown, Complete
    <3> QED BY <2>2, <2>3, <3>1, <3>2 DEF Supervise, AbortAll, EndUnclosed
  <2>4. CASE DeadlinePasses(g) \/ Abandon(g)
    BY <2>4 DEF DeadlinePasses, Abandon
  <2>5. ASSUME NEW t \in Tasks,
               SpawnRejected(g, t) \/ SpawnQueued(g, t) \/ ChildEnds(g, t) \/ ChildStops(g, t)
        PROVE  FALSE
    <3>1. PICK to \in {"rejected", "queued", "done", "aborted"} :
             task' = [task EXCEPT ![g][t] = to]
      BY <2>5 DEF SpawnRejected, SpawnQueued, ChildEnds, ChildStops, SetTask
    <3>2. task'[g][s] \in {task[g][s], to}
      BY <3>1 DEF GroupTypeOK
    <3> QED BY <2>2, <3>1, <3>2
  <2>6. ASSUME NEW c \in Closers,
               Close(g, c) \/ SendShutdown(g, c) \/ CancelCloser(g, c)
        PROVE  FALSE
    BY <2>6 DEF Close, CloseAgain, CloseUnused, CloseFirst, SendShutdown, CancelCloser
  <2> QED BY <2>1, <2>3, <2>4, <2>5, <2>6 DEF StepOf
<1> QED BY <1>1, GroupTypes, PTL DEF GroupSpec, ChildrenGetTheirGrace
-----------------------------------------------------------------------------
\* Of all that close a group only the first waits, or waited, for its end.
Waits == {"closing", "waiting", "joined", "cancelled"}
OneWaits(g) == \A c, d \in Closers : closer[g][c] \in Waits /\ closer[g][d] \in Waits => c = d

\* Where nobody begins to wait, still only one does.
LEMMA NobodyBegins ==
    ASSUME NEW g \in Groups, OneWaits(g),
           \A c \in Closers : closer'[g][c] \in Waits => closer[g][c] \in Waits
    PROVE  OneWaits(g)'
BY DEF OneWaits

\* The first closer finds the group open, and so nobody that waits.
LEMMA OneWaitsKept ==
    ASSUME Inv, \A g \in Groups : OneWaits(g), GroupNext, NEW h \in Groups
    PROVE  OneWaits(h)'
<1>0. /\ GroupTypeOK /\ OneWaits(h) /\ CloserInv(h)
      /\ closer \in [Groups -> [Closers ->
                   {"out", "closing", "waiting", "joined", "returned", "cancelled"}]]
  BY DEF Inv, GroupInv, GroupTypeOK
<1>1. PICK g \in Groups : StepOf(g)
  BY DEF GroupNext, StepOf
<1>2. CASE h # g
  BY <1>0, <1>1, <1>2, OthersSame, NobodyBegins DEF Same
<1>3. CASE h = g
  <2>1. CASE closer' = closer
    BY <1>0, <2>1, NobodyBegins
  <2>2. CASE Complete(g)
    <3>1. \A c \in Closers : closer'[g][c] \in Waits => closer[g][c] \in Waits
      BY <1>0, <2>2 DEF Complete, Waits
    <3> QED BY <1>0, <1>3, <3>1, NobodyBegins
  <2>3. ASSUME NEW c \in Closers, CloseAgain(g, c) \/ SendShutdown(g, c) \/ CancelCloser(g, c)
        PROVE  OneWaits(h)'
    <3>1. PICK to \in {"returned", "waiting", "cancelled"} :
             /\ closer' = [closer EXCEPT ![g][c] = to]
             /\ to # "returned" => closer[g][c] \in {"closing", "waiting"}
      BY <2>3 DEF CloseAgain, SendShutdown, CancelCloser, SetCloser
    <3>2. \A d \in Closers : closer'[g][d] = IF d = c THEN to ELSE closer[g][d]
      BY <1>0, <3>1
    <3>3. \A d \in Closers : closer'[g][d] \in Waits => closer[g][d] \in Waits
      BY <3>1, <3>2 DEF Waits
    <3> QED BY <1>0, <1>3, <3>3, NobodyBegins
  <2>4. ASSUME NEW c \in Closers, CloseUnused(g, c) \/ CloseFirst(g, c)
        PROVE  OneWaits(h)'
    <3>1. PICK to \in {"joined", "closing"} :
             ~closed[g] /\ closer' = [closer EXCEPT ![g][c] = to]
      BY <2>4 DEF CloseUnused, CloseFirst, SetCloser
    <3>2. \A d \in Closers : closer'[g][d] = IF d = c THEN to ELSE closer[g][d]
      BY <1>0, <3>1
    <3>3. \A d \in Closers : closer[g][d] = "out"
      BY <1>0, <1>3, <3>1 DEF CloserInv
    <3>4. \A d \in Closers : closer'[g][d] \in Waits => d = c
      BY <3>2, <3>3 DEF Waits
    <3> QED BY <1>3, <3>4 DEF OneWaits
  <2>5. \/ closer' = closer \/ Complete(g)
        \/ \E c \in Closers : CloseAgain(g, c) \/ SendShutdown(g, c) \/ CancelCloser(g, c)
                            \/ CloseUnused(g, c) \/ CloseFirst(g, c)
    BY <1>1 DEF StepOf, Supervise, ReceiveSpawn, ReceiveShutdown, AbortAll, EndUnclosed,
       DeadlinePasses, Abandon, SpawnRejected, SpawnQueued, ChildEnds, ChildStops, Close
  <2> QED BY <2>1, <2>2, <2>3, <2>4, <2>5
<1> QED BY <1>2, <1>3

\* A second close_and_wait_until returns at once, whatever still runs: no two of them
\* ever wait for the same group, which is why App does not wait for the children of
\* a group that its listener closed first.
THEOREM GroupOneCloserWaits == GroupSpec => [](\A g \in Groups : OneWaits(g))
<1> DEFINE Ones == \A g \in Groups : OneWaits(g)
<1>1. GroupInit => Ones
  BY DEF GroupInit, OneWaits, Waits
<1>2. Inv /\ Ones /\ [GroupNext]_groupVars => Ones'
  <2>1. CASE UNCHANGED groupVars
    BY <2>1 DEF groupVars, OneWaits
  <2> QED BY <2>1, OneWaitsKept
<1> QED BY <1>1, <1>2, GroupInvariant, PTL DEF GroupSpec
=============================================================================
