----------------------------- MODULE TaskGroup ------------------------------
(***************************************************************************)
(* The task supervisors of src/src/tasks.rs, one per listener: the state   *)
(* behind a lock (closed, the sender of the command channel), the command  *)
(* channel, and the supervisor task that is the sole owner of the JoinSet. *)
(*                                                                         *)
(* spawn runs inside the critical section of the state lock and is one     *)
(* step.  close_and_wait_until has three: the critical section, the send   *)
(* of Shutdown after it, and the end of the wait.                          *)
(*                                                                         *)
(* Time is the order of events: DeadlinePasses is the moment the deadline  *)
(* of the Shutdown that a group received goes by.                          *)
(***************************************************************************)
EXTENDS Naturals, Sequences

CONSTANTS
    Groups,     \* the task groups
    Tasks,      \* identities of the futures handed to spawn, per group
    Closers,    \* those that may call close_and_wait_until
    Shutdown    \* Command::Shutdown; a task stands for Command::Spawn(task)

ASSUME TaskGroupAssumption == Shutdown \notin Tasks

VARIABLES
    closed,       \* TaskGroupState.closed
    supervisor,   \* absent until the first spawn creates channel and actor
    queue,        \* the command channel
    task,         \* what became of each future
    closer,       \* where each caller of close_and_wait_until is
    expired,      \* the deadline of the group's Shutdown has passed
    abandoned     \* every clone of the group was dropped

groupVars == <<closed, supervisor, queue, task, closer, expired, abandoned>>

\* A child that runs, and one that was told to stop at its next await.
Alive == {"running", "aborting"}
Children(g) == {t \in Tasks : task[g][t] \in Alive}

SetTask(g, t, from, to) ==
    /\ task[g][t] = from
    /\ task' = [task EXCEPT ![g][t] = to]

SetCloser(g, c, from, to) ==
    /\ closer[g][c] = from
    /\ closer' = [closer EXCEPT ![g][c] = to]

GroupInit ==
    /\ closed = [g \in Groups |-> FALSE]
    /\ supervisor = [g \in Groups |-> "absent"]
    /\ queue = [g \in Groups |-> <<>>]
    /\ task = [g \in Groups |-> [t \in Tasks |-> "new"]]
    /\ closer = [g \in Groups |-> [c \in Closers |-> "out"]]
    /\ expired = [g \in Groups |-> FALSE]
    /\ abandoned = [g \in Groups |-> FALSE]

-----------------------------------------------------------------------------
\* spawn_command, by the listener or by a child

\* A closed group drops the future without running it.
SpawnRejected(g, t) ==
    /\ ~abandoned[g]
    /\ closed[g]
    /\ SetTask(g, t, "new", "rejected")
    /\ UNCHANGED <<closed, supervisor, queue, closer, expired, abandoned>>

\* Mutant: closed is read before the lock is taken.
SpawnQueued_StaleClosed(g, t) ==
    /\ ~abandoned[g]
    /\ SetTask(g, t, "new", "queued")
    /\ supervisor' = [supervisor EXCEPT ![g] = IF @ = "absent" THEN "running" ELSE @]
    /\ queue' = [queue EXCEPT ![g] = Append(@, t)]
    /\ UNCHANGED <<closed, closer, expired, abandoned>>

\* The first spawn starts the supervisor.
SpawnQueued(g, t) ==
    /\ ~abandoned[g]
    /\ ~closed[g]
    /\ SetTask(g, t, "new", "queued")
    /\ supervisor' = [supervisor EXCEPT ![g] = IF @ = "absent" THEN "running" ELSE @]
    /\ queue' = [queue EXCEPT ![g] = Append(@, t)]
    /\ UNCHANGED <<closed, closer, expired, abandoned>>

-----------------------------------------------------------------------------
\* close_and_wait_until

\* The group is closed already: return at once, whatever still runs in it.
CloseAgain(g, c) ==
    /\ ~abandoned[g]
    /\ closed[g]
    /\ SetCloser(g, c, "out", "returned")
    /\ UNCHANGED <<closed, supervisor, queue, task, expired, abandoned>>

\* Nothing was ever spawned: there is no supervisor to wait for.
CloseUnused(g, c) ==
    /\ ~abandoned[g]
    /\ ~closed[g]
    /\ supervisor[g] = "absent"
    /\ closed' = [closed EXCEPT ![g] = TRUE]
    /\ SetCloser(g, c, "out", "joined")
    /\ UNCHANGED <<supervisor, queue, task, expired, abandoned>>

\* The critical section of the first closer ...
CloseFirst(g, c) ==
    /\ ~abandoned[g]
    /\ ~closed[g]
    /\ supervisor[g] # "absent"
    /\ closed' = [closed EXCEPT ![g] = TRUE]
    /\ SetCloser(g, c, "out", "closing")
    /\ UNCHANGED <<supervisor, queue, task, expired, abandoned>>

\* ... and its send, after it released the lock.
SendShutdown(g, c) ==
    /\ SetCloser(g, c, "closing", "waiting")
    /\ queue' = [queue EXCEPT ![g] = Append(@, Shutdown)]
    /\ UNCHANGED <<closed, supervisor, task, expired, abandoned>>

\* The future that waits for `completed` is dropped: its task was aborted.
CancelCloser(g, c) ==
    /\ SetCloser(g, c, "waiting", "cancelled")
    /\ UNCHANGED <<closed, supervisor, queue, task, expired, abandoned>>

DeadlinePasses(g) ==
    /\ closed[g]
    /\ ~expired[g]
    /\ expired' = [expired EXCEPT ![g] = TRUE]
    /\ UNCHANGED <<closed, supervisor, queue, task, closer, abandoned>>

-----------------------------------------------------------------------------
\* The supervisor

ReceiveSpawn(g) ==
    /\ supervisor[g] = "running"
    /\ queue[g] # <<>> /\ Head(queue[g]) # Shutdown
    /\ SetTask(g, Head(queue[g]), "queued", "running")
    /\ queue' = [queue EXCEPT ![g] = Tail(@)]
    /\ UNCHANGED <<closed, supervisor, closer, expired, abandoned>>

\* receiver.close(), then wait for the children.
ReceiveShutdown(g) ==
    /\ supervisor[g] = "running"
    /\ queue[g] # <<>> /\ Head(queue[g]) = Shutdown
    /\ supervisor' = [supervisor EXCEPT ![g] = "draining"]
    /\ queue' = [queue EXCEPT ![g] = Tail(@)]
    /\ UNCHANGED <<closed, task, closer, expired, abandoned>>

StopChildren(g) ==
    task' = [task EXCEPT ![g] = [t \in Tasks |->
                IF task[g][t] = "running" THEN "aborting" ELSE task[g][t]]]

\* Mutant: the children are aborted as soon as the group is closed.
AbortAll_NoGrace(g) ==
    /\ supervisor[g] = "draining"
    /\ \E t \in Tasks : task[g][t] = "running"
    /\ StopChildren(g)
    /\ UNCHANGED <<closed, supervisor, queue, closer, expired, abandoned>>

\* timeout_at(deadline, join_next()) elapses while a child is still running.
AbortAll(g) ==
    /\ supervisor[g] = "draining"
    /\ expired[g]
    /\ \E t \in Tasks : task[g][t] = "running"
    /\ StopChildren(g)
    /\ UNCHANGED <<closed, supervisor, queue, closer, expired, abandoned>>

\* Mutants: completion is signalled when the children were told to stop, or is
\* forgotten.
Complete_WithoutJoin(g) ==
    /\ supervisor[g] = "draining"
    /\ \A t \in Tasks : task[g][t] # "running"
    /\ supervisor' = [supervisor EXCEPT ![g] = "gone"]
    /\ closer' = [closer EXCEPT ![g] = [c \in Closers |->
                     IF closer[g][c] = "waiting" THEN "joined" ELSE closer[g][c]]]
    /\ UNCHANGED <<closed, queue, task, expired, abandoned>>

Complete_Silently(g) ==
    /\ supervisor[g] = "draining"
    /\ Children(g) = {}
    /\ supervisor' = [supervisor EXCEPT ![g] = "gone"]
    /\ UNCHANGED <<closed, queue, task, closer, expired, abandoned>>

\* The JoinSet is empty: completed.send(()) wakes the closer, if it still waits.
Complete(g) ==
    /\ supervisor[g] = "draining"
    /\ Children(g) = {}
    /\ supervisor' = [supervisor EXCEPT ![g] = "gone"]
    /\ closer' = [closer EXCEPT ![g] = [c \in Closers |->
                     IF closer[g][c] = "waiting" THEN "joined" ELSE closer[g][c]]]
    /\ UNCHANGED <<closed, queue, task, expired, abandoned>>

\* recv() returns None: the last sender is gone and the channel is empty.
\* Dropping the JoinSet aborts what runs.
EndUnclosed(g) ==
    /\ supervisor[g] = "running"
    /\ abandoned[g]
    /\ queue[g] = <<>>
    /\ supervisor' = [supervisor EXCEPT ![g] = "gone"]
    /\ StopChildren(g)
    /\ UNCHANGED <<closed, queue, closer, expired, abandoned>>

-----------------------------------------------------------------------------
\* The children, and the owners of the group

ChildEnds(g, t) ==
    /\ SetTask(g, t, "running", "done")
    /\ UNCHANGED <<closed, supervisor, queue, closer, expired, abandoned>>

\* An aborted child is dropped at its next await.
ChildStops(g, t) ==
    /\ SetTask(g, t, "aborting", "aborted")
    /\ UNCHANGED <<closed, supervisor, queue, closer, expired, abandoned>>

\* The last clone of the group is dropped while nobody is closing it.
Abandon(g) ==
    /\ ~abandoned[g]
    /\ \A c \in Closers : closer[g][c] \notin {"closing", "waiting"}
    /\ abandoned' = [abandoned EXCEPT ![g] = TRUE]
    /\ UNCHANGED <<closed, supervisor, queue, task, closer, expired>>

-----------------------------------------------------------------------------
Close(g, c) == CloseAgain(g, c) \/ CloseUnused(g, c) \/ CloseFirst(g, c)

Supervise(g) ==
    \/ ReceiveSpawn(g)
    \/ ReceiveShutdown(g)
    \/ AbortAll(g)
    \/ Complete(g)
    \/ EndUnclosed(g)

GroupNext ==
    \E g \in Groups :
        \/ Supervise(g)
        \/ DeadlinePasses(g)
        \/ Abandon(g)
        \/ \E t \in Tasks :
              \/ SpawnRejected(g, t)
              \/ SpawnQueued(g, t)
              \/ ChildEnds(g, t)
              \/ ChildStops(g, t)
        \/ \E c \in Closers :
              \/ Close(g, c)
              \/ SendShutdown(g, c)
              \/ CancelCloser(g, c)

GroupSpec == GroupInit /\ [][GroupNext]_groupVars

\* The runtime polls the supervisor and an aborted child, and time goes on.
\* No child is assumed to end by itself.
GroupFairness(g) ==
    /\ WF_groupVars(Supervise(g))
    /\ WF_groupVars(DeadlinePasses(g))
    /\ \A t \in Tasks : WF_groupVars(ChildStops(g, t))
    /\ \A c \in Closers : WF_groupVars(SendShutdown(g, c))

FairGroupSpec == GroupSpec /\ \A g \in Groups : GroupFairness(g)

-----------------------------------------------------------------------------
\* Every variable has its type.
GroupTypeOK ==
    /\ closed \in [Groups -> BOOLEAN]
    /\ supervisor \in [Groups -> {"absent", "running", "draining", "gone"}]
    /\ queue \in [Groups -> Seq(Tasks \cup {Shutdown})]
    /\ task \in [Groups -> [Tasks ->
                    {"new", "queued", "running", "done", "aborting", "aborted", "rejected"}]]
    /\ closer \in [Groups -> [Closers ->
                    {"out", "closing", "waiting", "joined", "returned", "cancelled"}]]
    /\ expired \in [Groups -> BOOLEAN]
    /\ abandoned \in [Groups -> BOOLEAN]

\* What the comment in spawn_command claims ("the state lock orders Spawn
\* before Shutdown"): no future is enqueued behind Shutdown, so receiver.close()
\* throws away nothing that spawn accepted, and an accepted future is in the
\* channel until it runs.
NothingBehindShutdown ==
    \A g \in Groups :
        /\ \A i \in 1..Len(queue[g]) : queue[g][i] = Shutdown => i = Len(queue[g])
        /\ supervisor[g] \in {"draining", "gone"} => queue[g] = <<>>
        /\ \A t \in Tasks :
              task[g][t] = "queued" => \E i \in 1..Len(queue[g]) : queue[g][i] = t

\* A close_and_wait_until that waited to the end leaves nothing behind: no child
\* of the group runs, was accepted and not yet run, or can still be accepted.
JoinedMeansNoChildren ==
    \A g \in Groups, c \in Closers : closer[g][c] = "joined" =>
        /\ closed[g]
        /\ \A t \in Tasks : task[g][t] \notin Alive \cup {"queued"}

\* A child is told to stop only after the deadline, or when its group was
\* dropped without being closed.
ChildrenGetTheirGrace ==
    [][\A g \in Groups, t \in Tasks :
          task[g][t] = "running" /\ task'[g][t] = "aborting" =>
              expired[g] \/ abandoned[g]]_groupVars

\* The first close_and_wait_until ends, although children may ignore the
\* cancellation for ever and spawn others meanwhile.
CloseEnds ==
    \A g \in Groups, c \in Closers :
        closer[g][c] = "closing" ~> closer[g][c] \in {"joined", "cancelled"}
=============================================================================
