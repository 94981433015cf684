---------------------------- MODULE AppLifecycle ----------------------------
(***************************************************************************)
(* The life of the process as src/src/app.rs drives it: App::start spawns  *)
(* one task per enabled listener and waits for each to report that it is   *)
(* bound, App::shutdown cancels the listeners, closes their task groups    *)
(* and joins or aborts their tasks.  A listener (`run` of the readers)     *)
(* accepts connections until it is cancelled, and then closes its own      *)
(* group: App and the listener are the two closers of TaskGroup.           *)
(*                                                                         *)
(* Startup and shutdown are those of main: start once and, if it succeeds, *)
(* shutdown once.  What a connection does is left to TaskGroup's children. *)
(***************************************************************************)
EXTENDS TaskGroup

CONSTANTS
    Listeners,      \* the enabled listeners, in the order start spawns them
    QuicListeners   \* those that accept from a quinn endpoint (DoQ, DoH3)

Ordered == {Listeners[i] : i \in DOMAIN Listeners}

ASSUME AppAssumption ==
    /\ Listeners \in Seq(Groups)
    /\ Ordered = Groups
    /\ \A i, j \in DOMAIN Listeners : Listeners[i] = Listeners[j] => i = j
    /\ QuicListeners \subseteq Groups
    /\ Closers = {"app", "listener"}

VARIABLES
    app,        \* where start and shutdown are
    pos,        \* the listener whose readiness or handle is awaited
    ready,      \* App.ready, what /ready reports
    failed,     \* App.failed
    cancelled,  \* the CancellationToken
    overdue,    \* the deadline of shutdown has passed
    listener,   \* where each listener's task is
    readiness   \* the oneshot a listener reports through

appVars == <<app, pos, ready, failed, cancelled, overdue, listener, readiness>>
vars == <<app, pos, ready, failed, cancelled, overdue, listener, readiness,
          closed, supervisor, queue, task, closer, expired, abandoned>>

Current == Listeners[pos]
SetListener(l, from, to) ==
    /\ listener[l] = from
    /\ listener' = [listener EXCEPT ![l] = to]

Init ==
    /\ GroupInit
    /\ app = "new"
    /\ pos = 1
    /\ ready = FALSE
    /\ failed = FALSE
    /\ cancelled = FALSE
    /\ overdue = FALSE
    /\ listener = [l \in Groups |-> "none"]
    /\ readiness = [l \in Groups |-> "pending"]

-----------------------------------------------------------------------------
\* App::start

\* The configuration, the roots or a certificate is refused: nothing is spawned.
StartRefused ==
    /\ app = "new"
    /\ app' = "refused"
    /\ UNCHANGED <<pos, ready, failed, cancelled, overdue, listener, readiness, groupVars>>

Start ==
    /\ app = "new"
    /\ app' = "starting"
    /\ ready' = FALSE
    /\ failed' = FALSE
    /\ listener' = [l \in Groups |-> "binding"]
    /\ UNCHANGED <<pos, cancelled, overdue, readiness, groupVars>>

\* The next listener reported that it is bound.
ListenerIsBound ==
    /\ app = "starting"
    /\ pos <= Len(Listeners)
    /\ readiness[Current] = "ok"
    /\ pos' = pos + 1
    /\ UNCHANGED <<app, ready, failed, cancelled, overdue, listener, readiness, groupVars>>

\* Mutant: a listener that ends without a report is waited for.
ListenerIsNotBound_ReportOnly ==
    /\ app = "starting"
    /\ pos <= Len(Listeners)
    /\ readiness[Current] = "error"
    /\ app' = "stopping"
    /\ UNCHANGED <<pos, ready, failed, cancelled, overdue, listener, readiness, groupVars>>

\* It reported an error, or ended without a report.
ListenerIsNotBound ==
    /\ app = "starting"
    /\ pos <= Len(Listeners)
    /\ readiness[Current] \in {"error", "dropped"}
    /\ app' = "stopping"
    /\ UNCHANGED <<pos, ready, failed, cancelled, overdue, listener, readiness, groupVars>>

\* failed.load, then ready.store(true): another step of its own.
CheckFailed ==
    /\ app = "starting"
    /\ pos > Len(Listeners)
    /\ app' = IF failed THEN "stopping" ELSE "announcing"
    /\ UNCHANGED <<pos, ready, failed, cancelled, overdue, listener, readiness, groupVars>>

\* Mutant: the readiness reports are not awaited.
Announce_Eagerly ==
    /\ app = "starting"
    /\ app' = "running"
    /\ ready' = TRUE
    /\ UNCHANGED <<pos, failed, cancelled, overdue, listener, readiness, groupVars>>

Announce ==
    /\ app = "announcing"
    /\ app' = "running"
    /\ ready' = TRUE
    /\ UNCHANGED <<pos, failed, cancelled, overdue, listener, readiness, groupVars>>

\* main: ctrl_c after start, then wait_for_shutdown.
ShutdownSignal ==
    /\ app = "running"
    /\ app' = "stopping"
    /\ UNCHANGED <<pos, ready, failed, cancelled, overdue, listener, readiness, groupVars>>

-----------------------------------------------------------------------------
\* App::shutdown

\* Mutant: readiness is not withdrawn.
Withdraw_Forgotten ==
    /\ app = "stopping"
    /\ app' = "unready"
    /\ UNCHANGED <<pos, ready, failed, cancelled, overdue, listener, readiness, groupVars>>

\* ready.store(false) ...
Withdraw ==
    /\ app = "stopping"
    /\ app' = "unready"
    /\ ready' = FALSE
    /\ UNCHANGED <<pos, failed, cancelled, overdue, listener, readiness, groupVars>>

\* ... then cancel(); the deadline starts to run.
Cancel ==
    /\ app = "unready"
    /\ app' = "closing"
    /\ cancelled' = TRUE
    /\ UNCHANGED <<pos, ready, failed, overdue, listener, readiness, groupVars>>

ShutdownDeadlinePasses ==
    /\ app \in {"closing", "joining"}
    /\ ~overdue
    /\ overdue' = TRUE
    /\ UNCHANGED <<app, pos, ready, failed, cancelled, listener, readiness, groupVars>>

\* join_all of close_and_wait_until over the groups.
AppCloses(l) ==
    /\ app = "closing"
    /\ Close(l, "app")
    /\ UNCHANGED appVars

\* Mutants: the handles counted from zero; the groups closed and not awaited.
GroupsClosed_FromZero ==
    /\ app = "closing"
    /\ \A l \in Groups : closer[l]["app"] \in {"joined", "returned"}
    /\ app' = "joining"
    /\ pos' = 0
    /\ UNCHANGED <<ready, failed, cancelled, overdue, listener, readiness, groupVars>>

GroupsClosed_Unawaited ==
    /\ app = "closing"
    /\ \A l \in Groups : closer[l]["app"] # "out"
    /\ app' = "joining"
    /\ pos' = 1
    /\ UNCHANGED <<ready, failed, cancelled, overdue, listener, readiness, groupVars>>

GroupsClosed ==
    /\ app = "closing"
    /\ \A l \in Groups : closer[l]["app"] \in {"joined", "returned"}
    /\ app' = "joining"
    /\ pos' = 1
    /\ UNCHANGED <<ready, failed, cancelled, overdue, listener, readiness, groupVars>>

\* The next handle is joined ...
JoinHandle ==
    /\ app = "joining"
    /\ pos <= Len(Listeners)
    /\ listener[Current] = "exited"
    /\ pos' = pos + 1
    /\ UNCHANGED <<app, ready, failed, cancelled, overdue, listener, readiness, groupVars>>

\* Mutant: a handle that is overdue is waited for without being aborted.
AbortHandle_Never(l) ==
    /\ app = "joining"
    /\ overdue
    /\ pos <= Len(Listeners) /\ l = Current
    /\ listener[l] = "exited"
    /\ pos' = pos + 1
    /\ UNCHANGED <<app, ready, failed, cancelled, overdue, listener, readiness, groupVars>>

\* ... or, after the deadline, aborted and joined.  The task is dropped at an
\* await: while it binds, accepts or waits for its group, and never between two
\* steps of one poll.
AbortHandle(l) ==
    /\ app = "joining"
    /\ overdue
    /\ pos <= Len(Listeners) /\ l = Current
    /\ listener[l] \in {"binding", "serving", "closing"}
    /\ listener' = [listener EXCEPT ![l] = "exited"]
    /\ pos' = pos + 1
    /\ \/ /\ closer[l]["listener"] \notin {"closing", "waiting"}
          /\ UNCHANGED groupVars
       \/ CancelCloser(l, "listener")
    /\ UNCHANGED <<app, ready, failed, cancelled, overdue, readiness>>

AllStopped ==
    /\ app = "joining"
    /\ pos > Len(Listeners)
    /\ app' = "stopped"
    /\ UNCHANGED <<pos, ready, failed, cancelled, overdue, listener, readiness, groupVars>>

-----------------------------------------------------------------------------
\* A listener's task: `run`, inside the wrapper of spawn_server

BindOk(l) ==
    /\ SetListener(l, "binding", "serving")
    /\ readiness' = [readiness EXCEPT ![l] = "ok"]
    /\ UNCHANGED <<app, pos, ready, failed, cancelled, overdue, groupVars>>

\* run returns Err, reporting it first or dropping the sender: the latter where
\* DoQ and DoH3 parse the bind address and DoH builds its TLS configuration.
BindFails(l) ==
    /\ SetListener(l, "binding", "erring")
    /\ \E report \in {"error", "dropped"} :
          readiness' = [readiness EXCEPT ![l] = report]
    /\ UNCHANGED <<app, pos, ready, failed, cancelled, overdue, groupVars>>

\* The wrapper: failed.store(true), then ready.store(false), unless the error
\* is that of a shutdown.
RecordFailure(l) ==
    /\ ~cancelled
    /\ SetListener(l, "erring", "failed")
    /\ failed' = TRUE
    /\ UNCHANGED <<app, pos, ready, cancelled, overdue, readiness, groupVars>>

IgnoreFailure(l) ==
    /\ cancelled
    /\ SetListener(l, "erring", "exited")
    /\ UNCHANGED <<app, pos, ready, failed, cancelled, overdue, readiness, groupVars>>

RevokeReadiness(l) ==
    /\ SetListener(l, "failed", "exited")
    /\ ready' = FALSE
    /\ UNCHANGED <<app, pos, failed, cancelled, overdue, readiness, groupVars>>

\* A connection is accepted, or a connection accepts a stream.
Spawns(l, t) ==
    /\ listener[l] = "serving" \/ \E s \in Tasks : task[l][s] = "running"
    /\ SpawnQueued(l, t) \/ SpawnRejected(l, t)
    /\ UNCHANGED appVars

StopServing(l) ==
    /\ cancelled
    /\ SetListener(l, "serving", "closing")
    /\ UNCHANGED <<app, pos, ready, failed, cancelled, overdue, readiness, groupVars>>

\* endpoint.accept() returns None: the loop ends as it does on a shutdown.
EndpointIsGone(l) ==
    /\ l \in QuicListeners
    /\ SetListener(l, "serving", "closing")
    /\ UNCHANGED <<app, pos, ready, failed, cancelled, overdue, readiness, groupVars>>

ListenerCloses(l) ==
    /\ listener[l] = "closing"
    /\ Close(l, "listener")
    /\ UNCHANGED appVars

\* run returns Ok.
ListenerExits(l) ==
    /\ closer[l]["listener"] \in {"joined", "returned"}
    /\ SetListener(l, "closing", "exited")
    /\ UNCHANGED <<app, pos, ready, failed, cancelled, overdue, readiness, groupVars>>

-----------------------------------------------------------------------------
\* A group, with the deadline of the one who closed it

Owns(c, l) == closer[l][c] \in {"closing", "waiting", "joined", "cancelled"}

GroupDeadlinePasses(l) ==
    /\ Owns("app", l) => overdue
    /\ DeadlinePasses(l)
    /\ UNCHANGED appVars

Supervises(l) == Supervise(l) /\ UNCHANGED appVars
Sends(l, c) == SendShutdown(l, c) /\ UNCHANGED appVars
ChildGone(l, t) == (ChildEnds(l, t) \/ ChildStops(l, t)) /\ UNCHANGED appVars

-----------------------------------------------------------------------------
AppStep ==
    \/ StartRefused
    \/ Start
    \/ ListenerIsBound
    \/ ListenerIsNotBound
    \/ CheckFailed
    \/ Announce
    \/ Withdraw
    \/ Cancel
    \/ GroupsClosed
    \/ JoinHandle
    \/ AllStopped
    \/ \E l \in Groups : AppCloses(l) \/ AbortHandle(l) \/ Sends(l, "app")

Bind(l) ==
    \/ BindOk(l)
    \/ BindFails(l)
    \/ RecordFailure(l)
    \/ IgnoreFailure(l)
    \/ RevokeReadiness(l)

Serve(l) ==
    \/ StopServing(l)
    \/ EndpointIsGone(l)
    \/ ListenerCloses(l)
    \/ ListenerExits(l)
    \/ \E t \in Tasks : Spawns(l, t)

Next ==
    \/ AppStep
    \/ ShutdownSignal
    \/ ShutdownDeadlinePasses
    \/ \E l \in Groups :
          \/ Bind(l)
          \/ Serve(l)
          \/ Supervises(l)
          \/ GroupDeadlinePasses(l)
          \/ Sends(l, "listener")
          \/ \E t \in Tasks : ChildGone(l, t)

Spec == Init /\ [][Next]_vars

\* The runtime polls App, a listener that binds, the supervisors and whatever
\* was aborted, and deadlines pass.  The signal need not come.  A connection
\* need not end, and a listener need not notice the cancellation: it may sleep
\* in the back-off after a failed accept.
Fairness ==
    /\ WF_vars(AppStep)
    /\ WF_vars(ShutdownDeadlinePasses)
    /\ \A l \in Groups :
          /\ WF_vars(Bind(l))
          /\ WF_vars(Supervises(l))
          /\ WF_vars(GroupDeadlinePasses(l))
          /\ WF_vars(Sends(l, "listener"))
          /\ \A t \in Tasks : WF_vars(ChildStops(l, t) /\ UNCHANGED appVars)

FairSpec == Spec /\ Fairness

-----------------------------------------------------------------------------
\* Every variable has its type.
TypeOK ==
    /\ GroupTypeOK
    /\ app \in {"new", "refused", "starting", "announcing", "running", "stopping",
                "unready", "closing", "joining", "stopped"}
    /\ pos \in 1..(Len(Listeners) + 1)
    /\ {ready, failed, cancelled, overdue} \subseteq BOOLEAN
    /\ listener \in [Groups ->
            {"none", "binding", "erring", "failed", "serving", "closing", "exited"}]
    /\ readiness \in [Groups -> {"pending", "ok", "error", "dropped"}]

\* /ready succeeds only while every listener over TCP is bound and accepts
\* connections: whichever of them fails, before, during or after the checks of
\* start, and whatever order their reports arrive in.
ReadyMeansServing ==
    ready => \A l \in Groups \ QuicListeners : listener[l] = "serving"

\* What README.md:490-492 says of /ready: it "becomes successful only after
\* every enabled listener has bound its production socket; it becomes
\* unavailable again if an ingress task exits".
ReadyMeansAllServing ==
    ready => \A l \in Groups : listener[l] # "exited"

\* Nobody is told to go elsewhere too late: once connections are being cut,
\* /ready has said so, and it never recants.
CancelledMeansUnready == cancelled => ~ready

\* When shutdown returns, every listener's task is gone and every group is
\* closed to new work; a child that still runs is one of a group that its
\* listener closed first, so that App did not wait for it, and whose listener
\* was aborted at App's deadline.
StoppedAccountsForChildren ==
    app = "stopped" => \A l \in Groups :
        /\ listener[l] = "exited"
        /\ closed[l]
        /\ Children(l) # {} => overdue /\ closer[l]["listener"] = "cancelled"

\* What the comment in shutdown says of closing the groups ("this makes the
\* global deadline authoritative even if a listener itself has to be aborted
\* below", src/src/app.rs:217-219): no child outlives shutdown.
StoppedMeansNoChildren ==
    app = "stopped" => \A l \in Groups : Children(l) = {}

\* start returns, however the listeners fare and in whatever order they report.
StartReturns == app = "starting" ~> app \in {"running", "stopped"}

\* shutdown returns although listeners and connections may ignore it, and then
\* no child is left running for ever.
ShutdownReturns ==
    app = "stopping" ~> app = "stopped" /\ \A l \in Groups : Children(l) = {}
=============================================================================
