------------------------- MODULE QuicListenerProofs -------------------------
(***************************************************************************)
(* The safety of QuicListener for every set of connections and streams,    *)
(* finite or not, and all limits, of both listeners.                       *)
(***************************************************************************)
EXTENDS QuicListener, FiniteSetTheorems, TLAPS

\* TypeOK without the bounds of the permits, which follow from Accounted.
Typed ==
    /\ application \in {"doq", "h3"}
    /\ shutdown \in BOOLEAN
    /\ accepting \in BOOLEAN
    /\ closed \in BOOLEAN
    /\ task \in [Connections -> {"none", "waiting", "ended"} \cup Holding]
    /\ link \in [Connections -> {"none", "incoming", "open", "closed"}]
    /\ watcher \in [Connections -> BOOLEAN]
    /\ stage \in [Streams -> Stages]
    /\ freeConns \in Nat
    /\ freeStreams \in [Connections -> Nat]

\* Who holds permits are finitely many, and the others are available.
Accounted ==
    /\ IsFiniteSet(Held)
    /\ \A c \in Connections : IsFiniteSet(RunningOn(c))
    /\ PermitsBalanced

\* Nothing but its task refers to a connection before it is served, and none is
\* open before its handshake.
Quiet ==
    \A c \in Connections :
        /\ task[c] \in {"none", "waiting", "handshake", "setup"} =>
              ~watcher[c] /\ RunningOn(c) = {}
        /\ task[c] \in {"none", "waiting", "handshake"} => link[c] # "open"

\* The inductive invariant.
ListenerInv ==
    /\ Typed
    /\ Accounted
    /\ Quiet
    /\ OpenConnectionsAreServed

-----------------------------------------------------------------------------
\* What a step does to the permits of connections: nothing, or it takes one for
\* a task, or returns that of a task.
HeldKept == Held' = Held /\ freeConns' = freeConns
HeldGrows(c) ==
    /\ c \in Connections \ Held /\ Held' = Held \cup {c}
    /\ freeConns > 0 /\ freeConns' = freeConns - 1
HeldShrinks(c) == c \in Held /\ Held' = Held \ {c} /\ freeConns' = freeConns + 1

\* The same of the streams of a connection.
RunningKept(d) == RunningOn(d)' = RunningOn(d) /\ freeStreams'[d] = freeStreams[d]
RunningGrows(d, s) ==
    /\ s \in Streams \ RunningOn(d) /\ RunningOn(d)' = RunningOn(d) \cup {s}
    /\ freeStreams[d] > 0 /\ freeStreams'[d] = freeStreams[d] - 1
RunningShrinks(d, s) ==
    /\ s \in RunningOn(d) /\ RunningOn(d)' = RunningOn(d) \ {s}
    /\ freeStreams'[d] = freeStreams[d] + 1

\* Such a step conserves permits.
LEMMA PermitTaken ==
    ASSUME NEW S, NEW x, NEW free \in Nat, IsFiniteSet(S), x \notin S
    PROVE  /\ IsFiniteSet(S \cup {x})
           /\ free - 1 + Cardinality(S \cup {x}) = free + Cardinality(S)
<1>1. Cardinality(S) \in Nat
    BY FS_CardinalityType
<1>2. IsFiniteSet(S \cup {x}) /\ Cardinality(S \cup {x}) = Cardinality(S) + 1
    BY FS_AddElement
<1>3. QED
    BY <1>1, <1>2

\* The same when a task or a stream gives its permit back.
LEMMA PermitReturned ==
    ASSUME NEW S, NEW x, NEW free \in Nat, IsFiniteSet(S), x \in S
    PROVE  /\ IsFiniteSet(S \ {x})
           /\ free + 1 + Cardinality(S \ {x}) = free + Cardinality(S)
<1>1. Cardinality(S) \in Nat
    BY FS_CardinalityType
<1>2. IsFiniteSet(S \ {x}) /\ Cardinality(S \ {x}) = Cardinality(S) - 1
    BY FS_RemoveElement
<1>3. QED
    BY <1>1, <1>2

\* A step of a stream leads to a stage.
LEMMA FollowingStages ==
    ASSUME NEW s \in Streams
    PROVE  Following(s) \subseteq {"upstream", "answer", "ended", "body", "refuse"}
BY DEF Following

-----------------------------------------------------------------------------
\* The streams go on, end or are aborted through GoesTo, and the tasks of
\* connections end through Return.
LEMMA StreamSteps ==
    ASSUME NEW s \in Streams, Transaction(s) \/ CancelStream(s) \/ AbortStream(s)
    PROVE  /\ Running(s)
           /\ \E next \in {"upstream", "answer", "ended", "body", "refuse"}, closes \in BOOLEAN :
                 GoesTo(s, next, closes)
<1>1. CASE Advance(s)
    BY <1>1, FollowingStages DEF Advance
<1>2. CASE Fails(s)
    BY <1>2, Zenon DEF Fails
<1>3. CASE CancelStream(s)
    BY <1>3 DEF CancelStream
<1>4. CASE AbortStream(s)
    BY <1>4 DEF AbortStream
<1>5. QED
    BY <1>1, <1>2, <1>3, <1>4 DEF Transaction

\* handle_connection, or the task around it, returns.
Returns(c) == HandshakeFails(c) \/ SetUpFails(c) \/ StopServing(c) \/ AbortConnection(c)

\* Whichever way it does, it holds a permit until then.
LEMMA ReturnSteps ==
    ASSUME NEW c \in Connections, Returns(c)
    PROVE  task[c] \in Holding /\ Return(c)
BY DEF Returns, HandshakeFails, SetUpFails, StopServing, AbortConnection, Holding

\* The actions, as the lemmas below go through them.
LEMMA Steps ==
    ASSUME Next
    PROVE  \/ \E c \in Connections : Connects(c) \/ Disconnects(c)
           \/ \E s \in Streams : Offers(s)
           \/ Cancel
           \/ LeaveLoop
           \/ CloseGroup
           \/ \E c \in Connections : Accept(c) \/ Admit(c)
           \/ \E c \in Connections : HandshakeOk(c) \/ SetUp(c)
           \/ \E c \in Connections : Returns(c)
           \/ \E c \in Connections : WatcherEnds(c) \/ AbortWatcher(c)
           \/ \E s \in Streams : AcceptStream(s)
           \/ \E s \in Streams : StartStream(s)
           \/ \E s \in Streams : Transaction(s) \/ CancelStream(s) \/ AbortStream(s)
BY DEF Next, Client, Connection, Deadline, Returns, On

-----------------------------------------------------------------------------
\* One lemma per part of the invariant.

\* Permits of connections move with the tasks that hold them.
LEMMA HeldStep ==
    ASSUME Typed, Next
    PROVE  HeldKept \/ \E d \in Connections : HeldGrows(d) \/ HeldShrinks(d)
<1> USE QuicListenerAssumption DEF Typed, HeldKept, HeldGrows, HeldShrinks, Held, Holding
<1>1. ASSUME NEW c \in Connections, Connects(c) \/ Disconnects(c)
      PROVE  HeldKept \/ \E d \in Connections : HeldGrows(d) \/ HeldShrinks(d)
    BY <1>1 DEF Connects, Disconnects, LinkAfter
<1>2. ASSUME NEW s \in Streams, Offers(s)
      PROVE  HeldKept \/ \E d \in Connections : HeldGrows(d) \/ HeldShrinks(d)
    BY <1>2 DEF Offers, LinkAfter
<1>3. CASE Cancel
    BY <1>3 DEF Cancel, LinkAfter
<1>4. CASE LeaveLoop
    BY <1>4 DEF LeaveLoop, LinkAfter
<1>5. CASE CloseGroup
    BY <1>5 DEF CloseGroup, LinkAfter
<1>6. ASSUME NEW c \in Connections, Accept(c) \/ Admit(c)
      PROVE  HeldKept \/ \E d \in Connections : HeldGrows(d) \/ HeldShrinks(d)
    BY <1>6 DEF Accept, Admit, LinkAfter
<1>7. ASSUME NEW c \in Connections, HandshakeOk(c) \/ SetUp(c)
      PROVE  HeldKept \/ \E d \in Connections : HeldGrows(d) \/ HeldShrinks(d)
    BY <1>7 DEF HandshakeOk, SetUp, LinkAfter
<1>8. ASSUME NEW c \in Connections, Returns(c)
      PROVE  HeldKept \/ \E d \in Connections : HeldGrows(d) \/ HeldShrinks(d)
    BY <1>8, ReturnSteps DEF Return, LinkAfter
<1>9. ASSUME NEW c \in Connections, WatcherEnds(c) \/ AbortWatcher(c)
      PROVE  HeldKept \/ \E d \in Connections : HeldGrows(d) \/ HeldShrinks(d)
    BY <1>9 DEF WatcherEnds, AbortWatcher, LinkAfter
<1>10. ASSUME NEW s \in Streams, AcceptStream(s)
      PROVE  HeldKept \/ \E d \in Connections : HeldGrows(d) \/ HeldShrinks(d)
    BY <1>10 DEF AcceptStream, LinkAfter
<1>11. ASSUME NEW s \in Streams, StartStream(s)
      PROVE  HeldKept \/ \E d \in Connections : HeldGrows(d) \/ HeldShrinks(d)
    BY <1>11 DEF StartStream, LinkAfter
<1>12. ASSUME NEW s \in Streams, Transaction(s) \/ CancelStream(s) \/ AbortStream(s)
      PROVE  HeldKept \/ \E d \in Connections : HeldGrows(d) \/ HeldShrinks(d)
    <2>1. PICK next \in {"upstream", "answer", "ended", "body", "refuse"}, closes \in BOOLEAN :
              GoesTo(s, next, closes)
        BY <1>12, StreamSteps
    <2>2. Running(s)
        BY <1>12, StreamSteps
    <2>3. QED
        BY <2>1, <2>2 DEF GoesTo, LinkAfter
<1>13. QED
    BY <1>1, <1>2, <1>3, <1>4, <1>5, <1>6, <1>7, <1>8, <1>9, <1>10, <1>11, <1>12, Steps

\* Permits of streams move with the streams that hold them.
LEMMA RunningStep ==
    ASSUME Typed, Next, NEW d \in Connections
    PROVE  RunningKept(d) \/ \E t \in Streams : RunningGrows(d, t) \/ RunningShrinks(d, t)
<1> USE QuicListenerAssumption
        DEF Typed, RunningKept, RunningGrows, RunningShrinks, RunningOn, Running,
            On
<1>1. ASSUME NEW c \in Connections, Connects(c) \/ Disconnects(c)
      PROVE  RunningKept(d) \/ \E t \in Streams : RunningGrows(d, t) \/ RunningShrinks(d, t)
    BY <1>1 DEF Connects, Disconnects, LinkAfter
<1>2. ASSUME NEW s \in Streams, Offers(s)
      PROVE  RunningKept(d) \/ \E t \in Streams : RunningGrows(d, t) \/ RunningShrinks(d, t)
    BY <1>2 DEF Offers, LinkAfter
<1>3. CASE Cancel
    BY <1>3 DEF Cancel, LinkAfter
<1>4. CASE LeaveLoop
    BY <1>4 DEF LeaveLoop, LinkAfter
<1>5. CASE CloseGroup
    BY <1>5 DEF CloseGroup, LinkAfter
<1>6. ASSUME NEW c \in Connections, Accept(c) \/ Admit(c)
      PROVE  RunningKept(d) \/ \E t \in Streams : RunningGrows(d, t) \/ RunningShrinks(d, t)
    BY <1>6 DEF Accept, Admit, LinkAfter
<1>7. ASSUME NEW c \in Connections, HandshakeOk(c) \/ SetUp(c)
      PROVE  RunningKept(d) \/ \E t \in Streams : RunningGrows(d, t) \/ RunningShrinks(d, t)
    BY <1>7 DEF HandshakeOk, SetUp, LinkAfter
<1>8. ASSUME NEW c \in Connections, Returns(c)
      PROVE  RunningKept(d) \/ \E t \in Streams : RunningGrows(d, t) \/ RunningShrinks(d, t)
    BY <1>8, ReturnSteps DEF Return, LinkAfter
<1>9. ASSUME NEW c \in Connections, WatcherEnds(c) \/ AbortWatcher(c)
      PROVE  RunningKept(d) \/ \E t \in Streams : RunningGrows(d, t) \/ RunningShrinks(d, t)
    BY <1>9 DEF WatcherEnds, AbortWatcher, LinkAfter
<1>10. ASSUME NEW s \in Streams, AcceptStream(s)
      PROVE  RunningKept(d) \/ \E t \in Streams : RunningGrows(d, t) \/ RunningShrinks(d, t)
    BY <1>10 DEF AcceptStream, LinkAfter
<1>11. ASSUME NEW s \in Streams, StartStream(s)
      PROVE  RunningKept(d) \/ \E t \in Streams : RunningGrows(d, t) \/ RunningShrinks(d, t)
    BY <1>11 DEF StartStream, LinkAfter
<1>12. ASSUME NEW s \in Streams, Transaction(s) \/ CancelStream(s) \/ AbortStream(s)
      PROVE  RunningKept(d) \/ \E t \in Streams : RunningGrows(d, t) \/ RunningShrinks(d, t)
    <2>1. PICK next \in {"upstream", "answer", "ended", "body", "refuse"}, closes \in BOOLEAN :
              GoesTo(s, next, closes)
        BY <1>12, StreamSteps
    <2>2. Running(s)
        BY <1>12, StreamSteps
    <2>3. QED
        BY <2>1, <2>2 DEF GoesTo, LinkAfter
<1>13. QED
    BY <1>1, <1>2, <1>3, <1>4, <1>5, <1>6, <1>7, <1>8, <1>9, <1>10, <1>11, <1>12, Steps

\* Types.
LEMMA TypedStep ==
    ASSUME Typed, Next
    PROVE  Typed'
<1> USE QuicListenerAssumption DEF Typed, Holding, Stages
<1>1. ASSUME NEW c \in Connections, Connects(c) \/ Disconnects(c)
      PROVE  Typed'
    BY <1>1 DEF Connects, Disconnects, LinkAfter
<1>2. ASSUME NEW s \in Streams, Offers(s)
      PROVE  Typed'
    BY <1>2 DEF Offers, LinkAfter
<1>3. CASE Cancel
    BY <1>3 DEF Cancel, LinkAfter
<1>4. CASE LeaveLoop
    BY <1>4 DEF LeaveLoop, LinkAfter
<1>5. CASE CloseGroup
    BY <1>5 DEF CloseGroup, LinkAfter
<1>6. ASSUME NEW c \in Connections, Accept(c) \/ Admit(c)
      PROVE  Typed'
    BY <1>6 DEF Accept, Admit, LinkAfter
<1>7. ASSUME NEW c \in Connections, HandshakeOk(c) \/ SetUp(c)
      PROVE  Typed'
    BY <1>7 DEF HandshakeOk, SetUp, LinkAfter
<1>8. ASSUME NEW c \in Connections, Returns(c)
      PROVE  Typed'
    BY <1>8, ReturnSteps DEF Return, LinkAfter
<1>9. ASSUME NEW c \in Connections, WatcherEnds(c) \/ AbortWatcher(c)
      PROVE  Typed'
    BY <1>9 DEF WatcherEnds, AbortWatcher, LinkAfter
<1>10. ASSUME NEW s \in Streams, AcceptStream(s)
      PROVE  Typed'
    BY <1>10 DEF AcceptStream, LinkAfter
<1>11. ASSUME NEW s \in Streams, StartStream(s)
      PROVE  Typed'
    BY <1>11 DEF StartStream, LinkAfter
<1>12. ASSUME NEW s \in Streams, Transaction(s) \/ CancelStream(s) \/ AbortStream(s)
      PROVE  Typed'
    <2>1. PICK next \in {"upstream", "answer", "ended", "body", "refuse"}, closes \in BOOLEAN :
              GoesTo(s, next, closes)
        BY <1>12, StreamSteps
    <2>2. Running(s)
        BY <1>12, StreamSteps
    <2>3. QED
        BY <2>1, <2>2 DEF GoesTo, LinkAfter
<1>13. QED
    BY <1>1, <1>2, <1>3, <1>4, <1>5, <1>6, <1>7, <1>8, <1>9, <1>10, <1>11, <1>12, Steps

\* Nobody refers to a connection too early.
LEMMA QuietStep ==
    ASSUME Typed, Quiet, Next
    PROVE  Quiet'
<1> USE QuicListenerAssumption DEF Typed, Quiet, Holding, RunningOn, Running, On
<1>1. ASSUME NEW c \in Connections, Connects(c) \/ Disconnects(c)
      PROVE  Quiet'
    BY <1>1 DEF Connects, Disconnects, LinkAfter
<1>2. ASSUME NEW s \in Streams, Offers(s)
      PROVE  Quiet'
    BY <1>2 DEF Offers, LinkAfter
<1>3. CASE Cancel
    BY <1>3 DEF Cancel, LinkAfter
<1>4. CASE LeaveLoop
    BY <1>4 DEF LeaveLoop, LinkAfter
<1>5. CASE CloseGroup
    BY <1>5 DEF CloseGroup, LinkAfter
<1>6. ASSUME NEW c \in Connections, Accept(c) \/ Admit(c)
      PROVE  Quiet'
    BY <1>6 DEF Accept, Admit, LinkAfter
<1>7. ASSUME NEW c \in Connections, HandshakeOk(c) \/ SetUp(c)
      PROVE  Quiet'
    BY <1>7 DEF HandshakeOk, SetUp, LinkAfter
<1>8. ASSUME NEW c \in Connections, Returns(c)
      PROVE  Quiet'
    BY <1>8, ReturnSteps DEF Return, LinkAfter
<1>9. ASSUME NEW c \in Connections, WatcherEnds(c) \/ AbortWatcher(c)
      PROVE  Quiet'
    BY <1>9 DEF WatcherEnds, AbortWatcher, LinkAfter
<1>10. ASSUME NEW s \in Streams, AcceptStream(s)
      PROVE  Quiet'
    BY <1>10 DEF AcceptStream, LinkAfter
<1>11. ASSUME NEW s \in Streams, StartStream(s)
      PROVE  Quiet'
    BY <1>11 DEF StartStream, LinkAfter
<1>12. ASSUME NEW s \in Streams, Transaction(s) \/ CancelStream(s) \/ AbortStream(s)
      PROVE  Quiet'
    <2>1. PICK next \in {"upstream", "answer", "ended", "body", "refuse"}, closes \in BOOLEAN :
              GoesTo(s, next, closes)
        BY <1>12, StreamSteps
    <2>2. Running(s)
        BY <1>12, StreamSteps
    <2>3. QED
        BY <2>1, <2>2 DEF GoesTo, LinkAfter
<1>13. QED
    BY <1>1, <1>2, <1>3, <1>4, <1>5, <1>6, <1>7, <1>8, <1>9, <1>10, <1>11, <1>12, Steps

\* Whoever lets go of a connection last closes it, and handle_connection lets go
\* of it while others refer to it only if it is closed or all is cancelled.
LEMMA ServedStep ==
    ASSUME Typed, Quiet, OpenConnectionsAreServed, Next
    PROVE  OpenConnectionsAreServed'
<1> USE QuicListenerAssumption
        DEF Typed, Quiet, OpenConnectionsAreServed, Holding, RunningOn, Running,
            On, Unreferenced
<1>1. ASSUME NEW c \in Connections, Connects(c) \/ Disconnects(c)
      PROVE  OpenConnectionsAreServed'
    BY <1>1 DEF Connects, Disconnects, LinkAfter
<1>2. ASSUME NEW s \in Streams, Offers(s)
      PROVE  OpenConnectionsAreServed'
    BY <1>2 DEF Offers, LinkAfter
<1>3. CASE Cancel
    BY <1>3 DEF Cancel, LinkAfter
<1>4. CASE LeaveLoop
    BY <1>4 DEF LeaveLoop, LinkAfter
<1>5. CASE CloseGroup
    BY <1>5 DEF CloseGroup, LinkAfter
<1>6. ASSUME NEW c \in Connections, Accept(c) \/ Admit(c)
      PROVE  OpenConnectionsAreServed'
    BY <1>6 DEF Accept, Admit, LinkAfter
<1>7. ASSUME NEW c \in Connections, HandshakeOk(c) \/ SetUp(c)
      PROVE  OpenConnectionsAreServed'
    BY <1>7 DEF HandshakeOk, SetUp, LinkAfter
<1>8. ASSUME NEW c \in Connections, Returns(c)
      PROVE  OpenConnectionsAreServed'
    BY <1>8, ReturnSteps
       DEF Return, LinkAfter, Returns, HandshakeFails, SetUpFails, StopServing, AbortConnection
<1>9. ASSUME NEW c \in Connections, WatcherEnds(c) \/ AbortWatcher(c)
      PROVE  OpenConnectionsAreServed'
    BY <1>9 DEF WatcherEnds, AbortWatcher, LinkAfter
<1>10. ASSUME NEW s \in Streams, AcceptStream(s)
      PROVE  OpenConnectionsAreServed'
    BY <1>10 DEF AcceptStream, LinkAfter
<1>11. ASSUME NEW s \in Streams, StartStream(s)
      PROVE  OpenConnectionsAreServed'
    BY <1>11 DEF StartStream, LinkAfter
<1>12. ASSUME NEW s \in Streams, Transaction(s) \/ CancelStream(s) \/ AbortStream(s)
      PROVE  OpenConnectionsAreServed'
    <2>1. PICK next \in {"upstream", "answer", "ended", "body", "refuse"}, closes \in BOOLEAN :
              GoesTo(s, next, closes)
        BY <1>12, StreamSteps
    <2>2. Running(s)
        BY <1>12, StreamSteps
    <2>3. QED
        BY <2>1, <2>2 DEF GoesTo, LinkAfter
<1>13. QED
    BY <1>1, <1>2, <1>3, <1>4, <1>5, <1>6, <1>7, <1>8, <1>9, <1>10, <1>11, <1>12, Steps

-----------------------------------------------------------------------------
\* A listener that has bound its endpoint has all its permits and no tasks.
LEMMA ListenerInit == Init => ListenerInv
<1> SUFFICES ASSUME Init PROVE ListenerInv
    OBVIOUS
<1> USE QuicListenerAssumption DEF Init
<1>1. Typed
    BY DEF Typed, Stages
<1>2. Held = {} /\ \A c \in Connections : RunningOn(c) = {}
    BY DEF Held, Holding, RunningOn, Running, On
<1>3. Accounted
    BY <1>2, FS_EmptySet DEF Accounted, PermitsBalanced
<1>4. Quiet /\ OpenConnectionsAreServed
    BY <1>2 DEF Quiet, OpenConnectionsAreServed
<1>5. QED
    BY <1>1, <1>3, <1>4 DEF ListenerInv

\* acquire_owned and the drops of _permit balance.
LEMMA AccountedStep ==
    ASSUME Typed, Accounted, Next
    PROVE  Accounted'
<1>1. IsFiniteSet(Held') /\ freeConns' + Cardinality(Held') = MaxConnections
    <2>1. freeConns \in Nat
        BY DEF Typed
    <2>2. IsFiniteSet(Held) /\ freeConns + Cardinality(Held) = MaxConnections
        BY DEF Accounted, PermitsBalanced
    <2>3. CASE HeldKept
        BY <2>2, <2>3 DEF HeldKept
    <2>4. ASSUME NEW d, HeldGrows(d)
          PROVE  IsFiniteSet(Held') /\ freeConns' + Cardinality(Held') = MaxConnections
        BY <2>1, <2>2, <2>4, PermitTaken DEF HeldGrows
    <2>5. ASSUME NEW d, HeldShrinks(d)
          PROVE  IsFiniteSet(Held') /\ freeConns' + Cardinality(Held') = MaxConnections
        BY <2>1, <2>2, <2>5, PermitReturned DEF HeldShrinks
    <2>6. QED
        BY <2>3, <2>4, <2>5, HeldStep
<1>2. ASSUME NEW c \in Connections
      PROVE  /\ IsFiniteSet(RunningOn(c)')
             /\ freeStreams'[c] + Cardinality(RunningOn(c)') = MaxStreams
    <2>1. freeStreams[c] \in Nat
        BY DEF Typed
    <2>2. IsFiniteSet(RunningOn(c)) /\ freeStreams[c] + Cardinality(RunningOn(c)) = MaxStreams
        BY DEF Accounted, PermitsBalanced
    <2>3. CASE RunningKept(c)
        BY <2>2, <2>3 DEF RunningKept
    <2>4. ASSUME NEW t, RunningGrows(c, t)
          PROVE  /\ IsFiniteSet(RunningOn(c)')
                 /\ freeStreams'[c] + Cardinality(RunningOn(c)') = MaxStreams
        BY <2>1, <2>2, <2>4, PermitTaken DEF RunningGrows
    <2>5. ASSUME NEW t, RunningShrinks(c, t)
          PROVE  /\ IsFiniteSet(RunningOn(c)')
                 /\ freeStreams'[c] + Cardinality(RunningOn(c)') = MaxStreams
        <3>1. /\ IsFiniteSet(RunningOn(c) \ {t})
              /\ freeStreams[c] + 1 + Cardinality(RunningOn(c) \ {t}) = MaxStreams
            BY <2>1, <2>2, <2>5, PermitReturned DEF RunningShrinks
        <3>2. QED
            BY <2>5, <3>1 DEF RunningShrinks
    <2>6. QED
        BY <2>3, <2>4, <2>5, RunningStep
<1>3. QED
    BY <1>1, <1>2 DEF Accounted, PermitsBalanced

\* Every step of a listener keeps the invariant.
LEMMA ListenerStep == ListenerInv /\ [Next]_vars => ListenerInv'
<1> SUFFICES ASSUME ListenerInv, [Next]_vars PROVE ListenerInv'
    OBVIOUS
<1>1. CASE Next
    BY <1>1, TypedStep, AccountedStep, QuietStep, ServedStep DEF ListenerInv
<1>2. CASE UNCHANGED vars
    <2> USE <1>2 DEF vars, ListenerInv
    <2>1. Typed'
        BY DEF Typed
    <2>2. Accounted'
        BY DEF Accounted, PermitsBalanced, Held, RunningOn, Running, On
    <2>3. Quiet' /\ OpenConnectionsAreServed'
        BY DEF Quiet, OpenConnectionsAreServed, RunningOn, Running, On
    <2>4. QED
        BY <2>1, <2>2, <2>3
<1>3. QED
    BY <1>1, <1>2

\* The parts of the invariant hold throughout, of doq.rs and doh3.rs alike.
THEOREM ListenerInvariant == Spec => []ListenerInv
BY ListenerInit, ListenerStep, PTL DEF Spec

\* Every variable of a listener keeps its type, the permits within their limits.
THEOREM ListenerTypeOK == Spec => []TypeOK
<1>1. ListenerInv => TypeOK
    <2> SUFFICES ASSUME ListenerInv PROVE TypeOK
        OBVIOUS
    <2>1. Cardinality(Held) \in Nat /\ \A c \in Connections : Cardinality(RunningOn(c)) \in Nat
        BY FS_CardinalityType DEF ListenerInv, Accounted
    <2>2. freeConns \in 0..MaxConnections
        BY <2>1, QuicListenerAssumption DEF ListenerInv, Typed, Accounted, PermitsBalanced
    <2>3. \A c \in Connections : freeStreams[c] \in 0..MaxStreams
        BY <2>1, QuicListenerAssumption DEF ListenerInv, Typed, Accounted, PermitsBalanced
    <2>4. QED
        BY <2>2, <2>3 DEF ListenerInv, Typed, TypeOK
<1>2. QED
    BY <1>1, ListenerInvariant, PTL

\* A connection that handle_connection has left is closed, unless all is cancelled.
THEOREM ListenerOpenConnectionsAreServed == Spec => []OpenConnectionsAreServed
<1>1. ListenerInv => OpenConnectionsAreServed
    BY DEF ListenerInv
<1>2. QED
    BY <1>1, ListenerInvariant, PTL

\* No more connections are open than max_connections_per_listener.
THEOREM ListenerConnectionsBounded == Spec => []ConnectionsBounded
<1>1. ListenerInv => ConnectionsBounded
    <2> SUFFICES ASSUME ListenerInv, ~shutdown, ~closed PROVE ConnectionsBounded
        BY DEF ConnectionsBounded
    <2> DEFINE Open == {c \in Connections : link[c] = "open"}
    <2>1. Open \subseteq Held
        BY DEF ListenerInv, OpenConnectionsAreServed, Held
    <2>2. IsFiniteSet(Held) /\ freeConns + Cardinality(Held) = MaxConnections
        BY DEF ListenerInv, Accounted, PermitsBalanced
    <2>3. Cardinality(Open) <= Cardinality(Held)
        BY <2>1, <2>2, FS_Subset
    <2>4. Cardinality(Open) \in Nat /\ Cardinality(Held) \in Nat
        BY <2>1, <2>2, FS_Subset, FS_CardinalityType
    <2>5. QED
        BY <2>2, <2>3, <2>4, QuicListenerAssumption DEF ConnectionsBounded, ListenerInv, Typed
<1>2. QED
    BY <1>1, ListenerInvariant, PTL

\* The permits of connections and of their streams are neither lost nor made up.
THEOREM ListenerPermitsBalanced == Spec => []PermitsBalanced
<1>1. ListenerInv => PermitsBalanced
    BY DEF ListenerInv, Accounted
<1>2. QED
    BY <1>1, ListenerInvariant, PTL
=============================================================================
