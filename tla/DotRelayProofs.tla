--------------------------- MODULE DotRelayProofs ---------------------------
(***************************************************************************)
(* The safety of a DoT relay, for every timeout and every number of chunks *)
(* a peer may send, and that each of its directions is a Pipe.             *)
(***************************************************************************)
EXTENDS DotRelay, TLAPS

\* One direction: the chunk of a write_all under way is not sent, the relay is past
\* reading only when the source said that it was done and everything it sent was
\* taken, and past the shutdown only when all that was sent.
DirectionInv(d) ==
    /\ taken[d] <= produced[d]
    /\ flushed[d] <= taken[d]
    /\ at[d] = "write" => flushed[d] < taken[d]
    /\ at[d] \in {"shutdown", "done"} =>
          taken[d] = produced[d] /\ peer[Source(d)] \in {"fin", "gone"}
    /\ told[d] <=> at[d] = "done"
    /\ told[d] => flushed[d] = taken[d]

\* The connection: nothing is recorded before it ends, and success only when
\* both directions are done.
OutcomeInv ==
    /\ stage \in {"connect", "relay"} => recorded = "nothing"
    /\ recorded = "success" <=> stage = "ok"
    /\ stage = "ok" => \A d \in Directions : at[d] = "done"

RelayInv ==
    /\ TypeOK
    /\ \A d \in Directions : DirectionInv(d)
    /\ OutcomeInv

\* A relay that has not begun, or never will, is in order.
LEMMA RelayStarts ==
    ASSUME Fresh, stage \in {"connect", "cancelled"}
    PROVE  RelayInv
<1> USE DotRelayAssumption, TimeoutAssumption
<1>1. TypeOK
  BY DEF Fresh, TypeOK, Directions, Peers, Ended
<1>2. \A d \in Directions : DirectionInv(d)
  BY DEF Fresh, DirectionInv, Directions
<1> QED BY <1>1, <1>2 DEF Fresh, RelayInv, OutcomeInv

\* The source of a direction is a peer, and the two sources are different.
LEMMA Sources ==
    /\ \A d \in Directions : Source(d) \in Peers
    /\ \A d, e \in Directions : Source(d) = Source(e) => d = e
  BY DEF Directions, Peers, Source

\* What the peers do.
LEMMA PeersKeep ==
    ASSUME RelayInv,
           (\E d \in Directions : Produces(d)) \/ (\E p \in Peers : Leaves(p))
    PROVE  RelayInv'
<1> USE DotRelayAssumption, TimeoutAssumption, Sources
<1>1. CASE \E d \in Directions : Produces(d)
  <2> PICK d \in Directions : Produces(d)
    BY <1>1
  <2>1. produced' \in [Directions -> 0..MaxChunks]
    BY DEF Produces, RelayInv, TypeOK
  <2>2. TypeOK'
    BY <2>1 DEF Produces, RelayInv, TypeOK
  <2>3. \A e \in Directions : DirectionInv(e)'
    BY DEF Produces, RelayInv, TypeOK, DirectionInv
  <2> QED BY <2>2, <2>3 DEF Produces, RelayInv, OutcomeInv
<1>2. CASE \E p \in Peers : Leaves(p)
  <2> PICK p \in Peers : Leaves(p)
    BY <1>2
  <2>1. PICK to \in {"fin", "broken", "gone"} :
           /\ peer' = [peer EXCEPT ![p] = to]
           /\ peer[p] \in {"fin", "gone"} => to = "gone"
    BY DEF Leaves, Lost
  <2>2. TypeOK'
    BY <2>1 DEF Leaves, RelayInv, TypeOK
  <2>3. \A e \in Directions :
           peer[Source(e)] \in {"fin", "gone"} => peer'[Source(e)] \in {"fin", "gone"}
    BY <2>1 DEF RelayInv, TypeOK
  <2>4. \A e \in Directions : DirectionInv(e)'
    BY <2>3 DEF Leaves, RelayInv, DirectionInv
  <2> QED BY <2>2, <2>4 DEF Leaves, RelayInv, OutcomeInv
<1> QED BY <1>1, <1>2

\* What one direction does to itself; the other stays as it was.
LEMMA RelayKeeps ==
    ASSUME RelayInv, NEW d \in Directions, Relay(d)
    PROVE  RelayInv'
<1> USE DotRelayAssumption, TimeoutAssumption
<1>1. CASE ReadChunk(d)
  <2>1. TypeOK'
    BY <1>1 DEF ReadChunk, Await, RelayInv, TypeOK
  <2>2. \A e \in Directions : DirectionInv(e)'
    BY <1>1 DEF ReadChunk, Await, Relaying, RelayInv, TypeOK, DirectionInv
  <2> QED BY <1>1, <2>1, <2>2 DEF ReadChunk, Relaying, RelayInv, OutcomeInv
<1>2. CASE ReadEnd(d)
  <2>1. TypeOK'
    BY <1>2 DEF ReadEnd, Await, RelayInv, TypeOK
  <2>2. \A e \in Directions : DirectionInv(e)'
    BY <1>2 DEF ReadEnd, Await, Relaying, RelayInv, TypeOK, DirectionInv
  <2> QED BY <1>2, <2>1, <2>2 DEF ReadEnd, Relaying, RelayInv, OutcomeInv
<1>3. CASE WriteChunk(d)
  <2>1. PICK n \in flushed[d]..taken[d] : flushed' = [flushed EXCEPT ![d] = n]
    BY <1>3 DEF WriteChunk
  <2>2. n \in 0..MaxChunks
    BY DEF RelayInv, TypeOK
  <2>3. TypeOK'
    BY <1>3, <2>1, <2>2 DEF WriteChunk, Await, RelayInv, TypeOK
  <2>4. \A e \in Directions : DirectionInv(e)'
    BY <1>3, <2>1 DEF WriteChunk, Await, Relaying, RelayInv, TypeOK, DirectionInv
  <2> QED BY <1>3, <2>3, <2>4 DEF WriteChunk, Relaying, RelayInv, OutcomeInv
<1>6. CASE Flushes(d)
  <2>1. flushed[d] + 1 \in 0..MaxChunks
    BY <1>6 DEF Flushes, RelayInv, TypeOK
  <2>2. TypeOK'
    BY <1>6, <2>1 DEF Flushes, RelayInv, TypeOK
  <2>3. \A e \in Directions : DirectionInv(e)'
    BY <1>6 DEF Flushes, Relaying, RelayInv, TypeOK, DirectionInv
  <2> QED BY <1>6, <2>2, <2>3 DEF Flushes, Relaying, RelayInv, OutcomeInv
<1>4. CASE Shutdown(d)
  <2>1. TypeOK'
    BY <1>4 DEF Shutdown, Await, RelayInv, TypeOK, Ended
  <2>2. \A e \in Directions : DirectionInv(e)'
    BY <1>4 DEF Shutdown, Await, Relaying, RelayInv, TypeOK, DirectionInv
  <2>3. at' = [at EXCEPT ![d] = "done"]
    BY <1>4 DEF Shutdown, Await
  <2>4. OutcomeInv'
    BY <1>4, <2>3 DEF Shutdown, Relaying, RelayInv, TypeOK, OutcomeInv
  <2> QED BY <2>1, <2>2, <2>4 DEF RelayInv
<1>5. CASE IoError(d) \/ TimesOut(d)
  <2>1. PICK outcome \in {"error", "timeout"} : Fails(outcome)
    BY <1>5 DEF IoError, TimesOut
  <2>2. TypeOK'
    BY <2>1 DEF Fails, RelayInv, TypeOK, Ended
  <2> QED BY <2>1, <2>2 DEF Fails, RelayInv, OutcomeInv, DirectionInv
<1> QED BY <1>1, <1>2, <1>3, <1>4, <1>5, <1>6 DEF Relay

\* Every step of the relay keeps what is right of it.
LEMMA RelayInvKept == RelayInv /\ [Next]_vars => RelayInv'
<1> SUFFICES ASSUME RelayInv, [Next]_vars PROVE RelayInv'
  OBVIOUS
<1>1. CASE (\E d \in Directions : Produces(d)) \/ (\E p \in Peers : Leaves(p))
  BY <1>1, PeersKeep
<1>2. CASE \E d \in Directions : Relay(d)
  BY <1>2, RelayKeeps
<1>3. CASE Connects \/ ConnectFails \/ Cancelled
  BY <1>3 DEF Connects, ConnectFails, Cancelled,
              RelayInv, TypeOK, OutcomeInv, DirectionInv, Ended
<1>4. CASE Tick
  <2>1. wait' \in [Directions -> 0..IdleTimeout]
    BY <1>4, DotRelayAssumption, TimeoutAssumption DEF Tick, RelayInv, TypeOK
  <2> QED BY <1>4, <2>1 DEF Tick, RelayInv, TypeOK, OutcomeInv, DirectionInv
<1>5. CASE UNCHANGED vars
  BY <1>5 DEF vars, RelayInv, TypeOK, OutcomeInv, DirectionInv
<1> QED BY <1>1, <1>2, <1>3, <1>4, <1>5 DEF Next

-----------------------------------------------------------------------------
\* The inductive invariant holds.
THEOREM RelayInvariant == Spec => []RelayInv
<1>1. Init => RelayInv
  BY RelayStarts DEF Init
<1> QED BY <1>1, RelayInvKept, PTL DEF Spec

\* A success is known from the invariant.
LEMMA SuccessIsKnown == RelayInv => SuccessIsComplete
  BY DEF RelayInv, TypeOK, DirectionInv, OutcomeInv, SuccessIsComplete

\* A recorded success is a conversation that both peers ended and of which
\* nothing was lost, whatever the timeout and however much they sent.
THEOREM RelaySuccessIsComplete == Spec => []SuccessIsComplete
<1>1. RelayInv => SuccessIsComplete
  BY SuccessIsKnown
<1> QED BY <1>1, RelayInvariant, PTL

-----------------------------------------------------------------------------
\* Refinement.  In terms of one direction d, every step of the relay is one of
\* the four steps of a pipe, or changes nothing of it.
Finished(d) == peer[Source(d)] \in {"fin", "gone"}

PipeSame(d) ==
    /\ produced'[d] = produced[d] /\ Finished(d)' = Finished(d)
    /\ flushed'[d] = flushed[d] /\ told'[d] = told[d]

PipeSend(d) ==
    /\ ~Finished(d)
    /\ produced'[d] = produced[d] + 1 /\ Finished(d)' = Finished(d)
    /\ flushed'[d] = flushed[d] /\ told'[d] = told[d]

PipeFinish(d) ==
    /\ Finished(d)' = TRUE
    /\ produced'[d] = produced[d] /\ flushed'[d] = flushed[d] /\ told'[d] = told[d]

PipeDeliver(d) ==
    /\ ~told[d]
    /\ flushed'[d] \in (flushed[d] + 1)..produced[d]
    /\ produced'[d] = produced[d] /\ Finished(d)' = Finished(d) /\ told'[d] = told[d]

PipeTell(d) ==
    /\ Finished(d) /\ flushed[d] = produced[d]
    /\ told'[d] = TRUE
    /\ produced'[d] = produced[d] /\ Finished(d)' = Finished(d)
    /\ flushed'[d] = flushed[d]

PipeStep(d) ==
    PipeSame(d) \/ PipeSend(d) \/ PipeFinish(d) \/ PipeDeliver(d) \/ PipeTell(d)

LEMMA StepIsPipeStep ==
    ASSUME RelayInv, [Next]_vars, NEW d \in Directions
    PROVE  PipeStep(d)
<1>1. CASE \E e \in Directions : Produces(e)
  <2> PICK e \in Directions : Produces(e)
    BY <1>1
  <2>1. CASE e = d
    BY <2>1 DEF Produces, PipeStep, PipeSend, Finished, RelayInv, TypeOK
  <2>2. CASE e # d
    BY <2>2 DEF Produces, PipeStep, PipeSame, Finished, RelayInv, TypeOK
  <2> QED BY <2>1, <2>2
<1>2. CASE \E p \in Peers : Leaves(p)
  <2> PICK p \in Peers : Leaves(p)
    BY <1>2
  <2>1. Finished(d) => Finished(d)'
    BY Sources DEF Leaves, Lost, Finished, RelayInv, TypeOK
  <2>2. produced' = produced /\ flushed' = flushed /\ told' = told
    BY DEF Leaves
  <2>3. Finished(d) \in BOOLEAN /\ Finished(d)' \in BOOLEAN
    BY DEF Finished
  <2>4. CASE Finished(d)' = Finished(d)
    BY <2>2, <2>4 DEF PipeStep, PipeSame
  <2>5. CASE Finished(d)' = TRUE
    BY <2>2, <2>5 DEF PipeStep, PipeFinish
  <2> QED BY <2>1, <2>3, <2>4, <2>5
<1>3. CASE \E e \in Directions : Relay(e)
  <2> PICK e \in Directions : Relay(e)
    BY <1>3
  <2>1. peer' = peer /\ produced' = produced
    BY DEF Relay, ReadChunk, ReadEnd, WriteChunk, Flushes, Shutdown, IoError, TimesOut, Fails
  <2>2. Finished(d)' = Finished(d)
    BY <2>1 DEF Finished
  <2>3. CASE WriteChunk(e) \/ Flushes(e)
    <3>1. PICK n \in flushed[e]..taken[e] :
             told' = told /\ flushed' = [flushed EXCEPT ![e] = n]
      BY <2>3 DEF WriteChunk, Flushes, RelayInv, TypeOK
    <3>2. CASE e = d
      <4>1. ~told[d] /\ taken[d] <= produced[d]
        BY <2>3, <3>2 DEF WriteChunk, Flushes, RelayInv, TypeOK, DirectionInv
      <4>2. flushed'[d] = n /\ n \in flushed[d]..taken[d]
        BY <3>1, <3>2 DEF RelayInv, TypeOK
      <4>3. n = flushed[d] \/ n \in (flushed[d] + 1)..produced[d]
        BY <4>1, <4>2 DEF RelayInv, TypeOK
      <4> QED BY <2>1, <2>2, <3>1, <4>1, <4>2, <4>3 DEF PipeStep, PipeDeliver, PipeSame
    <3>3. CASE e # d
      BY <2>1, <2>2, <3>1, <3>3 DEF PipeStep, PipeSame, RelayInv, TypeOK
    <3> QED BY <3>2, <3>3
  <2>4. CASE Shutdown(e)
    <3>1. flushed' = flushed /\ told' = [told EXCEPT ![e] = TRUE]
      BY <2>4 DEF Shutdown
    <3>2. CASE e = d
      <4>1. Finished(d) /\ flushed[d] = produced[d]
        BY <2>4, <3>2 DEF Shutdown, Finished, RelayInv, TypeOK, DirectionInv
      <4> QED BY <2>1, <2>2, <3>1, <3>2, <4>1 DEF PipeStep, PipeTell, RelayInv, TypeOK
    <3>3. CASE e # d
      BY <2>1, <2>2, <3>1, <3>3 DEF PipeStep, PipeSame, RelayInv, TypeOK
    <3> QED BY <3>2, <3>3
  <2>5. CASE ReadChunk(e) \/ ReadEnd(e) \/ IoError(e) \/ TimesOut(e)
    <3>1. flushed' = flushed /\ told' = told
      BY <2>5 DEF ReadChunk, ReadEnd, IoError, TimesOut, Fails
    <3> QED BY <2>1, <2>2, <3>1 DEF PipeStep, PipeSame
  <2> QED BY <2>3, <2>4, <2>5 DEF Relay
<1>4. CASE Connects \/ ConnectFails \/ Cancelled \/ Tick \/ UNCHANGED vars
  <2>1. /\ peer' = peer /\ produced' = produced
        /\ flushed' = flushed /\ told' = told
    BY <1>4 DEF Connects, ConnectFails, Cancelled, Tick, vars
  <2> QED BY <2>1 DEF PipeStep, PipeSame, Finished
<1> QED BY <1>1, <1>2, <1>3, <1>4 DEF Next

\* The two directions, as the two pipes.
LEMMA PipesStart ==
    ASSUME Fresh
    PROVE  QueryPipe!Init /\ AnswerPipe!Init
  BY DEF Fresh, QueryPipe!Init, AnswerPipe!Init, Directions, Peers, Source

LEMMA QueriesArePiped ==
    ASSUME RelayInv, [Next]_vars
    PROVE  [QueryPipe!Next]_QueryPipe!vars
<1> USE DEF PipeSame, PipeSend, PipeFinish, PipeDeliver, PipeTell, Finished, Source
<1>1. PipeStep("query")
  BY StepIsPipeStep DEF Directions
<1>2. CASE PipeSame("query")
  BY <1>2 DEF QueryPipe!vars
<1>3. CASE PipeSend("query")
  BY <1>3 DEF QueryPipe!Next, QueryPipe!Send
<1>4. CASE PipeFinish("query")
  BY <1>4 DEF QueryPipe!Next, QueryPipe!Finish
<1>5. CASE PipeDeliver("query")
  BY <1>5 DEF QueryPipe!Next, QueryPipe!Deliver
<1>6. CASE PipeTell("query")
  BY <1>6 DEF QueryPipe!Next, QueryPipe!Tell
<1> QED BY <1>1, <1>2, <1>3, <1>4, <1>5, <1>6 DEF PipeStep

LEMMA AnswersArePiped ==
    ASSUME RelayInv, [Next]_vars
    PROVE  [AnswerPipe!Next]_AnswerPipe!vars
<1> USE DEF PipeSame, PipeSend, PipeFinish, PipeDeliver, PipeTell, Finished, Source
<1>1. PipeStep("answer")
  BY StepIsPipeStep DEF Directions
<1>2. CASE PipeSame("answer")
  BY <1>2 DEF AnswerPipe!vars
<1>3. CASE PipeSend("answer")
  BY <1>3 DEF AnswerPipe!Next, AnswerPipe!Send
<1>4. CASE PipeFinish("answer")
  BY <1>4 DEF AnswerPipe!Next, AnswerPipe!Finish
<1>5. CASE PipeDeliver("answer")
  BY <1>5 DEF AnswerPipe!Next, AnswerPipe!Deliver
<1>6. CASE PipeTell("answer")
  BY <1>6 DEF AnswerPipe!Next, AnswerPipe!Tell
<1> QED BY <1>1, <1>2, <1>3, <1>4, <1>5, <1>6 DEF PipeStep

\* Both directions of a DoT connection are pipes.
THEOREM RelayDirectionsArePipes == Spec => DirectionsArePipes
<1>1. Init => QueryPipe!Init /\ AnswerPipe!Init
  BY PipesStart DEF Init
<1>2. RelayInv /\ [Next]_vars => [QueryPipe!Next]_QueryPipe!vars
  BY QueriesArePiped
<1>3. RelayInv /\ [Next]_vars => [AnswerPipe!Next]_AnswerPipe!vars
  BY AnswersArePiped
<1> QED BY <1>1, <1>2, <1>3, RelayInvariant, PTL
        DEF Spec, DirectionsArePipes, QueryPipe!Spec, AnswerPipe!Spec

-----------------------------------------------------------------------------
\* What a pipe is worth: whoever is one never makes up an answer, and never makes a
\* transfer that was cut look like a whole one.
THEOREM PipesAreFaithful ==
    DirectionsArePipes => [](QueryPipe!Faithful /\ AnswerPipe!Faithful)
<1> DEFINE Counts(d) == produced[d] \in Nat /\ flushed[d] \in Nat
           Query == Counts("query") /\ QueryPipe!Faithful
           Answer == Counts("answer") /\ AnswerPipe!Faithful
<1>1. QueryPipe!Init => Query
  BY DEF QueryPipe!Init, QueryPipe!Faithful
<1>2. Query /\ [QueryPipe!Next]_QueryPipe!vars => Query'
  BY DEF QueryPipe!Next, QueryPipe!vars, QueryPipe!Send, QueryPipe!Finish,
     QueryPipe!Deliver, QueryPipe!Tell, QueryPipe!Faithful
<1>3. AnswerPipe!Init => Answer
  BY DEF AnswerPipe!Init, AnswerPipe!Faithful
<1>4. Answer /\ [AnswerPipe!Next]_AnswerPipe!vars => Answer'
  BY DEF AnswerPipe!Next, AnswerPipe!vars, AnswerPipe!Send, AnswerPipe!Finish,
     AnswerPipe!Deliver, AnswerPipe!Tell, AnswerPipe!Faithful
<1> QED BY <1>1, <1>2, <1>3, <1>4, PTL DEF DirectionsArePipes, QueryPipe!Spec, AnswerPipe!Spec

\* So are both directions of a DoT connection, by the refinement alone: also of one
\* that is cut by a timeout, an error or a cancellation.
THEOREM RelayIsFaithful == Spec => [](QueryPipe!Faithful /\ AnswerPipe!Faithful)
BY RelayDirectionsArePipes, PipesAreFaithful, PTL
=============================================================================
